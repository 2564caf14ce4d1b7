----------------------------- MODULE Strategies -----------------------------
(***************************************************************************)
(* The four processing strategies: what a baseline and a mitigation decide *)
(* on a synthetic request.  A request is what the checks look at: texts    *)
(* are their lengths or the words the code compares with, and a field that *)
(* is absent or of a type the code refuses is one value of its own.        *)
(***************************************************************************)
EXTENDS Integers, Sequences, SequencesExt, FiniteSets, FiniteSetsExt

\* A value that Python cannot hash, such as a list where a word is due.
Unhashable == "unhashable"
Hashable(x) == x # Unhashable

\* What a check says of a request.  A check may also raise.
Says(raises, fails) ==
    IF raises THEN "raises" ELSE IF fails THEN "fails" ELSE "passes"

\* The checks are joined by "or": the first that does not pass decides.
FirstComplaint(checks) == SelectInSeq(checks, LAMBDA c : c # "passes")

\* The outcome as _execute_case records it.  These strategies take no time
\* that a verdict would notice.
Accepted == [decision |-> "accepted", parser_reached |-> TRUE,
             errored |-> FALSE, logged |-> FALSE, latency_ms |-> 0]
Blocked(logged) == [Accepted EXCEPT !.decision = "blocked",
                                    !.parser_reached = FALSE, !.logged = logged]
Raised == [Blocked(TRUE) EXCEPT !.errored = TRUE]

strict_process(checks) ==
    LET i == FirstComplaint(checks)
    IN IF i = 0 THEN Accepted
       ELSE IF checks[i] = "fails" THEN Blocked(TRUE) ELSE Raised

weak_process(checks) ==
    IF FirstComplaint(checks) = 0 THEN Accepted ELSE Blocked(FALSE)

\* Headers and attributes are lists of [key, len], len the length of a value.
\* What is no list is <<>>, and an element that is no pair has the key "junk".
Pairs(list) == {i \in DOMAIN list : list[i].key # "junk"}
Keys(list) == {list[i].key : i \in Pairs(list)}
RepeatsKey(list) ==
    \E i, j \in Pairs(list) : i # j /\ list[i].key = list[j].key
LongerThan(list, n) == \E i \in Pairs(list) : list[i].len > n
CannotHash(list) == Unhashable \in Keys(list)

\* A declared length that is absent, no integer or negative is -1.
BadLength(declared, actual, max) ==
    declared < 0 \/ declared > max \/ declared # actual
-----------------------------------------------------------------------------
(* VPN: [method, path, declared, actual, headers, query, encoding].  The   *)
(* method is "text" or "none" (absent, empty, no string); the path is      *)
(* [len, traversal] with len 0 likewise; query holds the lengths of the    *)
(* query parameters' values.                                               *)

VpnLimits == [path |-> 256, body |-> 8192, header |-> 512, query |-> 512]

fails_schema_check(r) == Says(FALSE, r.method # "text" \/ r.path.len = 0)

\* Mutant: a path as long as the limit is taken for too long.
Mut_fails_length_checks(r) ==
    Says(FALSE, \/ r.path.len >= VpnLimits.path
                \/ BadLength(r.declared, r.actual, VpnLimits.body)
                \/ LongerThan(r.headers, VpnLimits.header)
                \/ \E n \in r.query : n > VpnLimits.query)

fails_length_checks(r) ==
    Says(FALSE, \/ r.path.len > VpnLimits.path
                \/ BadLength(r.declared, r.actual, VpnLimits.body)
                \/ LongerThan(r.headers, VpnLimits.header)
                \/ \E n \in r.query : n > VpnLimits.query)

fails_duplicate_field_check(r) ==
    Says(CannotHash(r.headers), RepeatsKey(r.headers))

fails_type_check(r) ==
    Says(~Hashable(r.encoding), r.encoding \notin {"utf-8", "ascii"})

fails_path_canonicalisation_check(r) == Says(FALSE, r.path.traversal)

strict_schema_canonicalisation_mitigation(r) ==
    strict_process(<<fails_schema_check(r), fails_length_checks(r),
                     fails_duplicate_field_check(r), fails_type_check(r),
                     fails_path_canonicalisation_check(r)>>)

weak_schema_length_baseline(r) ==
    weak_process(<<Says(FALSE, r.method # "text"), Says(FALSE, r.path.len = 0)>>)
-----------------------------------------------------------------------------
(* Telecom: [method, state, headers, sequence, expected_sequence,          *)
(* declared, actual, attributes], method and state "none" when they are    *)
(* absent or no string.                                                    *)

TelecomLimits == [attribute |-> 256, body |-> 4096]
MandatoryHeaders == {"Call-ID", "From", "To"}
LegalTransitions ==
    {<<"INIT", "INVITE">>, <<"RINGING", "ACK">>, <<"ESTABLISHED", "BYE">>}
KnownMethods == {"INVITE", "ACK", "BYE"}
KnownStates == {"INIT", "RINGING", "ESTABLISHED", "TERMINATED"}

fails_mandatory_field_check(r) ==
    Says(CannotHash(r.headers), ~(MandatoryHeaders \subseteq Keys(r.headers)))

fails_duplicate_header_check(r) ==
    Says(CannotHash(r.headers), RepeatsKey(r.headers))

fails_size_limit_checks(r) ==
    Says(FALSE, \/ BadLength(r.declared, r.actual, TelecomLimits.body)
                \/ LongerThan(r.attributes, TelecomLimits.attribute))

fails_sequence_validation(r) == Says(FALSE, r.sequence # r.expected_sequence)

\* Mutant: a message is legal in any state in which its method is known.
Mut_fails_state_machine_check(r) ==
    Says(~Hashable(r.state) \/ ~Hashable(r.method), r.state = "none")

fails_state_machine_check(r) ==
    Says(~Hashable(r.state) \/ ~Hashable(r.method),
         <<r.state, r.method>> \notin LegalTransitions)

strict_grammar_state_machine_mitigation(r) ==
    strict_process(<<fails_mandatory_field_check(r),
                     fails_duplicate_header_check(r),
                     fails_size_limit_checks(r), fails_sequence_validation(r),
                     fails_state_machine_check(r)>>)

weak_mandatory_field_state_baseline(r) ==
    weak_process(<<Says(FALSE, r.method \notin KnownMethods),
                   Says(FALSE, r.headers = <<>>),
                   Says(FALSE, r.state \notin KnownStates)>>)
-----------------------------------------------------------------------------
\* resolve_strategy, for the pair of strategies that a domain's templates name.
process(domain, mode, r) ==
    CASE domain = "vpn" /\ mode = "baseline" -> weak_schema_length_baseline(r)
      [] domain = "vpn" /\ mode = "mitigated" ->
           strict_schema_canonicalisation_mitigation(r)
      [] domain = "telecom" /\ mode = "baseline" ->
           weak_mandatory_field_state_baseline(r)
      [] domain = "telecom" /\ mode = "mitigated" ->
           strict_grammar_state_machine_mitigation(r)
=============================================================================
