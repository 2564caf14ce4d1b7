---------------------------- MODULE SafetyPolicy ----------------------------
(***************************************************************************)
(* The policy object every run passes through before it executes: the four *)
(* rules SAFE-001..004 and their conjunction.  A definition keeps the five *)
(* fields of an ExperimentDefinition the rules read.  The human-readable   *)
(* reasons, the timestamp and the policy version are left out.             *)
(***************************************************************************)

\* The two contexts a run can be requested in.
ExecutionContexts == {"local_unit_test", "experiment_run"}

InputClassifications == {"synthetic", "benign", "explicitly_authorized"}

ApprovalStatuses ==
    {"draft", "pending_review", "approved", "revision_required", "rejected",
     "closed"}

SafetyLevels == {"SYNTHETIC_ONLY"}

\* What the rules read of an ExperimentDefinition.
ExperimentDefinitions ==
    [external_targeting : BOOLEAN,
     safety_level : SafetyLevels,
     input_classification : InputClassifications,
     weaponised_payloads : BOOLEAN,
     approval_status : ApprovalStatuses]

\* SAFE-001: no targeting of an external system, in any context.
check_safe_001(d, ctx) == ~d.external_targeting

\* SAFE-002: a SYNTHETIC_ONLY experiment carries synthetic input only.
check_safe_002(d, ctx) ==
    d.safety_level = "SYNTHETIC_ONLY" => d.input_classification = "synthetic"

\* SAFE-003: no weaponised payloads, in any context.
check_safe_003(d, ctx) == ~d.weaponised_payloads

\* SAFE-004: approved, unless the run is a local unit test.
check_safe_004(d, ctx) ==
    \/ ctx = "local_unit_test"
    \/ d.approval_status = "approved"

\* SafetyPolicy.evaluate: all four rules are evaluated, every one must pass.
evaluate(d, ctx) ==
    /\ check_safe_001(d, ctx)
    /\ check_safe_002(d, ctx)
    /\ check_safe_003(d, ctx)
    /\ check_safe_004(d, ctx)
=============================================================================
