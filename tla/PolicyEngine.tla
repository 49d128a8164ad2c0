---------------------------- MODULE PolicyEngine ----------------------------
(***************************************************************************)
(* The policy engine (pkg/policy).  A policy is [name, condition, action,  *)
(* limit, priority, enabled]; limit is the parameter its action asks for,  *)
(* None without one and Unparsable when it cannot be read.  What a         *)
(* condition says is part of the context: TRUE, FALSE or Fails.            *)
(***************************************************************************)
EXTENDS Quantities, SequencesExt, FiniteSetsExt

CONSTANTS Unparsable, Fails

LimitActions ==
    [set_min_cpu |-> [resource |-> "cpu", side |-> "min"],
     set_max_cpu |-> [resource |-> "cpu", side |-> "max"],
     set_min_memory |-> [resource |-> "memory", side |-> "min"],
     set_max_memory |-> [resource |-> "memory", side |-> "max"]]

Actions == {"allow", "deny", "skip", "skip_scaledown", "skip_scaleup", "require_approval"}
               \cup DOMAIN LimitActions

\* A K is a Ki here, and a fraction is understood.
parseResourceValue(limit, resource) ==
    IF resource = "cpu" THEN MillicoresOf(limit) ELSE parseMemoryValue(limit)

validateActionParameters(p) ==
    p.action \in DOMAIN LimitActions => p.limit \notin {None, Unparsable}

ValidPolicy(p) ==
    /\ p.name # None /\ p.condition # None
    /\ p.action \in Actions
    /\ validateActionParameters(p)

\* Mutated: the lower priority goes first.
SortedLowestFirst(policies) ==
    {s \in SetToSeqs(policies) : \A i \in 1..(Len(s) - 1) : s[i].priority <= s[i + 1].priority}

\* sort.Slice is not stable: equal priorities may end up either way.
Sorted(policies) ==
    {s \in SetToSeqs(policies) : \A i \in 1..(Len(s) - 1) : s[i].priority >= s[i + 1].priority}

\* What may be in force after a file was loaded; one bad policy and the old ones
\* stay.
LoadPolicies(inForce, policies, default) ==
    IF \A p \in policies : ValidPolicy(p)
    THEN [policies : Sorted(policies),
          default : {IF default = None THEN "allow" ELSE default}]
    ELSE {inForce}

-----------------------------------------------------------------------------

Decision(action, cpu, memory) == [action |-> action, cpu |-> cpu, memory |-> memory]

\* recommendation is [cpu, memory, changeType].
applyResourceModification(p, recommendation) ==
    LET kind == LimitActions[p.action]
        limit == parseResourceValue(p.limit, kind.resource)
        recommended == recommendation[kind.resource]
    IN IF \/ kind.side = "min" /\ recommended < limit
          \/ kind.side = "max" /\ recommended > limit
       THEN Decision("modify", IF kind.resource = "cpu" THEN limit ELSE None,
                               IF kind.resource = "memory" THEN limit ELSE None)
       ELSE Decision("allow", None, None)

applyAction(p, recommendation) ==
    CASE p.action \in {"allow", "deny", "require_approval"} -> Decision(p.action, None, None)
      [] p.action = "skip" -> Decision("deny", None, None)
      [] p.action = "skip_scaledown" ->
             Decision(IF recommendation.changeType = "scaledown" THEN "deny" ELSE "allow", None, None)
      [] p.action = "skip_scaleup" ->
             Decision(IF recommendation.changeType = "scaleup" THEN "deny" ELSE "allow", None, None)
      [] OTHER -> applyResourceModification(p, recommendation)

\* A condition that cannot be compiled or run does not match.
evaluateCondition(p, context) == context.says[p.condition] = TRUE

\* The first policy that matches decides alone.
Evaluate(engine, context) ==
    LET policies == engine.policies
        matching == {i \in DOMAIN policies :
                         policies[i].enabled /\ evaluateCondition(policies[i], context)}
    IN IF matching = {} THEN Decision(engine.default, None, None)
       ELSE applyAction(policies[Min(matching)], context.recommendation)

=============================================================================
