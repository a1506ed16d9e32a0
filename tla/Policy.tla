------------------------------- MODULE Policy -------------------------------
(***************************************************************************)
(* The policy engine, src/kernel/policy.c: an append-only table of rules   *)
(* of which the last that covers a request decides, and the denial of what *)
(* no rule covers.  Every decision is an event of the ledger, and every    *)
(* rule has a capability object in the registry.                           *)
(*                                                                         *)
(* A policy is a record of its rules and its revision; the calls that also *)
(* touch the ledger are operators from a policy and a ledger.              *)
(***************************************************************************)
EXTENDS LedgerApi

CONSTANTS
  RuleCap,                  \* POLICY_MAX_RULES, 64 in the kernel
  BaseRules,                \* the rules of policy/base.policy, in order
  BaseRevision,             \* the revision its comment gives
  CapabilityName(_),        \* build_capability_name (cut to 47 characters)
  CapabilityState(_, _, _)  \* build_capability_state: effect, number, revision

ThePolicy == "policy/base.policy"

Rules == [allow : BOOLEAN, subject : STRING, operation : STRING, object : STRING]

ASSUME PolicyAssumption ==
  /\ RuleCap \in Nat /\ BaseRevision \in Nat \ {0}
  /\ BaseRules \in Seq(Rules) /\ Len(BaseRules) <= RuleCap
  /\ \A i \in DOMAIN BaseRules :
       /\ CapabilityName(BaseRules[i]) \in Names
       /\ CapabilityState(BaseRules[i].allow, i, BaseRevision) \in States

\* The words of policy.c are among those the constants of the ledger list.
ASSUME PolicyWordAssumption ==
  /\ ThePolicy \in Names /\ "policy" \in Labels
  /\ {"loading", "loaded", "allow-added", "deny-added"} \subseteq States
  /\ {"policy_check", "load", "allow", "deny"} \subseteq Operations

Matches(field, value) == field = "*" \/ field = value

Covers(rule, actor, target, operation) ==
  /\ Matches(rule.subject, actor)
  /\ Matches(rule.operation, operation)
  /\ Matches(rule.object, target)

\* Seeded fault: the first rule that covers the request decides.
DecidingRuleFirst(p, actor, target, operation) ==
  SelectInSeq(p.rules, LAMBDA rule : Covers(rule, actor, target, operation))

\* The number of the rule that decides: the last that covers the request, or 0.
DecidingRule(p, actor, target, operation) ==
  SelectLastInSeq(p.rules, LAMBDA rule : Covers(rule, actor, target, operation))

Allowed(p, actor, target, operation) ==
  LET number == DecidingRule(p, actor, target, operation)
  IN  number # 0 /\ p.rules[number].allow

\* policy_check; the decision's event is l.next.
PolicyCheck(p, l, actor, target, operation) ==
  Record(l, Report(actor, target, "policy_check",
                   IF Allowed(p, actor, target, operation) THEN "ok" ELSE "denied",
                   l.current, "policy"))

\* The name and the state of a rule's capability.
Capability(p, number) ==
  LET rule == p.rules[number]
  IN  <<CapabilityName(rule), CapabilityState(rule.allow, number, p.revision)>>

\* register_capability_object: nothing happens to a name already registered.
RegisterCapability(p, l, number) ==
  Register(l, Capability(p, number)[1], ObjectId(l, ThePolicy), Capability(p, number)[2],
           l.current)

BasePolicy == [rules |-> BaseRules, revision |-> BaseRevision]

\* policy_init: the policy is loaded under a transaction of its own.
PolicyInit(l) ==
  LET named == Register(l, ThePolicy, ObjectId(l, "system"), "loading", 1)
      begun == SetTx(SetCurrent(Begin(named, "policy", ThePolicy, 1),
                                BeginResult(named)), BeginResult(named))
      granted == RegisterAll(begun, ObjectId(named, ThePolicy),
                             [i \in DOMAIN BaseRules |-> Capability(BasePolicy, i)])
      loaded == Record(granted, Report("policy", ThePolicy, "load", "ok", 1, "state"))
      closed == Commit(UpdateState(loaded, ThePolicy, "loaded"), BeginResult(named))
  IN  SetCurrent(SetTx(closed, 0), 1)

\* Seeded fault: a change that finds the table full still counts as a revision.
ChangedPolicyAlways(p, rule) ==
  [p EXCEPT !.revision = @ + 1,
            !.rules = IF Len(@) < RuleCap THEN Append(@, rule) ELSE @]

\* policy_change_rule, in the policy and in the ledger.
RoomForRule(p) == Len(p.rules) < RuleCap

ChangedPolicy(p, rule) ==
  IF RoomForRule(p)
  THEN [rules |-> Append(p.rules, rule), revision |-> p.revision + 1]
  ELSE p

ChangeRule(p, l, rule) ==
  LET changed == ChangedPolicy(p, rule)
      effect == IF rule.allow THEN "allow" ELSE "deny"
      said(result) == Report("policy", ThePolicy, effect, result, l.current, "state")
      granted == RegisterCapability(changed, l, Len(changed.rules))
  IN  IF RoomForRule(p)
      THEN UpdateState(Record(granted, said("ok")), ThePolicy,
                       IF rule.allow THEN "allow-added" ELSE "deny-added")
      ELSE Record(l, said("denied"))
=============================================================================
