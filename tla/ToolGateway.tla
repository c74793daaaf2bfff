------------------------------ MODULE ToolGateway ------------------------------
(***************************************************************************)
(* ToolGateway (tool_registry.py) over the policy engine and the sandbox:  *)
(* a call passes the policy checks in order, then the sandbox's gate, then *)
(* the check of its arguments, then runs, up to three times when it fails  *)
(* and may be retried.  For a filesystem tool the gate itself reads or     *)
(* writes the file, before the arguments are checked.                      *)
(*                                                                         *)
(* The audit list and the telemetry events are left out: nothing reads     *)
(* them back.                                                              *)
(***************************************************************************)
EXTENDS PolicyEngine, FiniteSets

CONSTANTS
    Arguments,     \* what calls may name; NoResource: not given
    Category,      \* Tools -> Categories
    Retryable,     \* the tools that may be retried
    Guarded,       \* the tools that declare a capability
    MaxCalls       \* bound: calls that got past the policy

(* what a call may be about; NoResource stands for the tool's own name *)
Targets == Resources \union {NoResource}

ToolAssumption ==
    /\ MaxCalls \in Nat /\ MaxChanges \in Nat /\ Patterns \subseteq Actions
    /\ Arguments \subseteq [path : Targets, resource : Targets, host : Targets,
                            command : Targets, target : Targets]

Categories ==
    {"read", "write", "network", "filesystem", "git", "secret", "destructive"}

VARIABLES
    registered,   \* ToolRegistry._tools
    hosts,        \* Sandbox._network_allowlist
    calls,        \* how many so far
    effects       \* history: what ran, and what of it needed an approval

policy == <<subjects, rules, allowed, protected, destructive, tickets, grants>>
vars == <<policyVars, registered, hosts, calls, effects>>

Ran == [tool : Tools, checked : Targets, touched : Targets,
        needed : SUBSET ActionRequest, times : 1..4]

TypeOK ==
    /\ PolicyTypeOK
    /\ registered \subseteq Tools
    /\ hosts \subseteq Resources
    /\ calls \in 0..MaxCalls
    /\ effects \subseteq Ran

Init ==
    /\ PolicyInit
    /\ registered = Tools
    /\ hosts = {}
    /\ calls = 0
    /\ effects = {}

a ?? b == IF a = NoResource THEN b ELSE a

(* ToolRequest.target: what the policy takes the call to be about *)
Checked(args) == args.path ?? args.resource ?? args.host ?? args.command ?? args.target

(* what the sandbox's gate takes it to be about, reads, writes or connects to *)
Touched(tool, args) ==
    IF Category[tool] = "network" THEN args.host
    ELSE args.path ?? args.host ?? Checked(args)

(* _TOOL_CATEGORY_SECONDARY *)
Secondary(tool) ==
    CASE Category[tool] = "network" -> {"network.connect"}
      [] Category[tool] = "filesystem" -> {"filesystem.write"}
      [] Category[tool] = "secret" -> {"secret.read"}
      [] Category[tool] = "destructive" -> {"destructive.invoke"}
      [] OTHER -> {}

(* what the policy knows a call of this tool on p by *)
Requests(tool, s, p, args) ==
    {[subject |-> s, action |-> a, resource |-> p] : a \in {tool} \union Secondary(tool)}
        \union {[subject |-> s, action |-> "git", resource |-> args.command] :
                    x \in {x \in {tool} : Category[x] = "git"}}
        \union {[subject |-> s, action |-> "capability", resource |-> NoResource] :
                    x \in Guarded \intersect {tool}}

(* policy_checks *)
Checks(tool, s, args) == Requests(tool, s, Checked(args), args)

(* assert_allowed on each in turn, with the one ticket of the call *)
Permitted(checks, ticket) == \A r \in checks : Allows(r, ticket)

(* how often a call runs, when its first k attempts fail *)
Attempts(tool, k) == IF tool \notin Retryable THEN 1 ELSE IF k < 3 THEN k + 1 ELSE 3

Register(tool) ==
    /\ Change
    /\ tool \notin registered
    /\ registered' = registered \union {tool}
    /\ UNCHANGED <<policy, hosts, calls, effects>>

Remove(tool) ==
    /\ Change
    /\ tool \in registered
    /\ registered' = registered \ {tool}
    /\ UNCHANGED <<policy, hosts, calls, effects>>

AllowHost(p) ==
    /\ Change
    /\ hosts' = hosts \union {p}
    /\ UNCHANGED <<policy, registered, calls, effects>>

(* A call that changes something: gate, the sandbox let it through; valid,  *)
(* so did the check of its arguments; failures, the attempts that raised.   *)
Invoke(tool, s, args, ticket) ==
    LET touched == Touched(tool, args)
    IN  /\ tool \in registered
        /\ calls < MaxCalls
        /\ Permitted(Checks(tool, s, args), ticket)
        /\ \E gate, valid \in BOOLEAN, failures \in 0..3 :
              LET passes == IF Category[tool] = "network" THEN touched \in hosts
                            ELSE gate \/ Category[tool] \in {"git", "secret", "destructive"}
                  accesses == IF Category[tool] = "filesystem" /\ gate THEN 1 ELSE 0
                  times == accesses
                      + (IF passes /\ valid THEN Attempts(tool, failures) ELSE 0)
              IN  /\ times > 0
                  /\ effects' = effects \union
                         {[tool |-> tool, checked |-> Checked(args), touched |-> touched,
                           times |-> times,
                           needed |-> {r \in Requests(tool, s, touched, args) :
                                          EffectOf(r) = "require_approval"}]}
        /\ calls' = calls + 1
        /\ UNCHANGED <<policyVars, registered, hosts>>

Next ==
    \/ Administer /\ UNCHANGED <<registered, hosts, calls, effects>>
    \/ \E tool \in Tools : Register(tool) \/ Remove(tool)
    \/ \E p \in Resources : AllowHost(p)
    \/ \E tool \in Tools, s \in Subjects, args \in Arguments, t \in Tickets \union {NoTicket} :
          Invoke(tool, s, args, t)

Spec == Init /\ [][Next]_vars

-----------------------------------------------------------------------------
(* Whatever was done while the policy required an approval for it had been  *)
(* approved: there is a granted ticket that was issued for that subject and *)
(* that action, and for the very resource the call has touched, unless the  *)
(* call named two and the policy was asked about the other one.             *)
EffectIsApproved ==
    \A e \in effects : \A r \in e.needed : \E t \in grants :
        /\ tickets[t].subject = r.subject /\ tickets[t].action = r.action
        /\ e.touched = e.checked => tickets[t].resource = r.resource

=============================================================================
