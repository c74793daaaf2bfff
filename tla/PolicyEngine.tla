----------------------------- MODULE PolicyEngine -----------------------------
(***************************************************************************)
(* PolicyEngine (policy_engine.py): what a subject may do.  A request is   *)
(* denied unless something allows it; a hard gate decides the requests of  *)
(* its kind; a destructive request needs an approval, whatever its gate    *)
(* said; rules can only tighten what a gate allows.                        *)
(*                                                                         *)
(* An action stands for the dotted names one pattern matches, a resource   *)
(* for what one path, host or command pattern matches; scopes narrow a     *)
(* rule the same way and are left out, like the audit list, which nothing  *)
(* reads.                                                                  *)
(***************************************************************************)
EXTENDS Naturals

CONSTANTS
    Subjects,
    Resources,
    NoResource,
    Tools,         \* the tools' own actions, which no gate decides
    Patterns,      \* the actions that rules, approvals and tickets name
    Tickets,
    NoTicket,
    MaxChanges     \* bound: administrative calls

Actions == Tools \union {"capability", "filesystem.write", "git", "network.connect",
                         "secret.read", "destructive.invoke"}

Effects == {"allow", "deny", "require_approval"}

ActionRequest ==
    [subject : Subjects, action : Actions, resource : Resources \union {NoResource}]

PolicyRule == [action : Patterns, effect : Effects, immutable : BOOLEAN]

SubjectProfile == [known : BOOLEAN, revoked : BOOLEAN, capable : BOOLEAN]

VARIABLES
    subjects,     \* _subjects
    rules,        \* _rules; of equal rules one is kept
    allowed,      \* the allow lists: paths (_path_grants), git, hosts, secrets
    protected,    \* _protected_paths
    destructive,  \* _destructive_actions
    tickets,      \* _approval_tickets: the request each was issued for
    grants,       \* _approval_grants
    changes       \* how many so far

policyVars ==
    <<subjects, rules, allowed, protected, destructive, tickets, grants, changes>>

AllowLists ==
    [paths : SUBSET (Subjects \X Resources), git : SUBSET Resources,
     hosts : SUBSET Resources, secrets : SUBSET Subjects]

PolicyTypeOK ==
    /\ subjects \in [Subjects -> SubjectProfile]
    /\ rules \subseteq PolicyRule
    /\ allowed \in AllowLists
    /\ protected \subseteq Resources
    /\ destructive \subseteq Actions
    /\ tickets \in [Tickets -> ActionRequest \union {NoTicket}]
    /\ grants \subseteq Tickets
    /\ changes \in 0..MaxChanges

PolicyInit ==
    /\ subjects = [s \in Subjects |-> [known |-> FALSE, revoked |-> FALSE, capable |-> FALSE]]
    /\ rules = {}
    /\ allowed = [paths |-> {}, git |-> {}, hosts |-> {}, secrets |-> {}]
    /\ protected = {}
    /\ destructive = {}
    /\ tickets = [t \in Tickets |-> NoTicket]
    /\ grants = {}
    /\ changes = 0

-----------------------------------------------------------------------------
(* Evaluation *)

Gated(r) == r.action \notin Tools \union {"destructive.invoke"}

(* layers 1 to 5 *)
GateAllows(r) ==
    \/ r.action = "capability" /\ subjects[r.subject].capable
    \/ /\ r.action = "filesystem.write"
       /\ r.resource \in protected => <<r.subject, r.resource>> \in allowed.paths
    \/ r.action = "git" /\ r.resource \in allowed.git
    \/ r.action = "network.connect" /\ r.resource \in allowed.hosts
    \/ r.action = "secret.read" /\ r.subject \in allowed.secrets

Matched(r) == {x.effect : x \in {x \in rules : x.action = r.action}}

(* _EFFECT_PRECEDENCE *)
Strictest(effects) ==
    IF "require_approval" \in effects THEN "require_approval"
    ELSE IF "deny" \in effects THEN "deny" ELSE "allow"

(* layers 0, 6 and 7: the effect before any ticket is looked at *)
EffectOf(r) ==
    IF ~subjects[r.subject].known \/ subjects[r.subject].revoked THEN "deny"
    ELSE IF r.action \in destructive THEN "require_approval"
    ELSE IF IF Gated(r) THEN ~GateAllows(r) ELSE Matched(r) = {} THEN "deny"
    ELSE Strictest(Matched(r))

(* Mutated form of Approved: any granted ticket will do. *)
ApprovedUnmatched(r, t) == t \in grants

(* a ticket is good for the request it was issued for, once granted *)
Approved(r, t) ==
    /\ t # NoTicket
    /\ t \in grants
    /\ tickets[t] = r

Allows(r, t) ==
    \/ EffectOf(r) = "allow"
    \/ EffectOf(r) = "require_approval" /\ Approved(r, t)

-----------------------------------------------------------------------------
(* Administration *)

Change ==
    /\ changes < MaxChanges
    /\ changes' = changes + 1

(* registering again replaces the profile, a revoked one too *)
RegisterSubject(s, capable) ==
    /\ Change
    /\ subjects' = [subjects EXCEPT ![s] =
           [known |-> TRUE, revoked |-> FALSE, capable |-> capable]]
    /\ UNCHANGED <<rules, allowed, protected, destructive, tickets, grants>>

RevokeSubject(s) ==
    /\ Change
    /\ subjects[s].known
    /\ subjects' = [subjects EXCEPT ![s].revoked = TRUE]
    /\ UNCHANGED <<rules, allowed, protected, destructive, tickets, grants>>

(* grant_capability, revoke_capability *)
SetCapability(s, held) ==
    /\ Change
    /\ subjects[s].known
    /\ subjects' = [subjects EXCEPT ![s].capable = held]
    /\ UNCHANGED <<rules, allowed, protected, destructive, tickets, grants>>

AddRule(x) ==
    /\ Change
    /\ rules' = rules \union {x}
    /\ UNCHANGED <<subjects, allowed, protected, destructive, tickets, grants>>

RemoveRule(x) ==
    /\ Change
    /\ x \in rules /\ ~x.immutable
    /\ rules' = rules \ {x}
    /\ UNCHANGED <<subjects, allowed, protected, destructive, tickets, grants>>

ProtectPath(p) ==
    /\ Change
    /\ protected' = protected \union {p}
    /\ UNCHANGED <<subjects, rules, allowed, destructive, tickets, grants>>

(* grant_path, allow_git, allow_network, grant_secret *)
Allow(s, p) ==
    /\ Change
    /\ \/ /\ subjects[s].known
          /\ \/ allowed' = [allowed EXCEPT !.paths = @ \union {<<s, p>>}]
             \/ allowed' = [allowed EXCEPT !.secrets = @ \union {s}]
       \/ allowed' = [allowed EXCEPT !.git = @ \union {p}]
       \/ allowed' = [allowed EXCEPT !.hosts = @ \union {p}]
    /\ UNCHANGED <<subjects, rules, protected, destructive, tickets, grants>>

RequireApprovalFor(action) ==
    /\ Change
    /\ destructive' = destructive \union {action}
    /\ UNCHANGED <<subjects, rules, allowed, protected, tickets, grants>>

(* no check that the subject exists, or that the request needs an approval *)
RequestApproval(t, r) ==
    /\ Change
    /\ tickets[t] = NoTicket
    /\ tickets' = [tickets EXCEPT ![t] = r]
    /\ UNCHANGED <<subjects, rules, allowed, protected, destructive, grants>>

GrantApproval(t) ==
    /\ Change
    /\ tickets[t] # NoTicket /\ t \notin grants
    /\ grants' = grants \union {t}
    /\ UNCHANGED <<subjects, rules, allowed, protected, destructive, tickets>>

Administer ==
    \/ \E s \in Subjects, b \in BOOLEAN : RegisterSubject(s, b) \/ SetCapability(s, b)
    \/ \E s \in Subjects : RevokeSubject(s)
    \/ \E x \in PolicyRule : AddRule(x) \/ RemoveRule(x)
    \/ \E p \in Resources : ProtectPath(p) \/ \E s \in Subjects : Allow(s, p)
    \/ \E a \in Patterns : RequireApprovalFor(a)
    \/ \E t \in Tickets : GrantApproval(t)
    \/ \E t \in Tickets, r \in ActionRequest :
          r.action \in Patterns /\ RequestApproval(t, r)

=============================================================================
