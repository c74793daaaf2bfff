------------------------------- MODULE MCWork --------------------------------
(* Bounded instances of the components that give work out and do it: a     *)
(* behaviour is one of Delegation, of MessageBroker, of HandoffWorkflow,   *)
(* of WorkflowEngine or of ToolGateway.  They have names of variables in   *)
(* common; those a part does not have keep the value Unused.               *)
EXTENDS Naturals, TLC

CONSTANTS
    Unused,
    NTasks, Agents, Executions, None, RequireHuman, MaxOperations, MaxFaults,
    Ids, Parties, Sender, To, NoMsg, MaxRetries,
    Contents, Nothing, MaxTokens,
    Execs, n1, n2, Nodes, Deps, Dynamic, Nobody, EngineOperations,
    Subjects, Resources, NoResource, Patterns, Tickets, NoTicket, MaxChanges,
    Tools, Arguments, Category, Retryable, Guarded, MaxCalls

VARIABLES
    part, mem, disk, operations, faults, grants,
    accepted, approved,
    old, first, deliveries, done,
    adapter, rec, file, minted, asked, used,
    snap, starts,
    subjects, rules, allowed, protected, destructive, tickets, changes,
    registered, hosts, calls, effects

\* Every message goes to the party that is not its sender; the second node is
\* made at run time and depends on the first.
OneReceiver == [m \in Ids |-> CHOOSE a \in Parties : a # Sender]
TwoNodes == {n1, n2}
SecondAfterFirst == [n \in TwoNodes |-> IF n = n2 THEN {n1} ELSE {}]
SecondNode == {n2}
\* A call names a path, or a resource and another host.
NoArguments == [key \in {"path", "resource", "host", "command", "target"} |-> NoResource]
PathOrTwo ==
    {[NoArguments EXCEPT !.path = p] : p \in Resources}
        \union {[NoArguments EXCEPT !.resource = x[1], !.host = x[2]] :
                    x \in {x \in Resources \X Resources : x[1] # x[2]}}
AllFilesystem == [t \in Tools |-> "filesystem"]

D == INSTANCE Delegation
M == INSTANCE MessageBroker WITH Agents <- Parties
H == INSTANCE HandoffWorkflow
E == INSTANCE WorkflowEngine
        WITH Passive <- {}, MaxOperations <- EngineOperations
G == INSTANCE ToolGateway

ASSUME TasksAssumption == D!DelegationAssumption
ASSUME MessagesAssumption == M!BrokerAssumption
ASSUME HandoffAssumption == H!TokensAssumption
ASSUME WorkflowAssumption == E!EngineAssumption
ASSUME GatewayAssumption == G!ToolAssumption

delegationVars == <<accepted, approved>>
messageVars == <<old, first, deliveries, done>>
handoffVars == <<adapter, rec, file, minted, asked, used>>
engineVars == <<snap, starts>>
gatewayVars == <<subjects, rules, allowed, protected, destructive, tickets, changes,
                 registered, hosts, calls, effects>>
allVars == <<part, mem, disk, operations, faults, grants, delegationVars,
             messageVars, handoffVars, engineVars, gatewayVars>>

NoDelegation == accepted = Unused /\ approved = Unused
NoMessages == old = Unused /\ first = Unused /\ deliveries = Unused /\ done = Unused
NoHandoff ==
    /\ adapter = Unused /\ rec = Unused /\ file = Unused
    /\ minted = Unused /\ asked = Unused /\ used = Unused
NoEngine == snap = Unused /\ starts = Unused
NoGateway ==
    /\ subjects = Unused /\ rules = Unused /\ allowed = Unused /\ protected = Unused
    /\ destructive = Unused /\ tickets = Unused /\ changes = Unused
    /\ registered = Unused /\ hosts = Unused /\ calls = Unused /\ effects = Unused

Init ==
    \/ /\ part = "delegation" /\ D!Init /\ grants = Unused
       /\ NoMessages /\ NoHandoff /\ NoEngine /\ NoGateway
    \/ /\ part = "messages" /\ M!Init /\ operations = Unused /\ grants = Unused
       /\ NoDelegation /\ NoHandoff /\ NoEngine /\ NoGateway
    \/ /\ part = "handoff" /\ H!Init
       /\ mem = Unused /\ disk = Unused /\ operations = Unused
       /\ faults = Unused /\ grants = Unused
       /\ NoDelegation /\ NoMessages /\ NoEngine /\ NoGateway
    \/ /\ part = "engine" /\ E!Init
       /\ NoDelegation /\ NoMessages /\ NoHandoff /\ NoGateway
    \/ /\ part = "gateway" /\ G!Init
       /\ mem = Unused /\ disk = Unused /\ operations = Unused /\ faults = Unused
       /\ NoDelegation /\ NoMessages /\ NoHandoff /\ NoEngine

Next ==
    \/ /\ part = "delegation" /\ D!Next
       /\ UNCHANGED <<part, grants, messageVars, handoffVars, engineVars, gatewayVars>>
    \/ /\ part = "messages" /\ M!Next
       /\ UNCHANGED <<part, operations, grants, delegationVars, handoffVars,
                      engineVars, gatewayVars>>
    \/ /\ part = "handoff" /\ H!Next
       /\ UNCHANGED <<part, mem, disk, operations, faults, grants, delegationVars,
                      messageVars, engineVars, gatewayVars>>
    \/ /\ part = "engine" /\ E!Next
       /\ UNCHANGED <<part, delegationVars, messageVars, handoffVars, gatewayVars>>
    \/ /\ part = "gateway" /\ G!Next
       /\ UNCHANGED <<part, mem, disk, operations, faults, delegationVars,
                      messageVars, handoffVars, engineVars>>

Spec == Init /\ [][Next]_allVars

Symmetry == Permutations(Agents) \union Permutations(Executions)

-----------------------------------------------------------------------------
\* The invariants of the five modules, where they are stated and explained; each
\* module's types are checked with its first.  Delegation: a task has succeeded
\* by the execution that it has ...
SuccessIsCurrent == part = "delegation" => D!TypeOK /\ D!SuccessIsCurrent

\* ... and keeps the result that was accepted.
AcceptedResultIsKept == part = "delegation" => D!AcceptedResultIsKept

\* MessageBroker: what was reported complete is not delivered or undone again.
ReportedIsFinal == part = "messages" => M!TypeOK /\ M!ReportedIsFinal

\* A message is delivered once for each of its attempts, and under a sequence
\* number that no other message to its receiver has.
OneDeliveryPerAttempt ==
    part = "messages" => M!OneDeliveryPerAttempt /\ M!NumbersDistinct

\* HandoffWorkflow: a handoff hands over the checkpoint it was requested for.
HandedOverAsRequested == part = "handoff" => H!TypeOK /\ H!HandedOverAsRequested

\* WorkflowEngine: a node starts as often as there was a reason to.
AtMostOneStart == part = "engine" => E!TypeOK /\ E!AtMostOneStart

\* ToolGateway: what was done and needed an approval had one, of that subject and
\* action, and of that resource if the call named one thing.
EffectIsApproved == part = "gateway" => G!TypeOK /\ G!EffectIsApproved
=============================================================================
