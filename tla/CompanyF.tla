------------------------------ MODULE CompanyF ------------------------------
(***************************************************************************)
(* CompanyFCoordinator (company_f.py): the work orders of one project, from*)
(* the decision that allows them to their release, and the file they are   *)
(* saved to.  Every operation runs under the coordinator's lock and is one *)
(* action; an operation that raises before it changes anything is not a    *)
(* step.  save takes its snapshot under the lock, and writes and replaces  *)
(* the file after releasing it.                                            *)
(*                                                                         *)
(* The identities of the council, the planner, the guardian, the deployer  *)
(* and the human are left out: each of their operations checks its role,   *)
(* and somebody has it.  Coders are kept, for they own orders, hold leases *)
(* and are revoked.  Also left out: capabilities, scopes and git state     *)
(* (they only refuse), gate results, audit events and the time of leases,  *)
(* which no operation reads.                                               *)
(***************************************************************************)
EXTENDS Naturals

CONSTANTS
    WorkOrders,    \* work order ids
    Titles,        \* fingerprints of title and description
    Coders,        \* agents with the role CODING_AGENT
    NoCoder,
    Nothing,       \* no file, no save in progress
    RequireHuman,  \* deployment_requires_human_approval
    Savers,        \* threads that call save
    MaxOperations, \* bound: operations
    MaxSaves       \* bound: snapshots taken

ASSUME TitlesAssumption == Titles # {}
ASSUME CodersAssumption == NoCoder \notin Coders
ASSUME RequireHumanAssumption == RequireHuman \in BOOLEAN
ASSUME MaxOperationsAssumption == MaxOperations \in Nat
ASSUME MaxSavesAssumption == MaxSaves \in Nat

DecisionStatus == {"go", "no_go", "pending", "require_review"}

\* "none" is an id that is not used yet.
Status == {"none", "pending", "planned", "executing", "checkpointed", "quality_gated",
           "deployment_gated", "released", "rejected", "failed", "cancelled", "conflict"}

\* ALLOWED_TRANSITIONS.
Allowed ==
    [s \in Status |->
       CASE s = "pending"          -> {"planned", "cancelled", "conflict"}
         [] s = "planned"          -> {"executing", "cancelled", "rejected"}
         [] s = "executing"        -> {"checkpointed", "failed", "rejected", "cancelled",
                                       "conflict"}
         [] s = "checkpointed"     -> {"executing", "quality_gated", "failed", "rejected",
                                       "conflict"}
         [] s = "quality_gated"    -> {"checkpointed", "executing", "deployment_gated",
                                       "rejected"}
         [] s = "deployment_gated" -> {"released", "quality_gated", "rejected"}
         [] s = "rejected"         -> {"planned"}
         [] s = "failed"           -> {"executing"}
         [] s = "conflict"         -> {"pending", "planned", "executing"}
         [] OTHER                  -> {}]

\* required, satisfied: of approval; owner: owner and assigned_agent, which are
\* set together; holder: lease_holder; checkpoint: the owner of the checkpoint
\* last_checkpoint_id names; verdict: last_quality_verdict, "fail" for
\* REQUIRE_FIX too; seen, a history variable: the verdict is about that
\* checkpoint.
Orders ==
    [st : Status, title : Titles, required : BOOLEAN, satisfied : BOOLEAN,
     owner : Coders \union {NoCoder}, holder : Coders \union {NoCoder},
     checkpoint : Coders \union {NoCoder}, verdict : {"none", "pass", "fail"},
     seen : BOOLEAN]

\* The decisions of the project: the status of the latest, where the first GO
\* is, and whether its work_orders_created names any (_active_go).
Decisions ==
    [latest : DecisionStatus \union {"none"}, firstGo : {"none", "latest", "earlier"},
     opened : BOOLEAN]

Images == [decision : Decisions, orders : [WorkOrders -> Orders], revoked : SUBSET Coders]

VARIABLES
    decision, orders, revoked,  \* the coordinator
    disk, tmp,                  \* state.json and the temporary file of the process
    saver,                      \* the snapshot each thread is saving, and how far
    operations, saves,          \* how many so far
    kept                        \* history: the orders in a save that returned

vars == <<decision, orders, revoked, disk, tmp, saver, operations, saves, kept>>
memory == <<decision, orders, revoked>>
files == <<disk, tmp, saver, saves, kept>>

NoOrders ==
    [w \in WorkOrders |->
       [st |-> "none", title |-> CHOOSE t \in Titles : TRUE,
        required |-> FALSE, satisfied |-> FALSE,
        owner |-> NoCoder, holder |-> NoCoder, checkpoint |-> NoCoder,
        verdict |-> "none", seen |-> FALSE]]

Fresh ==
    [decision |-> [latest |-> "none", firstGo |-> "none", opened |-> FALSE],
     orders |-> NoOrders, revoked |-> {}]

Init ==
    /\ decision = Fresh.decision
    /\ orders = Fresh.orders
    /\ revoked = Fresh.revoked
    /\ disk = Nothing
    /\ tmp = Nothing
    /\ saver = [t \in Savers |-> Nothing]
    /\ operations = 0
    /\ saves = 0
    /\ kept = {}

-----------------------------------------------------------------------------
(* Decisions and new orders.                                                *)

Conflicting == {"pending", "executing", "checkpointed"}

\* make_decision.
MakeDecision(status) ==
    LET conflict == decision.opened /\ status # decision.latest
    IN  /\ decision' = [decision EXCEPT
              !.latest = status,
              !.firstGo = IF @ # "none" THEN "earlier"
                          ELSE IF status = "go" THEN "latest" ELSE "none"]
        /\ orders' = [w \in WorkOrders |->
              IF conflict /\ orders[w].st \in Conflicting
              THEN [orders[w] EXCEPT !.st = "conflict"] ELSE orders[w]]
        /\ UNCHANGED <<revoked, files>>

Active(o) == o.st \notin {"none", "rejected", "cancelled", "released"}

\* Mutated form of Duplicate: an order in conflict is taken for a dead one.
DuplicateUnlessConflict(title) ==
    \E w \in WorkOrders : /\ Active(orders[w]) /\ orders[w].st # "conflict"
                          /\ orders[w].title = title

\* _check_duplicate.
Duplicate(title) == \E w \in WorkOrders : Active(orders[w]) /\ orders[w].title = title

Register(w, title, status, required) ==
    /\ orders[w].st = "none"
    /\ decision.latest = "go"
    /\ ~Duplicate(title)
    /\ decision' = [decision EXCEPT !.opened = @ \/ decision.firstGo = "latest"]
    /\ orders' = [orders EXCEPT ![w].st = status, ![w].title = title,
                                ![w].required = required]
    /\ UNCHANGED <<revoked, files>>

CreateWorkOrder(w, title, approval) == Register(w, title, "pending", approval)

PlanWorkOrder(w, title, approval) ==
    Register(w, title, "planned", approval \/ RequireHuman)

-----------------------------------------------------------------------------
(* One order.                                                               *)

\* The order w becomes o; _transition lets it go to status.
Becomes(w, o) ==
    /\ orders[w].st # "none"
    /\ orders' = [orders EXCEPT ![w] = o]
    /\ UNCHANGED <<decision, revoked, files>>

Transition(w, status) ==
    /\ status \in Allowed[orders[w].st]
    /\ Becomes(w, [orders[w] EXCEPT !.st = status])

AddPlan(w) == orders[w].st = "pending" /\ Transition(w, "planned")

ApproveWorkOrder(w) ==
    /\ orders[w].required
    /\ Becomes(w, [orders[w] EXCEPT !.satisfied = TRUE])

\* assign_agent sets the owner and only then makes the transition: where that
\* raises, the owner has changed.
AssignAgent(w, c) ==
    /\ c \notin revoked
    /\ Becomes(w, [orders[w] EXCEPT
          !.owner = c,
          !.st = IF "executing" \in Allowed[@] THEN "executing" ELSE @])

AcquireLease(w, c) ==
    /\ orders[w].owner = c
    /\ orders[w].holder \in {NoCoder, c}
    /\ Becomes(w, [orders[w] EXCEPT !.holder = c])

ReleaseLease(w, c) ==
    /\ orders[w].holder = c
    /\ Becomes(w, [orders[w] EXCEPT !.holder = NoCoder])

\* Mutated form of OwnerValid: holding the lease is enough.
HolderValid(o, c) == o.owner = c \/ o.holder = c

\* _owner_valid.
OwnerValid(o, c) == o.owner = c /\ o.holder \in {NoCoder, c}

\* submit_checkpoint.  In state checkpointed the transition raises, after the
\* checkpoint has been recorded.
SubmitCheckpoint(w, c) ==
    /\ c \notin revoked
    /\ OwnerValid(orders[w], c)
    /\ orders[w].st \in {"executing", "checkpointed"}
    /\ Becomes(w, [orders[w] EXCEPT !.st = "checkpointed", !.checkpoint = c,
                                    !.seen = FALSE])

QualityGate(w, verdict) ==
    LET status == IF verdict = "pass" THEN "quality_gated" ELSE "executing"
    IN  /\ orders[w].st = "checkpointed"
        /\ Becomes(w, [orders[w] EXCEPT !.st = status, !.verdict = verdict,
                                        !.seen = TRUE])

-----------------------------------------------------------------------------
(* Deployment.                                                              *)

\* _require_approval.
Approved(o) == o.required => o.satisfied

DeploymentGate(w) ==
    /\ Approved(orders[w])
    /\ orders[w].st = "quality_gated"
    /\ orders[w].verdict = "pass"
    /\ Transition(w, "deployment_gated")

\* run_deployment_check, when its verdict is PASS; rollback_ready is given.
RunDeploymentCheck(w) ==
    /\ orders[w].st = "quality_gated"
    /\ orders[w].verdict = "pass"
    /\ RequireHuman => orders[w].required /\ orders[w].satisfied
    /\ Transition(w, "deployment_gated")

ApproveDeployment(w) ==
    Becomes(w, [orders[w] EXCEPT !.required = TRUE, !.satisfied = TRUE])

\* Mutated form of Release: the approval is taken for checked at the gate.
ReleaseUnapproved(w) ==
    orders[w].st = "deployment_gated" /\ Transition(w, "released")

Release(w) ==
    /\ Approved(orders[w])
    /\ orders[w].st = "deployment_gated"
    /\ Transition(w, "released")

-----------------------------------------------------------------------------
(* Failures.                                                                *)

MarkFailed(w) == Transition(w, "failed")
Reject(w) == Transition(w, "rejected")
Cancel(w) == Transition(w, "cancelled")

\* resume: of an order in conflict, only by a human.
Resume(w, human) ==
    /\ orders[w].st = "conflict" => human
    /\ Transition(w, "executing")

RevokeRole(c) ==
    /\ revoked' = revoked \union {c}
    /\ UNCHANGED <<decision, orders, files>>

-----------------------------------------------------------------------------
(* save, load and crashes.                                                  *)

\* _snap, under the lock.
Snapshot(t) ==
    /\ saver[t] = Nothing
    /\ saves < MaxSaves
    /\ saver' = [saver EXCEPT ![t] =
          [image |-> [decision |-> decision, orders |-> orders, revoked |-> revoked],
           written |-> FALSE]]
    /\ saves' = saves + 1
    /\ UNCHANGED <<memory, operations, disk, tmp, kept>>

\* tmp.write_text.  The name of the temporary file is the same in all threads.
WriteTmp(t) ==
    /\ saver[t] # Nothing
    /\ ~saver[t].written
    /\ tmp' = saver[t].image
    /\ saver' = [saver EXCEPT ![t].written = TRUE]
    /\ UNCHANGED <<memory, operations, disk, saves, kept>>

OrdersIn(image) == {w \in WorkOrders : image.orders[w].st # "none"}

\* os.replace, after which save returns.  It raises when another thread has
\* moved the file away.
Replace(t) ==
    /\ saver[t] # Nothing
    /\ saver[t].written
    /\ IF tmp = Nothing THEN UNCHANGED <<disk, kept>>
       ELSE /\ disk' = tmp
            /\ kept' = kept \union OrdersIn(saver[t].image)
    /\ tmp' = Nothing
    /\ saver' = [saver EXCEPT ![t] = Nothing]
    /\ UNCHANGED <<memory, operations, saves>>

\* Mutated form of Restored: only open orders are read back.
RestoredOpenOnly(image) ==
    [image EXCEPT !.decision.opened = FALSE,
                  !.orders = [w \in WorkOrders |-> IF Active(@[w]) THEN @[w] ELSE NoOrders[w]]]

\* load, into a new coordinator: work_orders_created is not restored.
Restored(image) == [image EXCEPT !.decision.opened = FALSE]

Restart ==
    LET image == IF disk = Nothing THEN Fresh ELSE Restored(disk)
    IN  /\ decision' = image.decision
        /\ orders' = image.orders
        /\ revoked' = image.revoked
        /\ tmp' = Nothing
        /\ saver' = [t \in Savers |-> Nothing]
        /\ UNCHANGED <<disk, operations, saves, kept>>

Operation ==
    \/ \E status \in DecisionStatus : MakeDecision(status)
    \/ \E w \in WorkOrders, title \in Titles, approval \in BOOLEAN :
          CreateWorkOrder(w, title, approval) \/ PlanWorkOrder(w, title, approval)
    \/ \E w \in WorkOrders : \/ AddPlan(w)
                             \/ ApproveWorkOrder(w)
                             \/ DeploymentGate(w)
                             \/ RunDeploymentCheck(w)
                             \/ ApproveDeployment(w)
                             \/ Release(w)
                             \/ MarkFailed(w)
                             \/ Reject(w)
                             \/ Cancel(w)
                             \/ \E human \in BOOLEAN : Resume(w, human)
    \/ \E w \in WorkOrders, c \in Coders : \/ AssignAgent(w, c)
                                         \/ AcquireLease(w, c)
                                         \/ ReleaseLease(w, c)
                                         \/ SubmitCheckpoint(w, c)
    \/ \E w \in WorkOrders, verdict \in {"pass", "fail"} : QualityGate(w, verdict)
    \/ \E c \in Coders : RevokeRole(c)

Next ==
    \/ /\ operations < MaxOperations
       /\ operations' = operations + 1
       /\ Operation
    \/ \E t \in Savers : Snapshot(t) \/ WriteTmp(t) \/ Replace(t)
    \/ Restart

Spec == Init /\ [][Next]_vars

-----------------------------------------------------------------------------
\* Every field of the coordinator and of its images has its type.
TypeOK ==
    /\ decision \in Decisions
    /\ orders \in [WorkOrders -> Orders]
    /\ revoked \in SUBSET Coders
    /\ disk \in Images \union {Nothing}
    /\ tmp \in Images \union {Nothing}
    /\ saver \in [Savers -> [image : Images, written : BOOLEAN] \union {Nothing}]
    /\ operations \in Nat
    /\ saves \in Nat
    /\ kept \in SUBSET WorkOrders

Distinct(os) ==
    \A v, w \in WorkOrders :
       Active(os[v]) /\ Active(os[w]) /\ os[v].title = os[w].title => v = w

\* create_work_order and plan_work_order refuse duplicates: two orders with one
\* fingerprint are never both open, whatever became of the first and whatever
\* was lost in a restart.
OneOpenPerTitle == Distinct(orders)

Reviewed(o) ==
    /\ o.st \in {"quality_gated", "deployment_gated", "released"} =>
          o.verdict = "pass" /\ o.seen /\ o.checkpoint # NoCoder
    /\ o.st = "released" => Approved(o)

\* quality_gate, deployment_gate, run_deployment_check and release: an order that
\* has passed review was given its PASS for its last checkpoint, however often it
\* was sent back, reassigned or resumed, and one that is released has the approval
\* it needs.
ReleasedIsReviewed == \A w \in WorkOrders : Reviewed(orders[w])

Owned(o) ==
    o.st \in {"checkpointed", "quality_gated"} =>
       o.checkpoint = o.owner /\ o.owner # NoCoder

\* The last checkpoint of an order that waits for review or deployment is its
\* owner's: evaluate_handoff accepts it, though orders change hands at any time.
CheckpointIsOwners == \A w \in WorkOrders : Owned(orders[w])

\* save and load: an order that a completed save has recorded is in the file and in every coordinator
\* that is started from it.
NothingSavedIsLost ==
    \A w \in kept : /\ disk # Nothing /\ disk.orders[w].st # "none"
                    /\ orders[w].st # "none"
=============================================================================
