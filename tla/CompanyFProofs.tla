--------------------------- MODULE CompanyFProofs ---------------------------
(***************************************************************************)
(* Theorems of CompanyF, for any orders, coders and saving threads.  The   *)
(* invariant holds of the coordinator and of every image of it: a restart  *)
(* may bring any image back that was ever written.                         *)
(***************************************************************************)
EXTENDS CompanyF, TLAPS

\* What an operation on one order keeps.
Sound(o) == Reviewed(o) /\ Owned(o)

Good(os) == Distinct(os) /\ \A w \in WorkOrders : Sound(os[w])

GoodEverywhere ==
    /\ Good(orders)
    /\ disk # Nothing => Good(disk.orders)
    /\ tmp # Nothing => Good(tmp.orders)
    /\ \A t \in Savers : saver[t] # Nothing => Good(saver[t].image.orders)

IInv == TypeOK /\ GoodEverywhere

-----------------------------------------------------------------------------
(* Orders.                                                                  *)

\* Replacing one order by a sound one of the same title that is open only if it
\* was keeps the orders good.
LEMMA ReplacedGood ==
    ASSUME NEW os \in [WorkOrders -> Orders], Good(os),
           NEW w \in WorkOrders, NEW o \in Orders,
           o.title = os[w].title, Active(o) => Active(os[w]), Sound(o)
    PROVE  /\ [os EXCEPT ![w] = o] \in [WorkOrders -> Orders]
           /\ Good([os EXCEPT ![w] = o])
<1> DEFINE new == [os EXCEPT ![w] = o]
<1>1. new \in [WorkOrders -> Orders]
  OBVIOUS
<1>2. new[w] = o /\ \A v \in WorkOrders : v # w => new[v] = os[v]
  OBVIOUS
<1>3. \A v \in WorkOrders : new[v].title = os[v].title /\ (Active(new[v]) => Active(os[v]))
  BY <1>2, Zenon
<1>4. Distinct(new)
  BY <1>3, Zenon DEF Good, Distinct
<1>5. ASSUME NEW v \in WorkOrders PROVE Sound(new[v])
  <2>1. CASE v = w
    BY <2>1, <1>2, Zenon
  <2>2. CASE v # w
    BY <2>2, <1>2, Zenon DEF Good
  <2> QED  BY <2>1, <2>2
<1> QED  BY <1>1, <1>4, <1>5, Zenon DEF Good

\* What remains to be shown of an operation on one order.
LEMMA BecomesGood ==
    ASSUME TypeOK, Good(orders), NEW w \in WorkOrders, NEW o \in Orders,
           o.title = orders[w].title, Active(o) => Active(orders[w]), Sound(o),
           Becomes(w, o)
    PROVE  orders' \in [WorkOrders -> Orders] /\ Good(orders')
<1>1. orders \in [WorkOrders -> Orders] /\ orders' = [orders EXCEPT ![w] = o]
  BY DEF TypeOK, Becomes
<1> QED  BY <1>1, ReplacedGood, Zenon

LEMMA TransitionGood ==
    ASSUME TypeOK, Good(orders), NEW w \in WorkOrders, NEW status \in Status,
           Transition(w, status),
           Active(orders[w]) \/ status \in {"rejected", "cancelled", "released"},
           Sound([orders[w] EXCEPT !.st = status])
    PROVE  orders' \in [WorkOrders -> Orders] /\ Good(orders')
<1> DEFINE o == [orders[w] EXCEPT !.st = status]
<1>1. orders[w] \in Orders
  BY DEF TypeOK
<1>2. o \in Orders /\ o.title = orders[w].title /\ o.st = status
  BY <1>1 DEF Orders
<1>3. Active(o) => Active(orders[w])
  BY <1>2 DEF Active
<1>4. Becomes(w, o)
  BY DEF Transition
<1> QED  BY <1>2, <1>3, <1>4, BecomesGood

-----------------------------------------------------------------------------
(* One lemma for the operations on one order.                               *)

\* A transition to a status that asks nothing of the order.
LEMMA PlainTransition ==
    ASSUME TypeOK, Good(orders), NEW w \in WorkOrders,
           NEW status \in {"planned", "executing", "failed", "rejected", "cancelled"},
           Transition(w, status), status = "planned" => orders[w].st = "pending"
    PROVE  orders' \in [WorkOrders -> Orders] /\ Good(orders')
<1>1. orders[w] \in Orders
  BY DEF TypeOK
<1>2. status \in Status /\ status \in Allowed[orders[w].st]
  BY DEF Transition, Status
<1>3. Active(orders[w]) \/ status \in {"rejected", "cancelled", "released"}
  BY <1>1, <1>2 DEF Active, Allowed, Status, Orders
<1>4. Sound([orders[w] EXCEPT !.st = status])
  BY <1>1 DEF Sound, Reviewed, Owned, Orders
<1> QED  BY <1>2, <1>3, <1>4, TransitionGood

\* A transition past the deployment gate keeps what the review has shown.
LEMMA GateTransition ==
    ASSUME TypeOK, Good(orders), NEW w \in WorkOrders,
           NEW status \in {"deployment_gated", "released"},
           orders[w].st \in {"quality_gated", "deployment_gated"},
           status = "released" => Approved(orders[w]),
           Transition(w, status)
    PROVE  orders' \in [WorkOrders -> Orders] /\ Good(orders')
<1>1. orders[w] \in Orders /\ Sound(orders[w])
  BY Zenon DEF TypeOK, Good
<1>2. status \in Status
  BY DEF Status
<1>3. Active(orders[w])
  BY DEF Active
<1>4. Sound([orders[w] EXCEPT !.st = status])
  BY <1>1 DEF Sound, Reviewed, Owned, Orders, Approved
<1> QED  BY <1>2, <1>3, <1>4, TransitionGood

\* An order whose status, title and review stay as they are.
LEMMA AnnotationGood ==
    ASSUME TypeOK, Good(orders), NEW w \in WorkOrders, NEW o \in Orders,
           o.title = orders[w].title, o.st = orders[w].st,
           o.verdict = orders[w].verdict, o.seen = orders[w].seen,
           o.checkpoint = orders[w].checkpoint, o.owner = orders[w].owner,
           Approved(orders[w]) => Approved(o),
           Becomes(w, o)
    PROVE  orders' \in [WorkOrders -> Orders] /\ Good(orders')
<1>1. Sound(orders[w])
  BY Zenon DEF Good
<1>2. Sound(o)
  BY <1>1 DEF Sound, Reviewed, Owned
<1>3. Active(o) => Active(orders[w])
  BY DEF Active
<1> QED  BY <1>2, <1>3, BecomesGood

LEMMA AssignGood ==
    ASSUME TypeOK, Good(orders), NEW w \in WorkOrders, NEW c \in Coders, AssignAgent(w, c)
    PROVE  orders' \in [WorkOrders -> Orders] /\ Good(orders')
<1> DEFINE s == orders[w].st
           status == IF "executing" \in Allowed[s] THEN "executing" ELSE s
           o == [orders[w] EXCEPT !.owner = c, !.st = status]
<1>1. orders[w] \in Orders /\ s \in Status /\ Sound(orders[w])
  <2>1. orders[w] \in Orders
    BY DEF TypeOK
  <2> QED  BY <2>1, Zenon DEF Good, Orders
<1>2. status \in Status
  BY <1>1 DEF Status
<1>3. Becomes(w, o)
  BY <1>1 DEF AssignAgent, Orders
<1>4. o \in Orders /\ o.title = orders[w].title /\ o.st = status
  BY <1>1, <1>2 DEF Orders
<1>5. Active(o) => Active(orders[w])
  BY <1>1, <1>4 DEF Active, Allowed, Status
<1>6. s \notin {"checkpointed", "quality_gated"} \/ status = "executing"
  BY <1>1 DEF Allowed, Status
<1>7. Sound(o)
  BY <1>1, <1>4, <1>6 DEF Sound, Reviewed, Owned, Orders, Approved
<1> HIDE DEF o
<1> QED  BY <1>3, <1>4, <1>5, <1>7, BecomesGood

LEMMA CheckpointGood ==
    ASSUME TypeOK, Good(orders), NEW w \in WorkOrders, NEW c \in Coders,
           SubmitCheckpoint(w, c)
    PROVE  orders' \in [WorkOrders -> Orders] /\ Good(orders')
<1> DEFINE o == [orders[w] EXCEPT !.st = "checkpointed", !.checkpoint = c, !.seen = FALSE]
<1>1. orders[w] \in Orders /\ orders[w].owner = c
  BY DEF TypeOK, SubmitCheckpoint, OwnerValid
<1>2. o \in Orders /\ o.title = orders[w].title
  BY <1>1 DEF Orders, Status
<1>3. Active(o) => Active(orders[w])
  BY <1>1 DEF Active, SubmitCheckpoint
<1>4. Sound(o)
  BY <1>1, CodersAssumption DEF Sound, Reviewed, Owned, Orders
<1>5. Becomes(w, o)
  BY DEF SubmitCheckpoint
<1> HIDE DEF o
<1> QED  BY <1>2, <1>3, <1>4, <1>5, BecomesGood

LEMMA QualityGood ==
    ASSUME TypeOK, Good(orders), NEW w \in WorkOrders, NEW verdict \in {"pass", "fail"},
           QualityGate(w, verdict)
    PROVE  orders' \in [WorkOrders -> Orders] /\ Good(orders')
<1> DEFINE status == IF verdict = "pass" THEN "quality_gated" ELSE "executing"
           o == [orders[w] EXCEPT !.st = status, !.verdict = verdict, !.seen = TRUE]
<1>1. orders[w] \in Orders /\ Sound(orders[w]) /\ orders[w].st = "checkpointed"
  <2>1. orders[w] \in Orders /\ orders[w].st = "checkpointed"
    BY DEF TypeOK, QualityGate
  <2> QED  BY <2>1, Zenon DEF Good
<1>2. o \in Orders /\ o.title = orders[w].title
  BY <1>1 DEF Orders, Status
<1>3. Active(o) => Active(orders[w])
  BY <1>1 DEF Active
<1>4. Sound(o)
  BY <1>1 DEF Sound, Reviewed, Owned, Orders
<1>5. Becomes(w, o)
  BY DEF QualityGate
<1> HIDE DEF o
<1> QED  BY <1>2, <1>3, <1>4, <1>5, BecomesGood

-----------------------------------------------------------------------------
(* The operations that touch every order, or make one.                      *)

\* Orders that change only from a status of Conflicting to conflict.
LEMMA DecisionGood ==
    ASSUME TypeOK, Good(orders), NEW status \in DecisionStatus, MakeDecision(status)
    PROVE  orders' \in [WorkOrders -> Orders] /\ Good(orders')
<1>1. \A w \in WorkOrders :
        orders'[w] = orders[w] \/ (/\ orders[w].st \in Conflicting
                                  /\ orders'[w] = [orders[w] EXCEPT !.st = "conflict"])
  BY DEF MakeDecision
<1>2. ASSUME NEW w \in WorkOrders
      PROVE  /\ orders'[w] \in Orders
             /\ orders'[w].title = orders[w].title
             /\ Active(orders'[w]) => Active(orders[w])
             /\ Sound(orders'[w])
  <2>1. orders[w] \in Orders /\ Sound(orders[w])
    BY Zenon DEF TypeOK, Good
  <2>2. CASE orders'[w] = orders[w]
    BY <2>1, <2>2, Zenon
  <2>3. CASE /\ orders[w].st \in Conflicting
             /\ orders'[w] = [orders[w] EXCEPT !.st = "conflict"]
    <3>1. orders'[w] \in Orders /\ orders'[w].title = orders[w].title
      BY <2>1, <2>3 DEF Orders, Status
    <3>2. Active(orders[w])
      BY <2>3 DEF Active, Conflicting
    <3>3. Sound(orders'[w])
      BY <2>1, <2>3 DEF Sound, Reviewed, Owned, Orders
    <3> QED  BY <3>1, <3>2, <3>3
  <2> QED  BY <1>1, <2>2, <2>3
<1>3. orders' \in [WorkOrders -> Orders]
  <2>1. orders' = [w \in WorkOrders |-> orders'[w]]
    BY DEF MakeDecision
  <2> QED  BY <1>2, <2>1
<1>4. Distinct(orders')
  BY <1>2, Zenon DEF Good, Distinct
<1> QED  BY <1>2, <1>3, <1>4, Zenon DEF Good

\* A new order has a title no open order has.
LEMMA RegisterGood ==
    ASSUME TypeOK, Good(orders), NEW w \in WorkOrders, NEW title \in Titles,
           NEW status \in {"pending", "planned"}, NEW required \in BOOLEAN,
           Register(w, title, status, required)
    PROVE  orders' \in [WorkOrders -> Orders] /\ Good(orders')
<1> DEFINE o == [orders[w] EXCEPT !.st = status, !.title = title, !.required = required]
<1>1. orders \in [WorkOrders -> Orders] /\ orders[w] \in Orders
  BY DEF TypeOK
<1>2. orders' = [orders EXCEPT ![w] = o]
  BY <1>1 DEF Register, Orders
<1>3. o \in Orders /\ o.title = title /\ o.st = status
  BY <1>1 DEF Orders, Status
<1>4. Sound(o)
  BY <1>3 DEF Sound, Reviewed, Owned
<1> HIDE DEF o
<1>5. orders'[w] = o /\ \A v \in WorkOrders : v # w => orders'[v] = orders[v]
  BY <1>1, <1>2
<1>6. orders' \in [WorkOrders -> Orders]
  BY <1>1, <1>2, <1>3
<1>7. \A v \in WorkOrders : Active(orders[v]) => orders[v].title # title
  BY DEF Register, Duplicate
<1>8. ASSUME NEW u \in WorkOrders, NEW v \in WorkOrders, Active(orders'[u]),
             Active(orders'[v]), orders'[u].title = orders'[v].title
      PROVE  u = v
  <2>1. CASE u # w /\ v # w
    BY <1>5, <1>8, <2>1, Zenon DEF Good, Distinct
  <2>2. CASE u = w /\ v # w
    BY <1>3, <1>5, <1>7, <1>8, <2>2, Zenon
  <2>3. CASE u # w /\ v = w
    BY <1>3, <1>5, <1>7, <1>8, <2>3, Zenon
  <2> QED  BY <2>1, <2>2, <2>3
<1>9. ASSUME NEW v \in WorkOrders PROVE Sound(orders'[v])
  <2>1. CASE v = w
    BY <2>1, <1>4, <1>5, Zenon
  <2>2. CASE v # w
    BY <2>2, <1>5, Zenon DEF Good
  <2> QED  BY <2>1, <2>2
<1> QED  BY <1>6, <1>8, <1>9, Zenon DEF Good, Distinct

-----------------------------------------------------------------------------
(* Steps.                                                                   *)

\* What an operation leaves: sound orders, types, and the files as they were.
Kept ==
    /\ decision' \in Decisions
    /\ revoked' \in SUBSET Coders
    /\ orders' \in [WorkOrders -> Orders] /\ Good(orders')
    /\ UNCHANGED files

LEMMA BecomesKept ==
    ASSUME TypeOK, NEW w \in WorkOrders, NEW o, Becomes(w, o),
           orders' \in [WorkOrders -> Orders] /\ Good(orders')
    PROVE  Kept
<1>1. decision' \in Decisions /\ revoked' \in SUBSET Coders /\ UNCHANGED files
  BY DEF Becomes, TypeOK
<1> QED  BY <1>1, Zenon DEF Kept

LEMMA TransitionKept ==
    ASSUME TypeOK, NEW w \in WorkOrders, NEW status, Transition(w, status),
           orders' \in [WorkOrders -> Orders] /\ Good(orders')
    PROVE  Kept
  BY BecomesKept, Zenon DEF Transition

LEMMA MakeDecisionKept ==
    ASSUME TypeOK, Good(orders), NEW status \in DecisionStatus, MakeDecision(status)
    PROVE  Kept
<1>1. decision' \in Decisions
  BY DEF MakeDecision, TypeOK, Decisions
<1>2. revoked' \in SUBSET Coders /\ UNCHANGED files
  BY DEF MakeDecision, TypeOK
<1> QED  BY <1>1, <1>2, DecisionGood, Zenon DEF Kept

LEMMA RegisterKept ==
    ASSUME TypeOK, Good(orders), NEW w \in WorkOrders, NEW title \in Titles,
           NEW status \in {"pending", "planned"}, NEW required \in BOOLEAN,
           Register(w, title, status, required)
    PROVE  Kept
<1>1. decision' \in Decisions
  BY DEF Register, TypeOK, Decisions
<1>2. revoked' \in SUBSET Coders /\ UNCHANGED files
  BY DEF Register, TypeOK
<1> QED  BY <1>1, <1>2, RegisterGood, Zenon DEF Kept

\* Approvals and leases.
LEMMA AnnotationKept ==
    ASSUME TypeOK, Good(orders), NEW w \in WorkOrders,
           \/ ApproveWorkOrder(w)
           \/ ApproveDeployment(w)
           \/ \E c \in Coders : AcquireLease(w, c) \/ ReleaseLease(w, c)
    PROVE  Kept
<1>1. orders[w] \in Orders
  BY DEF TypeOK
<1>2. PICK r \in BOOLEAN, y \in BOOLEAN, h \in Coders \union {NoCoder} :
         /\ Becomes(w, [orders[w] EXCEPT !.required = r, !.satisfied = y, !.holder = h])
         /\ y \/ (r = orders[w].required /\ y = orders[w].satisfied)
  <2>1. CASE ApproveWorkOrder(w)
    <3>1. [orders[w] EXCEPT !.satisfied = TRUE] =
          [orders[w] EXCEPT !.required = orders[w].required, !.satisfied = TRUE,
                            !.holder = orders[w].holder]
      BY <1>1 DEF Orders
    <3>2. orders[w].required \in BOOLEAN /\ orders[w].holder \in Coders \union {NoCoder}
      BY <1>1 DEF Orders
    <3> QED  BY <2>1, <3>1, <3>2, Zenon DEF ApproveWorkOrder
  <2>2. CASE ApproveDeployment(w)
    <3>1. [orders[w] EXCEPT !.required = TRUE, !.satisfied = TRUE] =
          [orders[w] EXCEPT !.required = TRUE, !.satisfied = TRUE,
                            !.holder = orders[w].holder]
      BY <1>1 DEF Orders
    <3>2. orders[w].holder \in Coders \union {NoCoder}
      BY <1>1 DEF Orders
    <3> QED  BY <2>2, <3>1, <3>2, Zenon DEF ApproveDeployment
  <2>3. ASSUME NEW h \in Coders \union {NoCoder},
               Becomes(w, [orders[w] EXCEPT !.holder = h])
        PROVE  \E r \in BOOLEAN, y \in BOOLEAN, g \in Coders \union {NoCoder} :
                 /\ Becomes(w, [orders[w] EXCEPT !.required = r, !.satisfied = y,
                                                 !.holder = g])
                 /\ y \/ (r = orders[w].required /\ y = orders[w].satisfied)
    <3>1. [orders[w] EXCEPT !.holder = h] =
          [orders[w] EXCEPT !.required = orders[w].required,
                            !.satisfied = orders[w].satisfied, !.holder = h]
      BY <1>1 DEF Orders
    <3>2. orders[w].required \in BOOLEAN /\ orders[w].satisfied \in BOOLEAN
      BY <1>1 DEF Orders
    <3> QED  BY <2>3, <3>1, <3>2, Zenon
  <2> QED  BY <2>1, <2>2, <2>3, Zenon DEF AcquireLease, ReleaseLease
<1> DEFINE o == [orders[w] EXCEPT !.required = r, !.satisfied = y, !.holder = h]
<1>3. /\ o \in Orders /\ o.title = orders[w].title /\ o.st = orders[w].st
      /\ o.verdict = orders[w].verdict /\ o.seen = orders[w].seen
      /\ o.checkpoint = orders[w].checkpoint /\ o.owner = orders[w].owner
      /\ o.required = r /\ o.satisfied = y
  BY <1>1 DEF Orders
<1>4. Approved(orders[w]) => Approved(o)
  BY <1>2, <1>3, Zenon DEF Approved
<1>5. Becomes(w, o)
  BY <1>2
<1> HIDE DEF o
<1>6. orders' \in [WorkOrders -> Orders] /\ Good(orders')
  BY <1>3, <1>4, <1>5, AnnotationGood
<1> QED  BY <1>5, <1>6, BecomesKept, Zenon

\* Failures, cancellation and resumption.
LEMMA PlainKept ==
    ASSUME TypeOK, Good(orders), NEW w \in WorkOrders,
           \/ AddPlan(w) \/ MarkFailed(w) \/ Reject(w) \/ Cancel(w)
           \/ \E human \in BOOLEAN : Resume(w, human)
    PROVE  Kept
<1>1. PICK status \in {"planned", "executing", "failed", "rejected", "cancelled"} :
         Transition(w, status) /\ (status = "planned" => orders[w].st = "pending")
  BY DEF AddPlan, MarkFailed, Reject, Cancel, Resume
<1> QED  BY <1>1, PlainTransition, TransitionKept

LEMMA GateKept ==
    ASSUME TypeOK, Good(orders), NEW w \in WorkOrders,
           DeploymentGate(w) \/ RunDeploymentCheck(w) \/ Release(w)
    PROVE  Kept
<1>1. PICK status \in {"deployment_gated", "released"} :
         /\ Transition(w, status) /\ orders[w].st \in {"quality_gated", "deployment_gated"}
         /\ status = "released" => Approved(orders[w])
  BY DEF DeploymentGate, RunDeploymentCheck, Release
<1> QED  BY <1>1, GateTransition, TransitionKept

LEMMA OperationKept ==
    ASSUME TypeOK, Good(orders), Operation
    PROVE  Kept
<1>1. ASSUME NEW status \in DecisionStatus, MakeDecision(status) PROVE Kept
  BY <1>1, MakeDecisionKept
<1>2. ASSUME NEW w \in WorkOrders, NEW title \in Titles, NEW approval \in BOOLEAN,
             CreateWorkOrder(w, title, approval) PROVE Kept
  BY <1>2, RegisterKept DEF CreateWorkOrder
<1>3. ASSUME NEW w \in WorkOrders, NEW title \in Titles, NEW approval \in BOOLEAN,
             PlanWorkOrder(w, title, approval) PROVE Kept
  <2>1. (approval \/ RequireHuman) \in BOOLEAN
    OBVIOUS
  <2> QED  BY <1>3, <2>1, RegisterKept, Zenon DEF PlanWorkOrder
<1>4. ASSUME NEW w \in WorkOrders, NEW c \in Coders, AssignAgent(w, c) PROVE Kept
  BY <1>4, AssignGood, BecomesKept, Zenon DEF AssignAgent
<1>5. ASSUME NEW w \in WorkOrders, NEW c \in Coders, SubmitCheckpoint(w, c) PROVE Kept
  BY <1>5, CheckpointGood, BecomesKept, Zenon DEF SubmitCheckpoint
<1>6. ASSUME NEW w \in WorkOrders, NEW verdict \in {"pass", "fail"}, QualityGate(w, verdict)
      PROVE  Kept
  BY <1>6, QualityGood, BecomesKept, Zenon DEF QualityGate
<1>7. ASSUME NEW c \in Coders, RevokeRole(c) PROVE Kept
  <2>1. /\ decision' \in Decisions /\ revoked' \in SUBSET Coders
        /\ orders' = orders /\ orders \in [WorkOrders -> Orders] /\ UNCHANGED files
    BY <1>7 DEF RevokeRole, TypeOK
  <2> QED  BY <2>1, Zenon DEF Kept
<1> QED
  BY <1>1, <1>2, <1>3, <1>4, <1>5, <1>6, <1>7, AnnotationKept, PlainKept, GateKept,
     Zenon DEF Operation

-----------------------------------------------------------------------------
(* The invariant.                                                           *)

LEMMA FreshGood == Fresh \in Images /\ Good(Fresh.orders)
<1>1. (CHOOSE t \in Titles : TRUE) \in Titles
  BY TitlesAssumption
<1>2. NoOrders \in [WorkOrders -> Orders]
  BY <1>1 DEF NoOrders, Orders, Status
<1>3. \A w \in WorkOrders : NoOrders[w].st = "none"
  BY DEF NoOrders
<1>4. Good(NoOrders)
  BY <1>3 DEF Good, Distinct, Active, Sound, Reviewed, Owned
<1>5. Fresh \in Images
  BY <1>2 DEF Fresh, Images, Decisions
<1> QED  BY <1>4, <1>5 DEF Fresh

LEMMA InitInvariant == Init => IInv
<1> SUFFICES ASSUME Init PROVE IInv
  OBVIOUS
<1>1. /\ decision \in Decisions /\ orders \in [WorkOrders -> Orders]
      /\ revoked \in SUBSET Coders /\ Good(orders)
  BY FreshGood DEF Init, Images, Fresh
<1>2. TypeOK
  BY <1>1 DEF Init, TypeOK
<1> QED  BY <1>1, <1>2 DEF Init, IInv, GoodEverywhere

LEMMA OperationInvariant ==
    ASSUME IInv, Operation, operations' = operations + 1
    PROVE  IInv'
<1>1. Kept
  BY OperationKept, Zenon DEF IInv, GoodEverywhere
<1>2. TypeOK'
  BY <1>1 DEF Kept, IInv, TypeOK, files
<1>3. GoodEverywhere'
  BY <1>1 DEF Kept, IInv, GoodEverywhere, files
<1> QED  BY <1>2, <1>3 DEF IInv

LEMMA SnapshotInvariant ==
    ASSUME IInv, NEW t \in Savers, Snapshot(t)
    PROVE  IInv'
<1> DEFINE image == [decision |-> decision, orders |-> orders, revoked |-> revoked]
           save == [image |-> image, written |-> FALSE]
<1>1. image \in Images /\ image.orders = orders /\ save.image = image
  BY DEF IInv, TypeOK, Images
<1>2. save \in [image : Images, written : BOOLEAN]
  BY <1>1
<1>3. saver' = [saver EXCEPT ![t] = save]
  BY DEF Snapshot
<1> HIDE DEF image, save
<1>4. saver' \in [Savers -> [image : Images, written : BOOLEAN] \union {Nothing}]
  BY <1>2, <1>3 DEF IInv, TypeOK
<1>5. TypeOK'
  BY <1>4 DEF Snapshot, IInv, TypeOK, memory
<1>6. ASSUME NEW u \in Savers, saver'[u] # Nothing PROVE Good(saver'[u].image.orders)
  <2>1. CASE u = t
    <3>1. saver'[t] = save
      BY <1>3 DEF IInv, TypeOK
    <3> QED  BY <2>1, <3>1, <1>1 DEF IInv, GoodEverywhere
  <2>2. CASE u # t
    <3>1. saver'[u] = saver[u]
      BY <1>3, <2>2 DEF IInv, TypeOK
    <3> QED  BY <3>1, <1>6, Zenon DEF IInv, GoodEverywhere
  <2> QED  BY <2>1, <2>2
<1>7. Good(orders') /\ UNCHANGED <<disk, tmp>>
  BY DEF Snapshot, IInv, GoodEverywhere, memory
<1>8. GoodEverywhere'
  BY <1>6, <1>7, Zenon DEF IInv, GoodEverywhere
<1> QED  BY <1>5, <1>8 DEF IInv

LEMMA WriteTmpInvariant ==
    ASSUME IInv, NEW t \in Savers, WriteTmp(t)
    PROVE  IInv'
<1> DEFINE save == [saver[t] EXCEPT !.written = TRUE]
<1>1. saver[t] \in [image : Images, written : BOOLEAN] /\ Good(saver[t].image.orders)
  BY DEF WriteTmp, IInv, TypeOK, GoodEverywhere
<1>2. save \in [image : Images, written : BOOLEAN] /\ save.image = saver[t].image
  BY <1>1
<1>3. saver' = [saver EXCEPT ![t] = save]
  BY DEF WriteTmp
<1> HIDE DEF save
<1>4. saver' \in [Savers -> [image : Images, written : BOOLEAN] \union {Nothing}]
  BY <1>2, <1>3 DEF IInv, TypeOK
<1>5. tmp' = saver[t].image /\ tmp' \in Images
  BY <1>1 DEF WriteTmp
<1>6. TypeOK'
  BY <1>4, <1>5 DEF WriteTmp, IInv, TypeOK, memory
<1>7. ASSUME NEW u \in Savers, saver'[u] # Nothing PROVE Good(saver'[u].image.orders)
  <2>1. CASE u = t
    <3>1. saver'[t] = save
      BY <1>3 DEF IInv, TypeOK
    <3> QED  BY <2>1, <3>1, <1>1, <1>2
  <2>2. CASE u # t
    <3>1. saver'[u] = saver[u]
      BY <1>3, <2>2 DEF IInv, TypeOK
    <3> QED  BY <3>1, <1>7, Zenon DEF IInv, GoodEverywhere
  <2> QED  BY <2>1, <2>2
<1>8. Good(orders') /\ UNCHANGED disk /\ Good(tmp'.orders)
  BY <1>1, <1>5 DEF WriteTmp, IInv, GoodEverywhere, memory
<1>9. GoodEverywhere'
  BY <1>7, <1>8, Zenon DEF IInv, GoodEverywhere
<1> QED  BY <1>6, <1>9 DEF IInv

LEMMA ReplaceInvariant ==
    ASSUME IInv, NEW t \in Savers, Replace(t)
    PROVE  IInv'
<1>1. saver' = [saver EXCEPT ![t] = Nothing] /\ tmp' = Nothing
  BY DEF Replace
<1>2. saver' \in [Savers -> [image : Images, written : BOOLEAN] \union {Nothing}]
  BY <1>1 DEF IInv, TypeOK
<1>3. /\ disk' \in Images \union {Nothing} /\ (disk' # Nothing => Good(disk'.orders))
      /\ kept' \in SUBSET WorkOrders
  BY DEF Replace, IInv, TypeOK, GoodEverywhere, OrdersIn
<1>4. TypeOK'
  BY <1>1, <1>2, <1>3 DEF Replace, IInv, TypeOK, memory
<1>5. ASSUME NEW u \in Savers, saver'[u] # Nothing PROVE Good(saver'[u].image.orders)
  <2>1. saver'[u] = saver[u]
    BY <1>1, <1>5 DEF IInv, TypeOK
  <2> QED  BY <2>1, <1>5, Zenon DEF IInv, GoodEverywhere
<1>6. Good(orders')
  BY DEF Replace, IInv, GoodEverywhere, memory
<1>7. GoodEverywhere'
  BY <1>1, <1>3, <1>5, <1>6, Zenon DEF GoodEverywhere
<1> QED  BY <1>4, <1>7 DEF IInv

LEMMA RestartInvariant ==
    ASSUME IInv, Restart
    PROVE  IInv'
<1> DEFINE image == IF disk = Nothing THEN Fresh ELSE Restored(disk)
<1>1. image \in Images /\ Good(image.orders)
  <2>1. CASE disk = Nothing
    BY <2>1, FreshGood
  <2>2. CASE disk # Nothing
    <3>1. disk \in Images /\ Good(disk.orders)
      BY <2>2 DEF IInv, TypeOK, GoodEverywhere
    <3>2. Restored(disk) \in Images /\ Restored(disk).orders = disk.orders
      BY <3>1 DEF Restored, Images, Decisions
    <3> QED  BY <2>2, <3>1, <3>2
  <2> QED  BY <2>1, <2>2
<1>2. decision' = image.decision /\ orders' = image.orders /\ revoked' = image.revoked
  BY DEF Restart
<1> HIDE DEF image
<1>3. /\ decision' \in Decisions /\ orders' \in [WorkOrders -> Orders]
      /\ revoked' \in SUBSET Coders /\ Good(orders')
  BY <1>1, <1>2 DEF Images
<1>4. TypeOK'
  BY <1>3 DEF Restart, IInv, TypeOK
<1>5. GoodEverywhere'
  BY <1>3 DEF Restart, IInv, GoodEverywhere
<1> QED  BY <1>4, <1>5 DEF IInv

\* The inductive invariant: types, and sound orders in the coordinator and in
\* every image of it.
THEOREM CompanyInvariant == Spec => []IInv
<1>1. ASSUME IInv, [Next]_vars PROVE IInv'
  <2>1. CASE UNCHANGED vars
    BY <1>1, <2>1 DEF vars, IInv, TypeOK, GoodEverywhere
  <2>2. CASE Next
    BY <1>1, <2>2, OperationInvariant, SnapshotInvariant, WriteTmpInvariant,
       ReplaceInvariant, RestartInvariant, Zenon DEF Next
  <2> QED  BY <1>1, <2>1, <2>2
<1> QED  BY InitInvariant, <1>1, PTL DEF Spec

\* The coordinator, its file and its saves keep their types.
THEOREM CompanyTypes == Spec => []TypeOK
<1>1. IInv => TypeOK
  BY DEF IInv
<1> QED  BY <1>1, CompanyInvariant, PTL

\* create_work_order and plan_work_order: two orders with one fingerprint are
\* never both open, for any number of orders and across restarts.
THEOREM CompanyNoDuplicates == Spec => []OneOpenPerTitle
<1>1. IInv => OneOpenPerTitle
  BY DEF IInv, GoodEverywhere, Good, OneOpenPerTitle
<1> QED  BY <1>1, CompanyInvariant, PTL

\* quality_gate, the deployment gates and release: what is released was reviewed
\* in its last checkpoint and approved.
THEOREM CompanyReview == Spec => []ReleasedIsReviewed
<1>1. IInv => ReleasedIsReviewed
  BY DEF IInv, GoodEverywhere, Good, Sound, ReleasedIsReviewed
<1> QED  BY <1>1, CompanyInvariant, PTL

\* assign_agent and submit_checkpoint: an order that waits for review has the
\* checkpoint of its owner.
THEOREM CompanyOwnership == Spec => []CheckpointIsOwners
<1>1. IInv => CheckpointIsOwners
  BY DEF IInv, GoodEverywhere, Good, Sound, CheckpointIsOwners
<1> QED  BY <1>1, CompanyInvariant, PTL

-----------------------------------------------------------------------------
(* Saves, with one thread that saves at a time.                             *)

OneSaver == \A s, t \in Savers : s = t

Known == {w \in WorkOrders : orders[w].st # "none"}
Filed == IF disk = Nothing THEN {} ELSE OrdersIn(disk)

\* What the file has, a save in progress has; what that has, the coordinator has.
SavesLag ==
    /\ kept \subseteq Filed
    /\ Filed \subseteq Known
    /\ \A t \in Savers : saver[t] # Nothing =>
          /\ Filed \subseteq OrdersIn(saver[t].image)
          /\ OrdersIn(saver[t].image) \subseteq Known
          /\ saver[t].written => tmp = saver[t].image

\* No operation forgets an order.
LEMMA OperationRemembers ==
    ASSUME TypeOK, Operation
    PROVE  Known \subseteq Known'
<1> SUFFICES ASSUME NEW v \in WorkOrders, orders[v].st # "none"
             PROVE  orders'[v].st # "none"
  BY DEF Known
<1>1. orders \in [WorkOrders -> Orders] /\ orders[v] \in Orders
  BY DEF TypeOK
<1>2. ASSUME NEW w \in WorkOrders, NEW o, Becomes(w, o), o.st # "none"
      PROVE  orders'[v].st # "none"
  BY <1>1, <1>2 DEF Becomes
<1>3. ASSUME NEW w \in WorkOrders, NEW o, Becomes(w, o), o.st = orders[w].st
      PROVE  orders'[v].st # "none"
  BY <1>2, <1>3 DEF Becomes
<1>4. ASSUME NEW w \in WorkOrders, NEW status \in Status, Transition(w, status),
             status # "none"
      PROVE  orders'[v].st # "none"
  <2>1. orders[w] \in Orders
    BY DEF TypeOK
  <2>2. [orders[w] EXCEPT !.st = status].st # "none"
    BY <2>1, <1>4 DEF Orders
  <2> QED  BY <1>2, <1>4, <2>2 DEF Transition
<1>5. ASSUME NEW status \in DecisionStatus, MakeDecision(status)
      PROVE  orders'[v].st # "none"
  BY <1>1, <1>5 DEF MakeDecision, Orders
<1>6. ASSUME NEW w \in WorkOrders, NEW title, NEW status, NEW required,
             Register(w, title, status, required)
      PROVE  orders'[v].st # "none"
  BY <1>1, <1>6 DEF Register
<1>7. ASSUME NEW w \in WorkOrders,
             \/ AddPlan(w) \/ MarkFailed(w) \/ Reject(w) \/ Cancel(w)
             \/ \E human \in BOOLEAN : Resume(w, human)
             \/ DeploymentGate(w) \/ RunDeploymentCheck(w) \/ Release(w)
      PROVE  orders'[v].st # "none"
  BY <1>4, <1>7 DEF AddPlan, MarkFailed, Reject, Cancel, Resume, DeploymentGate,
     RunDeploymentCheck, Release, Status
<1>8. ASSUME NEW w \in WorkOrders, ApproveWorkOrder(w) \/ ApproveDeployment(w)
      PROVE  orders'[v].st # "none"
  <2>1. orders[w] \in Orders
    BY DEF TypeOK
  <2> QED  BY <1>3, <1>8, <2>1 DEF ApproveWorkOrder, ApproveDeployment, Orders
<1>9. ASSUME NEW w \in WorkOrders, NEW c \in Coders, AcquireLease(w, c) \/ ReleaseLease(w, c)
      PROVE  orders'[v].st # "none"
  <2>1. orders[w] \in Orders
    BY DEF TypeOK
  <2> QED  BY <1>3, <1>9, <2>1 DEF AcquireLease, ReleaseLease, Orders
<1>10. ASSUME NEW w \in WorkOrders, NEW c \in Coders, SubmitCheckpoint(w, c)
      PROVE  orders'[v].st # "none"
  BY <1>1, <1>10 DEF SubmitCheckpoint, Becomes, Orders
<1>11. ASSUME NEW w \in WorkOrders, NEW verdict \in {"pass", "fail"}, QualityGate(w, verdict)
      PROVE  orders'[v].st # "none"
  BY <1>1, <1>11 DEF QualityGate, Becomes, Orders
<1>12. ASSUME NEW w \in WorkOrders, NEW c \in Coders, AssignAgent(w, c)
      PROVE  orders'[v].st # "none"
  BY <1>1, <1>12 DEF AssignAgent, Becomes, Orders
<1>13. ASSUME NEW c \in Coders, RevokeRole(c) PROVE orders'[v].st # "none"
  BY <1>13 DEF RevokeRole
<1> QED
  BY <1>5, <1>6, <1>7, <1>8, <1>9, <1>10, <1>11, <1>12, <1>13, Zenon
     DEF Operation, CreateWorkOrder, PlanWorkOrder

LEMMA OperationLag ==
    ASSUME TypeOK, SavesLag, Operation, UNCHANGED files
    PROVE  SavesLag'
<1>1. Known \subseteq Known'
  BY OperationRemembers
<1>2. UNCHANGED <<disk, tmp, saver, kept>> /\ Filed' = Filed
  BY DEF files, Filed, OrdersIn
<1> QED  BY <1>1, <1>2 DEF SavesLag, OrdersIn

LEMMA SnapshotLag ==
    ASSUME TypeOK, SavesLag, NEW t \in Savers, Snapshot(t)
    PROVE  SavesLag'
<1>1. UNCHANGED <<disk, tmp, kept>> /\ Known' = Known /\ Filed' = Filed
  BY DEF Snapshot, memory, Known, Filed, OrdersIn
<1>2. ASSUME NEW u \in Savers, saver'[u] # Nothing
      PROVE  /\ Filed' \subseteq OrdersIn(saver'[u].image)
             /\ OrdersIn(saver'[u].image) \subseteq Known'
             /\ saver'[u].written => tmp' = saver'[u].image
  <2>1. CASE u = t
    <3>1. saver'[t].image.orders = orders /\ saver'[t].written = FALSE
      BY DEF Snapshot, TypeOK
    <3>2. OrdersIn(saver'[t].image) = Known
      BY <3>1 DEF OrdersIn, Known
    <3> QED  BY <2>1, <3>1, <3>2, <1>1 DEF SavesLag
  <2>2. CASE u # t
    <3>1. saver'[u] = saver[u]
      BY <2>2 DEF Snapshot, TypeOK
    <3>2. /\ Filed \subseteq OrdersIn(saver[u].image)
          /\ OrdersIn(saver[u].image) \subseteq Known
          /\ saver[u].written => tmp = saver[u].image
      BY <3>1, <1>2 DEF SavesLag
    <3> QED  BY <3>1, <3>2, <1>1
  <2> QED  BY <2>1, <2>2
<1>3. kept' \subseteq Filed' /\ Filed' \subseteq Known'
  BY <1>1 DEF SavesLag
<1> QED  BY <1>2, <1>3, Zenon DEF SavesLag, OrdersIn

LEMMA WriteTmpLag ==
    ASSUME OneSaver, TypeOK, SavesLag, NEW t \in Savers, WriteTmp(t)
    PROVE  SavesLag'
<1>1. UNCHANGED <<disk, kept>> /\ Known' = Known /\ Filed' = Filed
  BY DEF WriteTmp, memory, Known, Filed, OrdersIn
<1>2. saver[t] \in [image : Images, written : BOOLEAN] /\ saver[t] # Nothing
  BY DEF WriteTmp, TypeOK
<1>3. saver'[t].image = saver[t].image /\ tmp' = saver[t].image
  BY <1>2 DEF WriteTmp, TypeOK
<1>4. \A u \in Savers : u = t
  BY DEF OneSaver
<1>5. Filed \subseteq OrdersIn(saver[t].image) /\ OrdersIn(saver[t].image) \subseteq Known
  BY <1>2, Zenon DEF SavesLag
<1>6. kept' \subseteq Filed' /\ Filed' \subseteq Known'
  BY <1>1 DEF SavesLag
<1> QED  BY <1>1, <1>3, <1>4, <1>5, <1>6 DEF SavesLag, OrdersIn

LEMMA ReplaceLag ==
    ASSUME OneSaver, TypeOK, SavesLag, NEW t \in Savers, Replace(t)
    PROVE  SavesLag'
<1>1. /\ saver[t] # Nothing /\ Known' = Known /\ tmp = saver[t].image
      /\ Filed \subseteq OrdersIn(saver[t].image) /\ OrdersIn(saver[t].image) \subseteq Known
  BY DEF Replace, SavesLag, memory, Known
<1>2. \A u \in Savers : saver'[u] = Nothing
  BY DEF Replace, OneSaver, TypeOK
<1>3. CASE tmp = Nothing
  <2>1. kept' = kept /\ Filed' = Filed
    BY <1>3 DEF Replace, Filed, OrdersIn
  <2> QED  BY <1>1, <1>2, <2>1 DEF SavesLag
<1>4. CASE tmp # Nothing
  <2>1. Filed' = OrdersIn(saver[t].image) /\ kept' = kept \union OrdersIn(saver[t].image)
    BY <1>1, <1>4 DEF Replace, Filed, OrdersIn
  <2> QED  BY <1>1, <1>2, <2>1 DEF SavesLag
<1> QED  BY <1>3, <1>4

LEMMA RestartLag ==
    ASSUME TypeOK, SavesLag, Restart
    PROVE  SavesLag'
<1>1. kept' = kept /\ Filed' = Filed /\ \A u \in Savers : saver'[u] = Nothing
  BY DEF Restart, Filed, OrdersIn
<1>2. Filed \subseteq Known'
  <2>1. CASE disk = Nothing
    BY <2>1 DEF Filed
  <2>2. CASE disk # Nothing
    <3>1. disk \in Images
      BY <2>2 DEF TypeOK
    <3>2. orders' = disk.orders
      BY <2>2, <3>1 DEF Restart, Restored, Images
    <3> QED  BY <2>2, <3>2 DEF Filed, OrdersIn, Known
  <2> QED  BY <2>1, <2>2
<1> QED  BY <1>1, <1>2 DEF SavesLag

\* save and load: with one thread that saves, no order of a completed save is
\* missing from the file, or from a coordinator that was started from it.
THEOREM CompanyDurability == ASSUME OneSaver PROVE Spec => []NothingSavedIsLost
<1>1. Init => SavesLag
  BY DEF Init, SavesLag, Filed, Known
<1>2. ASSUME SavesLag, TypeOK, [Next]_vars PROVE SavesLag'
  <2>1. CASE UNCHANGED vars
    BY <1>2, <2>1 DEF vars, SavesLag, Filed, Known, OrdersIn
  <2>2. ASSUME Operation PROVE UNCHANGED files
    BY <2>2 DEF Operation, MakeDecision, CreateWorkOrder, PlanWorkOrder, Register,
       RevokeRole, AddPlan, MarkFailed, Reject, Cancel, Resume, DeploymentGate,
       RunDeploymentCheck, Release, ApproveWorkOrder, ApproveDeployment, AssignAgent,
       AcquireLease, ReleaseLease, SubmitCheckpoint, QualityGate, Transition, Becomes
  <2>3. CASE Next
    BY <1>2, <2>2, <2>3, OperationLag, SnapshotLag, WriteTmpLag, ReplaceLag, RestartLag,
       Zenon DEF Next
  <2> QED  BY <1>2, <2>1, <2>3
<1>3. SavesLag => NothingSavedIsLost
  BY DEF SavesLag, Filed, Known, OrdersIn, NothingSavedIsLost
<1> QED  BY <1>1, <1>2, <1>3, CompanyTypes, PTL DEF Spec
=============================================================================
