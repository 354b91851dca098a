----------------------- MODULE Recommendations_proofs -----------------------
(***************************************************************************)
(* Theorems about Recommendations, for any number of recommendations,      *)
(* plants, fields, handlers and any settings.                              *)
(***************************************************************************)
EXTENDS Recommendations, TLAPS

-----------------------------------------------------------------------------
(* Type correctness.                                                       *)

\* An idle slot is a well-formed request.
LEMMA IdleType == IdleReq \in Requests
BY DEF IdleReq, Requests, Columns, NoRow, Ops, Args, Statuses, Modes, Sources

\* Starting a request whose operation and decision fit together keeps req typed.
LEMMA BeginType ==
  ASSUME TypeOK, NEW h \in Handlers, NEW r \in Recs, NEW o \in Ops, NEW a \in Args,
         o = "feedback" => a \in {"accepted", "rejected"},
         o \in {"apply", "write", "record", "refuse"} => a \in {"dry_run", "live"},
         o = "impact" => a \in {"history", "estimate"},
         Begin(h, o, r, a)
  PROVE  req' \in [Handlers -> Requests]
<1>1. [op |-> o, rec |-> r, arg |-> a, todo |-> {}, batch |-> {},
       seen |-> [status |-> status[r], mode |-> mode[r], realized |-> realized[r]]]
        \in Requests
  BY DEF TypeOK, Requests, Columns
<1>. QED  BY <1>1 DEF TypeOK, Begin

\* Ending a request keeps req typed.
LEMMA FinishType ==
  ASSUME TypeOK, NEW h \in Handlers, Finish(h)
  PROVE  req' \in [Handlers -> Requests]
BY IdleType DEF TypeOK, Finish

\* What the fields of an in-flight request range over.
LEMMA RequestType ==
  ASSUME TypeOK, NEW h \in Handlers
  PROVE  /\ req[h] \in Requests
         /\ req[h].op \notin {"idle", "created"} => req[h].rec \in Recs
         /\ req[h].seen \in Columns
         /\ req[h].todo \subseteq Fields
         /\ req[h].batch \subseteq Recs
         /\ req[h].op = "feedback" => req[h].arg \in {"accepted", "rejected"}
         /\ req[h].op \in {"apply", "write", "record", "refuse"}
              => req[h].arg \in {"dry_run", "live"}
         /\ req[h].op = "impact" => req[h].arg \in {"history", "estimate"}
BY DEF TypeOK, Requests

\* Appending an event keeps the trails typed.
LEMMA TrailType ==
  ASSUME TypeOK, NEW r \in Recs, NEW t, NEW m, [type |-> t, mode |-> m] \in Events,
         Trail(r, t, m)
  PROVE  audit' \in [Recs -> Seq(Events)]
<1>1. Append(audit[r], [type |-> t, mode |-> m]) \in Seq(Events)
  BY DEF TypeOK
<1>. QED  BY <1>1 DEF Trail, TypeOK

LEMMA InitType == Init => TypeOK
BY IdleType DEF Init, TypeOK, Statuses, Modes, Sources

LEMMA QueueType ==
  ASSUME TypeOK, NEW h \in Handlers, Queue(h)
  PROVE  TypeOK'
<1>1. ASSUME NEW batch \in SUBSET Recs, NEW simulated \in BOOLEAN,
             PersistRows(h, batch, simulated)
      PROVE  TypeOK'
  <2>1. [IdleReq EXCEPT !.op = "created", !.batch = batch] \in Requests
    BY DEF IdleReq, Requests, Columns, NoRow, Ops, Args, Statuses, Modes, Sources
  <2>2. req' \in [Handlers -> Requests]
    BY <1>1, <2>1 DEF PersistRows, TypeOK
  <2>. QED  BY <1>1, <2>2 DEF PersistRows, TypeOK, Statuses
<1>2. ASSUME AuditCreated(h) PROVE TypeOK'
  <2>. DEFINE next(r) == IF req[h].batch \ {r} = {} THEN IdleReq
                          ELSE [req[h] EXCEPT !.batch = req[h].batch \ {r}]
  <2>1. PICK r \in req[h].batch :
          Trail(r, "created", "none") /\ req' = [req EXCEPT ![h] = next(r)]
    BY <1>2 DEF AuditCreated
  <2>2. r \in Recs
    BY RequestType
  <2>3. audit' \in [Recs -> Seq(Events)]
    BY <2>1, <2>2, TrailType DEF Events, Modes
  <2>4. [req[h] EXCEPT !.batch = req[h].batch \ {r}] \in Requests
    BY RequestType DEF Requests
  <2>5. next(r) \in Requests
    BY <2>4, IdleType
  <2>6. req' \in [Handlers -> Requests]
    <3>. HIDE DEF next
    <3>. QED  BY <2>1, <2>5 DEF TypeOK
  <2>. QED  BY <1>2, <2>3, <2>6 DEF AuditCreated, row, TypeOK
<1>. QED  BY <1>1, <1>2 DEF Queue

LEMMA DecideType ==
  ASSUME TypeOK, NEW h \in Handlers, Decide(h)
  PROVE  TypeOK'
<1>1. ASSUME NEW r \in Recs, NEW d \in {"accepted", "rejected"}, SubmitFeedback(h, r, d)
      PROVE  TypeOK'
  <2>1. req' \in [Handlers -> Requests]
    BY <1>1, BeginType DEF SubmitFeedback, Args, Ops
  <2>. QED  BY <1>1, <2>1 DEF SubmitFeedback, row, TypeOK
<1>2. ASSUME CommitFeedback(h) PROVE TypeOK'
  <2>1. req[h].rec \in Recs /\ req[h].arg \in {"accepted", "rejected"}
    BY <1>2, RequestType DEF CommitFeedback
  <2>2. status' \in [Recs -> Statuses]
    BY <1>2, <2>1 DEF CommitFeedback, Assigned, TypeOK, Statuses
  <2>3. resolved' \in [Recs -> BOOLEAN]
    BY <1>2, <2>1 DEF CommitFeedback, TypeOK
  <2>4. audit' \in [Recs -> Seq(Events)]
    BY <1>2, <2>1, TrailType DEF CommitFeedback, Events, Modes
  <2>. QED  BY <1>2, <2>2, <2>3, <2>4, FinishType DEF CommitFeedback, TypeOK
<1>3. ASSUME NEW r \in Recs, Approve(h, r) PROVE TypeOK'
  <2>1. req' \in [Handlers -> Requests]
    BY <1>3, BeginType DEF Approve, Args, Ops
  <2>. QED  BY <1>3, <2>1 DEF Approve, row, TypeOK
<1>4. ASSUME CommitApprove(h) PROVE TypeOK'
  <2>1. req[h].rec \in Recs
    BY <1>4, RequestType DEF CommitApprove
  <2>2. status' \in [Recs -> Statuses]
    BY <1>4, <2>1 DEF CommitApprove, Assigned, TypeOK, Statuses
  <2>3. audit' \in [Recs -> Seq(Events)]
    BY <1>4, <2>1, TrailType DEF CommitApprove, Events, Modes
  <2>. QED  BY <1>4, <2>2, <2>3, FinishType DEF CommitApprove, TypeOK
<1>. QED  BY <1>1, <1>2, <1>3, <1>4 DEF Decide

LEMMA ApplyType ==
  ASSUME TypeOK, NEW h \in Handlers, Apply(h)
  PROVE  TypeOK'
<1>1. ASSUME NEW r \in Recs, NEW m \in {"dry_run", "live"}, ApplyRequest(h, r, m)
      PROVE  TypeOK'
  <2>1. req' \in [Handlers -> Requests]
    BY <1>1, BeginType DEF ApplyRequest, Args, Ops, Modes
  <2>. QED  BY <1>1, <2>1 DEF ApplyRequest, row, TypeOK
<1>2. ASSUME RefuseWrite(h) \/ DryRun(h) \/ Disconnect(h) PROVE TypeOK'
  <2>1. req[h].op \in {"apply", "write"}
    BY <1>2 DEF RefuseWrite, DryRun, Disconnect
  <2>2. \A o \in {"refuse", "record"} : [req[h] EXCEPT !.op = o] \in Requests
    BY <2>1, RequestType DEF Requests, Ops
  <2>3. req' \in [Handlers -> Requests]
    BY <1>2, <2>2 DEF RefuseWrite, DryRun, Disconnect, TypeOK
  <2>. QED  BY <1>2, <2>3 DEF RefuseWrite, DryRun, Disconnect, row, TypeOK
<1>3. ASSUME CommitRefused(h) PROVE TypeOK'
  <2>1. req[h].rec \in Recs /\ req[h].arg \in {"dry_run", "live"}
    BY <1>3, RequestType DEF CommitRefused
  <2>2. status' \in [Recs -> Statuses]
    BY <1>3, <2>1 DEF CommitRefused, Assigned, TypeOK, Statuses
  <2>3. audit' \in [Recs -> Seq(Events)]
    BY <1>3, <2>1, TrailType DEF CommitRefused, Events, Modes
  <2>. QED  BY <1>3, <2>2, <2>3, FinishType DEF CommitRefused, TypeOK
<1>4. ASSUME Connect(h) PROVE TypeOK'
  <2>1. req[h].rec \in Recs
    BY <1>4, RequestType DEF Connect
  <2>2. Planned(req[h].rec) \subseteq Fields
    BY <2>1, RecsAssumption DEF Planned, TypeOK
  <2>3. [req[h] EXCEPT !.op = "write", !.todo = Planned(req[h].rec)] \in Requests
    BY <1>4, <2>2, RequestType DEF Connect, Requests, Ops
  <2>4. req' \in [Handlers -> Requests]
    BY <1>4, <2>3 DEF Connect, TypeOK
  <2>. QED  BY <1>4, <2>4 DEF Connect, row, TypeOK
<1>5. ASSUME WriteNode(h) PROVE TypeOK'
  <2>1. PICK f \in req[h].todo :
          /\ setpoint' = [setpoint EXCEPT ![<<PlantOf[req[h].rec], f>>] = req[h].rec]
          /\ req' = [req EXCEPT ![h].todo = @ \ {f}]
    BY <1>5 DEF WriteNode
  <2>2. req[h].rec \in Recs
    BY <1>5, RequestType DEF WriteNode
  <2>3. setpoint' \in [Plants \X Fields -> Recs \cup {NoRec}]
    BY <2>1, <2>2 DEF TypeOK
  <2>4. [req[h] EXCEPT !.todo = @ \ {f}] \in Requests
    BY RequestType DEF Requests
  <2>5. req' \in [Handlers -> Requests]
    BY <2>1, <2>4 DEF TypeOK
  <2>. QED  BY <1>5, <2>3, <2>5 DEF WriteNode, row, TypeOK
<1>6. ASSUME CommitApplied(h) PROVE TypeOK'
  <2>1. req[h].rec \in Recs /\ req[h].arg \in {"dry_run", "live"}
    BY <1>6, RequestType DEF CommitApplied
  <2>2. status' \in [Recs -> Statuses]
    BY <1>6, <2>1 DEF CommitApplied, Assigned, TypeOK, Statuses
  <2>3. /\ mode' \in [Recs -> Modes]
        /\ resolved' \in [Recs -> BOOLEAN]
    BY <1>6, <2>1 DEF CommitApplied, Assigned, TypeOK, Modes
  <2>4. audit' \in [Recs -> Seq(Events)]
    BY <1>6, <2>1, TrailType DEF CommitApplied, Events, Modes
  <2>. QED  BY <1>6, <2>2, <2>3, <2>4, FinishType DEF CommitApplied, TypeOK
<1>. QED  BY <1>1, <1>2, <1>3, <1>4, <1>5, <1>6 DEF Apply

LEMMA ObserveType ==
  ASSUME TypeOK, NEW h \in Handlers, Observe(h)
  PROVE  TypeOK'
<1>1. ASSUME NEW r \in Recs, Simulate(h, r) PROVE TypeOK'
  <2>1. req' \in [Handlers -> Requests]
    BY <1>1, BeginType DEF Simulate, Args, Ops
  <2>. QED  BY <1>1, <2>1 DEF Simulate, row, TypeOK
<1>2. ASSUME CommitSimulate(h) PROVE TypeOK'
  <2>1. sim' \in [Recs -> BOOLEAN]
    BY <1>2, RequestType DEF CommitSimulate, TypeOK
  <2>. QED  BY <1>2, <2>1, FinishType DEF CommitSimulate, TypeOK
<1>3. ASSUME NEW r \in Recs, NEW source \in {"history", "estimate"},
             MeasureImpact(h, r, source)
      PROVE  TypeOK'
  <2>1. req' \in [Handlers -> Requests]
    BY <1>3, BeginType DEF MeasureImpact, Args, Ops, Sources
  <2>. QED  BY <1>3, <2>1 DEF MeasureImpact, row, TypeOK
<1>4. ASSUME CommitImpact(h) PROVE TypeOK'
  <2>1. req[h].rec \in Recs /\ req[h].arg \in {"history", "estimate"}
    BY <1>4, RequestType DEF CommitImpact
  <2>2. realized' \in [Recs -> Sources]
    BY <1>4, <2>1 DEF CommitImpact, Assigned, TypeOK, Sources
  <2>3. audit' \in [Recs -> Seq(Events)]
    BY <1>4, <2>1, TrailType DEF CommitImpact, Events, Modes
  <2>. QED  BY <1>4, <2>2, <2>3, FinishType DEF CommitImpact, TypeOK
<1>. QED  BY <1>1, <1>2, <1>3, <1>4 DEF Observe

LEMMA NextType == TypeOK /\ [Next]_vars => TypeOK'
<1>. SUFFICES ASSUME TypeOK, [Next]_vars PROVE TypeOK'
  OBVIOUS
<1>1. ASSUME NEW h \in Handlers, Abort(h) PROVE TypeOK'
  BY <1>1, FinishType DEF Abort, row, TypeOK
<1>2. CASE UNCHANGED vars
  BY <1>2 DEF vars, TypeOK
<1>. QED  BY <1>1, <1>2, QueueType, DecideType, ApplyType, ObserveType DEF Next

\* Rows, trails, the plant's nodes and the in-flight requests keep their types.
THEOREM TypeCorrect == Spec => []TypeOK
<1>. QED  BY InitType, NextType, PTL DEF Spec

-----------------------------------------------------------------------------
(* Trails only grow.                                                       *)

\* What is on a trail stays where it is.
TrailsGrow ==
  \A r \in Recs : \A i \in DOMAIN audit[r] :
    i \in DOMAIN audit'[r] /\ audit'[r][i] = audit[r][i]

\* Appending puts the event last and keeps the others.
LEMMA TrailAppends ==
  ASSUME TypeOK, NEW r \in Recs, NEW t, NEW m, [type |-> t, mode |-> m] \in Events,
         Trail(r, t, m)
  PROVE  /\ TrailsGrow
         /\ Len(audit[r]) \in Nat
         /\ DOMAIN audit[r] = 1 .. Len(audit[r])
         /\ DOMAIN audit'[r] = 1 .. Len(audit[r]) + 1
         /\ audit'[r][Len(audit[r]) + 1] = [type |-> t, mode |-> m]
         /\ \A s \in Recs \ {r} : audit'[s] = audit[s]
<1>1. audit[r] \in Seq(Events)
  BY DEF TypeOK
<1>2. audit'[r] = Append(audit[r], [type |-> t, mode |-> m])
  BY DEF Trail, TypeOK
<1>3. \A s \in Recs \ {r} : audit'[s] = audit[s]
  BY DEF Trail, TypeOK
<1>4. /\ Len(audit[r]) \in Nat
      /\ DOMAIN audit[r] = 1 .. Len(audit[r])
      /\ DOMAIN audit'[r] = 1 .. Len(audit[r]) + 1
      /\ audit'[r][Len(audit[r]) + 1] = [type |-> t, mode |-> m]
      /\ \A i \in 1 .. Len(audit[r]) : audit'[r][i] = audit[r][i]
  BY <1>1, <1>2
<1>. QED  BY <1>3, <1>4 DEF TrailsGrow

\* The commits, and the event each puts on the trail of its row.
LEMMA CommitTrails ==
  ASSUME TypeOK, NEW h \in Handlers
  PROVE  /\ AuditCreated(h) => \E r \in Recs : Trail(r, "created", "none")
         /\ CommitFeedback(h) => Trail(req[h].rec, req[h].arg, "none")
         /\ CommitApprove(h)  => Trail(req[h].rec, "approved", "none")
         /\ CommitRefused(h)  => Trail(req[h].rec, "apply_failed", req[h].arg)
         /\ CommitApplied(h)  => Trail(req[h].rec, "applied", req[h].arg)
         /\ CommitImpact(h)   => Trail(req[h].rec, "impact", "none")
BY RequestType DEF AuditCreated, CommitFeedback, CommitApprove, CommitRefused,
     CommitApplied, CommitImpact

\* Every other step leaves the trails alone.
LEMMA OtherTrails ==
  ASSUME NEW h \in Handlers, Queue(h) \/ Decide(h) \/ Apply(h) \/ Observe(h) \/ Abort(h)
  PROVE  \/ audit' = audit
         \/ AuditCreated(h) \/ CommitFeedback(h) \/ CommitApprove(h)
         \/ CommitRefused(h) \/ CommitApplied(h) \/ CommitImpact(h)
BY DEF Queue, Decide, Apply, Observe, PersistRows, SubmitFeedback, Approve, ApplyRequest,
       RefuseWrite, DryRun, Connect, WriteNode, Disconnect, Simulate, CommitSimulate,
       MeasureImpact, Abort

LEMMA NextTrails ==
  ASSUME TypeOK, NEW h \in Handlers,
         Queue(h) \/ Decide(h) \/ Apply(h) \/ Observe(h) \/ Abort(h)
  PROVE  TrailsGrow
<1>1. CASE audit' = audit
  BY <1>1 DEF TrailsGrow
<1>2. CASE AuditCreated(h)
  BY <1>2, CommitTrails, TrailAppends DEF Events, Modes
<1>3. CASE CommitFeedback(h)
  <2>1. req[h].rec \in Recs /\ req[h].arg \in {"accepted", "rejected"}
    BY <1>3, RequestType DEF CommitFeedback
  <2>. QED  BY <1>3, <2>1, CommitTrails, TrailAppends DEF Events, Modes
<1>4. CASE CommitApprove(h) \/ CommitImpact(h)
  <2>1. req[h].rec \in Recs
    BY <1>4, RequestType DEF CommitApprove, CommitImpact
  <2>. QED  BY <1>4, <2>1, CommitTrails, TrailAppends DEF Events, Modes
<1>5. CASE CommitRefused(h) \/ CommitApplied(h)
  <2>1. req[h].rec \in Recs /\ req[h].arg \in {"dry_run", "live"}
    BY <1>5, RequestType DEF CommitRefused, CommitApplied
  <2>. QED  BY <1>5, <2>1, CommitTrails, TrailAppends DEF Events, Modes
<1>. QED  BY <1>1, <1>2, <1>3, <1>4, <1>5, OtherTrails

\* So what a trail has shown once it shows for good.
LEMMA EventsStay ==
  ASSUME TrailsGrow, NEW r \in Recs, NEW t, NEW u
  PROVE  /\ HasEvent(r, t) => HasEvent(r, t)'
         /\ HasInOrder(r, t, u) => HasInOrder(r, t, u)'
BY DEF TrailsGrow, HasEvent, HasInOrder

\* An event just appended is there, after every earlier one.
LEMMA EventAppended ==
  ASSUME TypeOK, NEW r \in Recs, NEW t, NEW m, [type |-> t, mode |-> m] \in Events,
         Trail(r, t, m)
  PROVE  /\ HasEvent(r, t)'
         /\ \A u : HasEvent(r, u) => HasInOrder(r, u, t)'
<1>1. /\ Len(audit[r]) \in Nat
      /\ DOMAIN audit[r] = 1 .. Len(audit[r])
      /\ DOMAIN audit'[r] = 1 .. Len(audit[r]) + 1
      /\ audit'[r][Len(audit[r]) + 1].type = t
      /\ \A i \in DOMAIN audit[r] : audit'[r][i] = audit[r][i]
  BY TrailAppends DEF TrailsGrow
<1>2. HasEvent(r, t)'
  BY <1>1 DEF HasEvent
<1>3. ASSUME NEW u, HasEvent(r, u) PROVE HasInOrder(r, u, t)'
  <2>1. PICK i \in DOMAIN audit[r] : audit[r][i].type = u
    BY <1>3 DEF HasEvent
  <2>2. /\ i \in DOMAIN audit'[r] /\ audit'[r][i].type = u
        /\ i < Len(audit[r]) + 1
    BY <1>1, <2>1
  <2>3. Len(audit[r]) + 1 \in DOMAIN audit'[r]
    BY <1>1
  <2>. QED  BY <1>1, <2>2, <2>3 DEF HasInOrder
<1>. QED  BY <1>2, <1>3

-----------------------------------------------------------------------------
(* Nothing reaches the plant without an approval.                          *)

\* The other slots keep their requests, at every step.
LEMMA OneSlot ==
  ASSUME TypeOK, NEW h \in Handlers,
         Queue(h) \/ Decide(h) \/ Apply(h) \/ Observe(h) \/ Abort(h)
  PROVE  \A g \in Handlers \ {h} : req'[g] = req[g]
<1>1. CASE Queue(h)
  BY <1>1 DEF Queue, PersistRows, AuditCreated, TypeOK
<1>2. CASE Decide(h)
  BY <1>2 DEF Decide, SubmitFeedback, CommitFeedback, Approve, CommitApprove, Begin,
              Finish, TypeOK
<1>3. CASE Apply(h)
  BY <1>3 DEF Apply, ApplyRequest, RefuseWrite, CommitRefused, DryRun, Connect, WriteNode,
              Disconnect, CommitApplied, Begin, Finish, TypeOK
<1>4. CASE Observe(h)
  BY <1>4 DEF Observe, Simulate, CommitSimulate, MeasureImpact, CommitImpact, Begin,
              Finish, TypeOK
<1>5. CASE Abort(h)
  BY <1>5 DEF Abort, Finish, TypeOK
<1>. QED  BY <1>1, <1>2, <1>3, <1>4, <1>5

\* A slot that just finished, or began, holds what Finish, or Begin, says.
LEMMA SlotAfter ==
  ASSUME TypeOK, NEW h \in Handlers
  PROVE  /\ Finish(h) => req'[h].op = "idle" /\ req'[h].rec = NoRec
         /\ \A o \in Ops, r \in Recs, a \in Args : Begin(h, o, r, a) =>
              /\ req'[h].op = o
              /\ req'[h].rec = r
              /\ req'[h].arg = a
BY DEF Finish, Begin, IdleReq, TypeOK

\* ApprovalInv speaks of three things: the status of each row, the requests in flight
\* and the nodes of the plant.  A step keeps it if what it makes of each is on record.
LEMMA ApprovalStep ==
  ASSUME TypeOK, ApprovalInv, TrailsGrow, NEW h \in Handlers,
         \A g \in Handlers \ {h} : req'[g] = req[g],
         \A r \in Recs : status'[r] # status[r] =>
           /\ status'[r] = "accepted" => HasEvent(r, "accepted")'
           /\ status'[r] = "approved" => HasInOrder(r, "accepted", "approved")',
         (req[h].op = "approve" => HasEvent(req[h].rec, "accepted"))',
         (req[h].op \in {"apply", "write"}
           => HasInOrder(req[h].rec, "accepted", "approved"))',
         \A r \in OnPlant' : r \in OnPlant \/ HasInOrder(r, "accepted", "approved")',
         TypeOK'
  PROVE  ApprovalInv'
<1>1. \A r \in Recs : (status[r] = "accepted" => HasEvent(r, "accepted"))'
  BY EventsStay DEF ApprovalInv
<1>2. \A r \in Recs : (status[r] = "approved" => HasInOrder(r, "accepted", "approved"))'
  BY EventsStay DEF ApprovalInv
<1>3. \A g \in Handlers :
        (/\ req[g].op = "approve" => HasEvent(req[g].rec, "accepted")
         /\ req[g].op \in {"apply", "write"}
              => HasInOrder(req[g].rec, "accepted", "approved"))'
  <2>1. ASSUME NEW g \in Handlers \ {h}
        PROVE  (/\ req[g].op = "approve" => HasEvent(req[g].rec, "accepted")
                /\ req[g].op \in {"apply", "write"}
                     => HasInOrder(req[g].rec, "accepted", "approved"))'
    <3>1. req'[g] = req[g]
      OBVIOUS
    <3>2. req[g].op \in {"approve", "apply", "write"} => req[g].rec \in Recs
      BY RequestType
    <3>3. (req[g].op = "approve" => HasEvent(req[g].rec, "accepted"))'
      BY <3>1, <3>2 DEF ApprovalInv, TrailsGrow, HasEvent
    <3>4. (req[g].op \in {"apply", "write"}
            => HasInOrder(req[g].rec, "accepted", "approved"))'
      BY <3>1, <3>2 DEF ApprovalInv, TrailsGrow, HasInOrder
    <3>. QED  BY <3>3, <3>4
  <2>. QED  BY <2>1
<1>4. WriteNeedsApproval'
  <2>1. \A r \in OnPlant : r \in Recs
    BY DEF OnPlant, TypeOK
  <2>. QED  BY <2>1, EventsStay DEF ApprovalInv, WriteNeedsApproval
<1>. QED  BY <1>1, <1>2, <1>3, <1>4 DEF ApprovalInv

LEMMA ApprovalQueue ==
  ASSUME TypeOK, ApprovalInv, TrailsGrow, NEW h \in Handlers, Queue(h), TypeOK',
         \A g \in Handlers \ {h} : req'[g] = req[g]
  PROVE  ApprovalInv'
<1>1. ASSUME NEW batch \in SUBSET Recs, NEW simulated \in BOOLEAN,
             PersistRows(h, batch, simulated)
      PROVE  ApprovalInv'
  <2>1. req'[h].op = "created"
    BY <1>1 DEF PersistRows, IdleReq, TypeOK
  <2>2. \A r \in Recs : status'[r] # status[r] => status'[r] = "pending"
    BY <1>1 DEF PersistRows
  <2>3. OnPlant' = OnPlant
    BY <1>1 DEF PersistRows, OnPlant
  <2>. QED  BY <2>1, <2>2, <2>3, ApprovalStep
<1>2. ASSUME AuditCreated(h) PROVE ApprovalInv'
  <2>1. req'[h].op \in {"created", "idle"}
    BY <1>2 DEF AuditCreated, IdleReq, TypeOK
  <2>2. status' = status /\ OnPlant' = OnPlant
    BY <1>2 DEF AuditCreated, row, OnPlant
  <2>. QED  BY <2>1, <2>2, ApprovalStep
<1>. QED  BY <1>1, <1>2 DEF Queue

LEMMA ApprovalDecide ==
  ASSUME TypeOK, ApprovalInv, TrailsGrow, NEW h \in Handlers, Decide(h), TypeOK',
         \A g \in Handlers \ {h} : req'[g] = req[g]
  PROVE  ApprovalInv'
<1>0. OnPlant' = OnPlant
  BY DEF Decide, SubmitFeedback, CommitFeedback, Approve, CommitApprove, OnPlant
<1>1. ASSUME NEW r \in Recs, NEW d \in {"accepted", "rejected"}, SubmitFeedback(h, r, d)
      PROVE  ApprovalInv'
  <2>1. req'[h].op = "feedback" /\ status' = status
    BY <1>1 DEF SubmitFeedback, Begin, row, TypeOK
  <2>. QED  BY <1>0, <2>1, ApprovalStep
<1>2. ASSUME CommitFeedback(h) PROVE ApprovalInv'
  <2>1. PICK r \in Recs : r = req[h].rec
    BY <1>2, RequestType DEF CommitFeedback
  <2>2. req[h].arg \in {"accepted", "rejected"} /\ req'[h].op = "idle"
    BY <1>2, RequestType, SlotAfter DEF CommitFeedback
  <2>3. req[h].arg = "accepted" => HasEvent(r, "accepted")'
    BY <1>2, <2>1, EventAppended DEF CommitFeedback, Events, Modes
  <2>4. /\ \A s \in Recs \ {r} : status'[s] = status[s]
        /\ status'[r] # status[r] => status'[r] = req[h].arg
    BY <1>2, <2>1 DEF CommitFeedback, Assigned, TypeOK
  <2>. QED  BY <1>0, <2>1, <2>2, <2>3, <2>4, ApprovalStep
<1>3. ASSUME NEW r \in Recs, Approve(h, r) PROVE ApprovalInv'
  <2>1. req'[h].op = "approve" /\ req'[h].rec = r /\ status' = status
    BY <1>3 DEF Approve, Begin, row, TypeOK
  <2>2. HasEvent(r, "accepted")'
    BY <1>3, EventsStay DEF Approve, ApprovalInv
  <2>. QED  BY <1>0, <2>1, <2>2, ApprovalStep
<1>4. ASSUME CommitApprove(h) PROVE ApprovalInv'
  <2>1. PICK r \in Recs : r = req[h].rec
    BY <1>4, RequestType DEF CommitApprove
  <2>2. req'[h].op = "idle"
    BY <1>4, SlotAfter DEF CommitApprove
  <2>3. HasEvent(r, "accepted")
    BY <1>4, <2>1 DEF CommitApprove, ApprovalInv
  <2>4. HasInOrder(r, "accepted", "approved")'
    BY <1>4, <2>1, <2>3, EventAppended DEF CommitApprove, Events, Modes
  <2>5. /\ \A s \in Recs \ {r} : status'[s] = status[s]
        /\ status'[r] # status[r] => status'[r] = "approved"
    BY <1>4, <2>1 DEF CommitApprove, Assigned, TypeOK
  <2>. QED  BY <1>0, <2>2, <2>4, <2>5, ApprovalStep
<1>. QED  BY <1>1, <1>2, <1>3, <1>4 DEF Decide

LEMMA ApprovalApply ==
  ASSUME TypeOK, ApprovalInv, TrailsGrow, NEW h \in Handlers, Apply(h), TypeOK',
         \A g \in Handlers \ {h} : req'[g] = req[g]
  PROVE  ApprovalInv'
<1>1. ASSUME NEW r \in Recs, NEW m \in {"dry_run", "live"}, ApplyRequest(h, r, m)
      PROVE  ApprovalInv'
  <2>1. req'[h].op = "apply" /\ req'[h].rec = r /\ status' = status /\ OnPlant' = OnPlant
    BY <1>1 DEF ApplyRequest, Begin, row, OnPlant, TypeOK
  <2>2. HasInOrder(r, "accepted", "approved")'
    BY <1>1, EventsStay DEF ApplyRequest, ApprovalInv
  <2>. QED  BY <2>1, <2>2, ApprovalStep
<1>2. ASSUME RefuseWrite(h) \/ DryRun(h) \/ Disconnect(h) PROVE ApprovalInv'
  <2>1. req'[h].op \in {"refuse", "record"}
    BY <1>2 DEF RefuseWrite, DryRun, Disconnect, TypeOK, Requests
  <2>2. status' = status /\ OnPlant' = OnPlant
    BY <1>2 DEF RefuseWrite, DryRun, Disconnect, row, OnPlant
  <2>. QED  BY <2>1, <2>2, ApprovalStep
<1>3. ASSUME CommitRefused(h) \/ CommitApplied(h) PROVE ApprovalInv'
  <2>1. req'[h].op = "idle" /\ OnPlant' = OnPlant
    BY <1>3, SlotAfter DEF CommitRefused, CommitApplied, OnPlant
  <2>2. \A r \in Recs : status'[r] # status[r] => status'[r] \in {"failed", "applied"}
    BY <1>3 DEF CommitRefused, CommitApplied, Assigned, TypeOK
  <2>. QED  BY <2>1, <2>2, ApprovalStep
<1>4. ASSUME Connect(h) PROVE ApprovalInv'
  <2>1. PICK r \in Recs : r = req[h].rec
    BY <1>4, RequestType DEF Connect
  <2>2. req'[h].op = "write" /\ req'[h].rec = r
    BY <1>4, <2>1 DEF Connect, TypeOK
  <2>3. HasInOrder(r, "accepted", "approved")'
    BY <1>4, <2>1, EventsStay DEF Connect, ApprovalInv
  <2>4. status' = status /\ OnPlant' = OnPlant
    BY <1>4 DEF Connect, row, OnPlant
  <2>. QED  BY <2>2, <2>3, <2>4, ApprovalStep
<1>5. ASSUME WriteNode(h) PROVE ApprovalInv'
  <2>1. PICK r \in Recs : r = req[h].rec
    BY <1>5, RequestType DEF WriteNode
  <2>2. req'[h].op = "write" /\ req'[h].rec = r /\ status' = status
    BY <1>5, <2>1 DEF WriteNode, row, TypeOK
  <2>3. HasInOrder(r, "accepted", "approved")'
    BY <1>5, <2>1, EventsStay DEF WriteNode, ApprovalInv
  <2>4. OnPlant' \subseteq OnPlant \cup {r}
    BY <1>5, <2>1 DEF WriteNode, OnPlant, TypeOK
  <2>. QED  BY <2>2, <2>3, <2>4, ApprovalStep
<1>. QED  BY <1>1, <1>2, <1>3, <1>4, <1>5 DEF Apply

LEMMA ApprovalObserve ==
  ASSUME TypeOK, ApprovalInv, TrailsGrow, NEW h \in Handlers, Observe(h) \/ Abort(h), TypeOK',
         \A g \in Handlers \ {h} : req'[g] = req[g]
  PROVE  ApprovalInv'
<1>1. req'[h].op \in {"simulate", "impact", "idle"}
  <2>1. CASE \E r \in Recs : Simulate(h, r) \/ \E a \in {"history", "estimate"} :
                                                MeasureImpact(h, r, a)
    BY <2>1 DEF Simulate, MeasureImpact, Begin, TypeOK
  <2>2. CASE CommitSimulate(h) \/ CommitImpact(h) \/ Abort(h)
    BY <2>2, SlotAfter DEF CommitSimulate, CommitImpact, Abort
  <2>. QED  BY <2>1, <2>2 DEF Observe
<1>2. status' = status /\ OnPlant' = OnPlant
  BY DEF Observe, Simulate, CommitSimulate, MeasureImpact, CommitImpact, Abort, row, OnPlant
<1>. QED  BY <1>1, <1>2, ApprovalStep

LEMMA ApprovalInit == Init => ApprovalInv
<1>. SUFFICES ASSUME Init PROVE ApprovalInv
  OBVIOUS
<1>1. OnPlant = {}
  BY DEF Init, OnPlant
<1>. QED  BY <1>1 DEF Init, IdleReq, ApprovalInv, WriteNeedsApproval

LEMMA ApprovalNext == TypeOK /\ ApprovalInv /\ [Next]_vars => ApprovalInv'
<1>. SUFFICES ASSUME TypeOK, ApprovalInv, [Next]_vars PROVE ApprovalInv'
  OBVIOUS
<1>0. TypeOK'
  BY NextType
<1>1. ASSUME NEW h \in Handlers,
             Queue(h) \/ Decide(h) \/ Apply(h) \/ Observe(h) \/ Abort(h)
      PROVE  ApprovalInv'
  <2>1. TrailsGrow /\ \A g \in Handlers \ {h} : req'[g] = req[g]
    BY <1>1, NextTrails, OneSlot
  <2>. QED  BY <1>0, <1>1, <2>1, ApprovalQueue, ApprovalDecide, ApprovalApply, ApprovalObserve
<1>2. CASE UNCHANGED vars
  BY <1>2 DEF vars, ApprovalInv, WriteNeedsApproval, OnPlant, HasEvent, HasInOrder
<1>. QED  BY <1>1, <1>2 DEF Next

\* No node of the plant ever holds a value of a recommendation that was not accepted and
\* then approved on record, whatever requests run at the same time (FR-RTO-01).
THEOREM ApprovalHolds == Spec => []WriteNeedsApproval
<1>1. Spec => []TypeOK
  BY TypeCorrect
<1>2. ApprovalInv => WriteNeedsApproval
  BY DEF ApprovalInv
<1>. QED  BY <1>1, <1>2, ApprovalInit, ApprovalNext, PTL DEF Spec

-----------------------------------------------------------------------------
(* The gates of a live write.                                              *)

\* A step keeps GateInv if it loses no row and no simulation, the slot that took it
\* holds what it has been cleared for, and so does what it wrote to the plant.
LEMMA GateStep ==
  ASSUME TypeOK, GateInv, TypeOK', NEW h \in Handlers,
         \A g \in Handlers \ {h} : req'[g] = req[g],
         cfg' = cfg,
         setpoint' = setpoint \/ (WriteNeedsSim' /\ WriteAllowlisted'),
         \A r \in Recs : status[r] # "absent" => status'[r] # "absent",
         \A r \in Recs : sim[r] => sim'[r],
         \A r \in Recs : sim'[r] /\ ~sim[r] => status'[r] # "absent",
         Gated(h)'
  PROVE  GateInv'
<1>1. \A r \in Recs : (status[r] = "absent" => ~sim[r])'
  BY DEF GateInv
<1>2. ASSUME NEW g \in Handlers \ {h} PROVE Gated(g)'
  <2>1. Gated(g) /\ req'[g] = req[g]
    BY DEF GateInv
  <2>2. req[g].op \notin {"idle", "created"} => req[g].rec \in Recs
    BY RequestType
  <2>. QED  BY <2>1, <2>2 DEF Gated, Planned
<1>3. CASE setpoint' = setpoint
  <2>1. OnPlant' = OnPlant /\ OnPlant \subseteq Recs
    BY <1>3 DEF OnPlant, TypeOK
  <2>2. WriteNeedsSim'
    BY <1>3, <2>1 DEF GateInv, WriteNeedsSim
  <2>3. WriteAllowlisted'
    BY <1>3 DEF GateInv, WriteAllowlisted, Planned
  <2>. QED  BY <1>1, <1>2, <2>2, <2>3 DEF GateInv
<1>4. CASE WriteNeedsSim' /\ WriteAllowlisted'
  BY <1>1, <1>2, <1>4 DEF GateInv
<1>. QED  BY <1>3, <1>4

LEMMA GateQueue ==
  ASSUME TypeOK, GateInv, TypeOK', NEW h \in Handlers, Queue(h),
         \A g \in Handlers \ {h} : req'[g] = req[g]
  PROVE  GateInv'
<1>1. ASSUME NEW batch \in SUBSET Recs, NEW simulated \in BOOLEAN,
             PersistRows(h, batch, simulated)
      PROVE  GateInv'
  <2>1. cfg' = cfg /\ setpoint' = setpoint
    BY <1>1 DEF PersistRows
  <2>2. \A r \in Recs : \/ status'[r] = status[r] /\ sim'[r] = sim[r]
                        \/ status[r] = "absent" /\ status'[r] = "pending"
    BY <1>1 DEF PersistRows
  <2>3. req'[h].op = "created"
    BY <1>1 DEF PersistRows, IdleReq, TypeOK
  <2>4. Gated(h)'
    BY <2>3 DEF Gated
  <2>. QED  BY <2>1, <2>2, <2>4, GateStep DEF GateInv
<1>2. ASSUME AuditCreated(h) PROVE GateInv'
  <2>1. req'[h].op \in {"created", "idle"}
    BY <1>2 DEF AuditCreated, IdleReq, TypeOK
  <2>2. Gated(h)'
    BY <2>1 DEF Gated
  <2>. QED  BY <1>2, <2>2, GateStep DEF AuditCreated, row
<1>. QED  BY <1>1, <1>2 DEF Queue

LEMMA GateDecide ==
  ASSUME TypeOK, GateInv, TypeOK', NEW h \in Handlers, Decide(h),
         \A g \in Handlers \ {h} : req'[g] = req[g]
  PROVE  GateInv'
<1>1. ASSUME NEW r \in Recs,
             Approve(h, r) \/ \E d \in {"accepted", "rejected"} : SubmitFeedback(h, r, d)
      PROVE  GateInv'
  <2>1. /\ req'[h].op \in {"feedback", "approve"} /\ req'[h].rec = r
        /\ status[r] # "absent"
        /\ UNCHANGED <<cfg, row, setpoint>>
    BY <1>1 DEF SubmitFeedback, Approve, Begin, TypeOK
  <2>2. Gated(h)'
    BY <2>1 DEF Gated, row
  <2>. QED  BY <2>1, <2>2, GateStep DEF row
<1>2. ASSUME CommitFeedback(h) \/ CommitApprove(h) PROVE GateInv'
  <2>1. req'[h].op = "idle" /\ UNCHANGED <<cfg, sim, setpoint>>
    BY <1>2, SlotAfter DEF CommitFeedback, CommitApprove
  <2>2. \A r \in Recs : \/ status'[r] = status[r]
                        \/ status'[r] \in {"accepted", "rejected", "approved"}
    BY <1>2, RequestType DEF CommitFeedback, CommitApprove, Assigned, TypeOK
  <2>3. Gated(h)'
    BY <2>1 DEF Gated
  <2>. QED  BY <2>1, <2>2, <2>3, GateStep
<1>. QED  BY <1>1, <1>2 DEF Decide

LEMMA GateApply ==
  ASSUME TypeOK, GateInv, TypeOK', NEW h \in Handlers, Apply(h),
         \A g \in Handlers \ {h} : req'[g] = req[g]
  PROVE  GateInv'
<1>1. ASSUME NEW r \in Recs, NEW m \in {"dry_run", "live"}, ApplyRequest(h, r, m)
      PROVE  GateInv'
  <2>1. /\ req'[h].op = "apply" /\ req'[h].rec = r
        /\ status[r] # "absent" /\ (cfg.requireSim => sim[r])
        /\ UNCHANGED <<cfg, row, setpoint>>
    BY <1>1 DEF ApplyRequest, Begin, TypeOK
  <2>2. Gated(h)'
    BY <2>1 DEF Gated, row
  <2>. QED  BY <2>1, <2>2, GateStep DEF row
<1>2. ASSUME RefuseWrite(h) \/ DryRun(h) \/ Disconnect(h) PROVE GateInv'
  <2>1. /\ req[h].op \in {"apply", "write"}
        /\ req'[h].op \in {"refuse", "record"} /\ req'[h].rec = req[h].rec
        /\ UNCHANGED <<cfg, row, setpoint>>
    BY <1>2 DEF RefuseWrite, DryRun, Disconnect, TypeOK, Requests
  <2>2. Gated(h)
    BY DEF GateInv
  <2>3. Gated(h)'
    BY <2>1, <2>2 DEF Gated, row
  <2>. QED  BY <2>1, <2>3, GateStep DEF row
<1>3. ASSUME CommitRefused(h) \/ CommitApplied(h) PROVE GateInv'
  <2>1. req'[h].op = "idle" /\ UNCHANGED <<cfg, sim, setpoint>>
    BY <1>3, SlotAfter DEF CommitRefused, CommitApplied
  <2>2. \A r \in Recs : status'[r] = status[r] \/ status'[r] \in {"failed", "applied"}
    BY <1>3 DEF CommitRefused, CommitApplied, Assigned, TypeOK
  <2>3. Gated(h)'
    BY <2>1 DEF Gated
  <2>. QED  BY <2>1, <2>2, <2>3, GateStep
<1>4. ASSUME Connect(h) PROVE GateInv'
  <2>1. PICK r \in Recs : r = req[h].rec
    BY <1>4, RequestType DEF Connect
  <2>2. /\ req'[h].op = "write" /\ req'[h].rec = r /\ req'[h].todo = Planned(r)
        /\ UNCHANGED <<cfg, row, setpoint>>
    BY <1>4, <2>1 DEF Connect, TypeOK, Requests
  <2>3. cfg.writeEnabled /\ cfg.endpoint
    BY <1>4, RecsAssumption DEF Connect, Refused, TypeOK
  <2>4. status[r] # "absent" /\ (cfg.requireSim => sim[r])
    BY <1>4, <2>1 DEF Connect, GateInv, Gated
  <2>5. Gated(h)'
    BY <2>2, <2>3, <2>4 DEF Gated, row, Planned
  <2>. QED  BY <2>2, <2>5, GateStep DEF row
<1>5. ASSUME WriteNode(h) PROVE GateInv'
  <2>1. PICK f \in req[h].todo :
          /\ setpoint' = [setpoint EXCEPT ![<<PlantOf[req[h].rec], f>>] = req[h].rec]
          /\ req' = [req EXCEPT ![h].todo = @ \ {f}]
    BY <1>5 DEF WriteNode
  <2>2. PICK r \in Recs : r = req[h].rec
    BY <1>5, RequestType DEF WriteNode
  <2>3. /\ status[r] # "absent" /\ (cfg.requireSim => sim[r])
        /\ cfg.writeEnabled /\ cfg.endpoint
        /\ req[h].todo \subseteq Planned(r)
    BY <1>5, <2>2 DEF WriteNode, GateInv, Gated
  <2>4. /\ req'[h].op = "write" /\ req'[h].rec = r /\ req'[h].todo \subseteq req[h].todo
        /\ UNCHANGED <<cfg, row>>
    BY <1>5, <2>1, <2>2 DEF WriteNode, TypeOK, Requests
  <2>5. Gated(h)'
    BY <2>3, <2>4 DEF Gated, row, Planned
  <2>6. WriteNeedsSim'
    <3>1. OnPlant' \subseteq OnPlant \cup {r}
      BY <2>1, <2>2 DEF OnPlant, TypeOK
    <3>. QED  BY <2>3, <2>4, <3>1 DEF GateInv, WriteNeedsSim, row
  <2>7. WriteAllowlisted'
    <3>1. ASSUME NEW p \in Plants, NEW k \in Fields, setpoint'[<<p, k>>] # NoRec
          PROVE  /\ cfg.writeEnabled /\ cfg.endpoint
                 /\ PlantOf[setpoint'[<<p, k>>]] = p
                 /\ k \in Planned(setpoint'[<<p, k>>])
      <4>1. CASE p = PlantOf[r] /\ k = f
        <5>1. setpoint'[<<p, k>>] = r
          BY <4>1, <2>1, <2>2 DEF TypeOK
        <5>. QED  BY <4>1, <5>1, <2>1, <2>3
      <4>2. CASE ~(p = PlantOf[r] /\ k = f)
        <5>1. setpoint'[<<p, k>>] = setpoint[<<p, k>>]
          BY <4>2, <2>1, <2>2 DEF TypeOK
        <5>2. setpoint[<<p, k>>] # NoRec
          BY <3>1, <5>1
        <5>3. /\ cfg.writeEnabled /\ cfg.endpoint
              /\ PlantOf[setpoint[<<p, k>>]] = p
              /\ k \in cfg.allowed
              /\ p \in DOMAIN cfg.tags /\ k \in cfg.tags[p]
          BY <5>2 DEF GateInv, WriteAllowlisted
        <5>4. k \in Planned(setpoint[<<p, k>>])
          BY <5>3 DEF Planned
        <5>. QED  BY <5>1, <5>3, <5>4
      <4>. QED  BY <4>1, <4>2
    <3>2. ASSUME NEW p \in Plants, NEW k \in Fields, setpoint'[<<p, k>>] # NoRec
          PROVE  k \in cfg.allowed /\ p \in DOMAIN cfg.tags /\ k \in cfg.tags[p]
      BY <3>1, <3>2 DEF Planned
    <3>. QED  BY <2>4, <3>1, <3>2 DEF WriteAllowlisted
  <2>. QED  BY <2>4, <2>5, <2>6, <2>7, GateStep DEF row
<1>. QED  BY <1>1, <1>2, <1>3, <1>4, <1>5 DEF Apply

LEMMA GateObserve ==
  ASSUME TypeOK, GateInv, TypeOK', NEW h \in Handlers, Observe(h) \/ Abort(h),
         \A g \in Handlers \ {h} : req'[g] = req[g]
  PROVE  GateInv'
<1>1. ASSUME NEW r \in Recs,
             Simulate(h, r) \/ \E a \in {"history", "estimate"} : MeasureImpact(h, r, a)
      PROVE  GateInv'
  <2>1. /\ req'[h].op \in {"simulate", "impact"} /\ req'[h].rec = r
        /\ status[r] # "absent"
        /\ UNCHANGED <<cfg, row, setpoint>>
    BY <1>1 DEF Simulate, MeasureImpact, Begin, TypeOK
  <2>2. Gated(h)'
    BY <2>1 DEF Gated, row
  <2>. QED  BY <2>1, <2>2, GateStep DEF row
<1>2. ASSUME CommitSimulate(h) PROVE GateInv'
  <2>1. PICK r \in Recs : r = req[h].rec
    BY <1>2, RequestType DEF CommitSimulate
  <2>2. req'[h].op = "idle" /\ UNCHANGED <<cfg, status, setpoint>>
    BY <1>2, SlotAfter DEF CommitSimulate
  <2>3. status[r] # "absent"
    BY <1>2, <2>1 DEF CommitSimulate, GateInv, Gated
  <2>4. sim' = [sim EXCEPT ![r] = TRUE]
    BY <1>2, <2>1 DEF CommitSimulate
  <2>5. Gated(h)'
    BY <2>2 DEF Gated
  <2>6. \A s \in Recs : /\ sim[s] => sim'[s]
                        /\ sim'[s] /\ ~sim[s] => status'[s] # "absent"
    BY <2>2, <2>3, <2>4 DEF TypeOK
  <2>. QED  BY <2>2, <2>5, <2>6, GateStep
<1>3. ASSUME CommitImpact(h) \/ Abort(h) PROVE GateInv'
  <2>1. req'[h].op = "idle" /\ UNCHANGED <<cfg, status, sim, setpoint>>
    BY <1>3, SlotAfter DEF CommitImpact, Abort, row
  <2>2. Gated(h)'
    BY <2>1 DEF Gated
  <2>. QED  BY <2>1, <2>2, GateStep
<1>. QED  BY <1>1, <1>2, <1>3 DEF Observe

LEMMA GateInit == Init => GateInv
<1>. SUFFICES ASSUME Init PROVE GateInv
  OBVIOUS
<1>1. OnPlant = {}
  BY DEF Init, OnPlant
<1>. QED  BY <1>1 DEF Init, IdleReq, GateInv, Gated, WriteNeedsSim, WriteAllowlisted

LEMMA GateNext == TypeOK /\ GateInv /\ [Next]_vars => GateInv'
<1>. SUFFICES ASSUME TypeOK, GateInv, [Next]_vars PROVE GateInv'
  OBVIOUS
<1>1. ASSUME NEW h \in Handlers,
             Queue(h) \/ Decide(h) \/ Apply(h) \/ Observe(h) \/ Abort(h)
      PROVE  GateInv'
  <2>1. \A g \in Handlers \ {h} : req'[g] = req[g]
    BY <1>1, OneSlot
  <2>2. TypeOK'
    BY NextType
  <2>. QED  BY <1>1, <2>1, <2>2, GateQueue, GateDecide, GateApply, GateObserve
<1>2. CASE UNCHANGED vars
  BY <1>2 DEF vars, GateInv, Gated, Planned, WriteNeedsSim, WriteAllowlisted, OnPlant
<1>. QED  BY <1>1, <1>2 DEF Next

\* Where the simulation gate is on, no unsimulated advice is ever on the plant, although
\* the gate is several awaits older than the writes.
THEOREM SimGateHolds == Spec => []WriteNeedsSim
<1>1. Spec => []TypeOK
  BY TypeCorrect
<1>2. GateInv => WriteNeedsSim
  BY DEF GateInv
<1>. QED  BY <1>1, <1>2, GateInit, GateNext, PTL DEF Spec

\* What is on the plant is allowlisted, tagged writable and of the plant it was computed
\* for, and live writes are enabled.
THEOREM AllowlistHolds == Spec => []WriteAllowlisted
<1>1. Spec => []TypeOK
  BY TypeCorrect
<1>2. GateInv => WriteAllowlisted
  BY DEF GateInv
<1>. QED  BY <1>1, <1>2, GateInit, GateNext, PTL DEF Spec

-----------------------------------------------------------------------------
(* What an "applied" event on the trail is worth.                          *)

LiveApplied == [type |-> "applied", mode |-> "live"]

\* The trail of r holds a live application.
OnRecord(r) == \E i \in DOMAIN audit[r] : audit[r][i] = LiveApplied

\* Every node planned for r has been written.
Overwritten(r) ==
  /\ Planned(r) # {}
  /\ \A f \in Planned(r) : setpoint[<<PlantOf[r], f>>] # NoRec

\* The part of EffectInv that speaks of slot h.
Covered(h) ==
  req[h].op = "write" \/ (req[h].op = "record" /\ req[h].arg = "live") =>
    /\ Planned(req[h].rec) # {}
    /\ \A f \in Planned(req[h].rec) :
         \/ setpoint[<<PlantOf[req[h].rec], f>>] # NoRec
         \/ req[h].op = "write" /\ f \in req[h].todo

LEMMA EffectParts ==
  EffectInv <=> /\ \A h \in Handlers : Covered(h)
                /\ \A r \in Recs : OnRecord(r) => Overwritten(r)
BY DEF EffectInv, LiveTrailMeansWritten, Covered, OnRecord, Overwritten, LiveApplied

\* A plan names fields, and nodes of its own plant.
LEMMA PlanType ==
  ASSUME TypeOK, NEW r \in Recs
  PROVE  /\ Planned(r) \subseteq Fields
         /\ \A f \in Planned(r) : <<PlantOf[r], f>> \in Plants \X Fields
BY RecsAssumption DEF Planned, TypeOK

\* An event of a commit is the only new one, on the one row.
LEMMA NewOnRecord ==
  ASSUME TypeOK, NEW r \in Recs, NEW t, NEW m, [type |-> t, mode |-> m] \in Events,
         Trail(r, t, m)
  PROVE  \A s \in Recs : OnRecord(s)' => OnRecord(s) \/ (s = r /\ t = "applied" /\ m = "live")
<1>. SUFFICES ASSUME NEW s \in Recs, OnRecord(s)'
              PROVE  OnRecord(s) \/ (s = r /\ t = "applied" /\ m = "live")
  OBVIOUS
<1>1. /\ DOMAIN audit[r] = 1 .. Len(audit[r]) /\ Len(audit[r]) \in Nat
      /\ DOMAIN audit'[r] = 1 .. Len(audit[r]) + 1
      /\ audit'[r][Len(audit[r]) + 1] = [type |-> t, mode |-> m]
      /\ \A i \in DOMAIN audit[r] : audit'[r][i] = audit[r][i]
      /\ \A q \in Recs \ {r} : audit'[q] = audit[q]
  BY TrailAppends DEF TrailsGrow
<1>2. CASE s # r
  BY <1>1, <1>2 DEF OnRecord
<1>3. CASE s = r
  <2>1. PICK i \in DOMAIN audit'[r] : audit'[r][i] = LiveApplied
    BY <1>3 DEF OnRecord
  <2>2. CASE i \in DOMAIN audit[r]
    BY <1>1, <1>3, <2>1, <2>2 DEF OnRecord
  <2>3. CASE i = Len(audit[r]) + 1
    BY <1>1, <1>3, <2>1, <2>3 DEF LiveApplied
  <2>. QED  BY <1>1, <2>2, <2>3
<1>. QED  BY <1>2, <1>3

\* A step keeps EffectInv if no node goes back to the plant's own value, the slot that
\* took it is covered, and so is whatever it put on record.
LEMMA EffectStep ==
  ASSUME TypeOK, EffectInv, TypeOK', NEW h \in Handlers,
         \A g \in Handlers \ {h} : req'[g] = req[g],
         cfg' = cfg,
         \A n \in Plants \X Fields : setpoint[n] # NoRec => setpoint'[n] # NoRec,
         \A r \in Recs : OnRecord(r)' => OnRecord(r) \/ Overwritten(r),
         Covered(h)'
  PROVE  EffectInv'
<1>1. ASSUME NEW g \in Handlers \ {h} PROVE Covered(g)'
  <2>1. Covered(g) /\ req'[g] = req[g]
    BY EffectParts
  <2>2. CASE req[g].op \in {"write", "record"}
    <3>1. PICK r \in Recs : r = req[g].rec
      BY <2>2, RequestType
    <3>2. Planned(r)' = Planned(r)
      BY DEF Planned
    <3>. QED  BY <2>1, <3>1, <3>2, PlanType DEF Covered
  <2>3. CASE req[g].op \notin {"write", "record"}
    BY <2>1, <2>3 DEF Covered
  <2>. QED  BY <2>2, <2>3
<1>2. ASSUME NEW r \in Recs, OnRecord(r)' PROVE Overwritten(r)'
  <2>1. Overwritten(r)
    BY <1>2, EffectParts
  <2>2. Planned(r)' = Planned(r)
    BY DEF Planned
  <2>. QED  BY <2>1, <2>2, PlanType DEF Overwritten
<1>3. (EffectInv <=> /\ \A g \in Handlers : Covered(g)
                     /\ \A r \in Recs : OnRecord(r) => Overwritten(r))'
  BY DEF EffectInv, LiveTrailMeansWritten, Covered, OnRecord, Overwritten, LiveApplied
<1>. QED  BY <1>1, <1>2, <1>3

LEMMA EffectApply ==
  ASSUME TypeOK, EffectInv, TypeOK', NEW h \in Handlers, Apply(h),
         \A g \in Handlers \ {h} : req'[g] = req[g]
  PROVE  EffectInv'
<1>1. ASSUME NEW r \in Recs, NEW m \in {"dry_run", "live"}, ApplyRequest(h, r, m)
      PROVE  EffectInv'
  <2>1. req'[h].op = "apply" /\ UNCHANGED <<cfg, audit, setpoint>>
    BY <1>1 DEF ApplyRequest, Begin, TypeOK
  <2>. QED  BY <2>1, EffectStep DEF Covered, OnRecord
<1>2. ASSUME RefuseWrite(h) PROVE EffectInv'
  <2>1. req'[h].op = "refuse" /\ UNCHANGED <<cfg, audit, setpoint>>
    BY <1>2 DEF RefuseWrite, TypeOK, Requests
  <2>. QED  BY <2>1, EffectStep DEF Covered, OnRecord
<1>3. ASSUME CommitRefused(h) PROVE EffectInv'
  <2>1. req'[h].op = "idle" /\ UNCHANGED <<cfg, setpoint>>
    BY <1>3, SlotAfter DEF CommitRefused
  <2>2. PICK r \in Recs, m \in Modes : Trail(r, "apply_failed", m)
    BY <1>3, RequestType DEF CommitRefused, Modes
  <2>3. \A s \in Recs : OnRecord(s)' => OnRecord(s)
    BY <2>2, NewOnRecord DEF Events
  <2>. QED  BY <2>1, <2>3, EffectStep DEF Covered
<1>4. ASSUME DryRun(h) PROVE EffectInv'
  <2>1. /\ req'[h].op = "record" /\ req'[h].arg = "dry_run"
        /\ UNCHANGED <<cfg, audit, setpoint>>
    BY <1>4 DEF DryRun, TypeOK, Requests
  <2>. QED  BY <2>1, EffectStep DEF Covered, OnRecord
<1>5. ASSUME Connect(h) PROVE EffectInv'
  <2>1. PICK r \in Recs : r = req[h].rec
    BY <1>5, RequestType DEF Connect
  <2>2. /\ req'[h].rec = r /\ req'[h].op = "write" /\ req'[h].todo = Planned(r)
        /\ UNCHANGED <<cfg, audit, setpoint>>
    BY <1>5, <2>1 DEF Connect, TypeOK, Requests
  <2>3. Planned(r) # {} /\ Planned(r)' = Planned(r)
    BY <1>5, <2>1, <2>2 DEF Connect, Refused, Planned
  <2>4. Covered(h)'
    BY <2>2, <2>3 DEF Covered
  <2>. QED  BY <2>2, <2>4, EffectStep DEF OnRecord
<1>6. ASSUME WriteNode(h) PROVE EffectInv'
  <2>1. PICK f \in req[h].todo :
          /\ setpoint' = [setpoint EXCEPT ![<<PlantOf[req[h].rec], f>>] = req[h].rec]
          /\ req' = [req EXCEPT ![h].todo = @ \ {f}]
    BY <1>6 DEF WriteNode
  <2>2. PICK r \in Recs : r = req[h].rec
    BY <1>6, RequestType DEF WriteNode
  <2>3. f \in Fields /\ <<PlantOf[r], f>> \in Plants \X Fields /\ r # NoRec
    BY <2>1, RequestType, RecsAssumption
  <2>4. /\ req'[h].rec = r /\ req'[h].op = "write" /\ req'[h].todo = req[h].todo \ {f}
        /\ UNCHANGED <<cfg, audit>>
    BY <1>6, <2>1, <2>2 DEF WriteNode, TypeOK, Requests
  <2>5. /\ setpoint'[<<PlantOf[r], f>>] = r
        /\ \A n \in Plants \X Fields : setpoint[n] # NoRec => setpoint'[n] # NoRec
    BY <2>1, <2>2, <2>3 DEF TypeOK
  <2>6. Covered(h) /\ Planned(r)' = Planned(r)
    BY <2>4, EffectParts DEF Planned
  <2>7. Covered(h)'
    BY <1>6, <2>2, <2>3, <2>4, <2>5, <2>6, PlanType DEF Covered, WriteNode
  <2>. QED  BY <2>4, <2>5, <2>7, EffectStep DEF OnRecord
<1>7. ASSUME Disconnect(h) PROVE EffectInv'
  <2>1. PICK r \in Recs : r = req[h].rec
    BY <1>7, RequestType DEF Disconnect
  <2>2. /\ req'[h].rec = r /\ req'[h].op = "record"
        /\ UNCHANGED <<cfg, audit, setpoint>>
    BY <1>7, <2>1 DEF Disconnect, TypeOK, Requests
  <2>3. Overwritten(r) /\ Planned(r)' = Planned(r)
    BY <1>7, <2>1, <2>2, EffectParts DEF Disconnect, Covered, Overwritten, Planned
  <2>4. Covered(h)'
    BY <2>2, <2>3 DEF Covered, Overwritten
  <2>. QED  BY <2>2, <2>4, EffectStep DEF OnRecord
<1>8. ASSUME CommitApplied(h) PROVE EffectInv'
  <2>1. PICK r \in Recs : r = req[h].rec
    BY <1>8, RequestType DEF CommitApplied
  <2>2. req'[h].op = "idle" /\ UNCHANGED <<cfg, setpoint>>
    BY <1>8, SlotAfter DEF CommitApplied
  <2>3. req[h].arg = "live" => Overwritten(r)
    BY <1>8, <2>1, EffectParts DEF CommitApplied, Covered, Overwritten
  <2>4. Trail(r, "applied", req[h].arg) /\ req[h].arg \in Modes
    BY <1>8, <2>1, RequestType DEF CommitApplied, Modes
  <2>5. \A s \in Recs : OnRecord(s)' => OnRecord(s) \/ (s = r /\ req[h].arg = "live")
    BY <2>4, NewOnRecord DEF Events
  <2>. QED  BY <2>2, <2>3, <2>5, EffectStep DEF Covered
<1>. QED  BY <1>1, <1>2, <1>3, <1>4, <1>5, <1>6, <1>7, <1>8 DEF Apply

\* A slot that is not applying does not hold an application.
LEMMA OtherSlot ==
  ASSUME TypeOK, NEW h \in Handlers, Queue(h) \/ Decide(h) \/ Observe(h) \/ Abort(h)
  PROVE  req'[h].op \notin {"apply", "write", "record", "refuse"}
<1>1. CASE Queue(h)
  <2>1. CASE AuditCreated(h)
    BY <2>1 DEF AuditCreated, IdleReq, TypeOK
  <2>2. ASSUME NEW batch \in SUBSET Recs, NEW simulated \in BOOLEAN,
               PersistRows(h, batch, simulated)
        PROVE  req'[h].op = "created"
    BY <2>2 DEF PersistRows, IdleReq, TypeOK
  <2>. QED  BY <1>1, <2>1, <2>2 DEF Queue
<1>2. CASE Decide(h)
  BY <1>2 DEF Decide, SubmitFeedback, CommitFeedback, Approve, CommitApprove, Begin,
              Finish, IdleReq, TypeOK
<1>3. CASE Observe(h) \/ Abort(h)
  BY <1>3 DEF Observe, Simulate, CommitSimulate, MeasureImpact, CommitImpact, Begin,
              Abort, Finish, IdleReq, TypeOK
<1>. QED  BY <1>1, <1>2, <1>3

\* Nothing but an apply writes to the plant, or records an application.
LEMMA EffectOther ==
  ASSUME TypeOK, EffectInv, TypeOK', NEW h \in Handlers,
         Queue(h) \/ Decide(h) \/ Observe(h) \/ Abort(h),
         \A g \in Handlers \ {h} : req'[g] = req[g]
  PROVE  EffectInv'
<1>1. UNCHANGED <<cfg, setpoint>>
  BY DEF Queue, Decide, Observe, PersistRows, AuditCreated, SubmitFeedback, CommitFeedback,
         Approve, CommitApprove, Simulate, CommitSimulate, MeasureImpact, CommitImpact, Abort
<1>2. req'[h].op \notin {"write", "record"}
  BY OtherSlot
<1>3. \A s \in Recs : OnRecord(s)' => OnRecord(s)
  <2>1. CASE audit' = audit
    BY <2>1 DEF OnRecord
  <2>2. CASE AuditCreated(h)
    BY <2>2, CommitTrails, NewOnRecord DEF Events, Modes
  <2>3. CASE CommitFeedback(h)
    <3>1. PICK r \in Recs, t \in {"accepted", "rejected"} : Trail(r, t, "none")
      BY <2>3, CommitTrails, RequestType DEF CommitFeedback
    <3>. QED  BY <3>1, NewOnRecord DEF Events, Modes
  <2>4. CASE CommitApprove(h) \/ CommitImpact(h)
    <3>1. PICK r \in Recs, t \in {"approved", "impact"} : Trail(r, t, "none")
      BY <2>4, CommitTrails, RequestType DEF CommitApprove, CommitImpact
    <3>. QED  BY <3>1, NewOnRecord DEF Events, Modes
  <2>. QED  BY <2>1, <2>2, <2>3, <2>4 DEF Queue, Decide, Observe, PersistRows, SubmitFeedback,
                 Approve, Simulate, CommitSimulate, MeasureImpact, Abort
<1>. QED  BY <1>1, <1>2, <1>3, EffectStep DEF Covered

LEMMA EffectNext == TypeOK /\ EffectInv /\ [Next]_vars => EffectInv'
<1>. SUFFICES ASSUME TypeOK, EffectInv, [Next]_vars PROVE EffectInv'
  OBVIOUS
<1>1. ASSUME NEW h \in Handlers,
             Queue(h) \/ Decide(h) \/ Apply(h) \/ Observe(h) \/ Abort(h)
      PROVE  EffectInv'
  <2>1. TypeOK' /\ \A g \in Handlers \ {h} : req'[g] = req[g]
    BY <1>1, NextType, OneSlot
  <2>. QED  BY <1>1, <2>1, EffectApply, EffectOther
<1>2. CASE UNCHANGED vars
  BY <1>2 DEF vars, EffectInv, LiveTrailMeansWritten, Planned
<1>. QED  BY <1>1, <1>2 DEF Next

LEMMA EffectInit == Init => EffectInv
BY DEF Init, IdleReq, EffectInv, LiveTrailMeansWritten

\* A live application is on record only where every node planned for it was written,
\* whatever dies half-way and whoever else applies.
THEOREM LiveTrailHolds == Spec => []LiveTrailMeansWritten
<1>1. Spec => []TypeOK
  BY TypeCorrect
<1>2. EffectInv => LiveTrailMeansWritten
  BY DEF EffectInv
<1>. QED  BY <1>1, <1>2, EffectInit, EffectNext, PTL DEF Spec

-----------------------------------------------------------------------------
(* The apply_mode column.                                                  *)

\* The mode r was applied in is on its trail.
ModeRecorded(r) ==
  IF mode[r] = "none"
  THEN ~HasEvent(r, "applied")
  ELSE \E i \in DOMAIN audit[r] : audit[r][i] = [type |-> "applied", mode |-> mode[r]]

\* A mode a request has read is never taken back.
ModeKept(h) ==
  req[h].op = "record" /\ req[h].seen.mode # "none" => mode[req[h].rec] # "none"

ModeRead(h) ==
  req[h].op \in {"apply", "write"} /\ req[h].seen.mode # "none" => mode[req[h].rec] # "none"

ModeInv ==
  /\ \A r \in Recs : ModeRecorded(r)
  /\ \A h \in Handlers : ModeKept(h) /\ ModeRead(h)

\* A step that leaves the column alone keeps ModeInv unless it records an application or
\* takes a request further on a mode it did not read.
LEMMA ModeStep ==
  ASSUME TypeOK, ModeInv, TypeOK', TrailsGrow, NEW h \in Handlers,
         \A g \in Handlers \ {h} : req'[g] = req[g],
         mode' = mode,
         \A r \in Recs : HasEvent(r, "applied")' => HasEvent(r, "applied"),
         ModeKept(h)', ModeRead(h)'
  PROVE  ModeInv'
<1>1. ASSUME NEW g \in Handlers \ {h} PROVE (ModeKept(g) /\ ModeRead(g))'
  BY DEF ModeInv, ModeKept, ModeRead
<1>2. ASSUME NEW r \in Recs PROVE ModeRecorded(r)'
  BY DEF ModeInv, ModeRecorded, TrailsGrow
<1>. QED  BY <1>1, <1>2 DEF ModeInv

\* Only CommitApplied records an application.
LEMMA AppliedRecorded ==
  ASSUME TypeOK, NEW h \in Handlers,
         Queue(h) \/ Decide(h) \/ Apply(h) \/ Observe(h) \/ Abort(h), ~CommitApplied(h)
  PROVE  \A s \in Recs : HasEvent(s, "applied")' => HasEvent(s, "applied")
<1>1. ASSUME NEW r \in Recs, NEW t, NEW m, [type |-> t, mode |-> m] \in Events,
             t # "applied", Trail(r, t, m), NEW s \in Recs, HasEvent(s, "applied")'
      PROVE  HasEvent(s, "applied")
  <2>1. /\ DOMAIN audit'[r] = DOMAIN audit[r] \cup {Len(audit[r]) + 1}
        /\ audit'[r][Len(audit[r]) + 1].type = t
        /\ \A i \in DOMAIN audit[r] : audit'[r][i] = audit[r][i]
        /\ \A q \in Recs \ {r} : audit'[q] = audit[q]
    BY <1>1, TrailAppends DEF TrailsGrow
  <2>. QED  BY <1>1, <2>1 DEF HasEvent
<1>2. CASE audit' = audit
  BY <1>2 DEF HasEvent
<1>3. CASE AuditCreated(h)
  BY <1>1, <1>3, CommitTrails DEF Events, Modes
<1>4. CASE CommitFeedback(h)
  <2>1. PICK r \in Recs, t \in {"accepted", "rejected"} : Trail(r, t, "none")
    BY <1>4, CommitTrails, RequestType DEF CommitFeedback
  <2>. QED  BY <1>1, <2>1 DEF Events, Modes
<1>5. CASE CommitApprove(h) \/ CommitImpact(h)
  <2>1. PICK r \in Recs, t \in {"approved", "impact"} : Trail(r, t, "none")
    BY <1>5, CommitTrails, RequestType DEF CommitApprove, CommitImpact
  <2>. QED  BY <1>1, <2>1 DEF Events, Modes
<1>6. CASE CommitRefused(h)
  <2>1. PICK r \in Recs, m \in Modes : Trail(r, "apply_failed", m)
    BY <1>6, RequestType DEF CommitRefused, Modes
  <2>. QED  BY <1>1, <2>1 DEF Events
<1>. QED  BY <1>2, <1>3, <1>4, <1>5, <1>6, OtherTrails

LEMMA ModeApplied ==
  ASSUME TypeOK, ModeInv, TypeOK', TrailsGrow, NEW h \in Handlers, CommitApplied(h),
         \A g \in Handlers \ {h} : req'[g] = req[g]
  PROVE  ModeInv'
<1>1. PICK r \in Recs : r = req[h].rec
  BY RequestType DEF CommitApplied
<1>2. PICK m \in {"dry_run", "live"} : m = req[h].arg
  BY RequestType DEF CommitApplied
<1>3. /\ Trail(r, "applied", m)
      /\ mode' = Assigned(mode, r, req[h].seen.mode, m)
      /\ req'[h].op = "idle"
  BY <1>1, <1>2, SlotAfter DEF CommitApplied
<1>4. /\ DOMAIN audit'[r] = 1 .. Len(audit[r]) + 1 /\ Len(audit[r]) \in Nat
      /\ audit'[r][Len(audit[r]) + 1] = [type |-> "applied", mode |-> m]
      /\ \A s \in Recs \ {r} : audit'[s] = audit[s]
  BY <1>3, TrailAppends DEF Events, Modes
<1>5. /\ mode'[r] # "none"
      /\ mode'[r] = m \/ mode'[r] = mode[r]
      /\ \A s \in Recs \ {r} : mode'[s] = mode[s]
  BY <1>1, <1>3 DEF Assigned, ModeInv, ModeKept, CommitApplied, TypeOK
<1>6. ModeRecorded(r)'
  <2>1. CASE mode'[r] = m
    BY <1>4, <1>5, <2>1 DEF ModeRecorded
  <2>2. CASE mode'[r] = mode[r]
    BY <1>5, <2>2 DEF ModeInv, ModeRecorded, TrailsGrow
  <2>. QED  BY <1>5, <2>1, <2>2
<1>7. ASSUME NEW s \in Recs \ {r} PROVE ModeRecorded(s)'
  BY <1>4, <1>5 DEF ModeInv, ModeRecorded, HasEvent
<1>8. ASSUME NEW g \in Handlers PROVE (ModeKept(g) /\ ModeRead(g))'
  <2>1. CASE g = h
    BY <1>3, <2>1 DEF ModeKept, ModeRead
  <2>2. CASE g # h
    <3>1. req'[g] = req[g] /\ ModeKept(g) /\ ModeRead(g)
      BY <2>2 DEF ModeInv
    <3>2. req[g].op \in {"apply", "write", "record"} => req[g].rec \in Recs
      BY RequestType
    <3>3. \A s \in Recs : mode[s] # "none" => mode'[s] # "none"
      BY <1>5
    <3>. QED  BY <3>1, <3>2, <3>3 DEF ModeKept, ModeRead
  <2>. QED  BY <2>1, <2>2
<1>. QED  BY <1>6, <1>7, <1>8 DEF ModeInv

LEMMA ModeOther ==
  ASSUME TypeOK, ModeInv, TypeOK', TrailsGrow, NEW h \in Handlers,
         Queue(h) \/ Decide(h) \/ Apply(h) \/ Observe(h) \/ Abort(h), ~CommitApplied(h),
         \A g \in Handlers \ {h} : req'[g] = req[g]
  PROVE  ModeInv'
<1>1. mode' = mode
  BY DEF Queue, Decide, Apply, Observe, PersistRows, AuditCreated, SubmitFeedback,
         CommitFeedback, Approve, CommitApprove, ApplyRequest, RefuseWrite, CommitRefused,
         DryRun, Connect, WriteNode, Disconnect, Simulate, CommitSimulate, MeasureImpact,
         CommitImpact, Abort, row
<1>2. CASE \E r \in Recs, m \in {"dry_run", "live"} : ApplyRequest(h, r, m)
  <2>1. PICK r \in Recs : /\ req'[h].op = "apply" /\ req'[h].rec = r
                          /\ req'[h].seen.mode = mode[r]
    BY <1>2 DEF ApplyRequest, Begin, TypeOK
  <2>2. (ModeKept(h) /\ ModeRead(h))'
    BY <1>1, <2>1 DEF ModeKept, ModeRead
  <2>. QED  BY <1>1, <2>2, ModeStep, AppliedRecorded
<1>3. CASE DryRun(h) \/ Connect(h) \/ WriteNode(h) \/ Disconnect(h)
  <2>1. /\ req[h].op \in {"apply", "write"} /\ req'[h].op \in {"write", "record"}
        /\ req'[h].rec = req[h].rec /\ req'[h].seen = req[h].seen
    <3>1. req[h] \in Requests /\ req \in [Handlers -> Requests]
      BY RequestType DEF TypeOK
    <3>2. CASE DryRun(h) \/ Disconnect(h)
      BY <3>1, <3>2 DEF DryRun, Disconnect, Requests
    <3>3. CASE Connect(h)
      BY <3>1, <3>3 DEF Connect, Requests
    <3>4. CASE WriteNode(h)
      BY <3>1, <3>4 DEF WriteNode, Requests
    <3>. QED  BY <1>3, <3>2, <3>3, <3>4
  <2>2. (ModeKept(h) /\ ModeRead(h))'
    BY <1>1, <2>1 DEF ModeInv, ModeKept, ModeRead
  <2>. QED  BY <1>1, <2>2, ModeStep, AppliedRecorded
<1>4. CASE RefuseWrite(h) \/ CommitRefused(h)
  <2>1. req'[h].op \in {"refuse", "idle"}
    BY <1>4, SlotAfter DEF RefuseWrite, CommitRefused, TypeOK, Requests
  <2>2. (ModeKept(h) /\ ModeRead(h))'
    BY <2>1 DEF ModeKept, ModeRead
  <2>. QED  BY <1>1, <2>2, ModeStep, AppliedRecorded
<1>5. CASE Queue(h) \/ Decide(h) \/ Observe(h) \/ Abort(h)
  <2>1. req'[h].op \notin {"apply", "write", "record"}
    BY <1>5, OtherSlot
  <2>2. (ModeKept(h) /\ ModeRead(h))'
    BY <2>1 DEF ModeKept, ModeRead
  <2>. QED  BY <1>1, <2>2, ModeStep, AppliedRecorded
<1>. QED  BY <1>2, <1>3, <1>4, <1>5 DEF Apply

LEMMA ModeNext == TypeOK /\ ModeInv /\ [Next]_vars => ModeInv'
<1>. SUFFICES ASSUME TypeOK, ModeInv, [Next]_vars PROVE ModeInv'
  OBVIOUS
<1>1. ASSUME NEW h \in Handlers,
             Queue(h) \/ Decide(h) \/ Apply(h) \/ Observe(h) \/ Abort(h)
      PROVE  ModeInv'
  <2>1. TypeOK' /\ TrailsGrow /\ \A g \in Handlers \ {h} : req'[g] = req[g]
    BY <1>1, NextType, NextTrails, OneSlot
  <2>. QED  BY <1>1, <2>1, ModeApplied, ModeOther
<1>2. CASE UNCHANGED vars
  BY <1>2 DEF vars, ModeInv, ModeRecorded, ModeKept, ModeRead, HasEvent
<1>. QED  BY <1>1, <1>2 DEF Next

LEMMA ModeInit == Init => ModeInv
BY DEF Init, IdleReq, ModeInv, ModeRecorded, ModeKept, ModeRead, HasEvent

\* The apply_mode column always names a mode its trail holds an application in, although
\* racing commits leave it out of the UPDATE when it looked unchanged.
THEOREM ModeHolds == Spec => []ModeOnTrail
<1>1. Spec => []TypeOK
  BY TypeCorrect
<1>2. ModeInv => ModeOnTrail
  BY DEF ModeInv, ModeRecorded, ModeOnTrail
<1>. QED  BY <1>1, <1>2, ModeInit, ModeNext, PTL DEF Spec

-----------------------------------------------------------------------------
(* The order of decisions on a trail.                                      *)

\* A trail reads in order: each approval on it follows an acceptance, and each outcome of an
\* apply, success or failure, follows an approval that follows an acceptance, whatever stale
\* commits did to the status meanwhile.
DecisionsInOrder ==
  \A r \in Recs : \A k \in DOMAIN audit[r] :
    /\ audit[r][k].type = "approved" => \E i \in 1 .. k - 1 : audit[r][i].type = "accepted"
    /\ audit[r][k].type \in {"applied", "apply_failed"} =>
         \E i, j \in 1 .. k - 1 :
           i < j /\ audit[r][i].type = "accepted" /\ audit[r][j].type = "approved"

\* An apply that ends, well or badly, still rests on an approval on record.
EndRests == \A h \in Handlers : req[h].op \in {"record", "refuse"} =>
                                  HasInOrder(req[h].rec, "accepted", "approved")

LEMMA EndRestsStep ==
  ASSUME TypeOK, ApprovalInv, EndRests, NEW h \in Handlers,
         Queue(h) \/ Decide(h) \/ Apply(h) \/ Observe(h) \/ Abort(h)
  PROVE  EndRests'
<1>1. TrailsGrow /\ \A g \in Handlers \ {h} : req'[g] = req[g]
  BY NextTrails, OneSlot
<1>2. ASSUME NEW g \in Handlers \ {h}, req'[g].op \in {"record", "refuse"}
      PROVE  HasInOrder(req[g].rec, "accepted", "approved")'
  <2>1. req'[g] = req[g]
    BY <1>1
  <2>2. PICK r \in Recs : r = req[g].rec
    BY <1>2, <2>1, RequestType
  <2>3. HasInOrder(r, "accepted", "approved")'
    BY <1>1, <1>2, <2>1, <2>2, EventsStay DEF EndRests
  <2>. QED  BY <2>1, <2>2, <2>3
<1>3. ASSUME RefuseWrite(h) \/ DryRun(h) \/ Disconnect(h)
      PROVE  HasInOrder(req[h].rec, "accepted", "approved")'
  <2>1. req[h].op \in {"apply", "write"}
    BY <1>3 DEF RefuseWrite, DryRun, Disconnect
  <2>2. PICK r \in Recs : r = req[h].rec
    BY <2>1, RequestType
  <2>3. req'[h].rec = r
    BY <1>3, <2>2, RequestType DEF RefuseWrite, DryRun, Disconnect, TypeOK, Requests
  <2>4. HasInOrder(r, "accepted", "approved")'
    BY <1>1, <2>1, <2>2, EventsStay DEF ApprovalInv
  <2>. QED  BY <2>3, <2>4
<1>4. ASSUME ~(RefuseWrite(h) \/ DryRun(h) \/ Disconnect(h))
      PROVE  req'[h].op \notin {"record", "refuse"}
  <2>1. CASE \E r \in Recs, m \in {"dry_run", "live"} : ApplyRequest(h, r, m)
    BY <2>1 DEF ApplyRequest, Begin, TypeOK
  <2>2. CASE CommitRefused(h) \/ CommitApplied(h)
    BY <2>2, SlotAfter DEF CommitRefused, CommitApplied
  <2>3. CASE Connect(h) \/ WriteNode(h)
    <3>1. req[h] \in Requests /\ req \in [Handlers -> Requests]
      BY RequestType DEF TypeOK
    <3>2. CASE Connect(h)
      BY <3>1, <3>2 DEF Connect, Requests
    <3>3. CASE WriteNode(h)
      BY <3>1, <3>3 DEF WriteNode, Requests
    <3>. QED  BY <2>3, <3>2, <3>3
  <2>4. CASE Queue(h) \/ Decide(h) \/ Observe(h) \/ Abort(h)
    BY <2>4, OtherSlot
  <2>. QED  BY <1>4, <2>1, <2>2, <2>3, <2>4 DEF Apply
<1>. QED  BY <1>2, <1>3, <1>4 DEF EndRests

\* Appending an event keeps the order if the event has what it needs before it.
LEMMA OrderAppends ==
  ASSUME TypeOK, DecisionsInOrder, NEW r \in Recs, NEW t, NEW m,
         [type |-> t, mode |-> m] \in Events, Trail(r, t, m),
         t = "approved" => HasEvent(r, "accepted"),
         t \in {"applied", "apply_failed"} => HasInOrder(r, "accepted", "approved")
  PROVE  DecisionsInOrder'
<1>1. PICK n \in Nat : n = Len(audit[r])
  BY TrailAppends
<1>2. /\ DOMAIN audit[r] = 1 .. n /\ DOMAIN audit'[r] = 1 .. n + 1
      /\ audit'[r][n + 1].type = t
      /\ \A i \in 1 .. n : audit'[r][i] = audit[r][i]
      /\ \A s \in Recs \ {r} : audit'[s] = audit[s]
  BY <1>1, TrailAppends DEF TrailsGrow
<1>3. ASSUME NEW k \in 1 .. n, audit[r][k].type = "approved"
      PROVE  \E i \in 1 .. k - 1 : audit'[r][i].type = "accepted"
  <2>1. PICK i \in 1 .. k - 1 : audit[r][i].type = "accepted"
    BY <1>2, <1>3 DEF DecisionsInOrder
  <2>2. i \in 1 .. n
    OBVIOUS
  <2>. QED  BY <1>2, <2>1, <2>2
<1>4. ASSUME NEW k \in 1 .. n, audit[r][k].type \in {"applied", "apply_failed"}
      PROVE  \E i, j \in 1 .. k - 1 :
               i < j /\ audit'[r][i].type = "accepted" /\ audit'[r][j].type = "approved"
  <2>1. PICK i \in 1 .. k - 1, j \in 1 .. k - 1 :
          i < j /\ audit[r][i].type = "accepted" /\ audit[r][j].type = "approved"
    BY <1>2, <1>4 DEF DecisionsInOrder
  <2>2. i \in 1 .. n /\ j \in 1 .. n
    OBVIOUS
  <2>3. audit'[r][i].type = "accepted" /\ audit'[r][j].type = "approved"
    BY <1>2, <2>1, <2>2
  <2>. QED  BY <2>1, <2>3
<1>5. t = "approved" => \E i \in 1 .. n : audit'[r][i].type = "accepted"
  <2>1. ASSUME HasEvent(r, "accepted") PROVE \E i \in 1 .. n : audit[r][i].type = "accepted"
    BY <1>2, <2>1 DEF HasEvent
  <2>. QED  BY <1>2, <2>1
<1>6. t \in {"applied", "apply_failed"} =>
        \E i, j \in 1 .. n :
          i < j /\ audit'[r][i].type = "accepted" /\ audit'[r][j].type = "approved"
  <2>1. ASSUME HasInOrder(r, "accepted", "approved")
        PROVE  \E i, j \in 1 .. n :
                 i < j /\ audit[r][i].type = "accepted" /\ audit[r][j].type = "approved"
    BY <1>2, <2>1 DEF HasInOrder
  <2>. QED  BY <1>2, <2>1
<1>7. n + 1 - 1 = n /\ \A k \in 1 .. n + 1 : k = n + 1 \/ k \in 1 .. n
  OBVIOUS
<1>. SUFFICES ASSUME NEW s \in Recs, NEW k \in DOMAIN audit'[s]
              PROVE  /\ audit'[s][k].type = "approved" =>
                          \E i \in 1 .. k - 1 : audit'[s][i].type = "accepted"
                     /\ audit'[s][k].type \in {"applied", "apply_failed"} =>
                          \E i, j \in 1 .. k - 1 : /\ i < j /\ audit'[s][i].type = "accepted"
                                                   /\ audit'[s][j].type = "approved"
  BY DEF DecisionsInOrder
<1>8. CASE s # r
  BY <1>2, <1>8 DEF DecisionsInOrder
<1>9. CASE s = r /\ k = n + 1
  BY <1>2, <1>5, <1>6, <1>7, <1>9
<1>10. CASE s = r /\ k \in 1 .. n
  BY <1>2, <1>3, <1>4, <1>10
<1>. QED  BY <1>2, <1>7, <1>8, <1>9, <1>10

LEMMA OrderKept == ASSUME DecisionsInOrder, audit' = audit PROVE DecisionsInOrder'
BY DEF DecisionsInOrder

LEMMA OrderStep ==
  ASSUME TypeOK, ApprovalInv, EndRests, DecisionsInOrder, NEW h \in Handlers,
         Queue(h) \/ Decide(h) \/ Apply(h) \/ Observe(h) \/ Abort(h)
  PROVE  DecisionsInOrder'
<1>1. CASE AuditCreated(h)
  <2>1. PICK r \in Recs : Trail(r, "created", "none")
    BY <1>1, CommitTrails
  <2>. QED  BY <2>1, OrderAppends DEF Events, Modes
<1>2. CASE CommitFeedback(h)
  <2>1. PICK r \in Recs, t \in {"accepted", "rejected"} : Trail(r, t, "none")
    BY <1>2, CommitTrails, RequestType DEF CommitFeedback
  <2>. QED  BY <2>1, OrderAppends DEF Events, Modes
<1>3. CASE CommitApprove(h)
  <2>1. PICK r \in Recs : r = req[h].rec
    BY <1>3, RequestType DEF CommitApprove
  <2>2. HasEvent(r, "accepted") /\ Trail(r, "approved", "none")
    BY <1>3, <2>1, CommitTrails DEF CommitApprove, ApprovalInv
  <2>. QED  BY <2>2, OrderAppends DEF Events, Modes
<1>4. CASE CommitRefused(h) \/ CommitApplied(h)
  <2>1. PICK r \in Recs : r = req[h].rec
    BY <1>4, RequestType DEF CommitRefused, CommitApplied
  <2>2. PICK m \in {"dry_run", "live"} : m = req[h].arg
    BY <1>4, RequestType DEF CommitRefused, CommitApplied
  <2>3. PICK t \in {"applied", "apply_failed"} : Trail(r, t, m)
    BY <1>4, <2>1, <2>2, CommitTrails
  <2>4. HasInOrder(r, "accepted", "approved")
    BY <1>4, <2>1 DEF EndRests, CommitRefused, CommitApplied
  <2>. QED  BY <2>3, <2>4, OrderAppends DEF Events, Modes
<1>5. CASE CommitImpact(h)
  <2>1. PICK r \in Recs : Trail(r, "impact", "none")
    BY <1>5, CommitTrails, RequestType DEF CommitImpact
  <2>. QED  BY <2>1, OrderAppends DEF Events, Modes
<1>. QED  BY <1>1, <1>2, <1>3, <1>4, <1>5, OtherTrails, OrderKept

\* Whatever races, trails read in order: accepted, approved, then applied or failed.
THEOREM DecisionsHold == Spec => []DecisionsInOrder
<1>1. Init => EndRests /\ DecisionsInOrder
  BY DEF Init, IdleReq, EndRests, DecisionsInOrder
<1>2. ASSUME TypeOK, ApprovalInv, EndRests, DecisionsInOrder, [Next]_vars
      PROVE  EndRests' /\ DecisionsInOrder'
  <2>1. CASE UNCHANGED vars
    <3>1. EndRests'
      BY <1>2, <2>1 DEF vars, EndRests, HasInOrder
    <3>. QED  BY <1>2, <2>1, <3>1, OrderKept DEF vars
  <2>. QED  BY <1>2, <2>1, EndRestsStep, OrderStep DEF Next
<1>. QED  BY <1>1, <1>2, TypeCorrect, ApprovalInit, ApprovalNext, PTL DEF Spec
=============================================================================
