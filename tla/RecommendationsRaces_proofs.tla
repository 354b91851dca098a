--------------------- MODULE RecommendationsRaces_proofs ---------------------
(***************************************************************************)
(* What a recommendation's row and its lifecycle owe to stale commits, for *)
(* any number of recommendations, handlers, plants and fields and any      *)
(* settings: the row still tells what the trail tells, and nothing but a   *)
(* request that was overtaken leaves the path of RUNBOOK E9.               *)
(***************************************************************************)
EXTENDS Recommendations_proofs

\* RowOnTrail of one row.
Told(r) ==
  /\ IF Moves(r) = {}
     THEN status[r] \in {"absent", "pending"}
     ELSE \E i \in Moves(r) :
            /\ status[r] = StatusAfter[audit[r][i].type]
            /\ \A j \in Moves(r) : j > i => audit[r][j].type = "accepted"
  /\ resolved[r] <=> HasEvent(r, "applied") \/ HasEvent(r, "rejected")

Moved(r) == status[r] \notin {"absent", "pending"}

\* What a request has read is a status it is admitted in; a row read as accepted never
\* becomes pending again.
SeenOK(h) ==
  LET q == req[h] IN
  /\ q.op = "feedback" => \/ q.seen.status = "pending"
                          \/ q.seen.status = "accepted" /\ Moved(q.rec)
  /\ q.op = "approve" => q.seen.status = "accepted"
  /\ q.op \in {"apply", "write", "record", "refuse"} => q.seen.status = "approved"

ToldInv ==
  /\ \A r \in Recs : Told(r)
  /\ \A h \in Handlers : SeenOK(h)

-----------------------------------------------------------------------------
(* What one commit contributes.                                            *)

LEMMA StatusAfterIs ==
  /\ DOMAIN StatusAfter = {"accepted", "rejected", "approved", "applied", "apply_failed"}
  /\ StatusAfter["accepted"] = "accepted" /\ StatusAfter["rejected"] = "rejected"
  /\ StatusAfter["approved"] = "approved" /\ StatusAfter["applied"] = "applied"
  /\ StatusAfter["apply_failed"] = "failed"
BY DEF StatusAfter

LEMMA ToldKept ==
  ASSUME NEW r \in Recs, Told(r), audit'[r] = audit[r], status'[r] = status[r],
         resolved'[r] = resolved[r]
  PROVE  Told(r)'
BY DEF Told, Moves, HasEvent

\* The trail of one row after an event.
LEMMA MovesAfter ==
  ASSUME TypeOK, NEW r \in Recs, NEW t, NEW m, [type |-> t, mode |-> m] \in Events,
         Trail(r, t, m), NEW n, n = Len(audit[r]) + 1
  PROVE  /\ Moves(r)' = IF t \in DOMAIN StatusAfter THEN Moves(r) \cup {n} ELSE Moves(r)
         /\ audit'[r][n].type = t
         /\ \A i \in Moves(r) : i < n /\ audit'[r][i] = audit[r][i]
         /\ \A u : HasEvent(r, u)' <=> HasEvent(r, u) \/ u = t
         /\ n \in Nat /\ Moves(r) \subseteq Nat
<1>1. /\ DOMAIN audit[r] = 1 .. Len(audit[r]) /\ Len(audit[r]) \in Nat
      /\ DOMAIN audit'[r] = 1 .. Len(audit[r]) + 1
      /\ audit'[r][n] = [type |-> t, mode |-> m]
  BY TrailAppends
<1>2. \A i \in DOMAIN audit[r] : audit'[r][i] = audit[r][i]
  BY TrailAppends DEF TrailsGrow
<1>3. /\ DOMAIN audit'[r] = DOMAIN audit[r] \cup {n}
      /\ n \in Nat /\ \A i \in DOMAIN audit[r] : i < n /\ i \in Nat
      /\ audit'[r][n].type = t
  BY <1>1
<1>4. Moves(r)' = IF t \in DOMAIN StatusAfter THEN Moves(r) \cup {n} ELSE Moves(r)
  BY <1>2, <1>3 DEF Moves
<1>5. \A u : HasEvent(r, u)' <=> HasEvent(r, u) \/ u = t
  BY <1>2, <1>3 DEF HasEvent
<1>. QED  BY <1>2, <1>3, <1>4, <1>5 DEF Moves

\* An event that tells of no move changes nothing.
LEMMA NoteTold ==
  ASSUME TypeOK, NEW r \in Recs, \A s \in Recs : Told(s),
         NEW t, [type |-> t, mode |-> "none"] \in Events,
         t \notin DOMAIN StatusAfter, Trail(r, t, "none"), UNCHANGED <<status, resolved>>
  PROVE  \A s \in Recs : Told(s)'
<1>1. PICK n : n = Len(audit[r]) + 1
  OBVIOUS
<1>2. /\ Moves(r)' = Moves(r)
      /\ \A i \in Moves(r) : audit'[r][i] = audit[r][i]
      /\ HasEvent(r, "applied")' <=> HasEvent(r, "applied")
      /\ HasEvent(r, "rejected")' <=> HasEvent(r, "rejected")
  BY <1>1, MovesAfter, StatusAfterIs
<1>3. Told(r)'
  BY <1>2 DEF Told
<1>4. \A s \in Recs \ {r} : audit'[s] = audit[s]
  BY TrailAppends
<1>. QED  BY <1>3, <1>4, ToldKept

\* A move and its event, in one commit, leave the row as the trail says; so does an
\* acceptance of what was accepted.
LEMMA MoveTold ==
  ASSUME TypeOK, NEW r \in Recs, \A s \in Recs : Told(s),
         NEW t \in DOMAIN StatusAfter, NEW m \in Modes, Trail(r, t, m),
         \/ status'[r] = StatusAfter[t]
         \/ t = "accepted" /\ status'[r] = status[r] /\ Moved(r),
         resolved'[r] = (t \in {"applied", "rejected"} \/ resolved[r]),
         \A s \in Recs \ {r} : status'[s] = status[s] /\ resolved'[s] = resolved[s]
  PROVE  \A s \in Recs : Told(s)'
<1>0. [type |-> t, mode |-> m] \in Events
  BY StatusAfterIs DEF Events
<1>1. PICK n : n = Len(audit[r]) + 1
  OBVIOUS
<1>2. /\ Moves(r)' = Moves(r) \cup {n} /\ audit'[r][n].type = t
      /\ \A i \in Moves(r) : i < n /\ audit'[r][i] = audit[r][i]
      /\ \A u : HasEvent(r, u)' <=> HasEvent(r, u) \/ u = t
      /\ n \in Nat /\ Moves(r) \subseteq Nat
  BY <1>0, <1>1, MovesAfter
<1>3. resolved'[r] <=> HasEvent(r, "applied")' \/ HasEvent(r, "rejected")'
  BY <1>2 DEF Told
<1>4. \E i \in Moves(r)' :
        /\ status'[r] = StatusAfter[audit'[r][i].type]
        /\ \A j \in Moves(r)' : j > i => audit'[r][j].type = "accepted"
  <2>1. CASE status'[r] = StatusAfter[t]
    <3>1. \A j \in Moves(r)' : ~(j > n)
      BY <1>2
    <3>. QED  BY <1>2, <2>1, <3>1
  <2>2. CASE t = "accepted" /\ status'[r] = status[r] /\ Moved(r)
    <3>1. PICK i \in Moves(r) :
            /\ status[r] = StatusAfter[audit[r][i].type]
            /\ \A j \in Moves(r) : j > i => audit[r][j].type = "accepted"
      BY <2>2 DEF Told, Moved
    <3>. QED  BY <1>2, <2>2, <3>1
  <2>. QED  BY <2>1, <2>2
<1>5. Told(r)'
  BY <1>2, <1>3, <1>4 DEF Told
<1>6. \A s \in Recs \ {r} : audit'[s] = audit[s]
  BY <1>0, TrailAppends
<1>. QED  BY <1>5, <1>6, ToldKept

-----------------------------------------------------------------------------
(* The commits that move a row.                                            *)

Moving(h) == CommitFeedback(h) \/ CommitApprove(h) \/ CommitRefused(h) \/ CommitApplied(h)

\* The event of each of them, and the status it was admitted on.  What the ORM leaves out
\* of the UPDATE is an acceptance of what was read as accepted, nothing else.
LEMMA Commits ==
  ASSUME TypeOK, ToldInv, NEW h \in Handlers, Moving(h)
  PROVE  \E r \in Recs, t \in DOMAIN StatusAfter, m \in Modes :
           /\ r = req[h].rec /\ Trail(r, t, m) /\ Finish(h)
           /\ resolved' = IF t \in {"applied", "rejected"} THEN [resolved EXCEPT ![r] = TRUE]
                          ELSE resolved
           /\ \/ status' = [status EXCEPT ![r] = StatusAfter[t]]
              \/ t = "accepted" /\ status' = status /\ Moved(r)
           /\ t \in {"accepted", "rejected"} => req[h].seen.status \in {"pending", "accepted"}
           /\ t = "approved" => req[h].seen.status = "accepted"
           /\ t \in {"applied", "apply_failed"} => req[h].seen.status = "approved"
<1>0. SeenOK(h)
  BY DEF ToldInv
<1>1. CASE CommitFeedback(h)
  <2>1. PICK r \in Recs, t \in {"accepted", "rejected"} : r = req[h].rec /\ t = req[h].arg
    BY <1>1, RequestType DEF CommitFeedback
  <2>2. /\ Trail(r, t, "none") /\ Finish(h)
        /\ resolved' = IF t = "rejected" THEN [resolved EXCEPT ![r] = TRUE] ELSE resolved
        /\ status' = Assigned(status, r, req[h].seen.status, t)
    BY <1>1, <2>1 DEF CommitFeedback
  <2>3. \/ req[h].seen.status = "pending"
        \/ req[h].seen.status = "accepted" /\ Moved(r)
    BY <1>0, <1>1, <2>1 DEF SeenOK, CommitFeedback
  <2>4. \/ status' = [status EXCEPT ![r] = t]
        \/ t = "accepted" /\ status' = status /\ Moved(r)
    BY <2>2, <2>3 DEF Assigned
  <2>5. StatusAfter[t] = t /\ t \in DOMAIN StatusAfter /\ "none" \in Modes
    BY StatusAfterIs DEF Modes
  <2>. QED  BY <2>1, <2>2, <2>3, <2>4, <2>5
<1>2. CASE CommitApprove(h)
  <2>1. PICK r \in Recs : r = req[h].rec
    BY <1>2, RequestType DEF CommitApprove
  <2>2. /\ Trail(r, "approved", "none") /\ Finish(h) /\ resolved' = resolved
        /\ status' = Assigned(status, r, req[h].seen.status, "approved")
    BY <1>2, <2>1 DEF CommitApprove
  <2>3. req[h].seen.status = "accepted"
    BY <1>0, <1>2 DEF SeenOK, CommitApprove
  <2>4. status' = [status EXCEPT ![r] = "approved"]
    BY <2>2, <2>3 DEF Assigned
  <2>. QED  BY <2>1, <2>2, <2>3, <2>4, StatusAfterIs DEF Modes
<1>3. CASE CommitRefused(h) \/ CommitApplied(h)
  <2>1. PICK r \in Recs, m \in {"dry_run", "live"} : r = req[h].rec /\ m = req[h].arg
    BY <1>3, RequestType DEF CommitRefused, CommitApplied
  <2>2. PICK t \in {"applied", "apply_failed"} :
          /\ Trail(r, t, m) /\ Finish(h)
          /\ resolved' = IF t = "applied" THEN [resolved EXCEPT ![r] = TRUE] ELSE resolved
          /\ status' = Assigned(status, r, req[h].seen.status, StatusAfter[t])
    BY <1>3, <2>1, StatusAfterIs DEF CommitRefused, CommitApplied
  <2>3. req[h].seen.status = "approved"
    BY <1>0, <1>3 DEF SeenOK, CommitRefused, CommitApplied
  <2>4. status' = [status EXCEPT ![r] = StatusAfter[t]]
    BY <2>2, <2>3, StatusAfterIs DEF Assigned
  <2>5. resolved' = IF t \in {"applied", "rejected"} THEN [resolved EXCEPT ![r] = TRUE]
                    ELSE resolved
    BY <2>2
  <2>6. t \in DOMAIN StatusAfter /\ m \in Modes /\ t \notin {"accepted", "rejected", "approved"}
    BY StatusAfterIs DEF Modes
  <2>. QED  BY <2>1, <2>2, <2>3, <2>4, <2>5, <2>6
<1>. QED  BY <1>1, <1>2, <1>3 DEF Moving
-----------------------------------------------------------------------------
(* Every step keeps ToldInv.                                               *)

\* The steps that neither move a row nor put anything on a trail.
Silent == UNCHANGED <<status, resolved, audit>>

LEMMA Kinds ==
  ASSUME TypeOK, NEW h \in Handlers,
         Queue(h) \/ Decide(h) \/ Apply(h) \/ Observe(h) \/ Abort(h)
  PROVE  \/ \E batch \in SUBSET Recs, simulated \in BOOLEAN : PersistRows(h, batch, simulated)
         \/ Moving(h)
         \/ AuditCreated(h) \/ CommitImpact(h)
         \/ Silent
BY DEF Queue, Decide, Apply, Observe, SubmitFeedback, Approve, ApplyRequest, RefuseWrite,
       DryRun, Connect, WriteNode, Disconnect, Simulate, CommitSimulate, MeasureImpact, Abort,
       row, Moving, Silent

\* A row that has moved never goes back to pending.
LEMMA MovedStays ==
  ASSUME TypeOK, ToldInv, NEW h \in Handlers,
         Queue(h) \/ Decide(h) \/ Apply(h) \/ Observe(h) \/ Abort(h), NEW r \in Recs, Moved(r)
  PROVE  Moved(r)'
<1>1. ASSUME NEW batch \in SUBSET Recs, NEW simulated \in BOOLEAN,
             PersistRows(h, batch, simulated)
      PROVE  Moved(r)'
  BY <1>1 DEF PersistRows, Moved
<1>2. CASE Moving(h)
  <2>1. PICK s \in Recs, t \in DOMAIN StatusAfter :
          status' = [status EXCEPT ![s] = StatusAfter[t]] \/ status' = status
    BY <1>2, Commits
  <2>2. StatusAfter[t] \notin {"absent", "pending"}
    BY StatusAfterIs
  <2>. QED  BY <2>1, <2>2 DEF TypeOK, Moved
<1>3. CASE AuditCreated(h) \/ CommitImpact(h) \/ Silent
  <2>1. status' = status
    BY <1>3 DEF AuditCreated, CommitImpact, Silent, row
  <2>. QED  BY <2>1 DEF Moved
<1>. QED  BY <1>1, <1>2, <1>3, Kinds

LEMMA ToldStep ==
  ASSUME TypeOK, ToldInv, NEW h \in Handlers,
         Queue(h) \/ Decide(h) \/ Apply(h) \/ Observe(h) \/ Abort(h)
  PROVE  \A s \in Recs : Told(s)'
<1>0. \A s \in Recs : Told(s)
  BY DEF ToldInv
<1>1. ASSUME NEW batch \in SUBSET Recs, NEW simulated \in BOOLEAN,
             PersistRows(h, batch, simulated), NEW s \in Recs
      PROVE  Told(s)'
  <2>1. /\ status'[s] = IF s \in batch THEN "pending" ELSE status[s]
        /\ audit'[s] = audit[s] /\ resolved'[s] = resolved[s]
        /\ s \in batch => status[s] = "absent"
    BY <1>1 DEF PersistRows
  <2>2. CASE s \in batch
    <3>1. Moves(s) = {}
      <4>1. \A i \in Moves(s) : StatusAfter[audit[s][i].type] # "absent"
        BY StatusAfterIs DEF Moves
      <4>. QED  BY <1>0, <2>1, <2>2, <4>1 DEF Told
    <3>. QED  BY <1>0, <2>1, <2>2, <3>1 DEF Told, Moves, HasEvent
  <2>3. CASE s \notin batch
    BY <1>0, <2>1, <2>3, ToldKept
  <2>. QED  BY <2>2, <2>3
<1>2. CASE Moving(h)
  <2>1. PICK r \in Recs, t \in DOMAIN StatusAfter, m \in Modes :
          /\ Trail(r, t, m)
          /\ resolved' = IF t \in {"applied", "rejected"} THEN [resolved EXCEPT ![r] = TRUE]
                         ELSE resolved
          /\ \/ status' = [status EXCEPT ![r] = StatusAfter[t]]
             \/ t = "accepted" /\ status' = status /\ Moved(r)
    BY <1>2, Commits
  <2>2. resolved'[r] = (t \in {"applied", "rejected"} \/ resolved[r])
    BY <2>1 DEF TypeOK
  <2>3. \A s \in Recs \ {r} : status'[s] = status[s] /\ resolved'[s] = resolved[s]
    BY <2>1 DEF TypeOK
  <2>4. \/ status'[r] = StatusAfter[t]
        \/ t = "accepted" /\ status'[r] = status[r] /\ Moved(r)
    BY <2>1 DEF TypeOK
  <2>. QED  BY <1>0, <2>1, <2>2, <2>3, <2>4, MoveTold
<1>3. CASE AuditCreated(h) \/ CommitImpact(h)
  <2>1. PICK r \in Recs, t \in {"created", "impact"} : Trail(r, t, "none")
    BY <1>3, CommitTrails, RequestType DEF CommitImpact
  <2>2. UNCHANGED <<status, resolved>>
    BY <1>3 DEF AuditCreated, CommitImpact, row
  <2>3. t \notin DOMAIN StatusAfter /\ [type |-> t, mode |-> "none"] \in Events
    BY StatusAfterIs DEF Events, Modes
  <2>. QED  BY <1>0, <2>1, <2>2, <2>3, NoteTold
<1>4. CASE Silent
  BY <1>0, <1>4, ToldKept DEF Silent
<1>. QED  BY <1>1, <1>2, <1>3, <1>4, Kinds

\* The request a step has served: begun on the status it read, taken further, or over.
LEMMA SeenStep ==
  ASSUME TypeOK, ToldInv, NEW h \in Handlers,
         Queue(h) \/ Decide(h) \/ Apply(h) \/ Observe(h) \/ Abort(h)
  PROVE  SeenOK(h)'
<1>1. CASE req'[h].op \in {"idle", "created", "simulate", "impact"}
  BY <1>1 DEF SeenOK
<1>2. ASSUME NEW r \in Recs, NEW d \in {"accepted", "rejected"}, SubmitFeedback(h, r, d)
      PROVE  SeenOK(h)'
  <2>1. /\ req'[h].op = "feedback" /\ req'[h].rec = r /\ req'[h].seen.status = status[r]
        /\ status' = status /\ status[r] \in {"pending", "accepted"}
    BY <1>2 DEF SubmitFeedback, Begin, TypeOK, row
  <2>. QED  BY <2>1 DEF SeenOK, Moved
<1>3. ASSUME NEW r \in Recs, Approve(h, r) PROVE SeenOK(h)'
  <2>1. req'[h].op = "approve" /\ req'[h].seen.status = "accepted"
    BY <1>3 DEF Approve, Begin, TypeOK
  <2>. QED  BY <2>1 DEF SeenOK
<1>4. ASSUME NEW r \in Recs, NEW m \in {"dry_run", "live"}, ApplyRequest(h, r, m)
      PROVE  SeenOK(h)'
  <2>1. req'[h].op = "apply" /\ req'[h].seen.status = "approved"
    BY <1>4 DEF ApplyRequest, Begin, TypeOK
  <2>. QED  BY <2>1 DEF SeenOK
<1>5. CASE RefuseWrite(h) \/ DryRun(h) \/ Connect(h) \/ WriteNode(h) \/ Disconnect(h)
  <2>0. req[h] \in Requests /\ req \in [Handlers -> Requests]
    BY RequestType DEF TypeOK
  <2>1. /\ req[h].op \in {"apply", "write"} /\ req'[h].seen = req[h].seen
        /\ req'[h].op \in {"refuse", "record", "write"}
    <3>1. CASE RefuseWrite(h) \/ DryRun(h) \/ Disconnect(h)
      BY <2>0, <3>1 DEF RefuseWrite, DryRun, Disconnect, Requests
    <3>2. CASE Connect(h)
      BY <2>0, <3>2 DEF Connect, Requests
    <3>3. CASE WriteNode(h)
      BY <2>0, <3>3 DEF WriteNode, Requests
    <3>. QED  BY <1>5, <3>1, <3>2, <3>3
  <2>. QED  BY <2>1 DEF ToldInv, SeenOK
<1>6. CASE Moving(h) \/ CommitSimulate(h) \/ CommitImpact(h) \/ Abort(h)
  <2>1. Finish(h)
    BY <1>6 DEF Moving, CommitFeedback, CommitApprove, CommitRefused, CommitApplied,
                CommitSimulate, CommitImpact, Abort
  <2>. QED  BY <1>1, <2>1, SlotAfter
<1>7. CASE Queue(h)
  <2>1. req'[h].op \in {"idle", "created"}
    <3>0. req[h] \in Requests /\ req \in [Handlers -> Requests]
      BY RequestType DEF TypeOK
    <3>1. CASE AuditCreated(h)
      BY <3>0, <3>1 DEF AuditCreated, IdleReq, Requests
    <3>2. CASE \E batch \in SUBSET Recs, simulated \in BOOLEAN : PersistRows(h, batch, simulated)
      BY <3>0, <3>2 DEF PersistRows, IdleReq
    <3>. QED  BY <1>7, <3>1, <3>2 DEF Queue
  <2>. QED  BY <1>1, <2>1
<1>8. CASE \/ \E r \in Recs : Simulate(h, r)
           \/ \E r \in Recs, source \in {"history", "estimate"} : MeasureImpact(h, r, source)
  <2>1. req'[h].op \in {"simulate", "impact"}
    BY <1>8 DEF Simulate, MeasureImpact, Begin, TypeOK
  <2>. QED  BY <1>1, <2>1
<1>. QED  BY <1>2, <1>3, <1>4, <1>5, <1>6, <1>7, <1>8 DEF Decide, Apply, Observe, Moving

LEMMA ToldNext == TypeOK /\ ToldInv /\ [Next]_vars => ToldInv'
<1>. SUFFICES ASSUME TypeOK, ToldInv, [Next]_vars PROVE ToldInv'
  OBVIOUS
<1>1. ASSUME NEW h \in Handlers,
             Queue(h) \/ Decide(h) \/ Apply(h) \/ Observe(h) \/ Abort(h)
      PROVE  ToldInv'
  <2>1. ASSUME NEW g \in Handlers \ {h} PROVE SeenOK(g)'
    <3>1. req'[g] = req[g] /\ SeenOK(g)
      BY <1>1, OneSlot DEF ToldInv
    <3>2. req[g].op = "feedback" => req[g].rec \in Recs
      BY RequestType
    <3>3. \A r \in Recs : Moved(r) => Moved(r)'
      BY <1>1, MovedStays
    <3>. QED  BY <3>1, <3>2, <3>3 DEF SeenOK, Moved
  <2>. QED  BY <1>1, <2>1, ToldStep, SeenStep DEF ToldInv
<1>2. CASE UNCHANGED vars
  BY <1>2 DEF vars, ToldInv, Told, Moves, HasEvent, SeenOK, Moved
<1>. QED  BY <1>1, <1>2 DEF Next

LEMMA ToldInit == Init => ToldInv
BY DEF Init, IdleReq, ToldInv, Told, Moves, HasEvent, SeenOK

LEMMA ToldHolds == Spec => [](TypeOK /\ ToldInv)
<1>. QED  BY InitType, NextType, ToldInit, ToldNext, PTL DEF Spec

-----------------------------------------------------------------------------
(* The properties.                                                         *)

\* Whatever races, dies or is read stale: the status is that of an event on the trail after
\* which nothing moved the row, and resolved_at says that something applied or rejected it.
THEOREM RowHolds == Spec => []RowOnTrail
<1>1. ToldInv => RowOnTrail
  BY DEF ToldInv, Told, RowOnTrail
<1>. QED  BY <1>1, ToldHolds, PTL

\* A commit that was not overtaken is a step of the lifecycle.
LEMMA FreshCommit ==
  ASSUME TypeOK, ToldInv, NEW h \in Handlers, Moving(h), ~Overtaken
  PROVE  Lifecycle!Next \/ status' = status
<1>1. PICK r \in Recs, t \in DOMAIN StatusAfter :
        /\ r = req[h].rec /\ Finish(h)
        /\ status' = [status EXCEPT ![r] = StatusAfter[t]] \/ status' = status
        /\ t \in {"accepted", "rejected"} => req[h].seen.status \in {"pending", "accepted"}
        /\ t = "approved" => req[h].seen.status = "accepted"
        /\ t \in {"applied", "apply_failed"} => req[h].seen.status = "approved"
  BY Commits
<1>2. req'[h] = IdleReq /\ req[h].op \in {"feedback", "approve", "record", "refuse"}
  BY <1>1 DEF Finish, TypeOK, Moving, CommitFeedback, CommitApprove, CommitRefused, CommitApplied
<1>3. req[h].seen.status = status[r]
  BY <1>1, <1>2 DEF Overtaken
<1>4. status \in [Recs -> Statuses]
  BY DEF TypeOK
<1>5. CASE status' = status
  BY <1>5
<1>6. CASE status' = [status EXCEPT ![r] = StatusAfter[t]]
  <2>1. CASE t = "accepted" /\ status[r] = "accepted"
    BY <1>4, <1>6, <2>1, StatusAfterIs
  <2>2. CASE t = "accepted" /\ status[r] = "pending"
    BY <1>6, <2>2, StatusAfterIs DEF Lifecycle!Next, Lifecycle!Accept, Lifecycle!Move
  <2>3. CASE t = "rejected"
    BY <1>1, <1>3, <1>6, <2>3, StatusAfterIs DEF Lifecycle!Next, Lifecycle!Reject, Lifecycle!Move
  <2>4. CASE t = "approved"
    BY <1>1, <1>3, <1>6, <2>4, StatusAfterIs DEF Lifecycle!Next, Lifecycle!Approve, Lifecycle!Move
  <2>5. CASE t = "applied"
    BY <1>1, <1>3, <1>6, <2>5, StatusAfterIs DEF Lifecycle!Next, Lifecycle!Apply, Lifecycle!Move
  <2>6. CASE t = "apply_failed"
    BY <1>1, <1>3, <1>6, <2>6, StatusAfterIs DEF Lifecycle!Next, Lifecycle!Fail, Lifecycle!Move
  <2>. QED  BY <1>1, <1>3, <2>1, <2>2, <2>3, <2>4, <2>5, <2>6, StatusAfterIs
<1>. QED  BY <1>1, <1>5, <1>6

LEMMA LifecycleNext ==
  ASSUME TypeOK, ToldInv, [Next]_vars
  PROVE  Lifecycle!Next \/ Overtaken \/ status' = status
<1>1. ASSUME NEW h \in Handlers, Moving(h)
      PROVE  Lifecycle!Next \/ Overtaken \/ status' = status
  BY <1>1, FreshCommit
<1>2. ASSUME NEW h \in Handlers, NEW batch \in SUBSET Recs, NEW simulated \in BOOLEAN,
             PersistRows(h, batch, simulated)
      PROVE  Lifecycle!Next
  BY <1>2 DEF PersistRows, Lifecycle!Next, Lifecycle!Queue
<1>3. ASSUME NEW h \in Handlers, AuditCreated(h) \/ CommitImpact(h) \/ Silent
      PROVE  status' = status
  BY <1>3 DEF AuditCreated, CommitImpact, Silent, row
<1>4. CASE UNCHANGED vars
  BY <1>4 DEF vars
<1>. QED  BY <1>1, <1>2, <1>3, <1>4, Kinds DEF Next

\* Only a request that was overtaken between its read and its commit takes the status off the
\* lifecycle of RUNBOOK E9; every other step of any handler is a step of it.
THEOREM LifecycleHolds == Spec => LifecycleUnlessOvertaken
<1>1. TypeOK /\ ToldInv /\ [Next]_vars => [Lifecycle!Next \/ Overtaken]_status
  BY LifecycleNext
<1>. QED  BY <1>1, ToldHolds, PTL DEF Spec, LifecycleUnlessOvertaken
=============================================================================
