------------------------ MODULE TelemetryBufferProofs ------------------------
(***************************************************************************)
(* For any devices, batches and timers, and any number of crashes, disk    *)
(* errors and outages: the type invariant of the durable buffer; that no   *)
(* acknowledged batch is lost, as long as no append lands while a rewrite  *)
(* is being renamed into place; that batches are settled in the order they *)
(* were appended; and that while nothing fails each is ingested once.      *)
(***************************************************************************)
EXTENDS TelemetryBuffer, SequenceTheorems, TLAPS

\* At most one pass is under way.
Busy(p) == pass[p].step # "idle"

AtMostOneBusy == \A p, q \in Passes : Busy(p) /\ Busy(q) => p = q

LEMMA AppendedType ==
    ASSUME TypeOK, NEW b \in Batches, NEW part \in Part
    PROVE  /\ Appended(b, part) \in Seq(Chunk)
           /\ Len(Appended(b, part)) = Len(file) + 1
           /\ \A i \in 1 .. Len(file) : Appended(b, part)[i] = file[i]
           /\ Appended(b, part)[Len(file) + 1] =
                  [batch |-> b, enqueuedAt |-> appends + 1, part |-> part]
<1>1. [batch |-> b, enqueuedAt |-> appends + 1, part |-> part] \in Chunk
  BY DEF TypeOK, Chunk
<1> QED BY <1>1, AppendProperties DEF TypeOK, Appended

LEMMA CutShortType ==
    ASSUME TypeOK, NEW b \in Batches, CutShort(b)
    PROVE  file' \in Seq(Chunk) /\ appends' \in Nat
<1>1. CASE UNCHANGED <<file, appends>>
  BY <1>1 DEF TypeOK
<1>2. CASE (\E part \in Part \ {"whole"} : file' = Appended(b, part)) /\ appends' = appends + 1
  <2>1. PICK part \in Part \ {"whole"} : file' = Appended(b, part)
    BY <1>2
  <2>2. file' \in Seq(Chunk)
    BY <2>1, AppendedType
  <2>3. appends' \in Nat
    BY <1>2 DEF TypeOK
  <2> QED BY <2>2, <2>3
<1> QED BY <1>1, <1>2 DEF CutShort

LEMMA SpendType ==
    ASSUME TypeOK,
           \/ Spend("crashes", MaxCrashes)
           \/ Spend("diskErrors", MaxDiskErrors)
           \/ Spend("outages", MaxOutages)
    PROVE  spent' \in [crashes : 0 .. MaxCrashes, diskErrors : 0 .. MaxDiskErrors,
                       outages : 0 .. MaxOutages]
<1>1. CASE Spend("crashes", MaxCrashes)
  BY <1>1, BoundsAssumption DEF TypeOK, Spend
<1>2. CASE Spend("diskErrors", MaxDiskErrors)
  BY <1>2, BoundsAssumption DEF TypeOK, Spend
<1>3. CASE Spend("outages", MaxOutages)
  BY <1>3, BoundsAssumption DEF TypeOK, Spend
<1> QED BY <1>1, <1>2, <1>3

LEMMA DeliverType ==
    ASSUME TypeOK, NEW b \in Batches, Deliver(b)
    PROVE  delivered' \in [Batches -> Nat]
BY DEF TypeOK, Deliver

LEMMA IdleType == Idle \in Pass
<1>1. <<>> \in Seq(Chunk)
  BY EmptySeq
<1> QED BY <1>1 DEF Idle, Pass

\* A finished pass leaves the guard down and no pass under way.
LEMMA FinishType ==
    ASSUME TypeOK, AtMostOneBusy, NEW p \in Passes, Busy(p), Finish(p)
    PROVE  /\ pass' \in [Passes -> Pass]
           /\ \A q \in Passes : ~Busy(q)'
           /\ flushing' = FALSE
BY IdleType DEF TypeOK, AtMostOneBusy, Busy, Finish, Idle

\* A pass that moves on is still the one under way.
LEMMA MoveType ==
    ASSUME TypeOK, AtMostOneBusy, NEW p \in Passes, Busy(p),
           NEW r \in Pass, r.step # "idle", pass' = [pass EXCEPT ![p] = r]
    PROVE  /\ pass' \in [Passes -> Pass]
           /\ AtMostOneBusy'
           /\ (\E q \in Passes : Busy(q))' /\ flushing
BY DEF TypeOK, AtMostOneBusy, Busy

LEMMA RewrittenType ==
    ASSUME NEW raw \in Seq(Chunk), NEW S \in SUBSET (1 .. Len(raw)), NEW order \in InOrder(S)
    PROVE  /\ Rewritten(raw, order) \in Seq(Chunk)
           /\ Len(Rewritten(raw, order)) = Len(order)
           /\ \A i \in S : \E k \in 1 .. Len(order) :
                  /\ order[k] = i
                  /\ Rewritten(raw, order)[k] = [raw[i] EXCEPT !.part = "whole"]
<1>1. PICK n \in 0 .. Cardinality(S) : order \in [1 .. n -> S]
  BY DEF InOrder
<1>2. order \in Seq(S) /\ Len(order) = n /\ DOMAIN order = 1 .. n
  BY <1>1
<1> DEFINE kept(k) == [raw[order[k]] EXCEPT !.part = "whole"]
<1>3. \A k \in 1 .. n : order[k] \in 1 .. Len(raw)
  BY <1>1
<1>4. \A k \in 1 .. n : raw[order[k]] \in Chunk
  BY <1>3
<1>5. \A k \in 1 .. n : kept(k) \in Chunk
  BY <1>4 DEF Chunk, Part
<1>6. Rewritten(raw, order) = [k \in 1 .. n |-> kept(k)]
  BY <1>2 DEF Rewritten
<1>7. Rewritten(raw, order) \in [1 .. n -> Chunk]
  <2> HIDE DEF kept
  <2> QED BY <1>5, <1>6
<1>8. n \in Nat
  BY <1>1
<1>9. Rewritten(raw, order) \in Seq(Chunk) /\ Len(Rewritten(raw, order)) = Len(order)
  BY <1>2, <1>7, <1>8
<1>10. ASSUME NEW i \in S
       PROVE  \E k \in 1 .. Len(order) : /\ order[k] = i
                                        /\ Rewritten(raw, order)[k] = [raw[i] EXCEPT !.part = "whole"]
  <2>1. PICK k \in 1 .. n : order[k] = i
    BY <1>2 DEF InOrder
  <2> QED BY <2>1, <1>2, <1>6
<1> QED BY <1>9, <1>10

-----------------------------------------------------------------------------

TypeInv == TypeOK /\ AtMostOneBusy

\* Steps that leave the passes and the guard alone.
LEMMA PassesUntouched ==
    ASSUME TypeInv, UNCHANGED <<pass, flushing>>
    PROVE  /\ pass' \in [Passes -> Pass]
           /\ flushing' = (\E p \in Passes : pass[p].step # "idle")'
           /\ AtMostOneBusy'
BY DEF TypeInv, TypeOK, AtMostOneBusy, Busy

\* Steps that end the pass under way, and steps that move it on.
LEMMA PassEnds ==
    ASSUME TypeInv, NEW p \in Passes, Busy(p), Finish(p)
    PROVE  /\ pass' \in [Passes -> Pass]
           /\ flushing' = (\E q \in Passes : pass[q].step # "idle")'
           /\ AtMostOneBusy'
BY FinishType DEF TypeInv, AtMostOneBusy, Busy

LEMMA PassMoves ==
    ASSUME TypeInv, NEW p \in Passes, Busy(p), UNCHANGED flushing,
           NEW r \in Pass, r.step # "idle", pass' = [pass EXCEPT ![p] = r]
    PROVE  /\ pass' \in [Passes -> Pass]
           /\ flushing' = (\E q \in Passes : pass[q].step # "idle")'
           /\ AtMostOneBusy'
BY MoveType DEF TypeInv, TypeOK, AtMostOneBusy, Busy

\* Halt does one or the other.
LEMMA HaltType ==
    ASSUME TypeInv, NEW p \in Passes, Busy(p), NEW i \in Nat \ {0}, Halt(p, i)
    PROVE  /\ pass' \in [Passes -> Pass]
           /\ flushing' = (\E q \in Passes : pass[q].step # "idle")'
           /\ AtMostOneBusy'
<1>1. CASE Finish(p)
  BY <1>1, PassEnds
<1>2. CASE /\ pass' = [pass EXCEPT ![p].step = "rewrite", ![p].at = i]
           /\ UNCHANGED flushing
  <2> DEFINE r == [pass[p] EXCEPT !.step = "rewrite", !.at = i]
  <2>1. r \in Pass /\ r.step # "idle"
    BY DEF TypeInv, TypeOK, Pass
  <2>2. pass' = [pass EXCEPT ![p] = r]
    BY <1>2 DEF TypeInv, TypeOK, Pass
  <2> HIDE DEF r
  <2> QED BY <1>2, <2>1, <2>2, PassMoves
<1> QED BY <1>1, <1>2 DEF Halt

LEMMA SnapshotElement ==
    ASSUME TypeInv, NEW p \in Passes, NEW i \in 1 .. Len(pass[p].snapshot)
    PROVE  /\ pass[p].snapshot[i] \in Chunk
           /\ pass[p].snapshot[i].batch \in Batches
<1>1. pass[p].snapshot \in Seq(Chunk)
  BY DEF TypeInv, TypeOK, Pass
<1>2. pass[p].snapshot[i] \in Chunk
  BY <1>1
<1> QED BY <1>2 DEF Chunk

LEMMA ReachedType ==
    ASSUME TypeInv, NEW p \in Passes, NEW i \in 1 .. Len(pass[p].snapshot), Reached(p, i)
    PROVE  /\ Busy(p)
           /\ i \in Nat \ {0}
           /\ pass[p].snapshot[i] \in Chunk
           /\ pass[p].snapshot[i].batch \in Batches
           /\ pass[p].snapshot[i].enqueuedAt \in Nat
<1>1. pass[p].snapshot \in Seq(Chunk)
  BY DEF TypeInv, TypeOK, Pass
<1>2. pass[p].snapshot[i] \in Chunk
  BY <1>1
<1> QED BY <1>2 DEF Reached, At, Busy, Chunk

LEMMA SettleType ==
    ASSUME TypeInv, NEW p \in Passes, NEW i \in 1 .. Len(pass[p].snapshot), Reached(p, i),
           Settle(p, i), UNCHANGED flushing
    PROVE  /\ pass' \in [Passes -> Pass]
           /\ flushing' = (\E q \in Passes : pass[q].step # "idle")'
           /\ AtMostOneBusy'
           /\ settled' \in SUBSET Nat
<1> DEFINE r == [pass[p] EXCEPT !.at = i + 1, !.changed = TRUE]
<1>1. r \in Pass /\ r.step # "idle"
  <2>1. pass[p] \in Pass /\ pass[p].step # "idle" /\ i + 1 \in Nat \ {0}
    BY ReachedType DEF TypeInv, TypeOK, Busy
  <2> QED BY <2>1 DEF Pass
<1>2. pass' = [pass EXCEPT ![p] = r]
  BY DEF Settle, TypeInv, TypeOK, Pass
<1>3. settled' \in SUBSET Nat
  BY ReachedType DEF Settle, TypeInv, TypeOK
<1>4. Busy(p)
  BY ReachedType
<1> HIDE DEF r
<1> QED BY <1>1, <1>2, <1>3, <1>4, PassMoves

LEMMA RetainedType ==
    ASSUME TypeInv, NEW p \in Passes
    PROVE  pass[p].snapshot \in Seq(Chunk) /\ Retained(p) \in SUBSET (1 .. Len(pass[p].snapshot))
BY DEF TypeInv, TypeOK, Pass, Retained

LEMMA TailType ==
    ASSUME TypeInv, NEW n \in Nat
    PROVE  /\ AppendedSince(file, n) \in Seq(Chunk)
           /\ \A i \in n + 1 .. Len(file) : /\ i - n \in 1 .. Len(AppendedSince(file, n))
                                           /\ AppendedSince(file, n)[i - n] = file[i]
BY SubSeqProperties DEF TypeInv, TypeOK, AppendedSince

LEMMA NextType ==
    ASSUME TypeInv, NEW p \in Passes, NEW order \in InOrder(Retained(p))
    PROVE  Rewritten(pass[p].snapshot, order) \o AppendedSince(file, Len(pass[p].snapshot)) \in Seq(Chunk)
<1>1. Rewritten(pass[p].snapshot, order) \in Seq(Chunk)
  BY RetainedType, RewrittenType
<1>2. AppendedSince(file, Len(pass[p].snapshot)) \in Seq(Chunk)
  BY RetainedType, TailType
<1> QED BY <1>1, <1>2, ConcatProperties

LEMMA TypeStep == ASSUME TypeInv, [Next]_vars PROVE TypeInv'
<1>1. CASE UNCHANGED vars
  BY <1>1 DEF vars, TypeInv, TypeOK, AtMostOneBusy, Busy
<1>2. ASSUME NEW b \in Batches, ingestBatch(b) PROVE TypeInv'
  BY <1>2, PassesUntouched, DeliverType DEF TypeInv, TypeOK, ingestBatch, Custody
<1>3. ASSUME NEW b \in Batches, ingestBatch_throws(b) PROVE TypeInv'
  BY <1>3, PassesUntouched DEF TypeInv, TypeOK, ingestBatch_throws, Custody
<1>4. ASSUME NEW b \in Batches, ingestBatch_reply_lost(b) PROVE TypeInv'
  BY <1>4, PassesUntouched, DeliverType, SpendType DEF TypeInv, TypeOK, ingestBatch_reply_lost, Custody
<1>5. ASSUME NEW b \in Batches, enqueue(b) PROVE TypeInv'
  <2>1. file' \in Seq(Chunk)
    BY <1>5, AppendedType DEF TypeInv, enqueue, Part
  <2>2. custody' \in [Batches -> Custody] /\ appends' \in Nat
    BY <1>5 DEF TypeInv, TypeOK, enqueue, Custody
  <2> QED BY <1>5, <2>1, <2>2, PassesUntouched DEF TypeInv, TypeOK, enqueue
<1>6. ASSUME NEW b \in Batches, enqueue_throws(b) PROVE TypeInv'
  <2>1. custody' \in [Batches -> Custody]
    BY <1>6 DEF TypeInv, TypeOK, enqueue_throws, Custody
  <2> QED BY <1>6, <2>1, PassesUntouched, CutShortType, SpendType DEF TypeInv, TypeOK, enqueue_throws
<1>7. ASSUME NEW b \in Batches, acknowledge(b) PROVE TypeInv'
  BY <1>7, PassesUntouched DEF TypeInv, TypeOK, acknowledge, Custody
<1>8. ASSUME NEW p \in Passes, flush(p) PROVE TypeInv'
  <2> DEFINE r == [Idle EXCEPT !.step = IF CorruptLines(file) = {} THEN "ingest" ELSE "quarantine",
                               !.snapshot = file]
  <2>1. r \in Pass /\ r.step # "idle"
    BY IdleType DEF TypeInv, TypeOK, Pass
  <2>2. pass' = [pass EXCEPT ![p] = r]
    BY <1>8 DEF flush
  <2>3. \A q \in Passes : ~Busy(q)
    BY <1>8 DEF flush, flush_refused, TypeInv, TypeOK, Busy
  <2> HIDE DEF r
  <2>4. pass' \in [Passes -> Pass] /\ AtMostOneBusy' /\ Busy(p)'
    BY <2>1, <2>2, <2>3 DEF TypeInv, TypeOK, AtMostOneBusy, Busy
  <2> QED BY <1>8, <2>4 DEF TypeInv, TypeOK, flush, Busy
<1>9. ASSUME NEW p \in Passes, quarantine(p) PROVE TypeInv'
  <2> DEFINE r == [pass[p] EXCEPT !.step = "ingest", !.changed = TRUE]
  <2>1. r \in Pass /\ r.step # "idle"
    BY DEF TypeInv, TypeOK, Pass
  <2>2. pass' = [pass EXCEPT ![p] = r]
    BY <1>9 DEF quarantine, TypeInv, TypeOK, Pass
  <2>3. pass[p].snapshot \in Seq(Chunk)
    BY DEF TypeInv, TypeOK, Pass
  <2>4. corruptFile' \in SUBSET Chunk
    BY <1>9, <2>3 DEF quarantine, CorruptLines, TypeInv, TypeOK
  <2>5. Busy(p)
    BY <1>9 DEF quarantine, At, Busy
  <2> HIDE DEF r
  <2> QED BY <1>9, <2>1, <2>2, <2>4, <2>5, PassMoves DEF TypeInv, TypeOK, quarantine
<1>10. ASSUME NEW p \in Passes, NEW i \in 1 .. Len(pass[p].snapshot), flush_ingests(p, i)
       PROVE TypeInv'
  BY <1>10, ReachedType, SettleType, DeliverType DEF TypeInv, TypeOK, flush_ingests
<1>11. ASSUME NEW p \in Passes, NEW i \in 1 .. Len(pass[p].snapshot), flush_dead_letters(p, i)
       PROVE TypeInv'
  BY <1>11, ReachedType, SettleType DEF TypeInv, TypeOK, flush_dead_letters
<1>12. ASSUME NEW p \in Passes, NEW i \in 1 .. Len(pass[p].snapshot), flush_halts(p, i)
       PROVE TypeInv'
  BY <1>12, ReachedType, HaltType, DeliverType, SpendType DEF TypeInv, TypeOK, flush_halts
<1>13. ASSUME NEW p \in Passes, flush_loop_ends(p) PROVE TypeInv'
  <2>1. Len(pass[p].snapshot) + 1 \in Nat \ {0} /\ Busy(p)
    BY <1>13 DEF flush_loop_ends, At, Busy, TypeInv, TypeOK, Pass
  <2> QED BY <1>13, <2>1, HaltType DEF TypeInv, TypeOK, flush_loop_ends
<1>14. ASSUME NEW p \in Passes, writePending_reads(p) PROVE TypeInv'
  <2>1. PICK order \in InOrder(Retained(p)) :
           pass' = [pass EXCEPT ![p].step = "rename",
                                ![p].next = Rewritten(pass[p].snapshot, order)
                                            \o AppendedSince(file, Len(pass[p].snapshot))]
    BY <1>14 DEF writePending_reads
  <2> DEFINE n == Rewritten(pass[p].snapshot, order) \o AppendedSince(file, Len(pass[p].snapshot))
             r == [pass[p] EXCEPT !.step = "rename", !.next = n]
  <2>2. n \in Seq(Chunk)
    BY NextType DEF TypeInv
  <2> HIDE DEF n
  <2>3. r \in Pass /\ r.step # "idle"
    BY <2>2 DEF TypeInv, TypeOK, Pass
  <2>4. pass' = [pass EXCEPT ![p] = r]
    BY <2>1 DEF n, TypeInv, TypeOK, Pass
  <2>5. Busy(p) /\ UNCHANGED flushing
    BY <1>14 DEF writePending_reads, At, Busy
  <2> HIDE DEF r
  <2> QED BY <1>14, <2>3, <2>4, <2>5, PassMoves DEF TypeInv, TypeOK, writePending_reads
<1>15. ASSUME NEW p \in Passes, writePending_renames(p) PROVE TypeInv'
  <2>1. file' \in Seq(Chunk) /\ Busy(p)
    BY <1>15 DEF writePending_renames, At, Busy, TypeInv, TypeOK, Pass
  <2> QED BY <1>15, <2>1, PassEnds DEF TypeInv, TypeOK, writePending_renames
<1>16. ASSUME NEW p \in Passes, flush_throws(p) PROVE TypeInv'
  <2>1. Busy(p)
    BY <1>16 DEF flush_throws, Busy
  <2> QED BY <1>16, <2>1, PassEnds, SpendType DEF TypeInv, TypeOK, flush_throws
<1>17. CASE crash
  <2>1. custody' \in [Batches -> Custody]
    BY <1>17 DEF crash, Custody
  <2>2. file' \in Seq(Chunk) /\ appends' \in Nat
    BY <1>17, CutShortType DEF crash, TypeInv, TypeOK
  <2>3. /\ pass' \in [Passes -> Pass]
        /\ flushing' = (\E p \in Passes : pass[p].step # "idle")'
        /\ AtMostOneBusy'
    BY <1>17, IdleType DEF crash, Idle, AtMostOneBusy, Busy
  <2> QED BY <1>17, <2>1, <2>2, <2>3, SpendType DEF TypeInv, TypeOK, crash
<1> QED
  BY <1>1, <1>2, <1>3, <1>4, <1>5, <1>6, <1>7, <1>8, <1>9, <1>10, <1>11, <1>12, <1>13,
     <1>14, <1>15, <1>16, <1>17
  DEF Next, Connection, Flush

LEMMA TypeInvCorrect == Spec => []TypeInv
<1>1. Init => TypeInv
  <2> SUFFICES ASSUME Init PROVE TypeInv
    OBVIOUS
  <2>1. file \in Seq(Chunk)
    BY EmptySeq DEF Init
  <2>2. pass \in [Passes -> Pass] /\ \A p \in Passes : ~Busy(p)
    BY IdleType DEF Init, Idle, Busy
  <2>3. spent \in [crashes : 0 .. MaxCrashes, diskErrors : 0 .. MaxDiskErrors, outages : 0 .. MaxOutages]
    BY BoundsAssumption DEF Init
  <2> QED BY <2>1, <2>2, <2>3 DEF Init, TypeInv, TypeOK, AtMostOneBusy, Busy, Custody
<1> QED BY <1>1, TypeStep, PTL DEF Spec

\* The buffer's state is well typed, and its re-entrance guard is up exactly
\* while a flush pass is under way.
THEOREM TypeCorrect == Spec => []TypeOK
BY TypeInvCorrect, PTL DEF TypeInv

-----------------------------------------------------------------------------
(* Custody.  While a pass works on a snapshot, the snapshot is a prefix of  *)
(* the file; what the pass has gone past is answered, and what it could not *)
(* parse is quarantined; so what it is about to rename into place keeps     *)
(* every batch that has no answer yet.                                      *)

Kept(b) == Answered(b) \/ InFile(b) \/ InCorruptFile(b)

InNext(p, b) == \E k \in 1 .. Len(pass[p].next) : pass[p].next[k].batch = b /\ pass[p].next[k].part = "whole"

SnapshotIsPrefix ==
    \A p \in Passes : Busy(p) =>
        /\ Len(pass[p].snapshot) <= Len(file)
        /\ \A i \in 1 .. Len(pass[p].snapshot) : file[i] = pass[p].snapshot[i]

CorruptIsQuarantined ==
    \A p \in Passes : pass[p].step \in {"ingest", "rewrite"} =>
        \A i \in 1 .. Len(pass[p].snapshot) :
            ~Intact(pass[p].snapshot, i) => pass[p].snapshot[i] \in corruptFile

PassedIsAnswered ==
    \A p \in Passes : pass[p].step \in {"quarantine", "ingest", "rewrite"} =>
        \A i \in 1 .. Len(pass[p].snapshot) :
            i < pass[p].at /\ Intact(pass[p].snapshot, i) => Answered(pass[p].snapshot[i].batch)

NextKeeps ==
    \A p \in Passes : pass[p].step = "rename" =>
        \A b \in Batches : InFile(b) => Answered(b) \/ InNext(p, b) \/ InCorruptFile(b)

CustodyKept ==
    \A b \in Batches : /\ custody[b] = "ingested" => Answered(b)
                       /\ custody[b] \in {"stored", "acked"} => Kept(b)

CustodyInv == SnapshotIsPrefix /\ CorruptIsQuarantined /\ PassedIsAnswered /\ NextKeeps /\ CustodyKept

-----------------------------------------------------------------------------

\* Nothing takes an answer or a quarantined line back.
LEMMA Monotone ==
    ASSUME TypeInv, [Next]_vars
    PROVE  /\ \A b \in Batches : Answered(b) => Answered(b)'
           /\ corruptFile \subseteq corruptFile'
           /\ \A b \in Batches : InCorruptFile(b) => InCorruptFile(b)'
<1>1. \A b \in Batches : delivered'[b] >= delivered[b]
  <2>1. ASSUME NEW a \in Batches, Deliver(a) PROVE \A b \in Batches : delivered'[b] >= delivered[b]
    BY <2>1 DEF Deliver, TypeInv, TypeOK
  <2>2. ASSUME UNCHANGED delivered PROVE \A b \in Batches : delivered'[b] >= delivered[b]
    BY <2>2 DEF TypeInv, TypeOK
  <2>3. \/ UNCHANGED delivered
        \/ \E a \in Batches : Deliver(a)
    <3>1. CASE UNCHANGED vars
      BY <3>1 DEF vars
    <3>2. ASSUME NEW b \in Batches, Connection(b) PROVE UNCHANGED delivered \/ Deliver(b)
      BY <3>2 DEF Connection, ingestBatch, ingestBatch_throws, ingestBatch_reply_lost, enqueue,
                  enqueue_throws, acknowledge
    <3>3. ASSUME NEW p \in Passes, Flush(p) PROVE UNCHANGED delivered \/ \E a \in Batches : Deliver(a)
      BY <3>3, ReachedType
      DEF Flush, flush, quarantine, flush_loop_ends, flush_ingests, flush_dead_letters, flush_halts,
          writePending_reads, writePending_renames, flush_throws
    <3>4. CASE crash
      BY <3>4 DEF crash
    <3> QED BY <3>1, <3>2, <3>3, <3>4 DEF Next
  <2> QED BY <2>1, <2>2, <2>3
<1>2. deadLettered \subseteq deadLettered' /\ corruptFile \subseteq corruptFile'
  BY DEF Next, vars, Connection, ingestBatch, ingestBatch_throws, ingestBatch_reply_lost, enqueue,
         enqueue_throws, acknowledge, Flush, flush, quarantine, flush_loop_ends, flush_ingests,
         flush_dead_letters, flush_halts, writePending_reads, writePending_renames, flush_throws, crash
<1>3. ASSUME NEW b \in Batches, Answered(b) PROVE Answered(b)'
  <2>1. delivered[b] \in Nat /\ delivered'[b] >= delivered[b] /\ delivered'[b] \in Nat
    BY <1>1, TypeStep DEF TypeInv, TypeOK
  <2> QED BY <1>2, <1>3, <2>1 DEF Answered
<1>4. ASSUME NEW b \in Batches, InCorruptFile(b) PROVE InCorruptFile(b)'
  BY <1>2, <1>4 DEF InCorruptFile
<1> QED BY <1>2, <1>3, <1>4

AnsweredIn(del, dead, b) == del[b] > 0 \/ b \in dead

\* The file only grew.
Grows == /\ Len(file) <= Len(file')
         /\ \A i \in 1 .. Len(file) : file'[i] = file[i]

LEMMA AppendGrows ==
    ASSUME TypeInv, NEW b \in Batches,
           UNCHANGED file \/ \E part \in Part : file' = Appended(b, part)
    PROVE  Grows
<1>1. CASE UNCHANGED file
  BY <1>1 DEF TypeInv, TypeOK, Grows
<1>2. ASSUME NEW part \in Part, file' = Appended(b, part) PROVE Grows
  <2>1. Len(file') = Len(file) + 1
    BY <1>2, AppendedType DEF TypeInv
  <2>2. Len(file) \in Nat
    BY DEF TypeInv, TypeOK
  <2>3. \A i \in 1 .. Len(file) : file'[i] = file[i]
    BY <1>2, AppendedType DEF TypeInv
  <2> QED BY <2>1, <2>2, <2>3 DEF Grows
<1> QED BY <1>1, <1>2

LEMMA GrowsKeeps ==
    ASSUME TypeInv, TypeInv', Grows
    PROVE  \A b \in Batches : InFile(b) => InFile(b)'
<1>1. Len(file) \in Nat /\ Len(file') \in Nat
  BY DEF TypeInv, TypeOK
<1> QED BY <1>1 DEF Grows, InFile

\* Steps of a connection: the pass under way still sees its snapshot.
LEMMA PassesKeep ==
    ASSUME TypeInv, CustodyInv, [Next]_vars, UNCHANGED pass, Grows,
           UNCHANGED file \/ ~InWindow
    PROVE  SnapshotIsPrefix' /\ CorruptIsQuarantined' /\ PassedIsAnswered' /\ NextKeeps'
<1>1. SnapshotIsPrefix'
  <2> SUFFICES ASSUME NEW p \in Passes, Busy(p)
               PROVE  /\ Len(pass[p].snapshot) <= Len(file')
                      /\ \A i \in 1 .. Len(pass[p].snapshot) : file'[i] = pass[p].snapshot[i]
    BY DEF SnapshotIsPrefix, Busy
  <2>1. /\ Len(pass[p].snapshot) \in Nat /\ Len(file) \in Nat /\ Len(file') \in Nat
        /\ Len(pass[p].snapshot) <= Len(file)
        /\ \A i \in 1 .. Len(pass[p].snapshot) : file[i] = pass[p].snapshot[i]
    BY TypeStep DEF CustodyInv, SnapshotIsPrefix, TypeInv, TypeOK, Pass
  <2> QED BY <2>1 DEF Grows
<1>2. CorruptIsQuarantined'
  BY Monotone DEF CustodyInv, CorruptIsQuarantined
<1>3. PassedIsAnswered'
  <2> SUFFICES ASSUME NEW p \in Passes, pass[p].step \in {"quarantine", "ingest", "rewrite"},
                      NEW i \in 1 .. Len(pass[p].snapshot),
                      i < pass[p].at, Intact(pass[p].snapshot, i)
               PROVE  Answered(pass[p].snapshot[i].batch)'
    BY DEF PassedIsAnswered
  <2>1. pass[p].snapshot[i].batch \in Batches
    BY SnapshotElement
  <2>2. Answered(pass[p].snapshot[i].batch)
    BY DEF CustodyInv, PassedIsAnswered
  <2>3. \A b \in Batches : Answered(b) => Answered(b)'
    BY Monotone
  <2> QED BY <2>1, <2>2, <2>3 DEF Answered
<1>4. NextKeeps'
  <2> SUFFICES ASSUME NEW p \in Passes, pass[p].step = "rename", NEW b \in Batches, InFile(b)'
               PROVE  (Answered(b) \/ InNext(p, b) \/ InCorruptFile(b))'
    BY DEF NextKeeps
  <2>1. UNCHANGED file
    BY DEF InWindow
  <2>2. InFile(b)
    BY <2>1 DEF InFile
  <2>3. Answered(b) \/ InNext(p, b) \/ InCorruptFile(b)
    BY <2>2 DEF CustodyInv, NextKeeps
  <2>4. InNext(p, b) => InNext(p, b)'
    BY DEF InNext
  <2> QED BY <2>3, <2>4, Monotone
<1> QED BY <1>1, <1>2, <1>3, <1>4

\* Steps that leave the custody alone keep it, if they keep the file.
LEMMA CustodyStays ==
    ASSUME TypeInv, CustodyInv, [Next]_vars, UNCHANGED <<custody, file>>
    PROVE  CustodyKept'
<1>1. \A b \in Batches : InFile(b) => InFile(b)'
  BY DEF InFile
<1> QED BY <1>1, Monotone DEF CustodyInv, CustodyKept, Kept

\* A step of pass p: no other pass is under way afterwards.
LEMMA OnlyOne ==
    ASSUME TypeInv, NEW p \in Passes, Busy(p), [Next]_vars,
           NEW r, pass' = [pass EXCEPT ![p] = r]
    PROVE  \A q \in Passes : Busy(q)' => q = p /\ pass'[q] = r
BY DEF TypeInv, TypeOK, AtMostOneBusy, Busy

LEMMA ConnectionStep ==
    ASSUME TypeInv, CustodyInv, ~AppendsInWindow, [Next]_vars, NEW b \in Batches, Connection(b)
    PROVE  CustodyInv'
<1>1. Grows /\ UNCHANGED pass /\ (UNCHANGED file \/ ~InWindow)
  <2>1. UNCHANGED file \/ \E part \in Part : file' = Appended(b, part)
    BY DEF Connection, ingestBatch, ingestBatch_throws, ingestBatch_reply_lost, enqueue,
           enqueue_throws, acknowledge, CutShort, Part
  <2>2. UNCHANGED pass /\ (UNCHANGED file \/ ~InWindow)
    BY DEF Connection, ingestBatch, ingestBatch_throws, ingestBatch_reply_lost, enqueue,
           enqueue_throws, acknowledge
  <2> QED BY <2>1, <2>2, AppendGrows
<1>2. \A a \in Batches : Kept(a) => Kept(a)'
  BY <1>1, GrowsKeeps, Monotone, TypeStep DEF Kept
<1>3. CustodyKept'
  <2>1. \A a \in Batches : a # b => custody'[a] = custody[a]
    BY DEF Connection, ingestBatch, ingestBatch_throws, ingestBatch_reply_lost, enqueue,
           enqueue_throws, acknowledge, TypeInv, TypeOK
  <2>2. ASSUME NEW a \in Batches, a # b
        PROVE  /\ custody'[a] = "ingested" => Answered(a)'
               /\ custody'[a] \in {"stored", "acked"} => Kept(a)'
    BY <1>2, <2>1, <2>2, Monotone DEF CustodyInv, CustodyKept
  <2>3. /\ custody'[b] = "ingested" => Answered(b)'
        /\ custody'[b] \in {"stored", "acked"} => Kept(b)'
    <3>1. CASE ingestBatch(b)
      <4>1. delivered'[b] > 0
        BY <3>1 DEF ingestBatch, Deliver, TypeInv, TypeOK
      <4> QED BY <4>1 DEF Answered, Kept
    <3>2. CASE ingestBatch_throws(b) \/ ingestBatch_reply_lost(b) \/ enqueue_throws(b)
      <4>1. custody'[b] \in {"buffering", "device"}
        BY <3>2 DEF ingestBatch_throws, ingestBatch_reply_lost, enqueue_throws, TypeInv, TypeOK
      <4> QED BY <4>1
    <3>3. CASE enqueue(b)
      <4>1. /\ Len(file') = Len(file) + 1
            /\ file'[Len(file) + 1] = [batch |-> b, enqueuedAt |-> appends + 1, part |-> "whole"]
        BY <3>3, AppendedType DEF enqueue, TypeInv, Part
      <4>2. InFile(b)'
        BY <4>1 DEF InFile, TypeInv, TypeOK
      <4>3. custody'[b] = "stored"
        BY <3>3 DEF enqueue, TypeInv, TypeOK
      <4> QED BY <4>2, <4>3 DEF Kept
    <3>4. CASE acknowledge(b)
      <4>1. Kept(b)
        BY <3>4 DEF acknowledge, CustodyInv, CustodyKept, Kept
      <4>2. custody'[b] = "acked"
        BY <3>4 DEF acknowledge, TypeInv, TypeOK
      <4> QED BY <1>2, <4>1, <4>2
    <3> QED BY <3>1, <3>2, <3>3, <3>4 DEF Connection
  <2> QED BY <2>2, <2>3 DEF CustodyKept
<1> QED BY <1>1, <1>3, PassesKeep DEF CustodyInv

\* Steps of a pass that leave the file alone: its snapshot is still a prefix.
LEMMA PrefixStays ==
    ASSUME TypeInv, CustodyInv, [Next]_vars, NEW p \in Passes, Busy(p), UNCHANGED file,
           NEW r, pass' = [pass EXCEPT ![p] = r], r.snapshot = pass[p].snapshot
    PROVE  SnapshotIsPrefix'
<1> SUFFICES ASSUME NEW q \in Passes, Busy(q)'
             PROVE  /\ Len(pass'[q].snapshot) <= Len(file)
                    /\ \A i \in 1 .. Len(pass'[q].snapshot) : file[i] = pass'[q].snapshot[i]
  BY DEF SnapshotIsPrefix
<1>1. q = p /\ pass'[q].snapshot = pass[p].snapshot
  BY OnlyOne
<1> QED BY <1>1 DEF CustodyInv, SnapshotIsPrefix

LEMMA FinishStep ==
    ASSUME TypeInv, CustodyInv, [Next]_vars, NEW p \in Passes, Busy(p), Finish(p), CustodyKept'
    PROVE  CustodyInv'
<1>1. \A q \in Passes : ~Busy(q)' /\ pass'[q].step = "idle"
  BY FinishType DEF TypeInv, Busy
<1> QED BY <1>1 DEF CustodyInv, SnapshotIsPrefix, CorruptIsQuarantined, PassedIsAnswered, NextKeeps

\* flush() takes the whole file for its snapshot.
LEMMA FlushStep ==
    ASSUME TypeInv, CustodyInv, [Next]_vars, NEW p \in Passes, flush(p)
    PROVE  CustodyInv'
<1>1. \A q \in Passes : q # p => pass'[q].step = "idle"
  BY DEF flush, flush_refused, TypeInv, TypeOK
<1>2. /\ pass'[p].step \in {"ingest", "quarantine"}
      /\ pass'[p].step = "ingest" => CorruptLines(file) = {}
      /\ pass'[p].snapshot = file
      /\ pass'[p].at = 1
      /\ UNCHANGED <<file, custody>>
  BY DEF flush, Idle, TypeInv, TypeOK
<1>3. SnapshotIsPrefix'
  BY <1>1, <1>2 DEF SnapshotIsPrefix, Busy, TypeInv, TypeOK
<1>4. CorruptIsQuarantined'
  BY <1>1, <1>2 DEF CorruptIsQuarantined, CorruptLines
<1>5. PassedIsAnswered'
  BY <1>1, <1>2 DEF PassedIsAnswered
<1>6. NextKeeps'
  BY <1>1, <1>2 DEF NextKeeps
<1> QED BY <1>2, <1>3, <1>4, <1>5, <1>6, CustodyStays DEF CustodyInv

\* A step of pass p that goes past nothing without an answer.
LEMMA PassedStep ==
    ASSUME TypeInv, [Next]_vars, NEW p \in Passes, Busy(p),
           NEW r, pass' = [pass EXCEPT ![p] = r], r.snapshot = pass[p].snapshot,
           \A k \in 1 .. Len(pass[p].snapshot) :
               k < r.at /\ Intact(pass[p].snapshot, k) =>
                   AnsweredIn(delivered', deadLettered', pass[p].snapshot[k].batch)
    PROVE  PassedIsAnswered'
<1> SUFFICES ASSUME NEW q \in Passes, Busy(q)', NEW k \in 1 .. Len(pass'[q].snapshot),
                    k < pass'[q].at, Intact(pass'[q].snapshot, k)
             PROVE  AnsweredIn(delivered', deadLettered', pass'[q].snapshot[k].batch)
  BY DEF PassedIsAnswered, Busy, Answered, AnsweredIn
<1>1. pass'[q].snapshot = pass[p].snapshot /\ pass'[q].at = r.at
  BY OnlyOne
<1> QED BY <1>1

\* What the pass had gone past stays answered.
LEMMA PassedStays ==
    ASSUME TypeInv, CustodyInv, [Next]_vars, NEW p \in Passes,
           pass[p].step \in {"quarantine", "ingest", "rewrite"},
           NEW k \in 1 .. Len(pass[p].snapshot), k < pass[p].at, Intact(pass[p].snapshot, k)
    PROVE  AnsweredIn(delivered', deadLettered', pass[p].snapshot[k].batch)
<1>1. PICK b \in Batches : b = pass[p].snapshot[k].batch
  BY SnapshotElement
<1>2. Answered(b)
  BY <1>1 DEF CustodyInv, PassedIsAnswered
<1>3. Answered(b)'
  BY <1>2, Monotone
<1> QED BY <1>1, <1>3 DEF Answered, AnsweredIn

LEMMA QuarantineStep ==
    ASSUME TypeInv, CustodyInv, [Next]_vars, NEW p \in Passes, quarantine(p)
    PROVE  CustodyInv'
<1> DEFINE r == [pass[p] EXCEPT !.step = "ingest", !.changed = TRUE]
<1>1. /\ pass' = [pass EXCEPT ![p] = r] /\ Busy(p)
      /\ r.snapshot = pass[p].snapshot /\ r.step = "ingest" /\ r.at = pass[p].at
  BY DEF quarantine, At, Busy, TypeInv, TypeOK, Pass
<1> HIDE DEF r
<1>2. \A q \in Passes : Busy(q)' => q = p /\ pass'[q] = r
  BY <1>1, OnlyOne
<1>3. SnapshotIsPrefix'
  BY <1>1, PrefixStays DEF quarantine
<1>4. CorruptIsQuarantined'
  <2>1. \A i \in 1 .. Len(r.snapshot) : ~Intact(r.snapshot, i) => r.snapshot[i] \in corruptFile'
    BY <1>1 DEF quarantine, CorruptLines
  <2> QED BY <1>2, <2>1 DEF CorruptIsQuarantined, Busy
<1>5. PassedIsAnswered'
  BY <1>1, PassedStep, PassedStays DEF quarantine, At
<1>6. NextKeeps'
  BY <1>1, <1>2 DEF NextKeeps, Busy
<1>7. CustodyKept'
  BY CustodyStays DEF quarantine
<1> QED BY <1>3, <1>4, <1>5, <1>6, <1>7 DEF CustodyInv

\* An ingest or a dead letter: the pass goes past a batch that is answered.
LEMMA SettleStep ==
    ASSUME TypeInv, CustodyInv, [Next]_vars, NEW p \in Passes, NEW i \in 1 .. Len(pass[p].snapshot),
           Reached(p, i), Settle(p, i), UNCHANGED <<custody, file, corruptFile>>,
           AnsweredIn(delivered', deadLettered', pass[p].snapshot[i].batch)
    PROVE  CustodyInv'
<1> DEFINE r == [pass[p] EXCEPT !.at = i + 1, !.changed = TRUE]
<1>1. /\ pass' = [pass EXCEPT ![p] = r] /\ Busy(p)
      /\ r.snapshot = pass[p].snapshot /\ r.step = "ingest" /\ r.at = i + 1
  BY DEF Settle, Reached, At, Busy, TypeInv, TypeOK, Pass
<1> HIDE DEF r
<1>2. \A q \in Passes : Busy(q)' => q = p /\ pass'[q] = r
  BY <1>1, OnlyOne
<1>3. SnapshotIsPrefix'
  BY <1>1, PrefixStays
<1>4. CorruptIsQuarantined'
  BY <1>1, <1>2 DEF CustodyInv, CorruptIsQuarantined, Reached, At, Busy
<1>5. ASSUME NEW k \in 1 .. Len(pass[p].snapshot), k < i + 1, Intact(pass[p].snapshot, k)
      PROVE  AnsweredIn(delivered', deadLettered', pass[p].snapshot[k].batch)
  <2>1. pass[p].at \in Nat /\ i \in Nat
    BY DEF TypeInv, TypeOK, Pass
  <2>2. k < pass[p].at \/ k = i
    BY <1>5, <2>1 DEF Reached
  <2>3. CASE k < pass[p].at
    BY <1>5, <2>3, PassedStays DEF Reached, At
  <2>4. CASE k = i
    BY <2>4
  <2> QED BY <2>2, <2>3, <2>4
<1>6. PassedIsAnswered'
  BY <1>1, <1>5, PassedStep
<1>7. NextKeeps'
  BY <1>1, <1>2 DEF NextKeeps, Busy
<1>8. CustodyKept'
  BY CustodyStays
<1> QED BY <1>3, <1>4, <1>6, <1>7, <1>8 DEF CustodyInv

\* The end of the loop: everything before the place it stopped at is answered
\* or could not be parsed.
LEMMA HaltStep ==
    ASSUME TypeInv, CustodyInv, [Next]_vars, NEW p \in Passes, At(p, "ingest"),
           NEW i \in 1 .. Len(pass[p].snapshot) + 1,
           \A k \in pass[p].at .. i - 1 : ~Intact(pass[p].snapshot, k),
           Halt(p, i), UNCHANGED <<custody, file, corruptFile>>
    PROVE  CustodyInv'
<1>1. CustodyKept' /\ Busy(p)
  BY CustodyStays DEF At, Busy
<1>2. CASE Finish(p)
  BY <1>1, <1>2, FinishStep
<1>3. CASE pass' = [pass EXCEPT ![p].step = "rewrite", ![p].at = i]
  <2> DEFINE r == [pass[p] EXCEPT !.step = "rewrite", !.at = i]
  <2>1. /\ pass' = [pass EXCEPT ![p] = r]
        /\ r.snapshot = pass[p].snapshot /\ r.step = "rewrite" /\ r.at = i
    BY <1>3 DEF TypeInv, TypeOK, Pass
  <2> HIDE DEF r
  <2>2. \A q \in Passes : Busy(q)' => q = p /\ pass'[q] = r
    BY <1>1, <2>1, OnlyOne
  <2>3. SnapshotIsPrefix'
    BY <1>1, <2>1, PrefixStays
  <2>4. CorruptIsQuarantined'
    BY <2>1, <2>2 DEF CustodyInv, CorruptIsQuarantined, At, Busy
  <2>5. PassedIsAnswered'
    <3>1. ASSUME NEW k \in 1 .. Len(pass[p].snapshot), k < i, Intact(pass[p].snapshot, k)
          PROVE  AnsweredIn(delivered', deadLettered', pass[p].snapshot[k].batch)
      <4>1. pass[p].at \in Nat /\ i \in Nat /\ k \in Nat
        BY DEF TypeInv, TypeOK, Pass
      <4>2. k < pass[p].at
        BY <3>1, <4>1
      <4> QED BY <3>1, <4>2, PassedStays DEF At
    <3> QED BY <1>1, <2>1, <3>1, PassedStep
  <2>6. NextKeeps'
    BY <2>1, <2>2 DEF NextKeeps, Busy
  <2> QED BY <1>1, <2>3, <2>4, <2>5, <2>6 DEF CustodyInv
<1> QED BY <1>2, <1>3 DEF Halt

\* What the rewrite is about to rename into place keeps what has no answer.
LEMMA ReadsStep ==
    ASSUME TypeInv, CustodyInv, [Next]_vars, NEW p \in Passes, writePending_reads(p)
    PROVE  CustodyInv'
<1>1. PICK order \in InOrder(Retained(p)) :
         pass' = [pass EXCEPT ![p].step = "rename",
                              ![p].next = Rewritten(pass[p].snapshot, order)
                                          \o AppendedSince(file, Len(pass[p].snapshot))]
  BY DEF writePending_reads
<1> DEFINE raw == pass[p].snapshot
           kept == Rewritten(raw, order)
           tail == AppendedSince(file, Len(raw))
           r == [pass[p] EXCEPT !.step = "rename", !.next = kept \o tail]
<1>2. /\ pass' = [pass EXCEPT ![p] = r] /\ Busy(p)
      /\ r.snapshot = pass[p].snapshot /\ r.step = "rename" /\ r.next = kept \o tail
  BY <1>1 DEF writePending_reads, At, Busy, TypeInv, TypeOK, Pass
<1>3. /\ raw \in Seq(Chunk) /\ Len(raw) \in Nat /\ Len(file) \in Nat
      /\ kept \in Seq(Chunk) /\ tail \in Seq(Chunk)
      /\ \A i \in Retained(p) : \E k \in 1 .. Len(kept) : kept[k] = [raw[i] EXCEPT !.part = "whole"]
      /\ \A i \in Len(raw) + 1 .. Len(file) : /\ i - Len(raw) \in 1 .. Len(tail)
                                             /\ tail[i - Len(raw)] = file[i]
  <2>1. raw \in Seq(Chunk) /\ Retained(p) \in SUBSET (1 .. Len(raw)) /\ Len(raw) \in Nat
    BY RetainedType
  <2>2. /\ kept \in Seq(Chunk)
        /\ \A i \in Retained(p) : \E k \in 1 .. Len(kept) : kept[k] = [raw[i] EXCEPT !.part = "whole"]
    BY <2>1, RewrittenType
  <2>3. /\ tail \in Seq(Chunk)
        /\ \A i \in Len(raw) + 1 .. Len(file) : /\ i - Len(raw) \in 1 .. Len(tail)
                                               /\ tail[i - Len(raw)] = file[i]
    BY <2>1, TailType
  <2>4. Len(file) \in Nat
    BY DEF TypeInv, TypeOK
  <2> HIDE DEF raw, kept, tail
  <2> QED BY <2>1, <2>2, <2>3, <2>4
<1>4. /\ Len(kept \o tail) = Len(kept) + Len(tail)
      /\ \A k \in 1 .. Len(kept) : (kept \o tail)[k] = kept[k]
      /\ \A k \in 1 .. Len(tail) : (kept \o tail)[Len(kept) + k] = tail[k]
  <2> HIDE DEF kept, tail
  <2> QED BY <1>3
<1> HIDE DEF kept, tail, r
<1>5. \A q \in Passes : Busy(q)' => q = p /\ pass'[q] = r
  BY <1>2, OnlyOne
<1>6. SnapshotIsPrefix'
  BY <1>2, PrefixStays DEF writePending_reads
<1>7. CorruptIsQuarantined' /\ PassedIsAnswered'
  BY <1>2, <1>5 DEF CorruptIsQuarantined, PassedIsAnswered, Busy
<1>8. CustodyKept'
  BY CustodyStays DEF writePending_reads
<1>9. ASSUME NEW b \in Batches, NEW j \in 1 .. Len(file), file[j].batch = b, file[j].part = "whole"
      PROVE  \/ Answered(b)
             \/ InCorruptFile(b)
             \/ \E k \in 1 .. Len(r.next) : r.next[k].batch = b /\ r.next[k].part = "whole"
  <2>1. CASE j <= Len(raw)
    <3>1. file[j] = raw[j] /\ j \in 1 .. Len(raw) /\ raw[j] \in Chunk
      BY <2>1, <1>2, SnapshotElement DEF CustodyInv, SnapshotIsPrefix
    <3>2. CASE ~Intact(raw, j)
      <4>1. raw[j] \in corruptFile
        BY <3>1, <3>2 DEF CustodyInv, CorruptIsQuarantined, writePending_reads, At
      <4> QED BY <1>9, <3>1, <4>1 DEF InCorruptFile
    <3>3. CASE Intact(raw, j) /\ j < pass[p].at
      BY <1>9, <3>1, <3>3 DEF CustodyInv, PassedIsAnswered, writePending_reads, At
    <3>4. CASE Intact(raw, j) /\ ~(j < pass[p].at)
      <4>1. j \in Retained(p)
        BY <3>1, <3>4 DEF Retained, TypeInv, TypeOK, Pass
      <4>2. PICK k \in 1 .. Len(kept) : kept[k] = [raw[j] EXCEPT !.part = "whole"]
        BY <1>3, <4>1
      <4>3. kept[k].batch = b /\ kept[k].part = "whole"
        BY <1>9, <3>1, <4>2 DEF Chunk
      <4>4. k \in 1 .. Len(r.next) /\ r.next[k] = kept[k]
        BY <1>2, <1>3, <1>4
      <4> QED BY <4>3, <4>4
    <3> QED BY <3>2, <3>3, <3>4
  <2>2. CASE j > Len(raw)
    <3>1. PICK d \in 1 .. Len(tail) : tail[d] = file[j]
      BY <1>3, <2>2
    <3>2. Len(kept) \in Nat /\ Len(tail) \in Nat /\ d \in Nat
      BY <1>3
    <3>3. Len(kept) + d \in 1 .. Len(r.next)
      BY <1>2, <1>4, <3>2
    <3>4. r.next[Len(kept) + d] = file[j]
      BY <1>2, <1>4, <3>1
    <3> QED BY <1>9, <3>3, <3>4
  <2> QED BY <1>3, <2>1, <2>2
<1>10. NextKeeps'
  <2> SUFFICES ASSUME NEW q \in Passes, Busy(q)', NEW b \in Batches, InFile(b)'
               PROVE  (Answered(b) \/ InNext(q, b) \/ InCorruptFile(b))'
    BY DEF NextKeeps, Busy
  <2>1. pass'[q].next = r.next
    BY <1>5
  <2>2. PICK j \in 1 .. Len(file) : file[j].batch = b /\ file[j].part = "whole"
    BY DEF InFile, writePending_reads
  <2> QED BY <1>9, <2>1, <2>2, Monotone DEF InNext
<1> QED BY <1>6, <1>7, <1>8, <1>10 DEF CustodyInv

LEMMA RenamesStep ==
    ASSUME TypeInv, CustodyInv, [Next]_vars, NEW p \in Passes, writePending_renames(p)
    PROVE  CustodyInv'
<1>1. \A b \in Batches : Kept(b) => Kept(b)'
  <2> SUFFICES ASSUME NEW b \in Batches, InFile(b)
               PROVE  Kept(b)'
    BY Monotone DEF Kept
  <2>1. Answered(b) \/ InNext(p, b) \/ InCorruptFile(b)
    BY DEF CustodyInv, NextKeeps, writePending_renames, At
  <2>2. InNext(p, b) => InFile(b)'
    BY DEF InNext, InFile, writePending_renames
  <2> QED BY <2>1, <2>2, Monotone DEF Kept
<1>2. CustodyKept'
  BY <1>1, Monotone DEF CustodyInv, CustodyKept, writePending_renames
<1> QED BY <1>2, FinishStep DEF writePending_renames, At, Busy

LEMMA CrashStep ==
    ASSUME TypeInv, CustodyInv, [Next]_vars, crash
    PROVE  CustodyInv'
<1>1. Grows
  <2>1. UNCHANGED file \/ \E b \in Batches, part \in Part : file' = Appended(b, part)
    BY DEF crash, CutShort
  <2> QED BY <2>1, AppendGrows DEF TypeInv, TypeOK, Grows
<1>2. \A b \in Batches : Kept(b) => Kept(b)'
  BY <1>1, GrowsKeeps, Monotone, TypeStep DEF Kept
<1>3. CustodyKept'
  BY <1>2 DEF crash, CustodyInv, CustodyKept
<1>4. \A q \in Passes : ~Busy(q)' /\ pass'[q].step = "idle"
  BY DEF crash, Idle, Busy
<1> QED BY <1>3, <1>4 DEF CustodyInv, SnapshotIsPrefix, CorruptIsQuarantined, PassedIsAnswered, NextKeeps

LEMMA CustodyStep ==
    ASSUME TypeInv, CustodyInv, ~AppendsInWindow, [Next]_vars
    PROVE  CustodyInv'
<1>1. CASE UNCHANGED vars
  <2>1. UNCHANGED pass /\ UNCHANGED <<custody, file>> /\ Grows
    BY <1>1 DEF vars, Grows, TypeInv, TypeOK
  <2> QED BY <2>1, PassesKeep, CustodyStays DEF CustodyInv
<1>2. ASSUME NEW b \in Batches, Connection(b) PROVE CustodyInv'
  BY <1>2, ConnectionStep
<1>3. ASSUME NEW p \in Passes, Flush(p) PROVE CustodyInv'
  <2>1. ASSUME NEW i \in 1 .. Len(pass[p].snapshot), flush_ingests(p, i) PROVE CustodyInv'
    <3>1. PICK b \in Batches : b = pass[p].snapshot[i].batch
      BY SnapshotElement
    <3>2. delivered'[b] = delivered[b] + 1 /\ delivered[b] \in Nat
      BY <2>1, <3>1 DEF flush_ingests, Deliver, TypeInv, TypeOK
    <3>3. AnsweredIn(delivered', deadLettered', pass[p].snapshot[i].batch)
      BY <3>1, <3>2 DEF AnsweredIn
    <3> QED BY <2>1, <3>3, SettleStep DEF flush_ingests
  <2>2. ASSUME NEW i \in 1 .. Len(pass[p].snapshot), flush_dead_letters(p, i) PROVE CustodyInv'
    <3>1. AnsweredIn(delivered', deadLettered', pass[p].snapshot[i].batch)
      BY <2>2 DEF flush_dead_letters, AnsweredIn
    <3> QED BY <2>2, <3>1, SettleStep DEF flush_dead_letters
  <2>3. ASSUME NEW i \in 1 .. Len(pass[p].snapshot), flush_halts(p, i) PROVE CustodyInv'
    BY <2>3, HaltStep DEF flush_halts, Reached
  <2>4. CASE flush_loop_ends(p)
    <3>1. /\ Len(pass[p].snapshot) \in Nat
          /\ Len(pass[p].snapshot) + 1 \in 1 .. Len(pass[p].snapshot) + 1
          /\ Len(pass[p].snapshot) + 1 - 1 = Len(pass[p].snapshot)
      BY DEF TypeInv, TypeOK, Pass
    <3> QED BY <2>4, <3>1, HaltStep DEF flush_loop_ends
  <2>5. CASE flush_throws(p)
    BY <2>5, FinishStep, CustodyStays DEF flush_throws, Busy
  <2> QED BY <1>3, <2>1, <2>2, <2>3, <2>4, <2>5, FlushStep, QuarantineStep, ReadsStep, RenamesStep
      DEF Flush
<1>4. CASE crash
  BY <1>4, CrashStep
<1> QED BY <1>1, <1>2, <1>3, <1>4 DEF Next

\* Custody transfer: for any number of crashes, torn appends, full disks and
\* lost replies, a batch the device was told to forget is in the database,
\* dead-lettered, or on the gateway's disk, provided that no append lands
\* between a rewrite's read and its rename.
THEOREM Custodian == ~AppendsInWindow /\ Spec => []NoAckedBatchLost
<1> SUFFICES ASSUME ~AppendsInWindow PROVE Spec => []NoAckedBatchLost
  OBVIOUS
<1>1. Init => CustodyInv
  BY DEF Init, CustodyInv, SnapshotIsPrefix, CorruptIsQuarantined, PassedIsAnswered, NextKeeps,
         CustodyKept, Busy, Idle
<1>2. CustodyInv => NoAckedBatchLost
  BY DEF CustodyInv, CustodyKept, Kept, NoAckedBatchLost
<1>3. TypeInv /\ CustodyInv /\ [Next]_vars => CustodyInv'
  BY CustodyStep
<1> QED BY <1>1, <1>2, <1>3, TypeInvCorrect, PTL DEF Spec

-----------------------------------------------------------------------------
(* Order.  What a rewrite renames into place is a subsequence of the file   *)
(* as the rewrite read it, so the stamps of the file only ever increase;    *)
(* and a pass settles what it can parse from the front, so that what it     *)
(* settled has nothing intact and unsettled ahead of it.  Nothing here      *)
(* depends on when appends land: one that a rename destroys leaves the rest *)
(* in order.                                                                *)

Ordered(raw) ==
    \A i, k \in 1 .. Len(raw) : i < k =>
        /\ raw[i].enqueuedAt < raw[k].enqueuedAt
        /\ Intact(raw, i) /\ raw[k].enqueuedAt \in settled => raw[i].enqueuedAt \in settled

Stamped(raw) == \A i \in 1 .. Len(raw) : raw[i].enqueuedAt <= appends

Scanning(p) == pass[p].step \in {"quarantine", "ingest", "rewrite"}

\* What was appended since the pass read its snapshot.
TailUnsettled ==
    \A p \in Passes : Busy(p) =>
        \A i \in Len(pass[p].snapshot) + 1 .. Len(file) : file[i].enqueuedAt \notin settled

PassedSettled ==
    \A p \in Passes : Scanning(p) =>
        \A i \in 1 .. Len(pass[p].snapshot) :
            i < pass[p].at /\ Intact(pass[p].snapshot, i) => pass[p].snapshot[i].enqueuedAt \in settled

NextOrdered ==
    \A p \in Passes : pass[p].step = "rename" => Ordered(pass[p].next) /\ Stamped(pass[p].next)

PassInv == SnapshotIsPrefix /\ TailUnsettled /\ PassedSettled /\ NextOrdered

FileInv == /\ Ordered(file) /\ Stamped(file)
           /\ \A s \in settled : s <= appends

OrderInv == PassInv /\ FileInv

-----------------------------------------------------------------------------

LEMMA FileElement ==
    ASSUME TypeInv
    PROVE  /\ Len(file) \in Nat /\ appends \in Nat
           /\ \A i \in 1 .. Len(file) :
                  file[i] \in Chunk /\ file[i].enqueuedAt \in Nat /\ file[i].batch \in Batches
<1>1. file \in Seq(Chunk) /\ Len(file) \in Nat /\ appends \in Nat
  BY DEF TypeInv, TypeOK
<1>2. \A i \in 1 .. Len(file) : file[i] \in Chunk
  BY <1>1
<1> QED BY <1>1, <1>2 DEF Chunk

\* The snapshot of a pass: its elements are those of the file, and all but its
\* last one have the same neighbours there.
LEMMA SnapshotOfFile ==
    ASSUME TypeInv, SnapshotIsPrefix, NEW p \in Passes, Busy(p)
    PROVE  /\ Len(pass[p].snapshot) \in Nat /\ Len(pass[p].snapshot) <= Len(file)
           /\ pass[p].at \in Nat
           /\ \A i \in 1 .. Len(pass[p].snapshot) : pass[p].snapshot[i] = file[i]
           /\ \A i \in 1 .. Len(pass[p].snapshot) :
                  i < Len(pass[p].snapshot) => (Intact(file, i) <=> Intact(pass[p].snapshot, i))
<1>1. /\ Len(pass[p].snapshot) \in Nat /\ pass[p].at \in Nat
      /\ Len(file) \in Nat
  BY DEF TypeInv, TypeOK, Pass
<1>2. /\ Len(pass[p].snapshot) <= Len(file)
      /\ \A i \in 1 .. Len(pass[p].snapshot) : pass[p].snapshot[i] = file[i]
  BY DEF SnapshotIsPrefix
<1>3. ASSUME NEW i \in 1 .. Len(pass[p].snapshot), i < Len(pass[p].snapshot)
      PROVE  Intact(file, i) <=> Intact(pass[p].snapshot, i)
  <2>1. /\ i \in Nat /\ i < Len(file) /\ i + 1 \in 1 .. Len(pass[p].snapshot)
        /\ i > 1 => i - 1 \in 1 .. Len(pass[p].snapshot)
    BY <1>1, <1>2, <1>3
  <2> QED BY <1>2, <1>3, <2>1 DEF Intact
<1> QED BY <1>1, <1>2, <1>3

LEMMA RewrittenOrder ==
    ASSUME NEW raw \in Seq(Chunk), NEW S \in SUBSET (1 .. Len(raw)), NEW order \in InOrder(S)
    PROVE  /\ Len(order) \in Nat
           /\ \A k \in 1 .. Len(order) :
                  /\ order[k] \in S
                  /\ Rewritten(raw, order)[k].batch = raw[order[k]].batch
                  /\ Rewritten(raw, order)[k].enqueuedAt = raw[order[k]].enqueuedAt
           /\ \A k, l \in 1 .. Len(order) : k < l => order[k] < order[l]
<1>1. PICK n \in 0 .. Cardinality(S) : order \in [1 .. n -> S]
  BY DEF InOrder
<1>2. n \in Nat /\ Len(order) = n /\ DOMAIN order = 1 .. n
  BY <1>1
<1>3. \A k, l \in 1 .. n : k < l => order[k] < order[l]
  BY <1>2 DEF InOrder
<1>4. \A k \in 1 .. n : order[k] \in S /\ raw[order[k]] \in Chunk
  <2>1. \A k \in 1 .. n : order[k] \in S
    BY <1>1
  <2>2. \A i \in S : raw[i] \in Chunk
    OBVIOUS
  <2> QED BY <2>1, <2>2
<1>5. \A k \in 1 .. n : Rewritten(raw, order)[k] = [raw[order[k]] EXCEPT !.part = "whole"]
  BY <1>2 DEF Rewritten
<1>6. \A c \in Chunk : LET d == [c EXCEPT !.part = "whole"]
                       IN  d.batch = c.batch /\ d.enqueuedAt = c.enqueuedAt
  BY DEF Chunk
<1> QED BY <1>2, <1>3, <1>4, <1>5, <1>6

LEMMA TailElements ==
    ASSUME TypeInv, NEW n \in Nat, n <= Len(file)
    PROVE  /\ Len(AppendedSince(file, n)) = Len(file) - n
           /\ \A k \in 1 .. Len(file) - n : AppendedSince(file, n)[k] = file[n + k]
<1>1. file \in Seq(Chunk) /\ Len(file) \in Nat
  BY DEF TypeInv, TypeOK
<1> QED BY <1>1 DEF AppendedSince

LEMMA ConcatElements ==
    ASSUME NEW s \in Seq(Chunk), NEW t \in Seq(Chunk)
    PROVE  /\ Len(s \o t) = Len(s) + Len(t)
           /\ \A k \in 1 .. Len(s) : (s \o t)[k] = s[k]
           /\ \A k \in 1 .. Len(t) : (s \o t)[Len(s) + k] = t[k]
OBVIOUS

\* The lines a rewrite keeps, as places of the file it read.
Origin(q, lines, place) ==
    /\ \A k \in 1 .. Len(lines) :
           /\ place[k] \in 1 .. Len(file)
           /\ lines[k].batch = file[place[k]].batch
           /\ lines[k].enqueuedAt = file[place[k]].enqueuedAt
           /\ place[k] <= Len(pass[q].snapshot) => place[k] \in Retained(q)
    /\ \A k, l \in 1 .. Len(lines) : k < l => place[k] < place[l]

LEMMA NextOrigin ==
    ASSUME TypeInv, SnapshotIsPrefix, NEW p \in Passes, Busy(p),
           NEW order \in InOrder(Retained(p)), NEW next,
           next = Rewritten(pass[p].snapshot, order) \o AppendedSince(file, Len(pass[p].snapshot))
    PROVE  Len(next) \in Nat /\ \E g : Origin(p, next, g)
<1> DEFINE raw == pass[p].snapshot
           kept == Rewritten(raw, order)
           tail == AppendedSince(file, Len(raw))
           g == [k \in 1 .. Len(next) |-> IF k <= Len(order) THEN order[k] ELSE k - Len(order) + Len(raw)]
<1>1. /\ raw \in Seq(Chunk) /\ Retained(p) \in SUBSET (1 .. Len(raw))
      /\ Len(raw) \in Nat /\ Len(file) \in Nat /\ Len(raw) <= Len(file)
      /\ \A i \in 1 .. Len(raw) : raw[i] = file[i]
  BY RetainedType, SnapshotOfFile, FileElement
<1>2. /\ kept \in Seq(Chunk) /\ Len(kept) = Len(order)
  BY <1>1, RewrittenType
<1>3. /\ Len(order) \in Nat
      /\ \A k \in 1 .. Len(order) :
             /\ order[k] \in Retained(p)
             /\ kept[k].batch = raw[order[k]].batch
             /\ kept[k].enqueuedAt = raw[order[k]].enqueuedAt
      /\ \A k, l \in 1 .. Len(order) : k < l => order[k] < order[l]
  BY <1>1, RewrittenOrder
<1>4. /\ tail \in Seq(Chunk)
      /\ Len(tail) = Len(file) - Len(raw)
      /\ \A k \in 1 .. Len(tail) : tail[k] = file[Len(raw) + k]
  BY <1>1, TailType, TailElements
<1>5. next = kept \o tail
  OBVIOUS
<1> HIDE DEF raw, kept, tail
<1>6. /\ Len(next) = Len(order) + Len(tail)
      /\ \A k \in 1 .. Len(order) : next[k] = kept[k]
      /\ \A k \in 1 .. Len(tail) : next[Len(order) + k] = tail[k]
  <2>1. /\ Len(kept \o tail) = Len(kept) + Len(tail)
        /\ \A k \in 1 .. Len(kept) : (kept \o tail)[k] = kept[k]
        /\ \A k \in 1 .. Len(tail) : (kept \o tail)[Len(kept) + k] = tail[k]
    BY <1>2, <1>4, ConcatElements
  <2> QED BY <1>2, <1>5, <2>1
<1>7. \A k \in 1 .. Len(order) : /\ g[k] = order[k] /\ g[k] \in Retained(p)
                                /\ g[k] \in 1 .. Len(raw) /\ g[k] \in 1 .. Len(file)
                                /\ next[k].batch = file[g[k]].batch
                                /\ next[k].enqueuedAt = file[g[k]].enqueuedAt
  <2> SUFFICES ASSUME NEW k \in 1 .. Len(order)
               PROVE  /\ g[k] = order[k] /\ g[k] \in Retained(p)
                      /\ g[k] \in 1 .. Len(raw) /\ g[k] \in 1 .. Len(file)
                      /\ next[k].batch = file[g[k]].batch
                      /\ next[k].enqueuedAt = file[g[k]].enqueuedAt
    OBVIOUS
  <2>1. Len(tail) \in Nat /\ k \in 1 .. Len(next) /\ k <= Len(order)
    BY <1>1, <1>3, <1>4, <1>6
  <2>2. g[k] = order[k] /\ g[k] \in Retained(p)
    BY <1>3, <2>1
  <2>3. /\ \A i \in Retained(p) : i \in 1 .. Len(raw)
        /\ \A i \in 1 .. Len(raw) : i \in 1 .. Len(file) /\ raw[i] = file[i]
    BY <1>1
  <2>4. g[k] \in 1 .. Len(raw) /\ g[k] \in 1 .. Len(file) /\ raw[g[k]] = file[g[k]]
    BY <2>2, <2>3
  <2> HIDE DEF g
  <2> QED BY <1>3, <1>6, <2>2, <2>4
<1>8. \A k \in 1 .. Len(next) : k > Len(order) =>
          /\ g[k] = k - Len(order) + Len(raw) /\ g[k] > Len(raw) /\ g[k] \in 1 .. Len(file)
          /\ next[k] = file[g[k]]
  <2> SUFFICES ASSUME NEW k \in 1 .. Len(next), k > Len(order)
               PROVE  /\ g[k] = k - Len(order) + Len(raw) /\ g[k] > Len(raw) /\ g[k] \in 1 .. Len(file)
                      /\ next[k] = file[g[k]]
    OBVIOUS
  <2>1. PICK d \in 1 .. Len(tail) : k = Len(order) + d
    <3>1. k \in Nat /\ k <= Len(order) + Len(tail) /\ Len(tail) \in Nat
      BY <1>1, <1>3, <1>4, <1>6
    <3>2. k - Len(order) \in 1 .. Len(tail) /\ k = Len(order) + (k - Len(order))
      BY <1>3, <3>1
    <3> QED BY <3>2
  <2>2. g[k] = Len(raw) + d /\ g[k] = k - Len(order) + Len(raw)
    BY <1>1, <1>3, <2>1
  <2>3. next[k] = tail[d] /\ tail[d] = file[Len(raw) + d]
    BY <1>4, <1>6, <2>1
  <2>4. d \in Nat /\ d > 0 /\ d <= Len(file) - Len(raw)
    BY <1>1, <1>4
  <2>5. Len(raw) + d > Len(raw) /\ Len(raw) + d \in 1 .. Len(file)
    BY <1>1, <2>4
  <2> QED BY <2>2, <2>3, <2>5
<1>9. Len(next) \in Nat
  BY <1>1, <1>3, <1>4, <1>6
<1>10. \A k \in 1 .. Len(next) : k <= Len(order) => k \in 1 .. Len(order)
  BY <1>3, <1>9
<1>11. ASSUME NEW k \in 1 .. Len(next), NEW l \in 1 .. Len(next), k < l PROVE g[k] < g[l]
  <2>1. CASE l <= Len(order)
    <3>1. k \in 1 .. Len(order) /\ l \in 1 .. Len(order)
      BY <1>3, <1>9, <1>11, <2>1
    <3> QED BY <1>3, <1>7, <1>11, <3>1
  <2>2. CASE l > Len(order) /\ k <= Len(order)
    <3>1. g[l] > Len(raw) /\ g[l] \in Nat
      BY <1>8, <2>2
    <3>2. g[k] \in 1 .. Len(raw)
      BY <1>7, <1>10, <2>2
    <3> QED BY <1>1, <3>1, <3>2
  <2>3. CASE k > Len(order)
    <3>1. l > Len(order)
      BY <1>3, <1>9, <1>11, <2>3
    <3>2. g[k] = k - Len(order) + Len(raw) /\ g[l] = l - Len(order) + Len(raw)
      BY <1>8, <2>3, <3>1
    <3> QED BY <1>1, <1>3, <1>9, <1>11, <3>2
  <2> QED BY <1>3, <1>9, <2>1, <2>2, <2>3
<1>12. \A k \in 1 .. Len(next) : k <= Len(order) \/ k > Len(order)
  BY <1>3, <1>9
<1>13. \A k \in 1 .. Len(next) : g[k] \in 1 .. Len(file)
  <2> HIDE DEF g
  <2> QED BY <1>7, <1>8, <1>10, <1>12
<1>14. ASSUME NEW k \in 1 .. Len(next)
       PROVE  /\ next[k].batch = file[g[k]].batch
              /\ next[k].enqueuedAt = file[g[k]].enqueuedAt
              /\ g[k] <= Len(raw) => g[k] \in Retained(p)
  <2>1. CASE k <= Len(order)
    BY <1>7, <1>10, <2>1
  <2>2. CASE k > Len(order)
    <3>1. g[k] \in 1 .. Len(file) /\ g[k] > Len(raw) /\ next[k] = file[g[k]]
      BY <1>8, <2>2
    <3>2. ~(g[k] <= Len(raw))
      BY <1>1, <3>1
    <3> QED BY <3>1, <3>2
  <2> QED BY <1>12, <2>1, <2>2
<1>15. Origin(p, next, g)
  <2> HIDE DEF g
  <2> QED BY <1>11, <1>13, <1>14 DEF Origin, raw
<1> QED BY <1>9, <1>15

-----------------------------------------------------------------------------

\* Appends: a new line has a stamp of its own, which nothing has settled.
LEMMA AppendOrder ==
    ASSUME TypeInv, FileInv, UNCHANGED settled,
           \/ UNCHANGED <<file, appends>>
           \/ \E b \in Batches, part \in Part :
                  file' = Appended(b, part) /\ appends' = appends + 1
    PROVE  /\ FileInv' /\ Grows /\ appends <= appends'
           /\ \A i \in Len(file) + 1 .. Len(file') : file'[i].enqueuedAt \notin settled
<1>0. /\ Len(file) \in Nat /\ appends \in Nat
      /\ \A i \in 1 .. Len(file) : file[i].enqueuedAt \in Nat
  BY FileElement
<1>1. CASE UNCHANGED <<file, appends>>
  BY <1>0, <1>1 DEF FileInv, Ordered, Stamped, Grows
<1>2. ASSUME NEW b \in Batches, NEW part \in Part,
             file' = Appended(b, part), appends' = appends + 1
      PROVE  /\ FileInv' /\ Grows /\ appends <= appends'
             /\ \A i \in Len(file) + 1 .. Len(file') : file'[i].enqueuedAt \notin settled
  <2> DEFINE n == Len(file)
  <2>1. /\ Len(file') = n + 1
        /\ \A i \in 1 .. n : file'[i] = file[i]
        /\ file'[n + 1].enqueuedAt = appends + 1
    <3>1. /\ Len(file') = n + 1
          /\ \A i \in 1 .. n : file'[i] = file[i]
          /\ file'[n + 1] = [batch |-> b, enqueuedAt |-> appends + 1, part |-> part]
      BY <1>2, AppendedType DEF TypeInv
    <3> HIDE DEF n
    <3> QED BY <3>1
  <2>2. \A i \in 1 .. n + 1 : i \in 1 .. n \/ i = n + 1
    BY <1>0
  <2>3. appends + 1 \notin settled
    BY <1>0 DEF FileInv
  <2>4. ASSUME NEW i \in 1 .. n, Intact(file', i) PROVE Intact(file, i)
    <3>1. i \in Nat /\ i < n + 1 /\ (i > 1 => i - 1 \in 1 .. n)
      BY <1>0
    <3>2. file[i].part = "whole" /\ (i > 1 => file[i - 1].part = "whole")
      BY <2>1, <2>4, <3>1 DEF Intact
    <3>3. i < n => file[i].part = "whole" /\ i + 1 \in 1 .. n
      BY <1>0, <3>2
    <3> QED BY <3>2, <3>3 DEF Intact
  <2>5. Stamped(file)'
    <3>1. \A i \in 1 .. n + 1 : file'[i].enqueuedAt <= appends + 1
      BY <1>0, <2>1, <2>2 DEF FileInv, Stamped
    <3> QED BY <1>2, <2>1, <3>1 DEF Stamped
  <2>6. Ordered(file)'
    <3> SUFFICES ASSUME NEW i \in 1 .. n + 1, NEW k \in 1 .. n + 1, i < k
                 PROVE  /\ file'[i].enqueuedAt < file'[k].enqueuedAt
                        /\ Intact(file', i) /\ file'[k].enqueuedAt \in settled =>
                               file'[i].enqueuedAt \in settled
      BY <2>1 DEF Ordered
    <3>1. i \in 1 .. n
      BY <1>0
    <3>2. CASE k \in 1 .. n
      BY <2>1, <2>4, <3>1, <3>2 DEF FileInv, Ordered
    <3>3. CASE k = n + 1
      <4>1. file'[i].enqueuedAt <= appends /\ file'[k].enqueuedAt = appends + 1
        BY <2>1, <3>1, <3>3 DEF FileInv, Stamped
      <4>2. file'[i].enqueuedAt \in Nat
        BY <1>0, <2>1, <3>1
      <4> QED BY <1>0, <2>3, <4>1, <4>2
    <3> QED BY <2>2, <3>2, <3>3
  <2>7. \A t \in settled' : t <= appends'
    <3>1. \A t \in settled : t \in Nat /\ t <= appends
      BY DEF FileInv, TypeInv, TypeOK
    <3> QED BY <1>0, <1>2, <3>1
  <2>8. Grows /\ appends <= appends'
    BY <1>0, <1>2, <2>1 DEF Grows
  <2>9. \A i \in Len(file) + 1 .. Len(file') : file'[i].enqueuedAt \notin settled
    BY <1>0, <2>1, <2>3
  <2> QED BY <2>5, <2>6, <2>7, <2>8, <2>9 DEF FileInv
<1> QED BY <1>1, <1>2

\* While a connection appends, a pass keeps its snapshot.
LEMMA PassesWait ==
    ASSUME TypeInv, TypeInv', PassInv, Grows, UNCHANGED <<pass, settled>>, appends <= appends',
           \A i \in Len(file) + 1 .. Len(file') : file'[i].enqueuedAt \notin settled
    PROVE  PassInv'
<1>1. Len(file) \in Nat /\ Len(file') \in Nat /\ appends \in Nat /\ appends' \in Nat
  BY DEF TypeInv, TypeOK
<1>2. ASSUME NEW p \in Passes, Busy(p)
      PROVE  /\ Len(pass[p].snapshot) \in Nat /\ Len(pass[p].snapshot) <= Len(file)
             /\ \A i \in 1 .. Len(pass[p].snapshot) : file[i] = pass[p].snapshot[i]
  BY <1>2 DEF PassInv, SnapshotIsPrefix, TypeInv, TypeOK, Pass
<1>3. SnapshotIsPrefix'
  <2> SUFFICES ASSUME NEW p \in Passes, Busy(p)
               PROVE  /\ Len(pass[p].snapshot) <= Len(file')
                      /\ \A i \in 1 .. Len(pass[p].snapshot) : file'[i] = pass[p].snapshot[i]
    BY DEF SnapshotIsPrefix, Busy
  <2> QED BY <1>1, <1>2 DEF Grows
<1>4. TailUnsettled'
  <2> SUFFICES ASSUME NEW p \in Passes, Busy(p), NEW i \in Len(pass[p].snapshot) + 1 .. Len(file')
               PROVE  file'[i].enqueuedAt \notin settled
    BY DEF TailUnsettled, Busy
  <2>1. CASE i \in Len(pass[p].snapshot) + 1 .. Len(file)
    <3>1. i \in 1 .. Len(file)
      BY <1>1, <1>2, <2>1
    <3> QED BY <2>1, <3>1 DEF PassInv, TailUnsettled, Grows
  <2>2. CASE i \in Len(file) + 1 .. Len(file')
    BY <2>2
  <2> QED BY <1>1, <1>2, <2>1, <2>2
<1>5. PassedSettled'
  BY DEF PassInv, PassedSettled, Scanning
<1>6. NextOrdered'
  <2> SUFFICES ASSUME NEW p \in Passes, pass[p].step = "rename"
               PROVE  Ordered(pass[p].next)' /\ Stamped(pass[p].next)'
    BY DEF NextOrdered
  <2>1. Ordered(pass[p].next) /\ Stamped(pass[p].next)
    BY DEF PassInv, NextOrdered
  <2>2. \A i \in 1 .. Len(pass[p].next) : pass[p].next[i].enqueuedAt \in Nat
    <3>1. pass[p].next \in Seq(Chunk)
      BY DEF TypeInv, TypeOK, Pass
    <3>2. \A i \in 1 .. Len(pass[p].next) : pass[p].next[i] \in Chunk
      BY <3>1
    <3> QED BY <3>2 DEF Chunk
  <2>3. Stamped(pass[p].next)'
    BY <1>1, <2>1, <2>2 DEF Stamped
  <2> QED BY <2>1, <2>3 DEF Ordered
<1> QED BY <1>3, <1>4, <1>5, <1>6 DEF PassInv

LEMMA NoPassWaits ==
    ASSUME \A q \in Passes : ~Busy(q)'
    PROVE  PassInv'
BY DEF PassInv, SnapshotIsPrefix, TailUnsettled, PassedSettled, NextOrdered, Busy, Scanning

\* A pass that goes on scanning its snapshot.
LEMMA ScanStep ==
    ASSUME TypeInv, PassInv, [Next]_vars, NEW p \in Passes, Busy(p), UNCHANGED file,
           NEW r, pass' = [pass EXCEPT ![p] = r], r.snapshot = pass[p].snapshot,
           r.step \in {"quarantine", "ingest", "rewrite"},
           \A i \in Len(pass[p].snapshot) + 1 .. Len(file) : file[i].enqueuedAt \notin settled',
           \A i \in 1 .. Len(pass[p].snapshot) :
               i < r.at /\ Intact(pass[p].snapshot, i) => pass[p].snapshot[i].enqueuedAt \in settled'
    PROVE  PassInv'
<1>1. \A q \in Passes : Busy(q)' => q = p /\ pass'[q] = r
  BY OnlyOne
<1>2. SnapshotIsPrefix'
  BY <1>1 DEF PassInv, SnapshotIsPrefix
<1>3. TailUnsettled'
  BY <1>1 DEF TailUnsettled
<1>4. PassedSettled'
  BY <1>1 DEF PassedSettled, Scanning, Busy
<1>5. NextOrdered'
  BY <1>1 DEF NextOrdered, Busy
<1> QED BY <1>2, <1>3, <1>4, <1>5 DEF PassInv

\* A settled batch: everything intact ahead of it was settled before.
LEMMA SettleOrder ==
    ASSUME TypeInv, OrderInv, [Next]_vars, NEW p \in Passes, NEW i \in 1 .. Len(pass[p].snapshot),
           Reached(p, i), Settle(p, i), UNCHANGED <<file, appends>>
    PROVE  OrderInv'
<1> DEFINE raw == pass[p].snapshot
           r == [pass[p] EXCEPT !.at = i + 1, !.changed = TRUE]
           s == raw[i].enqueuedAt
<1>1. /\ pass' = [pass EXCEPT ![p] = r] /\ Busy(p)
      /\ r.snapshot = pass[p].snapshot /\ r.step = "ingest" /\ r.at = i + 1
      /\ settled' = settled \cup {s}
  BY DEF Settle, Reached, At, Busy, TypeInv, TypeOK, Pass
<1> HIDE DEF r
<1>2. /\ Len(raw) \in Nat /\ Len(raw) <= Len(file) /\ Len(file) \in Nat /\ pass[p].at \in Nat
      /\ \A k \in 1 .. Len(raw) : raw[k] = file[k]
      /\ \A k \in 1 .. Len(raw) : k < Len(raw) => (Intact(file, k) <=> Intact(raw, k))
      /\ \A k \in 1 .. Len(file) : file[k].enqueuedAt \in Nat
  BY <1>1, SnapshotOfFile, FileElement DEF OrderInv, PassInv
<1>3. i \in 1 .. Len(file) /\ s = file[i].enqueuedAt /\ s \in Nat /\ i \in Nat
  BY <1>2
<1>4. \A k \in 1 .. Len(file) : file[k].enqueuedAt = s => k = i
  <2> SUFFICES ASSUME NEW k \in 1 .. Len(file), file[k].enqueuedAt = s, k # i PROVE FALSE
    OBVIOUS
  <2>1. k < i \/ i < k
    BY <1>3
  <2> QED BY <1>2, <1>3, <2>1 DEF OrderInv, FileInv, Ordered
<1>5. \A k \in 1 .. Len(raw) : k < i + 1 /\ Intact(raw, k) => raw[k].enqueuedAt \in settled'
  <2> SUFFICES ASSUME NEW k \in 1 .. Len(raw), k < i + 1, Intact(raw, k)
               PROVE  raw[k].enqueuedAt \in settled'
    OBVIOUS
  <2>1. k < pass[p].at \/ k = i
    <3>1. k \in pass[p].at .. i - 1 \/ k < pass[p].at \/ k = i
      BY <1>2, <1>3
    <3> QED BY <3>1 DEF Reached
  <2>2. k < pass[p].at => raw[k].enqueuedAt \in settled
    BY DEF OrderInv, PassInv, PassedSettled, Scanning, Reached, At
  <2> QED BY <1>1, <2>1, <2>2
<1>6. \A k \in Len(raw) + 1 .. Len(file) : file[k].enqueuedAt \notin settled'
  <2> SUFFICES ASSUME NEW k \in Len(raw) + 1 .. Len(file) PROVE file[k].enqueuedAt \notin settled'
    OBVIOUS
  <2>1. k \in 1 .. Len(file) /\ k # i
    BY <1>2, <1>3
  <2>2. file[k].enqueuedAt \notin settled
    BY <1>1 DEF OrderInv, PassInv, TailUnsettled
  <2> QED BY <1>1, <1>4, <2>1, <2>2
<1>7. PassInv'
  BY <1>1, <1>5, <1>6, ScanStep DEF OrderInv
<1>8. Ordered(file)'
  <2> SUFFICES ASSUME NEW a \in 1 .. Len(file), NEW k \in 1 .. Len(file), a < k
               PROVE  /\ file[a].enqueuedAt < file[k].enqueuedAt
                      /\ Intact(file, a) /\ file[k].enqueuedAt \in settled' =>
                             file[a].enqueuedAt \in settled'
    BY DEF Ordered
  <2>1. /\ file[a].enqueuedAt < file[k].enqueuedAt
        /\ Intact(file, a) /\ file[k].enqueuedAt \in settled => file[a].enqueuedAt \in settled
    BY DEF OrderInv, FileInv, Ordered
  <2>2. ASSUME Intact(file, a), file[k].enqueuedAt = s PROVE file[a].enqueuedAt \in settled'
    <3>1. k = i
      BY <1>4, <2>2
    <3>2. a \in 1 .. Len(raw) /\ a < Len(raw) /\ a < i + 1
      BY <1>2, <1>3, <3>1
    <3>3. Intact(raw, a) /\ raw[a] = file[a]
      BY <1>2, <2>2, <3>2
    <3> QED BY <1>5, <3>2, <3>3
  <2> QED BY <1>1, <2>1, <2>2
<1>9. Stamped(file)' /\ \A t \in settled' : t <= appends'
  <2>1. s <= appends
    BY <1>3 DEF OrderInv, FileInv, Stamped
  <2> QED BY <1>1, <2>1 DEF OrderInv, FileInv, Stamped
<1> QED BY <1>7, <1>8, <1>9 DEF OrderInv, FileInv

\* A pass that ends, or stops to rewrite at i, with the file as it was.
LEMMA HaltOrder ==
    ASSUME TypeInv, OrderInv, [Next]_vars, NEW p \in Passes, At(p, "ingest"),
           NEW i \in 1 .. Len(pass[p].snapshot) + 1,
           \A k \in pass[p].at .. i - 1 : ~Intact(pass[p].snapshot, k),
           Halt(p, i), UNCHANGED <<file, settled, appends>>
    PROVE  OrderInv'
<1>1. FileInv' /\ Busy(p)
  BY DEF OrderInv, FileInv, Ordered, Stamped, At, Busy
<1>2. CASE Finish(p)
  BY <1>1, <1>2, FinishType, NoPassWaits DEF TypeInv, OrderInv
<1>3. CASE pass' = [pass EXCEPT ![p].step = "rewrite", ![p].at = i]
  <2> DEFINE r == [pass[p] EXCEPT !.step = "rewrite", !.at = i]
  <2>1. /\ pass' = [pass EXCEPT ![p] = r]
        /\ r.snapshot = pass[p].snapshot /\ r.step = "rewrite" /\ r.at = i
    BY <1>3 DEF TypeInv, TypeOK, Pass
  <2> HIDE DEF r
  <2>2. \A k \in Len(pass[p].snapshot) + 1 .. Len(file) : file[k].enqueuedAt \notin settled'
    BY <1>1 DEF OrderInv, PassInv, TailUnsettled
  <2>3. ASSUME NEW k \in 1 .. Len(pass[p].snapshot), k < i, Intact(pass[p].snapshot, k)
        PROVE  pass[p].snapshot[k].enqueuedAt \in settled'
    <3>1. pass[p].at \in Nat /\ i \in Nat /\ k \in Nat
      BY DEF TypeInv, TypeOK, Pass
    <3>2. k < pass[p].at
      BY <2>3, <3>1
    <3> QED BY <2>3, <3>2 DEF OrderInv, PassInv, PassedSettled, Scanning, At
  <2>4. PassInv'
    BY <1>1, <2>1, <2>2, <2>3, ScanStep DEF OrderInv
  <2> QED BY <1>1, <2>4 DEF OrderInv
<1> QED BY <1>2, <1>3 DEF Halt

LEMMA FlushOrder ==
    ASSUME TypeInv, OrderInv, NEW p \in Passes, flush(p)
    PROVE  OrderInv'
<1>1. \A q \in Passes : q # p => pass'[q].step = "idle"
  BY DEF flush, flush_refused, TypeInv, TypeOK
<1>2. /\ pass'[p].step \in {"ingest", "quarantine"}
      /\ pass'[p].snapshot = file
      /\ pass'[p].at = 1
      /\ UNCHANGED <<file, settled, appends>>
  BY DEF flush, Idle, TypeInv, TypeOK
<1>3. FileInv'
  BY <1>2 DEF OrderInv, FileInv, Ordered, Stamped
<1>4. SnapshotIsPrefix'
  BY <1>1, <1>2 DEF SnapshotIsPrefix, Busy, TypeInv, TypeOK
<1>5. TailUnsettled'
  <2>1. Len(file) + 1 .. Len(file) = {}
    BY FileElement
  <2> QED BY <1>1, <1>2, <2>1 DEF TailUnsettled, Busy
<1>6. PassedSettled'
  BY <1>1, <1>2 DEF PassedSettled, Scanning
<1>7. NextOrdered'
  BY <1>1, <1>2 DEF NextOrdered
<1> QED BY <1>3, <1>4, <1>5, <1>6, <1>7 DEF OrderInv, PassInv

LEMMA QuarantineOrder ==
    ASSUME TypeInv, OrderInv, [Next]_vars, NEW p \in Passes, quarantine(p)
    PROVE  OrderInv'
<1> DEFINE r == [pass[p] EXCEPT !.step = "ingest", !.changed = TRUE]
<1>1. /\ pass' = [pass EXCEPT ![p] = r] /\ Busy(p)
      /\ r.snapshot = pass[p].snapshot /\ r.step = "ingest" /\ r.at = pass[p].at
  BY DEF quarantine, At, Busy, TypeInv, TypeOK, Pass
<1> HIDE DEF r
<1>2. UNCHANGED <<file, settled, appends>>
  BY DEF quarantine
<1>3. \A k \in Len(pass[p].snapshot) + 1 .. Len(file) : file[k].enqueuedAt \notin settled'
  BY <1>1, <1>2 DEF OrderInv, PassInv, TailUnsettled
<1>4. \A k \in 1 .. Len(pass[p].snapshot) :
          k < r.at /\ Intact(pass[p].snapshot, k) => pass[p].snapshot[k].enqueuedAt \in settled'
  BY <1>1, <1>2 DEF OrderInv, PassInv, PassedSettled, Scanning, quarantine, At
<1>5. PassInv'
  BY <1>1, <1>2, <1>3, <1>4, ScanStep DEF OrderInv
<1> QED BY <1>2, <1>5 DEF OrderInv, FileInv, Ordered, Stamped

\* The lines a rewrite keeps are in order: its own were settled from the front,
\* and those appended meanwhile are not settled at all.
LEMMA ReadsOrder ==
    ASSUME TypeInv, OrderInv, [Next]_vars, NEW p \in Passes, writePending_reads(p)
    PROVE  OrderInv'
<1>1. PICK order \in InOrder(Retained(p)) :
         pass' = [pass EXCEPT ![p].step = "rename",
                              ![p].next = Rewritten(pass[p].snapshot, order)
                                          \o AppendedSince(file, Len(pass[p].snapshot))]
  BY DEF writePending_reads
<1> DEFINE next == Rewritten(pass[p].snapshot, order) \o AppendedSince(file, Len(pass[p].snapshot))
           r == [pass[p] EXCEPT !.step = "rename", !.next = next]
<1>2. /\ pass' = [pass EXCEPT ![p] = r] /\ Busy(p)
      /\ r.snapshot = pass[p].snapshot /\ r.step = "rename" /\ r.next = next
  BY <1>1 DEF writePending_reads, At, Busy, TypeInv, TypeOK, Pass
<1>3. UNCHANGED <<file, settled, appends>> /\ FileInv'
  BY DEF writePending_reads, OrderInv, FileInv, Ordered, Stamped
<1>4. Len(next) \in Nat /\ \E g : Origin(p, next, g)
  BY <1>2, NextOrigin DEF OrderInv, PassInv
<1> HIDE DEF next, r
<1>5. PICK g : Origin(p, next, g)
  BY <1>4
<1>6. \A q \in Passes : Busy(q)' => q = p /\ pass'[q] = r
  BY <1>2, OnlyOne
<1>7. SnapshotIsPrefix' /\ TailUnsettled'
  BY <1>2, <1>3, <1>6 DEF OrderInv, PassInv, SnapshotIsPrefix, TailUnsettled
<1>8. PassedSettled'
  BY <1>2, <1>6 DEF PassedSettled, Scanning, Busy
<1>9. Stamped(next)
  <2>1. \A k \in 1 .. Len(next) : g[k] \in 1 .. Len(file) /\ next[k].enqueuedAt = file[g[k]].enqueuedAt
    BY <1>5 DEF Origin
  <2> QED BY <2>1 DEF OrderInv, FileInv, Stamped
<1>10. Ordered(next)
  <2> SUFFICES ASSUME NEW i \in 1 .. Len(next), NEW k \in 1 .. Len(next), i < k
               PROVE  /\ next[i].enqueuedAt < next[k].enqueuedAt
                      /\ next[k].enqueuedAt \in settled => next[i].enqueuedAt \in settled
    BY DEF Ordered
  <2>1. /\ g[i] \in 1 .. Len(file) /\ g[k] \in 1 .. Len(file) /\ g[i] < g[k]
        /\ next[i].enqueuedAt = file[g[i]].enqueuedAt
        /\ next[k].enqueuedAt = file[g[k]].enqueuedAt
        /\ g[i] <= Len(pass[p].snapshot) => g[i] \in Retained(p)
    BY <1>5 DEF Origin
  <2>2. next[i].enqueuedAt < next[k].enqueuedAt
    BY <2>1 DEF OrderInv, FileInv, Ordered
  <2>3. ASSUME next[k].enqueuedAt \in settled PROVE next[i].enqueuedAt \in settled
    <3>1. /\ Len(pass[p].snapshot) \in Nat /\ Len(file) \in Nat
          /\ \A a \in 1 .. Len(pass[p].snapshot) : a < Len(pass[p].snapshot) =>
                 (Intact(file, a) <=> Intact(pass[p].snapshot, a))
      BY <1>2, SnapshotOfFile, FileElement DEF OrderInv, PassInv
    <3>2. g[k] \notin Len(pass[p].snapshot) + 1 .. Len(file)
      BY <1>2, <2>1, <2>3 DEF OrderInv, PassInv, TailUnsettled
    <3>3. g[k] <= Len(pass[p].snapshot)
      BY <2>1, <3>1, <3>2
    <3>4. g[i] \in 1 .. Len(pass[p].snapshot) /\ g[i] < Len(pass[p].snapshot)
      BY <2>1, <3>1, <3>3
    <3>5. Intact(pass[p].snapshot, g[i])
      BY <2>1, <3>1, <3>4 DEF Retained
    <3>6. Intact(file, g[i])
      BY <3>1, <3>4, <3>5
    <3> QED BY <2>1, <2>3, <3>6 DEF OrderInv, FileInv, Ordered
  <2> QED BY <2>2, <2>3
<1>11. NextOrdered'
  <2> SUFFICES ASSUME NEW q \in Passes, Busy(q)' PROVE Ordered(pass[q].next)' /\ Stamped(pass[q].next)'
    BY DEF NextOrdered, Busy
  <2>1. pass'[q].next = next
    BY <1>2, <1>6
  <2> QED BY <1>3, <1>9, <1>10, <2>1 DEF Ordered, Stamped
<1> QED BY <1>3, <1>7, <1>8, <1>11 DEF OrderInv, PassInv

LEMMA RenamesOrder ==
    ASSUME TypeInv, OrderInv, NEW p \in Passes, writePending_renames(p)
    PROVE  OrderInv'
<1>1. file' = pass[p].next /\ UNCHANGED <<settled, appends>> /\ Busy(p) /\ Finish(p)
  BY DEF writePending_renames, At, Busy
<1>2. Ordered(pass[p].next) /\ Stamped(pass[p].next)
  BY DEF writePending_renames, At, OrderInv, PassInv, NextOrdered
<1>3. FileInv'
  BY <1>1, <1>2 DEF OrderInv, FileInv, Ordered, Stamped
<1>4. PassInv'
  BY <1>1, FinishType, NoPassWaits DEF TypeInv
<1> QED BY <1>3, <1>4 DEF OrderInv

LEMMA OrderStep == ASSUME TypeInv, OrderInv, [Next]_vars PROVE OrderInv'
<1>1. CASE UNCHANGED vars
  <2>1. UNCHANGED <<pass, settled>> /\ UNCHANGED <<file, appends>> /\ TypeInv'
    BY <1>1, TypeStep DEF vars
  <2> QED BY <2>1, AppendOrder, PassesWait DEF OrderInv
<1>2. ASSUME NEW b \in Batches, Connection(b) PROVE OrderInv'
  <2>1. /\ UNCHANGED <<pass, settled>>
        /\ \/ UNCHANGED <<file, appends>>
           \/ \E part \in Part : file' = Appended(b, part) /\ appends' = appends + 1
    BY <1>2 DEF Connection, ingestBatch, ingestBatch_throws, ingestBatch_reply_lost, enqueue,
                enqueue_throws, acknowledge, CutShort, Part
  <2>2. /\ FileInv' /\ Grows /\ appends <= appends'
        /\ \A i \in Len(file) + 1 .. Len(file') : file'[i].enqueuedAt \notin settled
    BY <2>1, AppendOrder DEF OrderInv
  <2>3. TypeInv'
    BY TypeStep
  <2> QED BY <2>1, <2>2, <2>3, PassesWait DEF OrderInv
<1>3. ASSUME NEW p \in Passes, Flush(p) PROVE OrderInv'
  <2>1. ASSUME NEW i \in 1 .. Len(pass[p].snapshot), flush_ingests(p, i) \/ flush_dead_letters(p, i)
        PROVE  OrderInv'
    BY <2>1, SettleOrder DEF flush_ingests, flush_dead_letters
  <2>2. ASSUME NEW i \in 1 .. Len(pass[p].snapshot), flush_halts(p, i) PROVE OrderInv'
    BY <2>2, HaltOrder DEF flush_halts, Reached
  <2>3. CASE flush_loop_ends(p)
    <3>1. /\ Len(pass[p].snapshot) + 1 \in 1 .. Len(pass[p].snapshot) + 1
          /\ Len(pass[p].snapshot) + 1 - 1 = Len(pass[p].snapshot)
      BY DEF TypeInv, TypeOK, Pass
    <3> QED BY <2>3, <3>1, HaltOrder DEF flush_loop_ends
  <2>4. CASE flush_throws(p)
    <3>1. Busy(p) /\ Finish(p) /\ UNCHANGED <<file, settled, appends>>
      BY <2>4 DEF flush_throws, Busy
    <3>2. PassInv'
      BY <3>1, FinishType, NoPassWaits DEF TypeInv
    <3> QED BY <3>1, <3>2 DEF OrderInv, FileInv, Ordered, Stamped
  <2> QED BY <1>3, <2>1, <2>2, <2>3, <2>4, FlushOrder, QuarantineOrder, ReadsOrder, RenamesOrder DEF Flush
<1>4. CASE crash
  <2>1. /\ UNCHANGED settled
        /\ \/ UNCHANGED <<file, appends>>
           \/ \E b \in Batches, part \in Part : file' = Appended(b, part) /\ appends' = appends + 1
    BY <1>4 DEF crash, CutShort
  <2>2. FileInv'
    BY <2>1, AppendOrder DEF OrderInv
  <2>3. \A q \in Passes : ~Busy(q)'
    BY <1>4 DEF crash, Idle, Busy
  <2> QED BY <2>2, <2>3, NoPassWaits DEF OrderInv
<1> QED BY <1>1, <1>2, <1>3, <1>4 DEF Next

LEMMA OrderCorrect == Spec => []OrderInv
<1>1. Init => OrderInv
  <2> SUFFICES ASSUME Init PROVE OrderInv
    OBVIOUS
  <2>1. file = <<>> /\ settled = {} /\ \A p \in Passes : ~Busy(p)
    BY DEF Init, Idle, Busy
  <2>2. FileInv
    BY <2>1 DEF FileInv, Ordered, Stamped
  <2>3. PassInv
    BY <2>1 DEF PassInv, SnapshotIsPrefix, TailUnsettled, PassedSettled, NextOrdered, Busy, Scanning
  <2> QED BY <2>2, <2>3 DEF OrderInv
<1>2. TypeInv /\ OrderInv /\ [Next]_vars => OrderInv'
  BY OrderStep
<1> QED BY <1>1, <1>2, TypeInvCorrect, PTL DEF Spec

\* The queue is flushed in enqueue order, whatever halts, rewrites, torn appends
\* and crashes it goes through, and even when an append lands in the window of a
\* rename: the lines of the file stand in the order they were appended, and no
\* batch is settled before one ahead of it that can be parsed.
THEOREM FlushedInOrder == Spec => []InEnqueueOrder
<1>1. OrderInv => InEnqueueOrder
  BY DEF OrderInv, FileInv, Ordered, InEnqueueOrder
<1> QED BY <1>1, OrderCorrect, PTL

-----------------------------------------------------------------------------
(* One ingest.  While nothing fails, a batch has one line in the file at    *)
(* most, and only after its live ingest was given up for good; no line is   *)
(* delivered before it is settled; and a pass that ends has taken out of    *)
(* the file whatever it settled, so the next one finds nothing twice.       *)

Calm == spent.crashes = 0 /\ spent.diskErrors = 0 /\ spent.outages = 0

LiveOnce ==
    \A b \in Batches : /\ delivered[b] <= 1
                       /\ custody[b] \in {"device", "buffering"} => delivered[b] = 0

LinesOnce ==
    \A i \in 1 .. Len(file) :
        /\ custody[file[i].batch] \in {"stored", "acked"}
        /\ file[i].enqueuedAt \notin settled => delivered[file[i].batch] = 0

Distinct(raw) == \A i, k \in 1 .. Len(raw) : raw[i].batch = raw[k].batch => i = k

Unsettled(raw) == \A i \in 1 .. Len(raw) : raw[i].enqueuedAt \notin settled

CameFrom(line) == \E i \in 1 .. Len(file) : file[i].batch = line.batch /\ file[i].enqueuedAt = line.enqueuedAt

BatchOnce == LiveOnce /\ LinesOnce /\ Distinct(file)

RestUnsettled == (\A p \in Passes : ~Busy(p)) => Unsettled(file)

AheadUnsettled ==
    \A p \in Passes : Scanning(p) =>
        \A k \in 1 .. Len(pass[p].snapshot) :
            k >= pass[p].at => pass[p].snapshot[k].enqueuedAt \notin settled

UnchangedIsUnread ==
    \A p \in Passes : pass[p].step \in {"quarantine", "ingest"} /\ ~pass[p].changed => pass[p].at = 1

NextUnsettled ==
    \A p \in Passes : pass[p].step = "rename" =>
        /\ Unsettled(pass[p].next) /\ Distinct(pass[p].next)
        /\ \A k \in 1 .. Len(pass[p].next) : CameFrom(pass[p].next[k])

PassOnce == RestUnsettled /\ AheadUnsettled /\ UnchangedIsUnread /\ NextUnsettled

OnceInv == Calm => BatchOnce /\ PassOnce

-----------------------------------------------------------------------------

\* A step after which nothing has failed is one that fails nothing.
LEMMA CalmStep ==
    ASSUME TypeInv, [Next]_vars, Calm'
    PROVE  /\ Calm
           /\ \/ UNCHANGED vars
              \/ \E b \in Batches : \/ ingestBatch(b) \/ ingestBatch_throws(b)
                                    \/ enqueue(b) \/ acknowledge(b)
              \/ \E p \in Passes :
                    \/ flush(p) \/ quarantine(p) \/ flush_loop_ends(p)
                    \/ \E i \in 1 .. Len(pass[p].snapshot) : flush_ingests(p, i) \/ flush_dead_letters(p, i)
                    \/ writePending_reads(p) \/ writePending_renames(p)
<1>1. /\ ~Spend("crashes", MaxCrashes)
      /\ ~Spend("diskErrors", MaxDiskErrors)
      /\ ~Spend("outages", MaxOutages)
  BY BoundsAssumption DEF TypeInv, TypeOK, Calm, Spend
<1>2. \/ UNCHANGED vars
      \/ \E b \in Batches : Connection(b)
      \/ \E p \in Passes : Flush(p)
  BY <1>1 DEF Next, crash
<1>3. ASSUME NEW b \in Batches, Connection(b)
      PROVE  ingestBatch(b) \/ ingestBatch_throws(b) \/ enqueue(b) \/ acknowledge(b)
  BY <1>1, <1>3 DEF Connection, ingestBatch_reply_lost, enqueue_throws
<1>4. ASSUME NEW p \in Passes, Flush(p)
      PROVE  \/ flush(p) \/ quarantine(p) \/ flush_loop_ends(p)
             \/ \E i \in 1 .. Len(pass[p].snapshot) : flush_ingests(p, i) \/ flush_dead_letters(p, i)
             \/ writePending_reads(p) \/ writePending_renames(p)
  BY <1>1, <1>4 DEF Flush, flush_halts, flush_throws
<1>5. \/ UNCHANGED vars
      \/ \E b \in Batches : \/ ingestBatch(b) \/ ingestBatch_throws(b)
                            \/ enqueue(b) \/ acknowledge(b)
      \/ \E p \in Passes :
            \/ flush(p) \/ quarantine(p) \/ flush_loop_ends(p)
            \/ \E i \in 1 .. Len(pass[p].snapshot) : flush_ingests(p, i) \/ flush_dead_letters(p, i)
            \/ writePending_reads(p) \/ writePending_renames(p)
  BY <1>2, <1>3, <1>4
<1>6. UNCHANGED spent
  BY <1>5 DEF vars, ingestBatch, ingestBatch_throws, enqueue, acknowledge, flush, quarantine,
          flush_loop_ends, flush_ingests, flush_dead_letters, writePending_reads, writePending_renames
<1> QED BY <1>5, <1>6 DEF Calm

\* The passes, while a connection does its work.
LEMMA WaitsOnce ==
    ASSUME TypeInv, TypeInv', PassOnce, Grows, UNCHANGED <<pass, settled>>,
           \A i \in Len(file) + 1 .. Len(file') : file'[i].enqueuedAt \notin settled
    PROVE  PassOnce'
<1>1. Len(file) \in Nat /\ Len(file') \in Nat
  BY DEF TypeInv, TypeOK
<1>2. \A i \in 1 .. Len(file') : i \in 1 .. Len(file) \/ i \in Len(file) + 1 .. Len(file')
  BY <1>1
<1>3. \A i \in 1 .. Len(file) : i \in 1 .. Len(file') /\ file'[i] = file[i]
  BY <1>1 DEF Grows
<1>4. RestUnsettled'
  BY <1>2, <1>3 DEF PassOnce, RestUnsettled, Unsettled, Busy
<1>5. AheadUnsettled' /\ UnchangedIsUnread'
  BY DEF PassOnce, AheadUnsettled, UnchangedIsUnread, Scanning
<1>6. NextUnsettled'
  <2> SUFFICES ASSUME NEW p \in Passes, pass[p].step = "rename"
               PROVE  /\ Unsettled(pass[p].next)' /\ Distinct(pass[p].next)'
                      /\ (\A k \in 1 .. Len(pass[p].next) : CameFrom(pass[p].next[k]))'
    BY DEF NextUnsettled
  <2>1. Unsettled(pass[p].next)' /\ Distinct(pass[p].next)'
    BY DEF PassOnce, NextUnsettled, Unsettled, Distinct
  <2>2. \A k \in 1 .. Len(pass[p].next) : CameFrom(pass[p].next[k])
    BY DEF PassOnce, NextUnsettled
  <2>3. \A k \in 1 .. Len(pass[p].next) : CameFrom(pass[p].next[k])'
    BY <1>3, <2>2 DEF CameFrom
  <2> QED BY <2>1, <2>3
<1> QED BY <1>4, <1>5, <1>6 DEF PassOnce

LEMMA ConnectionOnce ==
    ASSUME TypeInv, OrderInv, BatchOnce, [Next]_vars, NEW b \in Batches,
           ingestBatch(b) \/ ingestBatch_throws(b) \/ enqueue(b) \/ acknowledge(b)
    PROVE  BatchOnce'
<1>1. \A i \in 1 .. Len(file) : file[i].batch \in Batches
  BY FileElement
<1>2. custody \in [Batches -> Custody] /\ delivered \in [Batches -> Nat]
  BY DEF TypeInv, TypeOK
<1>3. CASE ingestBatch(b)
  <2>1. /\ custody' = [custody EXCEPT ![b] = "ingested"] /\ UNCHANGED <<file, settled>>
        /\ delivered' = [delivered EXCEPT ![b] = @ + 1] /\ custody[b] = "device"
    BY <1>3 DEF ingestBatch, MaySend, Deliver
  <2>2. LiveOnce'
    BY <1>2, <2>1 DEF BatchOnce, LiveOnce
  <2>3. \A i \in 1 .. Len(file) : file[i].batch # b
    BY <2>1 DEF BatchOnce, LinesOnce
  <2>4. LinesOnce'
    BY <1>1, <1>2, <2>1, <2>3 DEF BatchOnce, LinesOnce
  <2> QED BY <2>1, <2>2, <2>4 DEF BatchOnce, Distinct
<1>4. CASE ingestBatch_throws(b)
  <2>1. /\ custody' = [custody EXCEPT ![b] = "buffering"] /\ UNCHANGED <<file, settled, delivered>>
        /\ custody[b] = "device"
    BY <1>4 DEF ingestBatch_throws, MaySend
  <2>2. LiveOnce'
    BY <1>2, <2>1 DEF BatchOnce, LiveOnce
  <2>3. LinesOnce'
    BY <1>1, <1>2, <2>1 DEF BatchOnce, LinesOnce
  <2> QED BY <2>1, <2>2, <2>3 DEF BatchOnce, Distinct
<1>5. CASE acknowledge(b)
  <2>1. custody' = [custody EXCEPT ![b] = "acked"] /\ UNCHANGED <<file, settled, delivered>>
    BY <1>5 DEF acknowledge
  <2>2. LiveOnce'
    BY <1>2, <2>1 DEF BatchOnce, LiveOnce
  <2>3. LinesOnce'
    BY <1>1, <1>2, <2>1 DEF BatchOnce, LinesOnce
  <2> QED BY <2>1, <2>2, <2>3 DEF BatchOnce, Distinct
<1>6. CASE enqueue(b)
  <2> DEFINE n == Len(file)
  <2>1. /\ custody' = [custody EXCEPT ![b] = "stored"] /\ UNCHANGED <<settled, delivered>>
        /\ custody[b] = "buffering"
    BY <1>6 DEF enqueue
  <2>2. /\ n \in Nat /\ Len(file') = n + 1
        /\ \A i \in 1 .. n : file'[i] = file[i]
        /\ file'[n + 1].batch = b
    <3>1. /\ n \in Nat /\ Len(file') = n + 1
          /\ \A i \in 1 .. n : file'[i] = file[i]
          /\ file'[n + 1] = [batch |-> b, enqueuedAt |-> appends + 1, part |-> "whole"]
      BY <1>6, AppendedType, FileElement DEF TypeInv, Part, enqueue
    <3> HIDE DEF n
    <3> QED BY <3>1
  <2>3. \A i \in 1 .. n + 1 : i \in 1 .. n \/ i = n + 1
    BY <2>2
  <2>4. \A i \in 1 .. n : file[i].batch # b
    BY <2>1 DEF BatchOnce, LinesOnce
  <2>5. LiveOnce'
    BY <1>2, <2>1 DEF BatchOnce, LiveOnce
  <2>6. delivered'[b] = 0 /\ custody'[b] = "stored"
    BY <1>2, <2>1 DEF BatchOnce, LiveOnce
  <2>7. \A i \in 1 .. n : custody'[file[i].batch] = custody[file[i].batch]
    BY <1>1, <1>2, <2>1, <2>4
  <2> HIDE DEF n
  <2>8. LinesOnce'
    <3> SUFFICES ASSUME NEW i \in 1 .. n + 1
                 PROVE  /\ custody'[file'[i].batch] \in {"stored", "acked"}
                        /\ file'[i].enqueuedAt \notin settled' => delivered'[file'[i].batch] = 0
      BY <2>2 DEF LinesOnce
    <3>1. CASE i \in 1 .. n
      BY <2>1, <2>2, <2>7, <3>1 DEF BatchOnce, LinesOnce, n
    <3>2. CASE i = n + 1
      BY <2>2, <2>6, <3>2
    <3> QED BY <2>3, <3>1, <3>2
  <2>9. Distinct(file)'
    <3> SUFFICES ASSUME NEW i \in 1 .. n + 1, NEW k \in 1 .. n + 1, file'[i].batch = file'[k].batch
                 PROVE  i = k
      BY <2>2 DEF Distinct
    <3>1. CASE i \in 1 .. n /\ k \in 1 .. n
      BY <2>2, <3>1 DEF BatchOnce, Distinct, n
    <3>2. CASE i = n + 1 \/ k = n + 1
      BY <2>2, <2>3, <2>4, <3>2
    <3> QED BY <2>3, <3>1, <3>2
  <2> QED BY <2>5, <2>8, <2>9 DEF BatchOnce
<1> QED BY <1>3, <1>4, <1>5, <1>6

\* A pass that goes on scanning, with the file as it was.
LEMMA ScanOnce ==
    ASSUME TypeInv, [Next]_vars, NEW p \in Passes, Busy(p),
           NEW r, pass' = [pass EXCEPT ![p] = r], r.snapshot = pass[p].snapshot,
           r.step \in {"quarantine", "ingest", "rewrite"},
           r.step \in {"quarantine", "ingest"} /\ ~r.changed => r.at = 1,
           \A k \in 1 .. Len(pass[p].snapshot) : k >= r.at => pass[p].snapshot[k].enqueuedAt \notin settled'
    PROVE  PassOnce'
<1>1. \A q \in Passes : Busy(q)' => q = p /\ pass'[q] = r
  BY OnlyOne
<1>2. pass'[p] = r /\ Busy(p)'
  BY DEF TypeInv, TypeOK, Busy
<1>3. RestUnsettled'
  BY <1>2 DEF RestUnsettled
<1>4. AheadUnsettled' /\ UnchangedIsUnread'
  BY <1>1 DEF AheadUnsettled, UnchangedIsUnread, Scanning, Busy
<1>5. NextUnsettled'
  BY <1>1 DEF NextUnsettled, Busy
<1> QED BY <1>3, <1>4, <1>5 DEF PassOnce

\* No pass under way, and nothing in the file settled.
LEMMA RestOnce ==
    ASSUME \A q \in Passes : ~Busy(q)', Unsettled(file)'
    PROVE  PassOnce'
BY DEF PassOnce, RestUnsettled, AheadUnsettled, UnchangedIsUnread, NextUnsettled, Scanning, Busy

LEMMA SettleOnce ==
    ASSUME TypeInv, OrderInv, BatchOnce, PassOnce, [Next]_vars,
           NEW p \in Passes, NEW i \in 1 .. Len(pass[p].snapshot),
           flush_ingests(p, i) \/ flush_dead_letters(p, i)
    PROVE  BatchOnce' /\ PassOnce'
<1> DEFINE raw == pass[p].snapshot
           r == [pass[p] EXCEPT !.at = i + 1, !.changed = TRUE]
           s == raw[i].enqueuedAt
           b == raw[i].batch
<1>1. /\ Reached(p, i) /\ Settle(p, i) /\ UNCHANGED <<custody, file>>
      /\ Deliver(b) \/ UNCHANGED delivered
  BY DEF flush_ingests, flush_dead_letters
<1>2. /\ pass' = [pass EXCEPT ![p] = r] /\ Busy(p)
      /\ r.snapshot = pass[p].snapshot /\ r.step = "ingest" /\ r.at = i + 1 /\ r.changed
      /\ settled' = settled \cup {s}
  BY <1>1 DEF Settle, Reached, At, Busy, TypeInv, TypeOK, Pass
<1> HIDE DEF r
<1>3. /\ Len(raw) \in Nat /\ Len(raw) <= Len(file) /\ pass[p].at \in Nat
      /\ \A k \in 1 .. Len(raw) : raw[k] = file[k]
  BY <1>2, SnapshotOfFile DEF OrderInv, PassInv
<1>4. /\ Len(file) \in Nat
      /\ \A k \in 1 .. Len(file) : file[k].enqueuedAt \in Nat /\ file[k].batch \in Batches
  BY FileElement
<1>5. i \in 1 .. Len(file) /\ i \in Nat /\ s = file[i].enqueuedAt /\ b = file[i].batch /\ b \in Batches
  BY <1>3, <1>4
<1>6. s \notin settled
  BY <1>1, <1>3, <1>5 DEF PassOnce, AheadUnsettled, Scanning, Reached, At
<1>7. delivered[b] = 0 /\ custody[b] \in {"stored", "acked"}
  BY <1>5, <1>6 DEF BatchOnce, LinesOnce
<1>8. /\ delivered'[b] <= 1
      /\ \A a \in Batches : a # b => delivered'[a] = delivered[a]
  BY <1>1, <1>5, <1>7 DEF Deliver, TypeInv, TypeOK
<1> HIDE DEF s, b
<1>9. LiveOnce'
  BY <1>1, <1>7, <1>8 DEF BatchOnce, LiveOnce
<1>10. LinesOnce'
  <2> SUFFICES ASSUME NEW k \in 1 .. Len(file)
               PROVE  /\ custody[file[k].batch] \in {"stored", "acked"}
                      /\ file[k].enqueuedAt \notin settled' => delivered'[file[k].batch] = 0
    BY <1>1 DEF LinesOnce
  <2>1. k # i => file[k].batch # b
    BY <1>5 DEF BatchOnce, Distinct
  <2>2. CASE k = i
    BY <1>2, <1>5, <2>2 DEF BatchOnce, LinesOnce
  <2>3. CASE k # i
    BY <1>2, <1>4, <1>8, <2>1, <2>3 DEF BatchOnce, LinesOnce
  <2> QED BY <2>2, <2>3
<1>11. \A k \in 1 .. Len(raw) : k >= i + 1 => raw[k].enqueuedAt \notin settled'
  <2> SUFFICES ASSUME NEW k \in 1 .. Len(raw), k >= i + 1 PROVE raw[k].enqueuedAt \notin settled'
    OBVIOUS
  <2>1. raw[k].enqueuedAt \notin settled
    <3>1. k >= pass[p].at
      BY <1>1, <1>3, <1>5 DEF Reached
    <3> QED BY <1>1, <3>1 DEF PassOnce, AheadUnsettled, Scanning, Reached, At
  <2>2. k \in 1 .. Len(file) /\ i < k
    BY <1>3, <1>4, <1>5
  <2>3. s < file[k].enqueuedAt /\ s \in Nat /\ file[k].enqueuedAt \in Nat
    BY <1>4, <1>5, <2>2 DEF OrderInv, FileInv, Ordered
  <2>4. raw[k].enqueuedAt # s
    BY <1>3, <2>3
  <2> QED BY <1>2, <2>1, <2>4
<1>12. PassOnce'
  BY <1>2, <1>11, ScanOnce
<1>13. Distinct(file)'
  BY <1>1 DEF BatchOnce, Distinct
<1> QED BY <1>9, <1>10, <1>12, <1>13 DEF BatchOnce

LEMMA FlushOnce ==
    ASSUME TypeInv, PassOnce, NEW p \in Passes, flush(p)
    PROVE  PassOnce'
<1>1. \A q \in Passes : ~Busy(q)
  BY DEF flush, flush_refused, TypeInv, TypeOK, Busy
<1>2. /\ \A q \in Passes : q # p => pass'[q].step = "idle"
      /\ pass'[p].step \in {"ingest", "quarantine"} /\ pass'[p].snapshot = file /\ pass'[p].at = 1
      /\ UNCHANGED <<file, settled>>
  BY <1>1 DEF flush, Idle, TypeInv, TypeOK, Busy
<1>3. Unsettled(file)
  BY <1>1 DEF PassOnce, RestUnsettled
<1>4. RestUnsettled'
  BY <1>2 DEF RestUnsettled, Busy
<1>5. AheadUnsettled' /\ UnchangedIsUnread'
  BY <1>2, <1>3 DEF AheadUnsettled, UnchangedIsUnread, Unsettled, Scanning
<1>6. NextUnsettled'
  BY <1>2 DEF NextUnsettled
<1> QED BY <1>4, <1>5, <1>6 DEF PassOnce

LEMMA QuarantineOnce ==
    ASSUME TypeInv, PassOnce, [Next]_vars, NEW p \in Passes, quarantine(p)
    PROVE  PassOnce'
<1> DEFINE r == [pass[p] EXCEPT !.step = "ingest", !.changed = TRUE]
<1>1. /\ pass' = [pass EXCEPT ![p] = r] /\ Busy(p) /\ UNCHANGED settled
      /\ r.snapshot = pass[p].snapshot /\ r.step = "ingest" /\ r.at = pass[p].at /\ r.changed
  BY DEF quarantine, At, Busy, TypeInv, TypeOK, Pass
<1> HIDE DEF r
<1>2. \A k \in 1 .. Len(pass[p].snapshot) : k >= r.at => pass[p].snapshot[k].enqueuedAt \notin settled'
  BY <1>1 DEF PassOnce, AheadUnsettled, Scanning, quarantine, At
<1> QED BY <1>1, <1>2, ScanOnce

\* The loop's end: a pass that changed nothing settled nothing, and one that did
\* goes on to take it out of the file.
LEMMA LoopEndsOnce ==
    ASSUME TypeInv, OrderInv, PassOnce, [Next]_vars, NEW p \in Passes, flush_loop_ends(p)
    PROVE  PassOnce'
<1> DEFINE n == Len(pass[p].snapshot)
<1>1. At(p, "ingest") /\ Busy(p) /\ Halt(p, n + 1) /\ UNCHANGED <<file, settled>>
  BY DEF flush_loop_ends, At, Busy
<1>2. /\ n \in Nat /\ n <= Len(file) /\ Len(file) \in Nat
      /\ \A k \in 1 .. n : pass[p].snapshot[k] = file[k]
  BY <1>1, SnapshotOfFile, FileElement DEF OrderInv, PassInv
<1>3. CASE ~pass[p].changed
  <2>1. pass[p].at = 1
    BY <1>1, <1>3 DEF PassOnce, UnchangedIsUnread, At
  <2>2. \A k \in 1 .. n : file[k].enqueuedAt \notin settled
    BY <1>1, <1>2, <2>1 DEF PassOnce, AheadUnsettled, Scanning, At
  <2>3. \A k \in n + 1 .. Len(file) : file[k].enqueuedAt \notin settled
    BY <1>1 DEF OrderInv, PassInv, TailUnsettled
  <2>4. Unsettled(file)'
    <3>1. \A k \in 1 .. Len(file) : k \in 1 .. n \/ k \in n + 1 .. Len(file)
      BY <1>2
    <3> QED BY <1>1, <2>2, <2>3, <3>1 DEF Unsettled
  <2>5. Finish(p)
    BY <1>1, <1>3 DEF Halt
  <2> QED BY <1>1, <2>4, <2>5, FinishType, RestOnce DEF TypeInv
<1>4. CASE pass[p].changed
  <2> DEFINE r == [pass[p] EXCEPT !.step = "rewrite", !.at = n + 1]
  <2>1. /\ pass' = [pass EXCEPT ![p] = r]
        /\ r.snapshot = pass[p].snapshot /\ r.step = "rewrite" /\ r.at = n + 1
    BY <1>1, <1>4 DEF Halt, TypeInv, TypeOK, Pass
  <2>2. \A k \in 1 .. n : ~(k >= n + 1)
    BY <1>2
  <2> HIDE DEF r
  <2> QED BY <1>1, <2>1, <2>2, ScanOnce
<1> QED BY <1>3, <1>4

\* A rewrite keeps what nothing has settled, each batch as often as the file did.
LEMMA ReadsOnce ==
    ASSUME TypeInv, OrderInv, BatchOnce, PassOnce, [Next]_vars, NEW p \in Passes, writePending_reads(p)
    PROVE  PassOnce'
<1>1. PICK order \in InOrder(Retained(p)) :
         pass' = [pass EXCEPT ![p].step = "rename",
                              ![p].next = Rewritten(pass[p].snapshot, order)
                                          \o AppendedSince(file, Len(pass[p].snapshot))]
  BY DEF writePending_reads
<1> DEFINE next == Rewritten(pass[p].snapshot, order) \o AppendedSince(file, Len(pass[p].snapshot))
           r == [pass[p] EXCEPT !.step = "rename", !.next = next]
<1>2. /\ pass' = [pass EXCEPT ![p] = r] /\ Busy(p)
      /\ r.step = "rename" /\ r.next = next
  BY <1>1 DEF writePending_reads, At, Busy, TypeInv, TypeOK, Pass
<1>3. UNCHANGED <<file, settled>> /\ pass[p].step = "rewrite"
  BY DEF writePending_reads, At
<1>4. Len(next) \in Nat /\ \E g : Origin(p, next, g)
  BY <1>2, NextOrigin DEF OrderInv, PassInv
<1> HIDE DEF next, r
<1>5. PICK g : Origin(p, next, g)
  BY <1>4
<1>6. \A q \in Passes : Busy(q)' => q = p /\ pass'[q] = r
  BY <1>2, OnlyOne
<1>7. /\ Len(pass[p].snapshot) \in Nat /\ Len(file) \in Nat
      /\ \A k \in 1 .. Len(pass[p].snapshot) : pass[p].snapshot[k] = file[k]
  BY <1>2, SnapshotOfFile, FileElement DEF OrderInv, PassInv
<1>8. Unsettled(next)
  <2> SUFFICES ASSUME NEW k \in 1 .. Len(next) PROVE next[k].enqueuedAt \notin settled
    BY DEF Unsettled
  <2>1. /\ g[k] \in 1 .. Len(file) /\ next[k].enqueuedAt = file[g[k]].enqueuedAt
        /\ g[k] <= Len(pass[p].snapshot) => g[k] \in Retained(p)
    BY <1>5 DEF Origin
  <2>2. CASE g[k] <= Len(pass[p].snapshot)
    <3>1. g[k] \in 1 .. Len(pass[p].snapshot) /\ g[k] >= pass[p].at
      BY <1>7, <2>1, <2>2 DEF Retained, TypeInv, TypeOK, Pass
    <3>2. pass[p].snapshot[g[k]].enqueuedAt \notin settled
      BY <1>3, <3>1 DEF PassOnce, AheadUnsettled, Scanning
    <3> QED BY <1>7, <2>1, <3>1, <3>2
  <2>3. CASE g[k] \in Len(pass[p].snapshot) + 1 .. Len(file)
    BY <1>2, <2>1, <2>3 DEF OrderInv, PassInv, TailUnsettled
  <2> QED BY <1>7, <2>1, <2>2, <2>3
<1>9. Distinct(next)
  <2> SUFFICES ASSUME NEW i \in 1 .. Len(next), NEW k \in 1 .. Len(next), next[i].batch = next[k].batch
               PROVE  i = k
    BY DEF Distinct
  <2>1. /\ g[i] \in 1 .. Len(file) /\ next[i].batch = file[g[i]].batch
        /\ g[k] \in 1 .. Len(file) /\ next[k].batch = file[g[k]].batch
        /\ i < k => g[i] < g[k]
        /\ k < i => g[k] < g[i]
    BY <1>5 DEF Origin
  <2>2. g[i] = g[k]
    BY <2>1 DEF BatchOnce, Distinct
  <2> QED BY <1>4, <1>7, <2>1, <2>2
<1>10. ASSUME NEW k \in 1 .. Len(next)
       PROVE  \E i \in 1 .. Len(file) : /\ file[i].batch = next[k].batch
                                       /\ file[i].enqueuedAt = next[k].enqueuedAt
  BY <1>5 DEF Origin
<1>11. NextUnsettled'
  <2> SUFFICES ASSUME NEW q \in Passes, Busy(q)'
               PROVE  /\ Unsettled(pass[q].next)' /\ Distinct(pass[q].next)'
                      /\ (\A k \in 1 .. Len(pass[q].next) : CameFrom(pass[q].next[k]))'
    BY DEF NextUnsettled, Busy
  <2>1. pass'[q].next = next
    BY <1>2, <1>6
  <2>2. Unsettled(pass[q].next)' /\ Distinct(pass[q].next)'
    BY <1>3, <1>8, <1>9, <2>1 DEF Unsettled, Distinct
  <2>3. (\A k \in 1 .. Len(pass[q].next) : CameFrom(pass[q].next[k]))'
    BY <1>3, <1>10, <2>1 DEF CameFrom
  <2> QED BY <2>2, <2>3
<1>12. RestUnsettled'
  <2>1. Busy(p)'
    BY <1>2 DEF TypeInv, TypeOK, Busy
  <2> QED BY <2>1 DEF RestUnsettled
<1>13. AheadUnsettled' /\ UnchangedIsUnread'
  BY <1>2, <1>6 DEF AheadUnsettled, UnchangedIsUnread, Scanning, Busy
<1> QED BY <1>11, <1>12, <1>13 DEF PassOnce

LEMMA RenamesOnce ==
    ASSUME TypeInv, BatchOnce, PassOnce, NEW p \in Passes, writePending_renames(p)
    PROVE  BatchOnce' /\ PassOnce'
<1>1. /\ file' = pass[p].next /\ UNCHANGED <<settled, custody, delivered>>
      /\ Busy(p) /\ Finish(p)
  BY DEF writePending_renames, At, Busy
<1>2. /\ Unsettled(pass[p].next) /\ Distinct(pass[p].next)
      /\ \A k \in 1 .. Len(pass[p].next) : CameFrom(pass[p].next[k])
  BY DEF writePending_renames, At, PassOnce, NextUnsettled
<1>3. LinesOnce'
  <2> SUFFICES ASSUME NEW k \in 1 .. Len(pass[p].next)
               PROVE  LET b == pass[p].next[k].batch
                      IN  custody[b] \in {"stored", "acked"} /\ delivered[b] = 0
    BY <1>1 DEF LinesOnce
  <2>1. PICK i \in 1 .. Len(file) : /\ file[i].batch = pass[p].next[k].batch
                                   /\ file[i].enqueuedAt = pass[p].next[k].enqueuedAt
    BY <1>2 DEF CameFrom
  <2>2. file[i].enqueuedAt \notin settled
    BY <1>2, <2>1 DEF Unsettled
  <2> QED BY <2>1, <2>2 DEF BatchOnce, LinesOnce
<1>4. LiveOnce' /\ Distinct(file)' /\ Unsettled(file)'
  BY <1>1, <1>2 DEF BatchOnce, LiveOnce, Distinct, Unsettled
<1>5. PassOnce'
  BY <1>1, <1>4, FinishType, RestOnce DEF TypeInv
<1> QED BY <1>3, <1>4, <1>5 DEF BatchOnce

LEMMA OnceStep == ASSUME TypeInv, OrderInv, OnceInv, [Next]_vars PROVE OnceInv'
<1> SUFFICES ASSUME Calm' PROVE BatchOnce' /\ PassOnce'
  BY DEF OnceInv
<1>1. BatchOnce /\ PassOnce /\ TypeInv'
  BY CalmStep, TypeStep DEF OnceInv
<1>2. ASSUME UNCHANGED <<custody, file, settled, delivered>> PROVE BatchOnce'
  BY <1>1, <1>2 DEF BatchOnce, LiveOnce, LinesOnce, Distinct
<1>3. ASSUME UNCHANGED <<pass, settled>>,
             \/ UNCHANGED <<file, appends>>
             \/ \E b \in Batches, part \in Part : file' = Appended(b, part) /\ appends' = appends + 1
      PROVE  PassOnce'
  BY <1>1, <1>3, AppendOrder, WaitsOnce DEF OrderInv
<1>4. CASE UNCHANGED vars
  BY <1>2, <1>3, <1>4 DEF vars
<1>5. ASSUME NEW b \in Batches,
             ingestBatch(b) \/ ingestBatch_throws(b) \/ enqueue(b) \/ acknowledge(b)
      PROVE  BatchOnce' /\ PassOnce'
  <2>1. /\ UNCHANGED <<pass, settled>>
        /\ \/ UNCHANGED <<file, appends>>
           \/ file' = Appended(b, "whole") /\ appends' = appends + 1
    BY <1>5 DEF ingestBatch, ingestBatch_throws, enqueue, acknowledge
  <2>2. PassOnce'
    BY <1>3, <2>1 DEF Part
  <2> QED BY <1>1, <1>5, <2>2, ConnectionOnce
<1>6. ASSUME NEW p \in Passes, flush(p) PROVE BatchOnce' /\ PassOnce'
  BY <1>1, <1>2, <1>6, FlushOnce DEF flush
<1>7. ASSUME NEW p \in Passes, quarantine(p) PROVE BatchOnce' /\ PassOnce'
  BY <1>1, <1>2, <1>7, QuarantineOnce DEF quarantine
<1>8. ASSUME NEW p \in Passes, flush_loop_ends(p) PROVE BatchOnce' /\ PassOnce'
  BY <1>1, <1>2, <1>8, LoopEndsOnce DEF flush_loop_ends
<1>9. ASSUME NEW p \in Passes, NEW i \in 1 .. Len(pass[p].snapshot),
             flush_ingests(p, i) \/ flush_dead_letters(p, i)
      PROVE  BatchOnce' /\ PassOnce'
  BY <1>1, <1>9, SettleOnce
<1>10. ASSUME NEW p \in Passes, writePending_reads(p) PROVE BatchOnce' /\ PassOnce'
  BY <1>1, <1>2, <1>10, ReadsOnce DEF writePending_reads
<1>11. ASSUME NEW p \in Passes, writePending_renames(p) PROVE BatchOnce' /\ PassOnce'
  BY <1>1, <1>11, RenamesOnce
<1> QED BY <1>4, <1>5, <1>6, <1>7, <1>8, <1>9, <1>10, <1>11, CalmStep

\* As long as nothing fails, every batch is given to the database once: no two
\* passes, and no pass and live path, ingest it twice, with any number of timers
\* and with appends at any moment of a pass.
THEOREM IngestedOnce == Spec => []DeliveredOnce
<1>1. Init => OnceInv
  <2> SUFFICES ASSUME Init PROVE BatchOnce /\ PassOnce
    BY DEF OnceInv
  <2>1. file = <<>> /\ \A p \in Passes : pass[p].step = "idle"
    BY DEF Init, Idle
  <2>2. LiveOnce
    BY DEF Init, LiveOnce
  <2>3. LinesOnce /\ Distinct(file) /\ Unsettled(file)
    BY <2>1 DEF LinesOnce, Distinct, Unsettled
  <2>4. PassOnce
    BY <2>1, <2>3 DEF PassOnce, RestUnsettled, AheadUnsettled, UnchangedIsUnread, NextUnsettled, Scanning
  <2> QED BY <2>2, <2>3, <2>4 DEF BatchOnce
<1>2. OnceInv => DeliveredOnce
  BY DEF OnceInv, BatchOnce, LiveOnce, DeliveredOnce, Calm
<1>3. TypeInv /\ OrderInv /\ OnceInv /\ [Next]_vars => OnceInv'
  BY OnceStep
<1> QED BY <1>1, <1>2, <1>3, TypeInvCorrect, OrderCorrect, PTL DEF Spec
=============================================================================
