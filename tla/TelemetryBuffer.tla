-------------------------- MODULE TelemetryBuffer --------------------------
(***************************************************************************)
(* The custody of a telemetry batch in the GPS gateway: the live ingest of *)
(* drainAccumulator, the append-only file it falls back to, the flush      *)
(* passes a timer starts over that file, and the acknowledgement that lets *)
(* the device forget the batch.                                            *)
(*                                                                         *)
(* Node runs one callback at a time, so a step lasts from one await to the *)
(* next.  One append is one write and is taken as a single step; a crash   *)
(* or a full disk can cut it short.                                        *)
(***************************************************************************)
EXTENDS Naturals, Sequences, FiniteSets

CONSTANTS
    Devices,
    Batches,        \* the packets the devices send, each decoded to one batch
    DeviceOf,       \* DeviceOf[b]: the device that sends b
    Rank,           \* a device sends its batches by increasing rank
    Passes,         \* timer ticks whose flush() may be under way together
    AppendsInWindow,  \* may an append land between writePending's read and rename?
    MaxCrashes,     \* bound: crashes of the gateway process
    MaxDiskErrors,  \* bound: file operations that fail
    MaxOutages      \* bound: replies lost, and ingests of a pass that fail

ASSUME DevicesAssumption == DeviceOf \in [Batches -> Devices]
ASSUME RankAssumption == Rank \in [Batches -> Nat]
ASSUME WindowAssumption == AppendsInWindow \in BOOLEAN
ASSUME BoundsAssumption == /\ MaxCrashes \in Nat
                           /\ MaxDiskErrors \in Nat
                           /\ MaxOutages \in Nat

VARIABLES
    custody,        \* custody[b]: where the gateway stands with b
    file,           \* the buffer file: what successive appends left in it
    corruptFile,    \* the chunks of the lines moved to <buffer>.corrupt
    pass,           \* pass[p]: the flush pass p has in progress
    flushing,       \* the buffer's re-entrance guard
    delivered,      \* delivered[b]: ingests of b the database committed (history)
    deadLettered,   \* batches reported as permanently rejected
    settled,        \* appends a pass has ingested or dead-lettered (history)
    appends,        \* appends made so far
    spent           \* how much of the three bounds is used up

vars == <<custody, file, corruptFile, pass, flushing, delivered, deadLettered, settled, appends, spent>>

Custody == {"device", "ingested", "buffering", "stored", "acked"}

\* What one append left: the whole line, all but its newline, or less.
Part == {"whole", "unterminated", "torn"}
Chunk == [batch : Batches, enqueuedAt : Nat, part : Part]

Idle == [step |-> "idle", snapshot |-> <<>>, at |-> 1, changed |-> FALSE, next |-> <<>>]
Pass == [step : {"idle", "quarantine", "ingest", "rewrite", "rename"}, snapshot : Seq(Chunk),
         at : Nat \ {0}, changed : BOOLEAN, next : Seq(Chunk)]

\* The types, and the guard is up exactly while a pass is under way.
TypeOK ==
    /\ custody \in [Batches -> Custody]
    /\ file \in Seq(Chunk)
    /\ corruptFile \in SUBSET Chunk
    /\ pass \in [Passes -> Pass]
    /\ flushing = \E p \in Passes : pass[p].step # "idle"
    /\ delivered \in [Batches -> Nat]
    /\ deadLettered \in SUBSET Batches
    /\ settled \in SUBSET Nat
    /\ appends \in Nat
    /\ spent \in [crashes : 0 .. MaxCrashes, diskErrors : 0 .. MaxDiskErrors, outages : 0 .. MaxOutages]

Init ==
    /\ custody = [b \in Batches |-> "device"]
    /\ file = <<>>
    /\ corruptFile = {}
    /\ pass = [p \in Passes |-> Idle]
    /\ flushing = FALSE
    /\ delivered = [b \in Batches |-> 0]
    /\ deadLettered = {}
    /\ settled = {}
    /\ appends = 0
    /\ spent = [crashes |-> 0, diskErrors |-> 0, outages |-> 0]

Spend(what, bound) == /\ spent[what] < bound
                      /\ spent' = [spent EXCEPT ![what] = @ + 1]

Deliver(b) == delivered' = [delivered EXCEPT ![b] = @ + 1]

-----------------------------------------------------------------------------
(* The lines of the file.                                                   *)

\* parse(): the chunk is a line of its own, complete or lacking only its newline.
Intact(raw, i) ==
    /\ raw[i].part # "torn"
    /\ i > 1 => raw[i - 1].part = "whole"
    /\ i < Len(raw) => raw[i].part = "whole"

CorruptLines(raw) == {raw[i] : i \in {k \in 1 .. Len(raw) : ~Intact(raw, k)}}

\* The increasing enumerations of a set of indices: there is one.
InOrder(S) == {f \in UNION {[1 .. n -> S] : n \in 0 .. Cardinality(S)} :
                  /\ \A i \in S : \E k \in DOMAIN f : f[k] = i
                  /\ \A k, l \in DOMAIN f : k < l => f[k] < f[l]}

\* JSON.stringify(batch) for each batch kept, each with its newline.
Rewritten(raw, order) == [k \in DOMAIN order |-> [raw[order[k]] EXCEPT !.part = "whole"]]

AppendedSince_overwritten(raw, n) == <<>>

\* appendedSinceSnapshot
AppendedSince(raw, n) == SubSeq(raw, n + 1, Len(raw))

Appended(b, part) == Append(file, [batch |-> b, enqueuedAt |-> appends + 1, part |-> part])

-----------------------------------------------------------------------------
(* drainAccumulator, from a decoded packet to its acknowledgement.          *)

\* A connection drains its packets one after the other.
MaySend(b) ==
    /\ custody[b] = "device"
    /\ \A a \in Batches : DeviceOf[a] = DeviceOf[b] /\ Rank[a] < Rank[b] => custody[a] = "acked"

ingestBatch(b) ==
    /\ MaySend(b)
    /\ Deliver(b)
    /\ custody' = [custody EXCEPT ![b] = "ingested"]
    /\ UNCHANGED <<file, corruptFile, pass, flushing, deadLettered, settled, appends, spent>>

\* The call throws, for whatever reason: no class of failure is told apart here.
ingestBatch_throws(b) ==
    /\ MaySend(b)
    /\ custody' = [custody EXCEPT ![b] = "buffering"]
    /\ UNCHANGED <<file, corruptFile, pass, flushing, delivered, deadLettered, settled, appends, spent>>

\* The database committed, the reply did not arrive.
ingestBatch_reply_lost(b) ==
    /\ MaySend(b)
    /\ Deliver(b)
    /\ custody' = [custody EXCEPT ![b] = "buffering"]
    /\ Spend("outages", MaxOutages)
    /\ UNCHANGED <<file, corruptFile, pass, flushing, deadLettered, settled, appends>>

\* While a pass is about to rename its temporary file over the buffer.
InWindow == \E p \in Passes : pass[p].step = "rename"

enqueue(b) ==
    /\ custody[b] = "buffering"
    /\ InWindow => AppendsInWindow
    /\ file' = Appended(b, "whole")
    /\ appends' = appends + 1
    /\ custody' = [custody EXCEPT ![b] = "stored"]
    /\ UNCHANGED <<corruptFile, pass, flushing, delivered, deadLettered, settled, spent>>

\* What an append that is cut short may leave of its line, if anything.
CutShort(b) == \/ UNCHANGED <<file, appends>>
               \/ /\ \E part \in Part \ {"whole"} : file' = Appended(b, part)
                  /\ appends' = appends + 1

\* The append throws.  The connection is closed, and its device, which has no
\* acknowledgement, will send the batch again.
enqueue_throws(b) ==
    /\ custody[b] = "buffering"
    /\ InWindow => AppendsInWindow
    /\ Spend("diskErrors", MaxDiskErrors)
    /\ CutShort(b)
    /\ custody' = [custody EXCEPT ![b] = "device"]
    /\ UNCHANGED <<corruptFile, pass, flushing, delivered, deadLettered, settled>>

\* socket.write(encodeAckResponse(...))
acknowledge(b) ==
    /\ custody[b] \in {"ingested", "stored"}
    /\ custody' = [custody EXCEPT ![b] = "acked"]
    /\ UNCHANGED <<file, corruptFile, pass, flushing, delivered, deadLettered, settled, appends, spent>>

-----------------------------------------------------------------------------
(* flush(), from one await to the next.                                     *)

At(p, step) == pass[p].step = step

Finish_keeps_guard(p) == pass' = [pass EXCEPT ![p] = Idle] /\ UNCHANGED flushing

\* The finally block.
Finish(p) == /\ pass' = [pass EXCEPT ![p] = Idle]
             /\ flushing' = FALSE

flush_refused_never == FALSE
flush_refused_when_corrupt == flushing \/ CorruptLines(file) # {}

\* A call while a pass is under way returns at once, so only the others act.
flush_refused == flushing

flush(p) ==
    /\ At(p, "idle") /\ ~flush_refused
    /\ flushing' = TRUE
    /\ pass' = [pass EXCEPT ![p] =
           [Idle EXCEPT !.step = IF CorruptLines(file) = {} THEN "ingest" ELSE "quarantine",
                        !.snapshot = file]]
    /\ UNCHANGED <<custody, file, corruptFile, delivered, deadLettered, settled, appends, spent>>

quarantine(p) ==
    /\ At(p, "quarantine")
    /\ corruptFile' = corruptFile \cup CorruptLines(pass[p].snapshot)
    /\ pass' = [pass EXCEPT ![p].step = "ingest", ![p].changed = TRUE]
    /\ UNCHANGED <<custody, file, flushing, delivered, deadLettered, settled, appends, spent>>

\* The batch the loop has come to.
Reached(p, i) ==
    /\ At(p, "ingest")
    /\ i \in pass[p].at .. Len(pass[p].snapshot)
    /\ Intact(pass[p].snapshot, i)
    /\ \A k \in pass[p].at .. i - 1 : ~Intact(pass[p].snapshot, k)

Settle(p, i) == /\ settled' = settled \cup {pass[p].snapshot[i].enqueuedAt}
                /\ pass' = [pass EXCEPT ![p].at = i + 1, ![p].changed = TRUE]

Halt_goes_on(p, i) == IF i <= Len(pass[p].snapshot) \/ pass[p].changed
                      THEN /\ pass' = IF i <= Len(pass[p].snapshot) THEN [pass EXCEPT ![p].at = i + 1]
                                    ELSE [pass EXCEPT ![p].step = "rewrite", ![p].at = i]
                           /\ UNCHANGED flushing
                      ELSE Finish(p)

\* The loop keeps the batch at i and all that follow; the pass ends here, with
\* a rewrite if it has anything to take out of the file.
Halt(p, i) == IF pass[p].changed THEN /\ pass' = [pass EXCEPT ![p].step = "rewrite", ![p].at = i]
                                      /\ UNCHANGED flushing
                                 ELSE Finish(p)

flush_ingests(p, i) ==
    /\ Reached(p, i)
    /\ Deliver(pass[p].snapshot[i].batch)
    /\ Settle(p, i)
    /\ UNCHANGED <<custody, file, corruptFile, flushing, deadLettered, appends, spent>>

\* permanentFailureReason(error): the batch is skipped and the loop goes on.
flush_dead_letters(p, i) ==
    /\ Reached(p, i)
    /\ deadLettered' = deadLettered \cup {pass[p].snapshot[i].batch}
    /\ Settle(p, i)
    /\ UNCHANGED <<custody, file, corruptFile, flushing, delivered, appends, spent>>

\* Any other error, with the batch committed by the database or not.
flush_halts(p, i) ==
    /\ Reached(p, i)
    /\ \/ Deliver(pass[p].snapshot[i].batch)
       \/ UNCHANGED delivered
    /\ Spend("outages", MaxOutages)
    /\ Halt(p, i)
    /\ UNCHANGED <<custody, file, corruptFile, deadLettered, settled, appends>>

flush_loop_ends(p) ==
    /\ At(p, "ingest")
    /\ \A k \in pass[p].at .. Len(pass[p].snapshot) : ~Intact(pass[p].snapshot, k)
    /\ Halt(p, Len(pass[p].snapshot) + 1)
    /\ UNCHANGED <<custody, file, corruptFile, delivered, deadLettered, settled, appends, spent>>

\* The batches of the snapshot that the pass retains.
Retained(p) == {i \in pass[p].at .. Len(pass[p].snapshot) : Intact(pass[p].snapshot, i)}

writePending_reads(p) ==
    /\ At(p, "rewrite")
    /\ \E order \in InOrder(Retained(p)) :
          pass' = [pass EXCEPT ![p].step = "rename",
                               ![p].next = Rewritten(pass[p].snapshot, order)
                                           \o AppendedSince(file, Len(pass[p].snapshot))]
    /\ UNCHANGED <<custody, file, corruptFile, flushing, delivered, deadLettered, settled, appends, spent>>

writePending_renames(p) ==
    /\ At(p, "rename")
    /\ file' = pass[p].next
    /\ Finish(p)
    /\ UNCHANGED <<custody, corruptFile, delivered, deadLettered, settled, appends, spent>>

\* A file operation of the pass throws: flush() rejects and leaves the file.
flush_throws(p) ==
    /\ pass[p].step \in {"quarantine", "rewrite", "rename"}
    /\ Spend("diskErrors", MaxDiskErrors)
    /\ Finish(p)
    /\ UNCHANGED <<custody, file, corruptFile, delivered, deadLettered, settled, appends>>

-----------------------------------------------------------------------------
(* Crash and restart: the file survives, the process's memory does not, and *)
(* the devices send again whatever was not acknowledged to them.            *)

crash ==
    /\ Spend("crashes", MaxCrashes)
    /\ custody' = [b \in Batches |-> IF custody[b] = "acked" THEN "acked" ELSE "device"]
    /\ pass' = [p \in Passes |-> Idle]
    /\ flushing' = FALSE
    /\ \/ UNCHANGED <<file, appends>>
       \/ \E b \in Batches : custody[b] = "buffering" /\ CutShort(b)
    /\ UNCHANGED <<corruptFile, delivered, deadLettered, settled>>

Connection(b) == \/ ingestBatch(b) \/ ingestBatch_throws(b) \/ ingestBatch_reply_lost(b)
                 \/ enqueue(b) \/ enqueue_throws(b) \/ acknowledge(b)

Flush(p) == \/ flush(p) \/ quarantine(p) \/ flush_loop_ends(p)
            \/ \E i \in 1 .. Len(pass[p].snapshot) : \/ flush_ingests(p, i)
                                                     \/ flush_dead_letters(p, i)
                                                     \/ flush_halts(p, i)
            \/ writePending_reads(p) \/ writePending_renames(p) \/ flush_throws(p)

Next == \/ \E b \in Batches : Connection(b)
        \/ \E p \in Passes : Flush(p)
        \/ crash

Spec == Init /\ [][Next]_vars

-----------------------------------------------------------------------------
(* Fairness: the timer ticks for as long as the process runs, every RPC and *)
(* file operation returns, and a connection's drain runs on.                *)

Proceeds(p) == \/ flush(p) \/ quarantine(p) \/ flush_loop_ends(p)
               \/ \E i \in 1 .. Len(pass[p].snapshot) : flush_ingests(p, i)
               \/ writePending_reads(p) \/ writePending_renames(p)

FairSpec == /\ Spec
            /\ \A p \in Passes : WF_vars(Proceeds(p))
            /\ \A b \in Batches : WF_vars(enqueue(b)) /\ WF_vars(acknowledge(b))

-----------------------------------------------------------------------------
(* Properties.                                                              *)

InFile(b) == \E i \in 1 .. Len(file) : file[i].batch = b /\ file[i].part = "whole"
InCorruptFile(b) == \E c \in corruptFile : c.batch = b /\ c.part = "whole"
Answered(b) == delivered[b] > 0 \/ b \in deadLettered

\* A batch that was acknowledged to its device is never destroyed: the database
\* has it, it was reported as dead-lettered, or the gateway still holds all of
\* its bytes on disk (server.ts: "durable local persistence is this gateway's
\* own real point of custody transfer").
NoAckedBatchLost ==
    \A b \in Batches : custody[b] = "acked" => Answered(b) \/ InFile(b) \/ InCorruptFile(b)

\* The queue is flushed in enqueue order: its batches stand in the file in the
\* order they were appended, and none is settled before an intact one ahead of
\* it, whatever halts, crashes or rewrites happened in between.
InEnqueueOrder ==
    \A i, k \in 1 .. Len(file) : i < k =>
        /\ file[i].enqueuedAt < file[k].enqueuedAt
        /\ Intact(file, i) /\ file[k].enqueuedAt \in settled => file[i].enqueuedAt \in settled

\* As long as nothing fails, every batch is given to the database once: no two
\* passes, and no pass and live path, ingest the same batch.
DeliveredOnce ==
    spent.crashes = 0 /\ spent.diskErrors = 0 /\ spent.outages = 0 =>
        \A b \in Batches : delivered[b] <= 1

\* A batch acknowledged to its device is ingested, dead-lettered or reported as
\* corrupt in the end, once outages and disk errors stop.
AckedIsAnswered ==
    \A b \in Batches : custody[b] = "acked" ~> Answered(b) \/ InCorruptFile(b)
=============================================================================
