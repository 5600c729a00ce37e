----------------------------- MODULE GpsGateway -----------------------------
(***************************************************************************)
(* The TCP listener of the GPS gateway: connections, their handshakes, the *)
(* set of IMEIs that have a session, and the drain that decodes, hands     *)
(* over and acknowledges the packets of one connection.                    *)
(*                                                                         *)
(* Node runs one callback at a time.  A drain runs without interruption    *)
(* from one await to the next; while it awaits a reply, other connections  *)
(* run, and so do its own socket's data, timeout and close events.         *)
(***************************************************************************)
EXTENDS Naturals, Sequences, FiniteSets

CONSTANTS
    Conns,          \* TCP connections, each accepted once
    Imeis,
    Capacity,       \* messages that fit in MAX_BUFFERED_BYTES
    MaxChunks       \* bound: chunks a device sends on one connection

ASSUME BoundsAssumption == Capacity \in Nat /\ MaxChunks \in Nat

VARIABLES
    sock,           \* sock[c]: the socket
    closed,         \* closed[c]: closeWithLog has run
    imei,           \* imei[c]: the IMEI the device presents
    phase,          \* phase[c]: conn.state.phase
    accumulator,    \* accumulator[c]: messages received and not yet consumed
    queued,         \* queued[c]: drains waiting on processingChain
    drain,          \* drain[c]: what the drain under way awaits, if any
    registeredImei, \* registeredImei[c]: does c hold its IMEI?
    activeImeis,
    received,       \* received[c]: chunks received (history)
    answered        \* answered[c]: handshakes and packets answered (history)

vars == <<sock, closed, imei, phase, accumulator, queued, drain, registeredImei, activeImeis,
          received, answered>>

\* A socket is down once it is destroyed or the peer has left, and gone once
\* its close event has been handled.
Sock == {"none", "open", "down", "gone"}
Message == {"imei", "packet", "malformed"}

\* The types, and what an open connection buffers fits in MAX_BUFFERED_BYTES.
TypeOK ==
    /\ sock \in [Conns -> Sock]
    /\ closed \in [Conns -> BOOLEAN]
    /\ imei \in [Conns -> Imeis]
    /\ phase \in [Conns -> {"awaiting_handshake", "awaiting_avl_data"}]
    /\ accumulator \in [Conns -> Seq(Message)]
    /\ \A c \in Conns : ~closed[c] => Len(accumulator[c]) <= Capacity
    /\ queued \in [Conns -> Nat]
    /\ drain \in [Conns -> {"none", "resolveHandshake", "ingestBatch"}]
    /\ registeredImei \in [Conns -> BOOLEAN]
    /\ activeImeis \in SUBSET Imeis
    /\ received \in [Conns -> Nat]
    /\ answered \in [Conns -> Nat]

Init ==
    /\ sock = [c \in Conns |-> "none"]
    /\ closed = [c \in Conns |-> FALSE]
    /\ imei \in [Conns -> Imeis]
    /\ phase = [c \in Conns |-> "awaiting_handshake"]
    /\ accumulator = [c \in Conns |-> <<>>]
    /\ queued = [c \in Conns |-> 0]
    /\ drain = [c \in Conns |-> "none"]
    /\ registeredImei = [c \in Conns |-> FALSE]
    /\ activeImeis = {}
    /\ received = [c \in Conns |-> 0]
    /\ answered = [c \in Conns |-> 0]

-----------------------------------------------------------------------------
(* What the callbacks are made of.                                          *)

\* closeWithLog: the socket is destroyed, its close event comes later.
CloseWithLog(c) ==
    /\ closed' = [closed EXCEPT ![c] = TRUE]
    /\ sock' = [sock EXCEPT ![c] = IF @ = "open" THEN "down" ELSE @]

StayOpen == UNCHANGED <<sock, closed>>

\* What the decoder of each phase takes; it throws at anything else.
Expected(ph) == IF ph = "awaiting_handshake" THEN "imei" ELSE "packet"
Awaited(ph) == IF ph = "awaiting_handshake" THEN "resolveHandshake" ELSE "ingestBatch"

Drain(c, d, left) == /\ drain' = [drain EXCEPT ![c] = d]
                     /\ accumulator' = [accumulator EXCEPT ![c] = left]

Loop_once(c, ph) == IF drain[c] = "none" /\ accumulator[c] # <<>>
                    THEN Drain(c, Awaited(ph), Tail(accumulator[c])) /\ StayOpen
                    ELSE Drain(c, "none", accumulator[c]) /\ StayOpen

Loop_commits_snapshot(c, ph) == IF drain[c] = "none" /\ accumulator[c] # <<>>
                                THEN Drain(c, Awaited(ph), Tail(accumulator[c])) /\ StayOpen
                                ELSE Drain(c, "none", <<>>) /\ StayOpen

\* One turn of drainAccumulator's loop, up to its next await or its return.
Loop(c, ph) ==
    \/ /\ accumulator[c] = <<>>
       /\ Drain(c, "none", <<>>)
       /\ StayOpen
    \/ /\ accumulator[c] # <<>> /\ Head(accumulator[c]) = Expected(ph)
       /\ Drain(c, Awaited(ph), Tail(accumulator[c]))
       /\ StayOpen
    \/ /\ accumulator[c] # <<>> /\ Head(accumulator[c]) # Expected(ph)
       /\ Drain(c, "none", accumulator[c])
       /\ CloseWithLog(c)

\* socket.write of a handshake response or of an acknowledgement
Answer(c) == answered' = [answered EXCEPT ![c] = @ + 1]

tryRegisterActiveImei_unchecked(c) ==
    /\ activeImeis' = activeImeis \cup {imei[c]}
    /\ registeredImei' = [registeredImei EXCEPT ![c] = TRUE]

tryRegisterActiveImei(c) ==
    /\ imei[c] \notin activeImeis
    /\ activeImeis' = activeImeis \cup {imei[c]}
    /\ registeredImei' = [registeredImei EXCEPT ![c] = TRUE]

-----------------------------------------------------------------------------
(* Socket events.                                                           *)

connection(c) ==
    /\ sock[c] = "none"
    /\ sock' = [sock EXCEPT ![c] = "open"]
    /\ UNCHANGED <<closed, imei, phase, accumulator, queued, drain, registeredImei, activeImeis,
                   received, answered>>

Oversized_never(acc) == FALSE
Oversized(acc) == Len(acc) > Capacity

on_data(c, chunk) ==
    /\ sock[c] = "open" /\ ~closed[c]
    /\ received[c] < MaxChunks
    /\ accumulator' = [accumulator EXCEPT ![c] = @ \o chunk]
    /\ received' = [received EXCEPT ![c] = @ + Len(chunk)]
    /\ IF Oversized(accumulator[c] \o chunk)
       THEN CloseWithLog(c) /\ UNCHANGED queued
       ELSE StayOpen /\ queued' = [queued EXCEPT ![c] = @ + 1]
    /\ UNCHANGED <<imei, phase, drain, registeredImei, activeImeis, answered>>

peer_leaves(c) ==
    /\ sock[c] = "open"
    /\ sock' = [sock EXCEPT ![c] = "down"]
    /\ UNCHANGED <<closed, imei, phase, accumulator, queued, drain, registeredImei, activeImeis,
                   received, answered>>

on_timeout(c) ==
    /\ sock[c] = "open"
    /\ CloseWithLog(c)
    /\ UNCHANGED <<imei, phase, accumulator, queued, drain, registeredImei, activeImeis,
                   received, answered>>

on_close(c) ==
    /\ sock[c] = "down"
    /\ sock' = [sock EXCEPT ![c] = "gone"]
    /\ activeImeis' = IF registeredImei[c] THEN activeImeis \ {imei[c]} ELSE activeImeis
    /\ registeredImei' = [registeredImei EXCEPT ![c] = FALSE]
    /\ UNCHANGED <<closed, imei, phase, accumulator, queued, drain, received, answered>>

-----------------------------------------------------------------------------
(* drainAccumulator, from one await to the next.                            *)

\* The next drain of processingChain starts when the one before it is over.
drain_starts(c) ==
    /\ queued[c] > 0 /\ drain[c] = "none"
    /\ queued' = [queued EXCEPT ![c] = @ - 1]
    /\ \/ closed[c] /\ StayOpen /\ UNCHANGED <<accumulator, drain>>
       \/ ~closed[c] /\ Loop(c, phase[c])
    /\ UNCHANGED <<imei, phase, registeredImei, activeImeis, received, answered>>

\* resolveHandshake throws, or does not accept the device.
handshake_rejected(c) ==
    /\ drain[c] = "resolveHandshake"
    /\ Answer(c)
    /\ CloseWithLog(c)
    /\ drain' = [drain EXCEPT ![c] = "none"]
    /\ UNCHANGED <<imei, phase, accumulator, queued, registeredImei, activeImeis, received>>

handshake_accepted(c) ==
    /\ drain[c] = "resolveHandshake"
    /\ tryRegisterActiveImei(c)
    /\ Answer(c)
    /\ phase' = [phase EXCEPT ![c] = "awaiting_avl_data"]
    /\ Loop(c, "awaiting_avl_data")
    /\ UNCHANGED <<imei, queued, received>>

imei_already_connected(c) ==
    /\ drain[c] = "resolveHandshake"
    /\ imei[c] \in activeImeis
    /\ Answer(c)
    /\ CloseWithLog(c)
    /\ drain' = [drain EXCEPT ![c] = "none"]
    /\ UNCHANGED <<imei, phase, accumulator, queued, registeredImei, activeImeis, received>>

\* The batch is ingested, or in the durable buffer: acknowledged either way.
packet_acknowledged(c) ==
    /\ drain[c] = "ingestBatch"
    /\ Answer(c)
    /\ Loop(c, "awaiting_avl_data")
    /\ UNCHANGED <<imei, phase, queued, registeredImei, activeImeis, received>>

\* Neither worked: the drain throws into processingChain's catch.
unexpected_processing_error(c) ==
    /\ drain[c] = "ingestBatch"
    /\ CloseWithLog(c)
    /\ drain' = [drain EXCEPT ![c] = "none"]
    /\ UNCHANGED <<imei, phase, accumulator, queued, registeredImei, activeImeis, received, answered>>

Chunks == {<<m>> : m \in Message} \cup {<<m, "packet">> : m \in {"imei", "packet"}}

SocketEvent(c) == \/ connection(c) \/ peer_leaves(c) \/ on_timeout(c) \/ on_close(c)
                  \/ \E chunk \in Chunks : on_data(c, chunk)

Drains(c) == \/ drain_starts(c) \/ handshake_rejected(c) \/ handshake_accepted(c)
             \/ imei_already_connected(c) \/ packet_acknowledged(c) \/ unexpected_processing_error(c)

Next == \E c \in Conns : SocketEvent(c) \/ Drains(c)

Spec == Init /\ [][Next]_vars

\* Every RPC returns and every file operation ends, so a drain moves on.
FairSpec == Spec /\ \A c \in Conns : WF_vars(Drains(c))

-----------------------------------------------------------------------------
(* Properties.                                                              *)

InSession(c) == phase[c] = "awaiting_avl_data" /\ sock[c] # "gone"

\* A device has one session: two connections with the same IMEI never both
\* stream packets, however their handshakes overlap (server.ts, finding 2).
OneSessionPerImei ==
    \A c, d \in Conns : c # d /\ InSession(c) /\ InSession(d) => imei[c] # imei[d]

\* No bytes are dropped on a connection that is not closed: every message was
\* answered, is being handled, or is in the accumulator with a drain to come
\* for it (server.ts, ATW-030).
EveryMessageAccountedFor ==
    \A c \in Conns : ~closed[c] =>
        /\ received[c] = answered[c] + Len(accumulator[c]) + (IF drain[c] = "none" THEN 0 ELSE 1)
        /\ accumulator[c] # <<>> => queued[c] > 0 \/ drain[c] # "none"

\* A connection works off what it has received, or is closed.
DrainsToEmpty ==
    \A c \in Conns : accumulator[c] # <<>> ~> accumulator[c] = <<>> \/ closed[c]
=============================================================================
