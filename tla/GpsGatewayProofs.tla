-------------------------- MODULE GpsGatewayProofs --------------------------
(***************************************************************************)
(* For any connections, IMEIs and capacity: the gateway's type invariant,  *)
(* one session per IMEI, and no message of an open connection lost.        *)
(***************************************************************************)
EXTENDS GpsGateway, TLAPS

\* Where each await stands in the protocol, and who holds which IMEI.
DrainMatchesPhase ==
    \A c \in Conns : drain[c] # "none" => drain[c] = Awaited(phase[c])

ClaimsAreRecorded ==
    \A c \in Conns : registeredImei[c] => imei[c] \in activeImeis

ClaimsAreUnique ==
    \A c, d \in Conns : c # d /\ registeredImei[c] /\ registeredImei[d] => imei[c] # imei[d]

SessionsHaveClaims ==
    \A c \in Conns : InSession(c) => registeredImei[c]

SessionInv == DrainMatchesPhase /\ ClaimsAreRecorded /\ ClaimsAreUnique /\ SessionsHaveClaims

-----------------------------------------------------------------------------

\* What a turn of the loop can do to the drain, the accumulator and the socket.
LEMMA LoopTypes ==
    ASSUME TypeOK, NEW c \in Conns, NEW ph \in {"awaiting_handshake", "awaiting_avl_data"},
           Loop(c, ph)
    PROVE  /\ sock' \in [Conns -> Sock]
           /\ closed' \in [Conns -> BOOLEAN]
           /\ accumulator' \in [Conns -> Seq(Message)]
           /\ \A d \in Conns : ~closed'[d] => Len(accumulator'[d]) <= Capacity
           /\ drain' \in [Conns -> {"none", "resolveHandshake", "ingestBatch"}]
<1> DEFINE Typed == /\ sock' \in [Conns -> Sock]
                    /\ closed' \in [Conns -> BOOLEAN]
                    /\ accumulator' \in [Conns -> Seq(Message)]
                    /\ drain' \in [Conns -> {"none", "resolveHandshake", "ingestBatch"}]
           Lengths == \A d \in Conns : Len(accumulator[d]) \in Nat
           Shrinks == \A d \in Conns : /\ Len(accumulator'[d]) <= Len(accumulator[d])
                                       /\ ~closed'[d] => ~closed[d]
<1>0. Lengths
  <2>1. \A d \in Conns : accumulator[d] \in Seq(Message)
    BY DEF TypeOK
  <2> QED BY <2>1
<1>1. ASSUME accumulator[c] = <<>>, Drain(c, "none", <<>>), StayOpen
      PROVE  Typed /\ Shrinks
  <2>1. Typed
    BY <1>1 DEF TypeOK, Drain, StayOpen
  <2>2. Shrinks
    BY <1>0, <1>1 DEF TypeOK, Drain, StayOpen
  <2> QED BY <2>1, <2>2
<1>2. ASSUME accumulator[c] # <<>>, Drain(c, Awaited(ph), Tail(accumulator[c])), StayOpen
      PROVE  Typed /\ Shrinks
  <2>1. Tail(accumulator[c]) \in Seq(Message) /\ Len(Tail(accumulator[c])) <= Len(accumulator[c])
    BY <1>2 DEF TypeOK
  <2>2. Typed
    BY <1>2, <2>1 DEF TypeOK, Drain, StayOpen, Awaited
  <2>3. Shrinks
    BY <1>0, <1>2, <2>1 DEF TypeOK, Drain, StayOpen
  <2> QED BY <2>2, <2>3
<1>3. ASSUME Drain(c, "none", accumulator[c]), CloseWithLog(c)
      PROVE  Typed /\ Shrinks
  <2>1. Typed
    BY <1>3 DEF TypeOK, Drain, CloseWithLog, Sock
  <2>2. Shrinks
    BY <1>0, <1>3 DEF TypeOK, Drain, CloseWithLog
  <2> QED BY <2>1, <2>2
<1>4. Typed /\ Shrinks
  BY <1>1, <1>2, <1>3 DEF Loop
<1>5. ASSUME NEW d \in Conns, ~closed'[d]
      PROVE  Len(accumulator'[d]) <= Capacity
  <2>1. Len(accumulator[d]) <= Capacity
    BY <1>4, <1>5 DEF TypeOK
  <2>2. accumulator'[d] \in Seq(Message)
    BY <1>4
  <2>3. Len(accumulator'[d]) \in Nat /\ Len(accumulator'[d]) <= Len(accumulator[d])
    BY <1>4, <2>2
  <2> QED BY <1>0, <2>1, <2>3, BoundsAssumption
<1> QED BY <1>4, <1>5

LEMMA DataTypes == ASSUME NEW chunk \in Chunks PROVE chunk \in Seq(Message)
<1>1. CASE \E m \in Message : chunk = <<m>>
  BY <1>1
<1>2. CASE \E m \in {"imei", "packet"} : chunk = <<m, "packet">>
  <2>1. PICK m \in {"imei", "packet"} : chunk = <<m, "packet">>
    BY <1>2
  <2>2. m \in Message /\ "packet" \in Message
    BY DEF Message
  <2> QED BY <2>1, <2>2
<1> QED BY <1>1, <1>2 DEF Chunks

LEMMA TypeStep == ASSUME TypeOK, [Next]_vars PROVE TypeOK'
<1>1. CASE UNCHANGED vars
  BY <1>1 DEF TypeOK, vars
<1>2. ASSUME NEW c \in Conns, connection(c) PROVE TypeOK'
  BY <1>2 DEF TypeOK, connection, Sock
<1>3. ASSUME NEW c \in Conns, NEW chunk \in Chunks, on_data(c, chunk) PROVE TypeOK'
  <2>1. chunk \in Seq(Message)
    BY DataTypes
  <2>2. accumulator[c] \o chunk \in Seq(Message) /\ Len(chunk) \in Nat
    BY <2>1 DEF TypeOK
  <2>3. /\ accumulator' \in [Conns -> Seq(Message)]
        /\ received' \in [Conns -> Nat]
        /\ queued' \in [Conns -> Nat]
    <3>1. accumulator' \in [Conns -> Seq(Message)]
      BY <1>3, <2>2 DEF TypeOK, on_data
    <3>2. received' \in [Conns -> Nat]
      BY <1>3, <2>2 DEF TypeOK, on_data
    <3>3. queued' = queued \/ queued' = [queued EXCEPT ![c] = @ + 1]
      BY <1>3 DEF on_data
    <3>4. queued' \in [Conns -> Nat]
      BY <3>3 DEF TypeOK
    <3> QED BY <3>1, <3>2, <3>4
  <2>4. sock' \in [Conns -> Sock] /\ closed' \in [Conns -> BOOLEAN]
    BY <1>3 DEF TypeOK, on_data, CloseWithLog, StayOpen, Sock
  <2>5. \A d \in Conns : ~closed'[d] => Len(accumulator'[d]) <= Capacity
    <3>1. CASE Oversized(accumulator[c] \o chunk)
      BY <1>3, <3>1 DEF TypeOK, on_data, CloseWithLog
    <3>2. CASE ~Oversized(accumulator[c] \o chunk)
      <4>1. Len(accumulator[c] \o chunk) <= Capacity
        BY <3>2, <2>2, BoundsAssumption DEF Oversized
      <4> QED BY <1>3, <2>2, <3>2, <4>1 DEF TypeOK, on_data, StayOpen
    <3> QED BY <3>1, <3>2
  <2> QED BY <1>3, <2>3, <2>4, <2>5 DEF TypeOK, on_data
<1>4. ASSUME NEW c \in Conns, peer_leaves(c) PROVE TypeOK'
  BY <1>4 DEF TypeOK, peer_leaves, Sock
<1>5. ASSUME NEW c \in Conns, on_timeout(c) PROVE TypeOK'
  BY <1>5 DEF TypeOK, on_timeout, CloseWithLog, Sock
<1>6. ASSUME NEW c \in Conns, on_close(c) PROVE TypeOK'
  BY <1>6 DEF TypeOK, on_close, Sock
<1>7. ASSUME NEW c \in Conns, drain_starts(c) PROVE TypeOK'
  <2>1. CASE closed[c] /\ StayOpen /\ UNCHANGED <<accumulator, drain>>
    BY <1>7, <2>1 DEF TypeOK, drain_starts, StayOpen
  <2>2. CASE Loop(c, phase[c])
    <3>1. phase[c] \in {"awaiting_handshake", "awaiting_avl_data"}
      BY DEF TypeOK
    <3>2. /\ sock' \in [Conns -> Sock] /\ closed' \in [Conns -> BOOLEAN]
          /\ accumulator' \in [Conns -> Seq(Message)]
          /\ \A d \in Conns : ~closed'[d] => Len(accumulator'[d]) <= Capacity
          /\ drain' \in [Conns -> {"none", "resolveHandshake", "ingestBatch"}]
      BY <2>2, <3>1, LoopTypes
    <3>3. queued' \in [Conns -> Nat]
      BY <1>7 DEF TypeOK, drain_starts
    <3> QED BY <1>7, <3>2, <3>3 DEF TypeOK, drain_starts
  <2> QED BY <1>7, <2>1, <2>2 DEF drain_starts
<1>8. ASSUME NEW c \in Conns, handshake_rejected(c) PROVE TypeOK'
  BY <1>8 DEF TypeOK, handshake_rejected, Answer, CloseWithLog, Sock
<1>9. ASSUME NEW c \in Conns, handshake_accepted(c) PROVE TypeOK'
  BY <1>9, LoopTypes DEF TypeOK, handshake_accepted, tryRegisterActiveImei, Answer
<1>10. ASSUME NEW c \in Conns, imei_already_connected(c) PROVE TypeOK'
  BY <1>10 DEF TypeOK, imei_already_connected, Answer, CloseWithLog, Sock
<1>11. ASSUME NEW c \in Conns, packet_acknowledged(c) PROVE TypeOK'
  BY <1>11, LoopTypes DEF TypeOK, packet_acknowledged, Answer
<1>12. ASSUME NEW c \in Conns, unexpected_processing_error(c) PROVE TypeOK'
  BY <1>12 DEF TypeOK, unexpected_processing_error, CloseWithLog, Sock
<1> QED
  BY <1>1, <1>2, <1>3, <1>4, <1>5, <1>6, <1>7, <1>8, <1>9, <1>10, <1>11, <1>12
  DEF Next, SocketEvent, Drains

\* The state of every connection is well typed, and no open connection buffers
\* more than MAX_BUFFERED_BYTES allows.
THEOREM TypeCorrect == Spec => []TypeOK
<1>1. Init => TypeOK
  BY BoundsAssumption DEF Init, TypeOK, Sock
<1> QED BY <1>1, TypeStep, PTL DEF Spec

-----------------------------------------------------------------------------

\* A turn of the loop leaves the other connections alone, and awaits what the
\* phase asks for.
LEMMA LoopSessions ==
    ASSUME TypeOK, NEW c \in Conns, NEW ph, Loop(c, ph)
    PROVE  /\ drain'[c] \in {"none", Awaited(ph)}
           /\ \A d \in Conns : d # c => drain'[d] = drain[d]
           /\ \A d \in Conns : sock'[d] = "gone" <=> sock[d] = "gone"
BY DEF TypeOK, Loop, Drain, StayOpen, CloseWithLog, Sock

LEMMA SessionStep ==
    ASSUME TypeOK, SessionInv, [Next]_vars
    PROVE  SessionInv'
<1> USE DEF SessionInv, DrainMatchesPhase, ClaimsAreRecorded, ClaimsAreUnique, SessionsHaveClaims,
            InSession
<1>1. CASE UNCHANGED vars
  BY <1>1 DEF vars
<1>2. ASSUME NEW c \in Conns, connection(c) PROVE SessionInv'
  BY <1>2 DEF connection, TypeOK
<1>3. ASSUME NEW c \in Conns, NEW chunk \in Chunks, on_data(c, chunk) PROVE SessionInv'
  BY <1>3 DEF on_data, CloseWithLog, StayOpen, TypeOK
<1>4. ASSUME NEW c \in Conns, peer_leaves(c) PROVE SessionInv'
  BY <1>4 DEF peer_leaves, TypeOK
<1>5. ASSUME NEW c \in Conns, on_timeout(c) PROVE SessionInv'
  BY <1>5 DEF on_timeout, CloseWithLog, TypeOK
<1>6. ASSUME NEW c \in Conns, on_close(c) PROVE SessionInv'
  BY <1>6 DEF on_close, TypeOK
<1>7. ASSUME NEW c \in Conns, drain_starts(c) PROVE SessionInv'
  <2>1. CASE closed[c] /\ StayOpen /\ UNCHANGED <<accumulator, drain>>
    BY <1>7, <2>1 DEF drain_starts, StayOpen
  <2>2. CASE Loop(c, phase[c])
    BY <1>7, <2>2, LoopSessions DEF drain_starts
  <2> QED BY <1>7, <2>1, <2>2 DEF drain_starts
<1>8. ASSUME NEW c \in Conns, handshake_rejected(c) PROVE SessionInv'
  BY <1>8 DEF handshake_rejected, CloseWithLog, TypeOK
<1>9. ASSUME NEW c \in Conns, handshake_accepted(c) PROVE SessionInv'
  <2>1. \A d \in Conns : sock'[d] = "gone" <=> sock[d] = "gone"
    BY <1>9, LoopSessions DEF handshake_accepted
  <2>2. DrainMatchesPhase'
    BY <1>9, LoopSessions DEF handshake_accepted, TypeOK
  <2>3. ClaimsAreRecorded' /\ ClaimsAreUnique'
    BY <1>9 DEF handshake_accepted, tryRegisterActiveImei, TypeOK
  <2>4. SessionsHaveClaims'
    BY <1>9, <2>1 DEF handshake_accepted, tryRegisterActiveImei, TypeOK
  <2> QED BY <2>2, <2>3, <2>4
<1>10. ASSUME NEW c \in Conns, imei_already_connected(c) PROVE SessionInv'
  BY <1>10 DEF imei_already_connected, CloseWithLog, TypeOK
<1>11. ASSUME NEW c \in Conns, packet_acknowledged(c) PROVE SessionInv'
  <2>1. phase[c] = "awaiting_avl_data"
    BY <1>11 DEF packet_acknowledged, Awaited, TypeOK
  <2>2. \A d \in Conns : sock'[d] = "gone" <=> sock[d] = "gone"
    BY <1>11, LoopSessions DEF packet_acknowledged
  <2>3. DrainMatchesPhase'
    BY <1>11, <2>1, LoopSessions DEF packet_acknowledged
  <2>4. ClaimsAreRecorded' /\ ClaimsAreUnique' /\ SessionsHaveClaims'
    BY <1>11, <2>2 DEF packet_acknowledged
  <2> QED BY <2>3, <2>4
<1>12. ASSUME NEW c \in Conns, unexpected_processing_error(c) PROVE SessionInv'
  BY <1>12 DEF unexpected_processing_error, CloseWithLog, TypeOK
<1> QED
  BY <1>1, <1>2, <1>3, <1>4, <1>5, <1>6, <1>7, <1>8, <1>9, <1>10, <1>11, <1>12
  DEF Next, SocketEvent, Drains

\* However handshakes overlap, sockets close and replies are delayed, no two
\* connections of one IMEI are in session together: activeImeis is tested and
\* claimed in the same callback.
THEOREM OneSession == Spec => []OneSessionPerImei
<1>1. Init => SessionInv
  BY DEF Init, SessionInv, DrainMatchesPhase, ClaimsAreRecorded, ClaimsAreUnique,
         SessionsHaveClaims, InSession
<1>2. SessionInv => OneSessionPerImei
  BY DEF SessionInv, ClaimsAreUnique, SessionsHaveClaims, OneSessionPerImei
<1> QED BY <1>1, <1>2, TypeCorrect, SessionStep, PTL DEF Spec

-----------------------------------------------------------------------------

\* What connection c still owes an answer for.
Owed(c) == Len(accumulator[c]) + (IF drain[c] = "none" THEN 0 ELSE 1)

\* A turn of the loop consumes the message it starts on, and only comes to rest
\* on an empty accumulator.
LEMMA LoopAccounts ==
    ASSUME TypeOK, NEW c \in Conns, NEW ph \in {"awaiting_handshake", "awaiting_avl_data"},
           Loop(c, ph)
    PROVE  /\ \A d \in Conns : ~closed'[d] => ~closed[d]
           /\ \A d \in Conns : d # c => drain'[d] = drain[d] /\ accumulator'[d] = accumulator[d]
           /\ ~closed'[c] => /\ Owed(c)' = Len(accumulator[c])
                             /\ accumulator'[c] # <<>> => drain'[c] # "none"
<1>1. CASE accumulator[c] = <<>> /\ Drain(c, "none", <<>>) /\ StayOpen
  BY <1>1 DEF TypeOK, Drain, StayOpen, Owed
<1>2. CASE /\ accumulator[c] # <<>>
           /\ Drain(c, Awaited(ph), Tail(accumulator[c]))
           /\ StayOpen
  <2>1. Len(Tail(accumulator[c])) + 1 = Len(accumulator[c])
    BY <1>2 DEF TypeOK
  <2> QED BY <1>2, <2>1 DEF TypeOK, Drain, StayOpen, Owed, Awaited
<1>3. CASE Drain(c, "none", accumulator[c]) /\ CloseWithLog(c)
  BY <1>3 DEF TypeOK, Drain, CloseWithLog
<1> QED BY <1>1, <1>2, <1>3 DEF Loop

Accounted == \A c \in Conns : ~closed[c] => /\ received[c] = answered[c] + Owed(c)
                                            /\ accumulator[c] # <<>> => queued[c] > 0 \/ drain[c] # "none"

\* Answering what was awaited and turning to the next message keeps the account.
LEMMA AnswerAccounts ==
    ASSUME TypeOK, Accounted, NEW c \in Conns, NEW ph \in {"awaiting_handshake", "awaiting_avl_data"},
           Loop(c, ph), Owed(c) = Len(accumulator[c]) + 1,
           answered' = [answered EXCEPT ![c] = @ + 1], received' = received, queued' = queued
    PROVE  Accounted'
<1>1. ASSUME NEW d \in Conns, d # c, ~closed'[d]
      PROVE  /\ received'[d] = answered'[d] + Owed(d)'
             /\ accumulator'[d] # <<>> => queued'[d] > 0 \/ drain'[d] # "none"
  <2>1. Owed(d)' = Owed(d) /\ ~closed[d] /\ answered'[d] = answered[d]
    BY <1>1, LoopAccounts DEF Owed, TypeOK
  <2>2. accumulator'[d] = accumulator[d] /\ drain'[d] = drain[d]
    BY <1>1, LoopAccounts
  <2> QED BY <2>1, <2>2, <1>1 DEF Accounted
<1>2. ASSUME ~closed'[c]
      PROVE  /\ received'[c] = answered'[c] + Owed(c)'
             /\ accumulator'[c] # <<>> => queued'[c] > 0 \/ drain'[c] # "none"
  <2>1. ~closed[c] /\ Owed(c)' = Len(accumulator[c])
    BY <1>2, LoopAccounts
  <2>2. accumulator'[c] # <<>> => drain'[c] # "none"
    BY <1>2, LoopAccounts
  <2>3. answered'[c] = answered[c] + 1 /\ answered[c] \in Nat /\ Len(accumulator[c]) \in Nat
    BY DEF TypeOK
  <2>4. received[c] = answered[c] + Owed(c)
    BY <2>1 DEF Accounted
  <2> QED BY <2>1, <2>2, <2>3, <2>4
<1> QED BY <1>1, <1>2 DEF Accounted

LEMMA AccountStep ==
    ASSUME TypeOK, Accounted, [Next]_vars
    PROVE  Accounted'
<1> USE DEF Accounted
<1>1. CASE UNCHANGED vars
  BY <1>1 DEF vars, Owed
<1>2. ASSUME NEW c \in Conns, connection(c) PROVE Accounted'
  BY <1>2 DEF connection, Owed
<1>3. ASSUME NEW c \in Conns, NEW chunk \in Chunks, on_data(c, chunk) PROVE Accounted'
  <2>1. chunk \in Seq(Message)
    BY DataTypes
  <2>2. Len(accumulator[c] \o chunk) = Len(accumulator[c]) + Len(chunk)
    BY <2>1 DEF TypeOK
  <2>3. \A d \in Conns : ~closed'[d] => ~closed[d]
    BY <1>3 DEF on_data, CloseWithLog, StayOpen, TypeOK
  <2>4. ASSUME NEW d \in Conns, d # c, ~closed'[d]
        PROVE  /\ received'[d] = answered'[d] + Owed(d)'
               /\ accumulator'[d] # <<>> => queued'[d] > 0 \/ drain'[d] # "none"
    BY <1>3, <2>3, <2>4 DEF on_data, StayOpen, Owed, TypeOK
  <2>5. ASSUME ~closed'[c]
        PROVE  /\ received'[c] = answered'[c] + Owed(c)'
               /\ accumulator'[c] # <<>> => queued'[c] > 0 \/ drain'[c] # "none"
    <3>1. queued'[c] = queued[c] + 1
      BY <1>3, <2>5 DEF on_data, CloseWithLog, StayOpen, TypeOK
    <3>2. received'[c] = received[c] + Len(chunk)
      BY <1>3 DEF on_data, TypeOK
    <3>3. Owed(c)' = Owed(c) + Len(chunk)
      <4>1. accumulator'[c] = accumulator[c] \o chunk /\ drain' = drain
        BY <1>3 DEF on_data, TypeOK
      <4>2. Len(accumulator'[c]) = Len(accumulator[c]) + Len(chunk)
        BY <2>2, <4>1
      <4>3. Len(accumulator[c]) \in Nat /\ Len(chunk) \in Nat
        BY <2>1 DEF TypeOK
      <4>4. drain'[c] = drain[c]
        BY <4>1
      <4>5. CASE drain[c] = "none"
        BY <4>2, <4>3, <4>4, <4>5 DEF Owed
      <4>6. CASE drain[c] # "none"
        BY <4>2, <4>3, <4>4, <4>6 DEF Owed
      <4> QED BY <4>5, <4>6
    <3>4. answered'[c] = answered[c] /\ queued[c] \in Nat
      BY <1>3 DEF on_data, TypeOK
    <3>5. ~closed[c] /\ Len(chunk) \in Nat /\ Owed(c) \in Nat /\ answered[c] \in Nat
      BY <2>1, <2>3, <2>5 DEF TypeOK, Owed
    <3> HIDE DEF Owed
    <3> QED BY <3>1, <3>2, <3>3, <3>4, <3>5
  <2> QED BY <2>4, <2>5
<1>4. ASSUME NEW c \in Conns, peer_leaves(c) PROVE Accounted'
  BY <1>4 DEF peer_leaves, Owed
<1>5. ASSUME NEW c \in Conns, on_timeout(c) PROVE Accounted'
  BY <1>5 DEF on_timeout, CloseWithLog, Owed, TypeOK
<1>6. ASSUME NEW c \in Conns, on_close(c) PROVE Accounted'
  BY <1>6 DEF on_close, Owed
<1>7. ASSUME NEW c \in Conns, drain_starts(c) PROVE Accounted'
  <2>1. CASE closed[c] /\ StayOpen /\ UNCHANGED <<accumulator, drain>>
    BY <1>7, <2>1 DEF drain_starts, StayOpen, Owed, TypeOK
  <2>2. CASE Loop(c, phase[c])
    <3>1. phase[c] \in {"awaiting_handshake", "awaiting_avl_data"}
      BY DEF TypeOK
    <3>2. Owed(c) = Len(accumulator[c])
      BY <1>7 DEF drain_starts, Owed, TypeOK
    <3> QED BY <1>7, <2>2, <3>1, <3>2, LoopAccounts DEF drain_starts, Owed, TypeOK
  <2> QED BY <1>7, <2>1, <2>2 DEF drain_starts
<1>8. ASSUME NEW c \in Conns, handshake_rejected(c) PROVE Accounted'
  BY <1>8 DEF handshake_rejected, Answer, CloseWithLog, Owed, TypeOK
<1>9. ASSUME NEW c \in Conns, handshake_accepted(c) PROVE Accounted'
  <2>1. Owed(c) = Len(accumulator[c]) + 1
    BY <1>9 DEF handshake_accepted, Owed, TypeOK
  <2>2. answered' = [answered EXCEPT ![c] = @ + 1] /\ received' = received /\ queued' = queued
    BY <1>9 DEF handshake_accepted, Answer
  <2>3. Loop(c, "awaiting_avl_data")
    BY <1>9 DEF handshake_accepted
  <2> QED BY <2>1, <2>2, <2>3, AnswerAccounts
<1>10. ASSUME NEW c \in Conns, imei_already_connected(c) PROVE Accounted'
  BY <1>10 DEF imei_already_connected, Answer, CloseWithLog, Owed, TypeOK
<1>11. ASSUME NEW c \in Conns, packet_acknowledged(c) PROVE Accounted'
  <2>1. Owed(c) = Len(accumulator[c]) + 1
    BY <1>11 DEF packet_acknowledged, Owed, TypeOK
  <2>2. answered' = [answered EXCEPT ![c] = @ + 1] /\ received' = received /\ queued' = queued
    BY <1>11 DEF packet_acknowledged, Answer
  <2>3. Loop(c, "awaiting_avl_data")
    BY <1>11 DEF packet_acknowledged
  <2> QED BY <2>1, <2>2, <2>3, AnswerAccounts
<1>12. ASSUME NEW c \in Conns, unexpected_processing_error(c) PROVE Accounted'
  BY <1>12 DEF unexpected_processing_error, CloseWithLog, Owed, TypeOK
<1> QED
  BY <1>1, <1>2, <1>3, <1>4, <1>5, <1>6, <1>7, <1>8, <1>9, <1>10, <1>11, <1>12
  DEF Next, SocketEvent, Drains

\* On a connection that is not closed every message received is answered, being
\* handled, or waiting with a drain to come for it: a drain that awaits a reply
\* never loses what arrives meanwhile.
THEOREM NothingDropped == Spec => []EveryMessageAccountedFor
<1>1. Init => Accounted
  BY DEF Init, Accounted, Owed
<1>2. TypeOK /\ Accounted => EveryMessageAccountedFor
  BY DEF TypeOK, Accounted, Owed, EveryMessageAccountedFor
<1> QED BY <1>1, <1>2, TypeCorrect, AccountStep, PTL DEF Spec
=============================================================================
