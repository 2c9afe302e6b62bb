--------------------------- MODULE DownlinkProofs --------------------------
(***************************************************************************)
(* Theorems about Downlink: packets reach the ground in the order of their *)
(* loops, newest first within each, and the last report is wrong about the *)
(* valve in two cases only, for any number of packets, any times and       *)
(* either build.                                                           *)
(***************************************************************************)
EXTENDS Downlink, FiniteSetTheorems, SequenceTheorems, TLAPS

(* What has left the flag, in the order in which the ground gets it.        *)
Queue == received \o sendQueue

Sent == Range(Queue)

All == enqueue \cup Sent

(* There is room for what a request still sends, and the batches that have  *)
(* been sent had a packet each.                                             *)
CountsOK ==
  /\ IsFiniteSet(enqueue)
  /\ batch <= count
  /\ enqueue # {} => batch < count
  /\ turn \in {"command", "send"} => request = "nothing"
  /\ request # "nothing" => count < MaxPackets

(* The packets that wait belong to this batch, those that were sent to      *)
(* earlier ones; the report of an actuation is sent in the loop it is made. *)
PacketsOK ==
  /\ \A p \in enqueue : /\ p.batch = batch /\ p.timestamp <= now
                        /\ p.header = "INF" => turn = "send"
  /\ \A p \in Sent : p.batch < batch /\ p.timestamp <= now

(* q reports the last actuation that moved the valve.                       *)
IsLast(q) ==
  /\ q \in All /\ Moves(q)
  /\ \A r \in All : Moves(r) => r.batch <= q.batch

(* The last report of a move tells what the valve is, and so does the       *)
(* registry unless it was a PULSE. A batch the registry no longer agrees    *)
(* with is older than that report, or was sent in its loop.                 *)
ReportsOK ==
  /\ regState = "OPEN" => position = "OPEN"
  /\ \A q : IsLast(q) =>
       /\ Told(q) = position
       /\ q.says # "PULSE" => regState = position
  /\ \A p \in All : p.header = "VAL" =>
       /\ p.says \in States
       /\ p.says # regState => \E q : IsLast(q) /\ q.batch >= p.batch

DownlinkInvariant ==
  TypeOK /\ CountsOK /\ PacketsOK /\ ArrivalOrder /\ ReportsOK

----------------------------------------------------------------------------
(* An order of a finite set of packets has them all, newest first.          *)
LEMMA OrdersHaveAll ==
  ASSUME NEW S, IsFiniteSet(S), NEW order \in Orders(S)
  PROVE  /\ order \in Seq(S)
         /\ Range(order) = S
         /\ \A i, j \in DOMAIN order :
              i < j => order[i].timestamp >= order[j].timestamp
<1> DEFINE D == 1..Cardinality(S)
<1>1. Cardinality(S) \in Nat
  BY FS_CardinalityType
<1>2. order \in [D -> S] /\ (\A i, j \in D : i # j => order[i] # order[j])
  BY DEF Orders, SetToSeqs
<1>3. order \in Injection(D, S)
  BY <1>2 DEF Injection, IsInjective
<1>4. IsFiniteSet(D) /\ Cardinality(D) = Cardinality(S)
  BY <1>1, FS_Interval
<1>5. order \in Surjection(D, S)
  BY <1>3, <1>4, FS_Injection
<1>6. Range(order) = S
  BY <1>2, <1>5 DEF Surjection, Range
<1>7. order \in Seq(S)
  BY <1>1, <1>2
<1> QED
  BY <1>6, <1>7 DEF Orders

(* TelemetryTask::actuate adds the packets of the flag to those that were   *)
(* sent, and writes a part of the queue without changing its order.         *)
LEMMA ActuateAppends ==
  ASSUME DownlinkInvariant, TelemetryActuate
  PROVE  \E order \in Orders(enqueue) :
           /\ order \in Seq(Packets) /\ Queue \in Seq(Packets)
           /\ received' \in Seq(Packets) /\ sendQueue' \in Seq(Packets)
           /\ Queue' = Queue \o order
<1>1. PICK order \in Orders(enqueue) :
        LET queue == sendQueue \o order
        IN /\ received' = received \o SubSeq(queue, 1, Written(queue))
           /\ sendQueue' = SubSeq(queue, Written(queue) + 1, Len(queue))
  BY DEF TelemetryActuate
<1> DEFINE queue == sendQueue \o order
           w == Written(queue)
           sent == SubSeq(queue, 1, w)
           rest == SubSeq(queue, w + 1, Len(queue))
<1>2. enqueue \subseteq Packets /\ IsFiniteSet(enqueue)
      /\ sendQueue \in Seq(Packets) /\ received \in Seq(Packets)
  BY DEF DownlinkInvariant, TypeOK, CountsOK
<1>3. order \in Seq(Packets)
  BY <1>2, OrdersHaveAll, SeqMonotonic
<1>4. queue \in Seq(Packets)
  BY <1>2, <1>3, ConcatProperties
<1>5. Len(queue) \in Nat /\ w \in 0..Len(queue)
  BY <1>4, LenProperties, EmptySeq DEF Written
<1>6. sent \in Seq(Packets) /\ rest \in Seq(Packets)
  <2>1. \A i \in 1..Len(queue) : queue[i] \in Packets
    BY <1>4, ElementOfSeq
  <2>2. (\A i \in 1..w : queue[i] \in Packets)
        /\ (\A i \in (w + 1)..Len(queue) : queue[i] \in Packets)
    BY <1>5, <2>1
  <2> HIDE DEF queue, w
  <2> QED
    BY <1>5, <2>2, SubSeqProperties
<1>7. sent \o rest = queue
  <2> HIDE DEF queue, w
  <2>1. SubSeq(queue, 1, Len(queue)) = queue
    BY <1>4, SubSeqFull
  <2>2. 1 \in 1..(Len(queue) + 1) /\ w \in (1 - 1)..Len(queue)
        /\ Len(queue) \in w..Len(queue)
    BY <1>5
  <2> QED
    BY <1>4, <2>1, <2>2, ConcatAdjacentSubSeq
<1>8. received' = received \o sent /\ sendQueue' = rest
  BY <1>1
<1>9. Queue' = Queue \o order
  <2> HIDE DEF queue, w, sent, rest
  <2>1. Queue' = (received \o sent) \o rest
    BY <1>8 DEF Queue
  <2>2. (received \o sent) \o rest = received \o (sent \o rest)
    BY <1>2, <1>6, ConcatAssociative
  <2>3. received \o (sendQueue \o order) = (received \o sendQueue) \o order
    BY <1>2, <1>3, ConcatAssociative
  <2>4. sendQueue \o order = sent \o rest
    BY <1>7 DEF queue
  <2> QED
    BY <2>1, <2>2, <2>3, <2>4 DEF Queue
<1>10. Queue \in Seq(Packets)
  BY <1>2, ConcatProperties DEF Queue
<1>11. received' \in Seq(Packets) /\ sendQueue' \in Seq(Packets)
  BY <1>2, <1>6, <1>8, ConcatProperties
<1> QED
  BY <1>3, <1>9, <1>10, <1>11

(* A packet that is queued carries the time and the batch of its loop.      *)
LEMMA PacketQueued ==
  ASSUME DownlinkInvariant, NEW header \in {"SAC", "VAL", "INF"},
         NEW says \in States \cup Types, count < MaxPackets,
         SendPacket(header, says)
  PROVE  /\ count' = count + 1 /\ count' \in 0..MaxPackets
         /\ IsFiniteSet(enqueue')
         /\ \E p \in Packets :
              /\ enqueue' = enqueue \cup {p}
              /\ p.header = header /\ p.says = says
              /\ p.timestamp = now /\ p.batch = batch
<1> DEFINE p == [header |-> header, says |-> says, timestamp |-> now,
                 batch |-> batch, n |-> count']
<1>1. count \in 0..MaxPackets /\ batch \in 0..MaxPackets /\ now \in 0..MaxTime
  BY DEF DownlinkInvariant, TypeOK
<1>2. count' = count + 1 /\ enqueue' = enqueue \cup {p}
  BY DEF SendPacket
<1>3. count' \in 1..MaxPackets
  BY <1>1, <1>2, DownlinkAssumption
<1>4. p \in Packets
  BY <1>1, <1>3 DEF Packets
<1>5. IsFiniteSet(enqueue \cup {p})
  BY FS_AddElement DEF DownlinkInvariant, CountsOK
<1> QED
  BY <1>2, <1>3, <1>4, <1>5

(* Their numbers can be compared.                                           *)
LEMMA NumbersOfPackets ==
  ASSUME DownlinkInvariant
  PROVE  /\ Sent \subseteq Packets /\ enqueue \subseteq Packets
         /\ \A p \in All : p.batch \in Int /\ p.timestamp \in Int
<1>1. Queue \in Seq(Packets)
  BY ConcatProperties DEF Queue, DownlinkInvariant, TypeOK
<1>2. Sent \subseteq Packets /\ enqueue \subseteq Packets
  BY <1>1, RangeOfSeq DEF Sent, DownlinkInvariant, TypeOK
<1>3. \A p \in Packets : p.batch \in Int /\ p.timestamp \in Int
  BY DEF Packets
<1> QED
  BY <1>2, <1>3 DEF All

(* Nothing is queued at the start.                                          *)
LEMMA InitDownlink == Init => DownlinkInvariant
<1> SUFFICES ASSUME Init PROVE DownlinkInvariant
  OBVIOUS
<1>1. Queue = <<>> /\ Len(Queue) = 0
  BY DEF Init, Queue
<1>2. Sent = {} /\ All = {}
  BY <1>1 DEF Sent, All, Range, Init
<1>3. TypeOK
  BY DownlinkAssumption DEF Init, TypeOK, States
<1>4. CountsOK
  BY FS_EmptySet DEF Init, CountsOK
<1>5. PacketsOK
  BY <1>2 DEF Init, PacketsOK
<1>6. ArrivalOrder
  BY <1>1 DEF ArrivalOrder, Queue
<1>7. ReportsOK
  BY <1>2 DEF ReportsOK, IsLast, Init
<1> QED
  BY <1>3, <1>4, <1>5, <1>6, <1>7 DEF DownlinkInvariant

(* What a command and a batch add keeps the invariant: a reply is no        *)
(* report, and a batch says what is true.                                   *)
LEMMA BatchKeeps ==
  ASSUME DownlinkInvariant, turn' \in {"report", "valve"},
         UNCHANGED <<build, regState, position, sendQueue, received, batch, now>>,
         request' \in Types \cup {"nothing"},
         NEW header \in {"SAC", "VAL"}, NEW says \in States \cup Types,
         header = "VAL" => says = regState,
         RoomFor(IF request' = "nothing" THEN 1 ELSE 2),
         turn # "send", SendPacket(header, says)
  PROVE  DownlinkInvariant'
<1>1. count \in 0..MaxPackets /\ batch \in 0..MaxPackets
      /\ batch <= count /\ IsFiniteSet(enqueue)
  BY DEF DownlinkInvariant, TypeOK, CountsOK
<1>2. count < MaxPackets
  BY <1>1, DownlinkAssumption DEF RoomFor
<1>3. PICK p \in Packets :
        /\ enqueue' = enqueue \cup {p}
        /\ p.header = header /\ p.says = says
        /\ p.timestamp = now /\ p.batch = batch
  BY <1>2, PacketQueued
<1>4. count' = count + 1 /\ count' \in 0..MaxPackets /\ IsFiniteSet(enqueue')
  BY <1>2, PacketQueued
<1>5. Queue' = Queue /\ Sent' = Sent /\ All' = All \cup {p}
  BY <1>3 DEF Queue, Sent, All
<1>6. TypeOK'
  BY <1>3, <1>4 DEF DownlinkInvariant, TypeOK
<1>7. CountsOK'
  BY <1>1, <1>4, DownlinkAssumption DEF CountsOK, RoomFor
<1>8. PacketsOK'
  <2>1. now \in Int
    BY DEF DownlinkInvariant, TypeOK
  <2> QED
    BY <1>3, <1>5, <2>1 DEF DownlinkInvariant, PacketsOK
<1>9. ArrivalOrder'
  BY DEF DownlinkInvariant, ArrivalOrder
<1>10. ReportsOK'
  <2>1. \A q : IsLast(q)' <=> IsLast(q)
    BY <1>3, <1>5 DEF IsLast, Moves
  <2>2. regState \in States
    BY DEF DownlinkInvariant, TypeOK
  <2> QED
    BY <1>3, <1>5, <2>1, <2>2 DEF DownlinkInvariant, ReportsOK
<1> QED
  BY <1>6, <1>7, <1>8, <1>9, <1>10 DEF DownlinkInvariant

(* A turn in which nothing is sent.                                         *)
LEMMA QuietKeeps ==
  ASSUME DownlinkInvariant, turn \in {"command", "report", "valve"},
         request = "nothing" \/ turn # "valve",
         turn' \in {"report", "valve", "send"},
         turn' = "send" => request = "nothing",
         UNCHANGED <<build, request, regState, position, enqueue, sendQueue,
                     received, count, batch, now>>
  PROVE  DownlinkInvariant'
<1>1. TypeOK'
  BY DEF DownlinkInvariant, TypeOK
<1>2. CountsOK'
  BY DEF DownlinkInvariant, CountsOK
<1>3. Queue' = Queue /\ Sent' = Sent /\ All' = All
  BY DEF Queue, Sent, All
<1>4. PacketsOK'
  BY <1>3 DEF DownlinkInvariant, PacketsOK
<1>5. ArrivalOrder'
  BY DEF DownlinkInvariant, ArrivalOrder
<1>6. ReportsOK'
  BY <1>3 DEF DownlinkInvariant, ReportsOK, IsLast
<1> QED
  BY <1>1, <1>2, <1>4, <1>5, <1>6 DEF DownlinkInvariant

(* A command adds its reply, or nothing.                                    *)
LEMMA CommandKeeps == DownlinkInvariant /\ Command => DownlinkInvariant'
<1> SUFFICES ASSUME DownlinkInvariant, Command PROVE DownlinkInvariant'
  OBVIOUS
<1>1. ASSUME NEW type \in Types, RoomFor(2), request' \in {type, "nothing"},
             SendPacket("SAC", type)
      PROVE  DownlinkInvariant'
  <2>1. count \in Nat /\ RoomFor(1)
    BY <1>1, DownlinkAssumption DEF RoomFor, DownlinkInvariant, TypeOK
  <2>2. RoomFor(IF request' = "nothing" THEN 1 ELSE 2)
    BY <1>1, <2>1
  <2> QED
    BY <1>1, <2>2, BatchKeeps DEF Command
<1>2. CASE UNCHANGED request /\ SendsNothing
  BY <1>2, QuietKeeps DEF Command, SendsNothing
<1> QED
  BY <1>1, <1>2 DEF Command

(* A batch says what the registry says.                                     *)
LEMMA ReportKeeps == DownlinkInvariant /\ Report => DownlinkInvariant'
<1> SUFFICES ASSUME DownlinkInvariant, Report PROVE DownlinkInvariant'
  OBVIOUS
<1>1. CASE RoomFor(IF request = "nothing" THEN 1 ELSE 2) /\ SendPacket("VAL", regState)
  <2>1. regState \in States /\ request' \in Types \cup {"nothing"}
    BY DEF DownlinkInvariant, TypeOK, Report
  <2>2. RoomFor(IF request' = "nothing" THEN 1 ELSE 2)
    BY <1>1 DEF Report
  <2> QED
    BY <1>1, <2>1, <2>2, BatchKeeps DEF Report
<1>2. CASE SendsNothing
  BY <1>2, QuietKeeps DEF Report, SendsNothing
<1> QED
  BY <1>1, <1>2 DEF Report

(* The report of an actuation that moves the valve is from then on the last *)
(* of them, and no older than anything sent before.                         *)
LEMMA ValveKeeps == DownlinkInvariant /\ ValveActuate => DownlinkInvariant'
<1> SUFFICES ASSUME DownlinkInvariant, ValveActuate PROVE DownlinkInvariant'
  OBVIOUS
<1>1. CASE request = "nothing"
  <2>1. regState' = regState /\ position' = position
    BY <1>1 DEF ValveActuate, Moved
  <2> QED
    BY <1>1, <2>1, QuietKeeps DEF ValveActuate, SendsNothing
<1>2. CASE request # "nothing"
  <2>1. /\ request \in Types /\ count < MaxPackets
        /\ count \in 0..MaxPackets /\ batch \in 0..MaxPackets
        /\ now \in 0..MaxTime /\ batch <= count
        /\ regState \in States /\ position \in States
    BY <1>2 DEF DownlinkInvariant, TypeOK, CountsOK
  <2>2. SendPacket("INF", request)
    BY <1>2 DEF ValveActuate
  <2>3. PICK p \in Packets :
          /\ enqueue' = enqueue \cup {p}
          /\ p.header = "INF" /\ p.says = request
          /\ p.timestamp = now /\ p.batch = batch
    BY <2>1, <2>2, PacketQueued
  <2>4. count' = count + 1 /\ count' \in 0..MaxPackets /\ IsFiniteSet(enqueue')
    BY <2>1, <2>2, PacketQueued
  <2>5. Queue' = Queue /\ Sent' = Sent /\ All' = All \cup {p}
    BY <2>3 DEF Queue, Sent, All, ValveActuate
  <2>6. /\ regState' = Moved(regState, request, {"OPEN_VENT"})
        /\ position' = Moved(position, request, {"OPEN_VENT", "PULSE"})
        /\ request' = "nothing" /\ turn' = "send"
        /\ batch' = batch /\ now' = now
    BY <1>2 DEF ValveActuate
  <2>7. TypeOK'
    <3>1. regState' \in States /\ position' \in States
      BY <2>1, <2>6 DEF Moved, States
    <3> QED
      BY <2>1, <2>3, <2>4, <2>6, <3>1 DEF DownlinkInvariant, TypeOK, ValveActuate
  <2>8. CountsOK'
    BY <2>1, <2>4, <2>6 DEF CountsOK
  <2>9. PacketsOK'
    BY <2>1, <2>3, <2>5, <2>6 DEF DownlinkInvariant, PacketsOK
  <2>10. ArrivalOrder'
    BY <2>5 DEF DownlinkInvariant, ArrivalOrder, Queue
  <2>11. ReportsOK'
    <3>1. /\ \A r \in All : r.batch <= batch
          /\ \A r \in All : r.header = "INF" => r.batch < batch
      BY <2>1, NumbersOfPackets
         DEF All, DownlinkInvariant, PacketsOK, ValveActuate
    <3>2. regState = "OPEN" => position = "OPEN"
      BY DEF DownlinkInvariant, ReportsOK
    <3>3. regState' = "OPEN" => position' = "OPEN"
      BY <2>6, <3>2 DEF Moved
    <3>4. p \notin All
      BY <2>1, <2>3, <3>1
    <3>5. CASE request = "NONE"
      <4>1. regState' = regState /\ position' = position
        BY <2>6, <3>5 DEF Moved
      <4>2. \A q : IsLast(q)' <=> IsLast(q)
        BY <2>3, <2>5, <3>4, <3>5 DEF IsLast, Moves
      <4> QED
        BY <2>3, <2>5, <2>6, <4>1, <4>2 DEF DownlinkInvariant, ReportsOK
    <3>6. CASE request # "NONE"
      <4>1. Moves(p)
        BY <2>3, <3>6 DEF Moves
      <4>2. IsLast(p)'
        BY <2>1, <2>3, <2>5, <3>1, <4>1 DEF IsLast
      <4>3. ASSUME NEW q, IsLast(q)'
            PROVE  q = p
        <5>1. q \in All' /\ q.header = "INF" /\ p.batch <= q.batch
          BY <4>1, <4>2, <4>3 DEF IsLast, Moves
        <5>2. q \in All => q.batch \in Int /\ q.batch < batch
          BY <3>1, <5>1, NumbersOfPackets
        <5> QED
          BY <2>1, <2>3, <2>5, <5>1, <5>2
      <4>4. Told(p) = position' /\ (p.says # "PULSE" => regState' = position')
        BY <2>1, <2>3, <2>6, <3>6 DEF Told, Moved, Types
      <4>5. \A r \in All' : p.batch >= r.batch
        BY <2>1, <2>3, <2>5, <3>1
      <4>6. \A r \in All' : r.header = "VAL" => r.says \in States
        BY <2>3, <2>5 DEF DownlinkInvariant, ReportsOK
      <4> QED
        BY <3>3, <4>2, <4>3, <4>4, <4>5, <4>6 DEF ReportsOK
    <3> QED
      BY <3>5, <3>6
  <2> QED
    BY <2>7, <2>8, <2>9, <2>10, <2>11 DEF DownlinkInvariant
<1> QED
  BY <1>1, <1>2

(* What is sent moves, in its order, behind what was sent before.           *)
LEMMA TelemetryKeeps ==
  DownlinkInvariant /\ TelemetryActuate => DownlinkInvariant'
<1> SUFFICES ASSUME DownlinkInvariant, TelemetryActuate
             PROVE  DownlinkInvariant'
  OBVIOUS
<1>1. PICK order \in Orders(enqueue) :
        /\ order \in Seq(Packets) /\ Queue \in Seq(Packets)
        /\ received' \in Seq(Packets) /\ sendQueue' \in Seq(Packets)
        /\ Queue' = Queue \o order
  BY ActuateAppends
<1>2. IsFiniteSet(enqueue)
  BY DEF DownlinkInvariant, CountsOK
<1>3. /\ Range(order) = enqueue
      /\ \A i, j \in DOMAIN order :
           i < j => order[i].timestamp >= order[j].timestamp
  BY <1>2, OrdersHaveAll
<1>4. /\ enqueue' = {} /\ turn' = "command" /\ turn = "send"
      /\ batch' = IF enqueue = {} THEN batch ELSE batch + 1
      /\ UNCHANGED <<build, request, regState, position, count, now>>
  BY DEF TelemetryActuate
<1>5. /\ count \in 0..MaxPackets /\ batch \in 0..MaxPackets
      /\ now \in 0..MaxTime /\ batch <= count
      /\ enqueue # {} => batch < count
  BY DEF DownlinkInvariant, TypeOK, CountsOK
<1>6. Sent' = Sent \cup enqueue /\ All' = All
  BY <1>1, <1>3, <1>4, RangeConcatenation DEF Sent, All
<1>7. TypeOK'
  <2>1. batch' \in 0..MaxPackets
    BY <1>4, <1>5, DownlinkAssumption
  <2> QED
    BY <1>1, <1>4, <2>1 DEF DownlinkInvariant, TypeOK
<1>8. CountsOK'
  BY <1>4, <1>5, FS_EmptySet DEF DownlinkInvariant, CountsOK
<1>9. PacketsOK'
  BY <1>4, <1>5, <1>6, NumbersOfPackets DEF All, DownlinkInvariant, PacketsOK
<1>10. ArrivalOrder'
  <2> SUFFICES ASSUME NEW i \in DOMAIN Queue', NEW j \in DOMAIN Queue', i < j
               PROVE  \/ Queue'[i].batch < Queue'[j].batch
                      \/ /\ Queue'[i].batch = Queue'[j].batch
                         /\ Queue'[i].timestamp >= Queue'[j].timestamp
    BY DEF ArrivalOrder, Queue
  <2>1. /\ Len(Queue) \in Nat /\ Len(order) \in Nat
        /\ DOMAIN Queue = 1..Len(Queue) /\ DOMAIN order = 1..Len(order)
        /\ DOMAIN Queue' = 1..(Len(Queue) + Len(order))
        /\ \A k \in DOMAIN Queue' :
             Queue'[k] = IF k <= Len(Queue) THEN Queue[k]
                         ELSE order[k - Len(Queue)]
    BY <1>1, LenProperties, ConcatProperties
  <2>2. \A k \in DOMAIN Queue : Queue[k] \in Sent
    BY DEF Sent, Range
  <2>3. \A k \in DOMAIN order : order[k] \in enqueue
    BY <1>3 DEF Range
  <2>4. CASE j <= Len(Queue)
    <3>1. /\ i \in DOMAIN Queue /\ j \in DOMAIN Queue
          /\ Queue'[i] = Queue[i] /\ Queue'[j] = Queue[j]
      BY <2>1, <2>4
    <3>2. \A m, n \in DOMAIN Queue : m < n =>
            \/ Queue[m].batch < Queue[n].batch
            \/ /\ Queue[m].batch = Queue[n].batch
               /\ Queue[m].timestamp >= Queue[n].timestamp
      BY DEF DownlinkInvariant, ArrivalOrder, Queue
    <3> QED
      BY <3>1, <3>2
  <2>5. CASE i <= Len(Queue) /\ ~(j <= Len(Queue))
    <3>1. Queue'[i] \in Sent /\ Queue'[j] \in enqueue
      BY <2>1, <2>2, <2>3, <2>5
    <3> QED
      BY <3>1 DEF DownlinkInvariant, PacketsOK
  <2>6. CASE ~(i <= Len(Queue))
    <3>1. /\ i - Len(Queue) \in DOMAIN order /\ j - Len(Queue) \in DOMAIN order
          /\ i - Len(Queue) < j - Len(Queue)
          /\ Queue'[i] = order[i - Len(Queue)]
          /\ Queue'[j] = order[j - Len(Queue)]
      BY <2>1, <2>6
    <3>2. Queue'[i].batch = batch /\ Queue'[j].batch = batch
      BY <2>3, <3>1 DEF DownlinkInvariant, PacketsOK
    <3> QED
      BY <1>3, <3>1, <3>2
  <2> QED
    BY <2>4, <2>5, <2>6
<1>11. ReportsOK'
  BY <1>4, <1>6 DEF DownlinkInvariant, ReportsOK, IsLast
<1> QED
  BY <1>7, <1>8, <1>9, <1>10, <1>11 DEF DownlinkInvariant

(* The clock only moves on.                                                 *)
LEMMA TickKeeps == DownlinkInvariant /\ Tick => DownlinkInvariant'
<1> SUFFICES ASSUME DownlinkInvariant, Tick PROVE DownlinkInvariant'
  OBVIOUS
<1>1. now \in 0..MaxTime /\ now' = now + 1 /\ now' \in 0..MaxTime
  BY DownlinkAssumption DEF DownlinkInvariant, TypeOK, Tick
<1>2. Queue' = Queue /\ Sent' = Sent /\ All' = All
  BY DEF Queue, Sent, All, Tick
<1>3. TypeOK' /\ CountsOK' /\ ArrivalOrder'
  BY <1>1 DEF DownlinkInvariant, TypeOK, CountsOK, ArrivalOrder, Tick
<1>4. PacketsOK'
  BY <1>1, <1>2, NumbersOfPackets DEF All, DownlinkInvariant, PacketsOK, Tick
<1>5. ReportsOK'
  BY <1>2 DEF DownlinkInvariant, ReportsOK, IsLast, Tick
<1> QED
  BY <1>3, <1>4, <1>5 DEF DownlinkInvariant

(* Every turn keeps the invariant.                                          *)
LEMMA DownlinkInvariantHolds == Spec => []DownlinkInvariant
<1>1. DownlinkInvariant /\ UNCHANGED vars => DownlinkInvariant'
  <2> SUFFICES ASSUME DownlinkInvariant, UNCHANGED vars
               PROVE  DownlinkInvariant'
    OBVIOUS
  <2>1. Queue' = Queue /\ Sent' = Sent /\ All' = All
    BY DEF Queue, Sent, All, vars
  <2> QED
    BY <2>1 DEF vars, DownlinkInvariant, TypeOK, CountsOK, PacketsOK,
                ArrivalOrder, ReportsOK, IsLast
<1>2. DownlinkInvariant /\ [Next]_vars => DownlinkInvariant'
  BY <1>1, CommandKeeps, ReportKeeps, ValveKeeps, TelemetryKeeps, TickKeeps
     DEF Next, Loop
<1> QED
  BY <1>2, InitDownlink, PTL DEF Spec

----------------------------------------------------------------------------
(* The queues hold packets, and no more batches than packets are sent, for  *)
(* any number of packets and any times (Downlink.tla's TypeOK).             *)
THEOREM DownlinkTypeCorrect == Spec => []TypeOK
<1>1. DownlinkInvariant => TypeOK
  BY DEF DownlinkInvariant
<1> QED
  BY <1>1, DownlinkInvariantHolds, PTL

(* The packets of one loop reach the ground newest first and those of       *)
(* earlier loops before, whatever build writes how many at a time           *)
(* (Flag::send_packet, TelemetryTask::actuate, write() of either driver).   *)
THEOREM ArrivalsInOrder == Spec => []ArrivalOrder
<1>1. DownlinkInvariant => ArrivalOrder
  BY DEF DownlinkInvariant
<1> QED
  BY <1>1, DownlinkInvariantHolds, PTL

(* With nothing left to send, a last report that is wrong about the valve   *)
(* (its position in ValveDriver) is a batch of ValveControl: a CLOSED after *)
(* a PULSE or before any move (ValveTask::actuate records neither), or one  *)
(* put behind the true report of the actuation of its own loop.             *)
THEOREM StaleViewsExplained == Spec => []StaleViewExplained
<1>1. DownlinkInvariant => StaleViewExplained
  <2> SUFFICES
        ASSUME DownlinkInvariant, enqueue = {}, sendQueue = <<>>,
               NEW i \in DOMAIN received,
               IsReport(received[i]), Told(received[i]) # position,
               \A j \in DOMAIN received : j > i => ~IsReport(received[j])
        PROVE  /\ received[i].header = "VAL"
               /\ \/ /\ received[i].says = "CLOSED"
                     /\ \A k \in 1..(i - 1) :
                          LastMove(k, i) => received[k].says = "PULSE"
                  \/ \E k \in 1..(i - 1) :
                       /\ Moves(received[k]) /\ Told(received[k]) = position
                       /\ received[k].batch = received[i].batch
                       /\ received[k].timestamp >= received[i].timestamp
    BY DEF StaleViewExplained
  <2>1. received \in Seq(Packets) /\ Queue = received
    <3>1. received \in Seq(Packets)
      BY DEF DownlinkInvariant, TypeOK
    <3> QED
      BY <3>1, ConcatEmptySeq DEF Queue
  <2>2. All = Range(received)
    BY <2>1 DEF All, Sent
  <2>3. DOMAIN received = 1..Len(received) /\ Len(received) \in Nat
    BY <2>1, LenProperties
  <2>4. \A k \in DOMAIN received : received[k] \in All
    BY <2>2 DEF Range
  <2>5. \A j \in DOMAIN received :
          received[j].batch \in Int /\ received[j].timestamp \in Int
    BY <2>4, NumbersOfPackets
  <2>6. \A m, n \in DOMAIN received : m < n =>
          \/ received[m].batch < received[n].batch
          \/ /\ received[m].batch = received[n].batch
             /\ received[m].timestamp >= received[n].timestamp
    BY <2>1 DEF DownlinkInvariant, ArrivalOrder, Queue
  <2>7. \A j \in DOMAIN received : j > i => ~Moves(received[j])
    BY DEF IsReport
  (* The last move before i, or at i, is the last of all.                   *)
  <2>8. ASSUME NEW k \in 1..i, Moves(received[k]),
               \A j \in (k + 1)..i : ~Moves(received[j])
        PROVE  IsLast(received[k])
    <3>1. k \in DOMAIN received
      BY <2>3, <2>8
    <3>2. \A j \in DOMAIN received :
            Moves(received[j]) => received[j].batch <= received[k].batch
      <4> SUFFICES ASSUME NEW j \in DOMAIN received, Moves(received[j])
                   PROVE  received[j].batch <= received[k].batch
        OBVIOUS
      <4>1. ~(j > k)
        BY <2>3, <2>7, <2>8
      <4>2. j = k \/ j < k
        BY <2>3, <4>1
      <4> QED
        BY <2>5, <2>6, <3>1, <4>2
    <3> QED
      BY <2>2, <2>4, <2>8, <3>1, <3>2 DEF IsLast, Range
  <2>9. received[i].header = "VAL"
    <3>1. i \in 1..i /\ (i + 1)..i = {}
      BY <2>3
    <3>2. Moves(received[i]) => IsLast(received[i])
      BY <2>8, <3>1
    <3>3. ~Moves(received[i])
      BY <3>2 DEF DownlinkInvariant, ReportsOK
    <3> QED
      BY <3>3 DEF IsReport
  <2>10. received[i].says \in States /\ regState \in States /\ position \in States
    BY <2>4, <2>9 DEF DownlinkInvariant, ReportsOK, TypeOK
  <2>11. SUFFICES ASSUME ~ /\ received[i].says = "CLOSED"
                           /\ \A k \in 1..(i - 1) :
                                LastMove(k, i) => received[k].says = "PULSE"
                  PROVE  \E k \in 1..(i - 1) :
                           /\ Moves(received[k]) /\ Told(received[k]) = position
                           /\ received[k].batch = received[i].batch
                           /\ received[k].timestamp >= received[i].timestamp
    BY <2>9
  <2>12. regState = position
    <3>1. CASE received[i].says # "CLOSED"
      <4>1. position = "CLOSED"
        BY <2>10, <3>1 DEF States, Told
      <4> QED
        BY <2>10, <4>1 DEF States, DownlinkInvariant, ReportsOK
    <3>2. ASSUME NEW k \in 1..(i - 1), LastMove(k, i),
                 received[k].says # "PULSE"
          PROVE  regState = position
      <4>1. k \in 1..i /\ (\A j \in (k + 1)..i : j = i \/ j \in (k + 1)..(i - 1))
        BY <2>3, <3>2
      <4>2. ~Moves(received[i])
        BY <2>9 DEF Moves
      <4>3. IsLast(received[k])
        BY <2>8, <3>2, <4>1, <4>2 DEF LastMove
      <4> QED
        BY <3>2, <4>3 DEF DownlinkInvariant, ReportsOK
    <3> QED
      BY <2>11, <3>1, <3>2
  <2>13. received[i].says # regState
    BY <2>10, <2>12 DEF States, Told
  <2>14. PICK q : IsLast(q) /\ q.batch >= received[i].batch
    BY <2>4, <2>9, <2>13 DEF DownlinkInvariant, ReportsOK
  <2>15. PICK k \in DOMAIN received : received[k] = q
    BY <2>2, <2>14 DEF IsLast, Range
  <2>16. Moves(received[k]) /\ Told(received[k]) = position
    BY <2>14, <2>15 DEF IsLast, DownlinkInvariant, ReportsOK
  <2>17. k < i
    <3>1. k # i
      BY <2>9, <2>16 DEF Moves
    <3>2. ~(k > i)
      BY <2>7, <2>16
    <3> QED
      BY <2>3, <3>1, <3>2
  <2>18. received[k].batch = received[i].batch
         /\ received[k].timestamp >= received[i].timestamp
    BY <2>5, <2>6, <2>14, <2>15, <2>17
  <2>19. k \in 1..(i - 1)
    BY <2>3, <2>17
  <2> QED
    BY <2>16, <2>18, <2>19
<1> QED
  BY <1>1, DownlinkInvariantHolds, PTL
============================================================================
