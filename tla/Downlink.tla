------------------------------ MODULE Downlink -----------------------------
(***************************************************************************)
(* The way of a packet from Flag::send_packet to the ground: the priority  *)
(* queue of global_flag, TelemetryTask::actuate, the queue of the driver,  *)
(* and its write(). The board (XBee) writes all it holds, the desktop      *)
(* build (Telemetry) one packet for each actuate().                        *)
(*                                                                         *)
(* The packets are those about one valve: the reply to an SAC, the batch   *)
(* of ValveControl, and the report of ValveTask, which a loop queues in    *)
(* this order. They are numbered as they are queued. A code that names no  *)
(* actuation type, or no priority, ends the program before the report and  *)
(* is left to ValveTask and FlightLoop.                                    *)
(***************************************************************************)
EXTENDS Integers, Sequences, SequencesExt, FiniteSets

CONSTANTS
  MaxPackets,  \* bound on the packets queued
  MaxTime      \* bound on the clock

ASSUME DownlinkAssumption == MaxPackets \in Nat /\ MaxTime \in Nat

VARIABLES
  build,     \* which driver the program was built with
  turn,      \* whose turn it is in the loop
  request,   \* the actuation type in the flag of the valve, or "nothing"
  regState,  \* the state of the valve in the registry
  position,  \* the state of the valve in ValveDriver
  enqueue,   \* global_flag.telemetry.enqueue
  sendQueue, \* telemetry->send_queue of the driver
  received,  \* what the ground has received
  count,     \* how many packets have been queued
  batch,     \* how often actuate() has found packets in enqueue
  now        \* Util::getTime

vars == <<build, turn, request, regState, position, enqueue, sendQueue,
          received, count, batch, now>>

States == {"OPEN", "CLOSED"}

(* What an accepted SAC may ask for: every ActuationType.                   *)
Types == {"NONE", "CLOSE_VENT", "OPEN_VENT", "PULSE"}

(* An SAC and an INF say an actuation type, a VAL says the recorded state.  *)
Packets == [header : {"SAC", "VAL", "INF"}, says : States \cup Types,
            timestamp : 0..MaxTime, batch : 0..MaxPackets, n : 1..MaxPackets]

TypeOK ==
  /\ build \in {"TEENSY", "DESKTOP"}
  /\ turn \in {"command", "report", "valve", "send"}
  /\ request \in Types \cup {"nothing"}
  /\ {regState, position} \subseteq States
  /\ enqueue \subseteq Packets
  /\ {sendQueue, received} \subseteq Seq(Packets)
  /\ count \in 0..MaxPackets /\ batch \in 0..MaxPackets
  /\ now \in 0..MaxTime

(* The registry starts with CLOSED, the driver with the natural position.   *)
Init ==
  /\ build \in {"TEENSY", "DESKTOP"}
  /\ turn = "command"
  /\ request = "nothing"
  /\ regState = "CLOSED" /\ position \in States
  /\ enqueue = {}
  /\ sendQueue = <<>> /\ received = <<>>
  /\ count = 0 /\ batch = 0
  /\ now = 0

----------------------------------------------------------------------------
(* Flag::send_packet gives a packet the time of the call.                   *)
SendPacket(header, says) ==
  /\ count' = count + 1
  /\ enqueue' = enqueue \cup
       {[header |-> header, says |-> says, timestamp |-> now,
         batch |-> batch, n |-> count']}

SendsNothing == UNCHANGED <<enqueue, count>>

(* Bound: what is begun here ends within MaxPackets.                        *)
RoomFor(packets) == count + packets <= MaxPackets

(* TelemetryControl accepts an SAC, or there is none. The priority it gives *)
(* may be NONE, and such a request is as good as none.                      *)
Command ==
  /\ turn = "command"
  /\ turn' = "report"
  /\ \/ /\ RoomFor(2)
        /\ \E type \in Types :
             request' \in {type, "nothing"} /\ SendPacket("SAC", type)
     \/ UNCHANGED request /\ SendsNothing
  /\ UNCHANGED <<build, regState, position, sendQueue, received, batch, now>>

(* ValveControl sends its batch, or it is not due.                          *)
Report ==
  /\ turn = "report"
  /\ turn' = "valve"
  /\ \/ /\ RoomFor(IF request = "nothing" THEN 1 ELSE 2)
        /\ SendPacket("VAL", regState)
     \/ SendsNothing
  /\ UNCHANGED <<build, request, regState, position, sendQueue, received,
                 batch, now>>

(* The state after an actuation: ValveDriver opens for a PULSE too, the     *)
(* registry is told of OPEN_VENT and CLOSE_VENT only.                       *)
Moved(state, type, openers) ==
  CASE type \in openers -> "OPEN"
    [] type = "CLOSE_VENT" -> "CLOSED"
    [] OTHER -> state

(* Slip: the registry is told the type, not the state.                      *)
ValveActuateRaw ==
  /\ turn = "valve"
  /\ turn' = "send"
  /\ regState' = IF request = "nothing" THEN regState ELSE request
  /\ position' = Moved(position, request, {"OPEN_VENT", "PULSE"})
  /\ IF request = "nothing" THEN SendsNothing ELSE SendPacket("INF", request)
  /\ request' = "nothing"
  /\ UNCHANGED <<build, sendQueue, received, batch, now>>

(* Slip: an opening is not reported.                                        *)
ValveActuateSilent ==
  /\ turn = "valve"
  /\ turn' = "send"
  /\ regState' = Moved(regState, request, {"OPEN_VENT"})
  /\ position' = Moved(position, request, {"OPEN_VENT", "PULSE"})
  /\ IF request = "CLOSE_VENT" THEN SendPacket("INF", request) ELSE SendsNothing
  /\ request' = "nothing"
  /\ UNCHANGED <<build, sendQueue, received, batch, now>>

(* ValveTask serves a request, if there is one, and reports its type.       *)
ValveActuate ==
  /\ turn = "valve"
  /\ turn' = "send"
  /\ regState' = Moved(regState, request, {"OPEN_VENT"})
  /\ position' = Moved(position, request, {"OPEN_VENT", "PULSE"})
  /\ IF request = "nothing" THEN SendsNothing ELSE SendPacket("INF", request)
  /\ request' = "nothing"
  /\ UNCHANGED <<build, sendQueue, received, batch, now>>

----------------------------------------------------------------------------
(* Slip: the comparison of Log::compareTo is turned around.                 *)
OldestFirst(packets) ==
  {order \in SetToSeqs(packets) :
     \A i, j \in DOMAIN order :
       i < j => order[i].timestamp <= order[j].timestamp}

(* The orders in which enqueue() and actuate() may take packets off their   *)
(* priority queues: Log::compareTo puts the newest timestamp on top, and    *)
(* says nothing of equal ones.                                              *)
Orders(packets) ==
  {order \in SetToSeqs(packets) :
     \A i, j \in DOMAIN order :
       i < j => order[i].timestamp >= order[j].timestamp}

(* Slip: the whole queue is taken for the first packet.                     *)
WrittenOfOne(queue) == IF queue = <<>> THEN 0 ELSE 1

(* How many packets of the driver's queue write() sends.                    *)
Written(queue) ==
  IF build = "DESKTOP" /\ queue # <<>> THEN 1 ELSE Len(queue)

(* Slip: XBee::write clears the queue, of which it has written one packet.  *)
TelemetryActuateClearing ==
  /\ turn = "send"
  /\ turn' = "command"
  /\ \E order \in Orders(enqueue) :
       LET queue == sendQueue \o order
       IN /\ received' = received \o SubSeq(queue, 1, WrittenOfOne(queue))
          /\ sendQueue' = SubSeq(queue, Written(queue) + 1, Len(queue))
  /\ enqueue' = {}
  /\ batch' = IF enqueue = {} THEN batch ELSE batch + 1
  /\ UNCHANGED <<build, request, regState, position, count, now>>

(* TelemetryTask::actuate, with enqueue() and the write() of the driver.    *)
TelemetryActuate ==
  /\ turn = "send"
  /\ turn' = "command"
  /\ \E order \in Orders(enqueue) :
       LET queue == sendQueue \o order
       IN /\ received' = received \o SubSeq(queue, 1, Written(queue))
          /\ sendQueue' = SubSeq(queue, Written(queue) + 1, Len(queue))
  /\ enqueue' = {}
  /\ batch' = IF enqueue = {} THEN batch ELSE batch + 1
  /\ UNCHANGED <<build, request, regState, position, count, now>>

Tick ==
  /\ now < MaxTime
  /\ now' = now + 1
  /\ UNCHANGED <<build, turn, request, regState, position, enqueue, sendQueue,
                 received, count, batch>>

Loop == Command \/ Report \/ ValveActuate \/ TelemetryActuate

Next == Loop \/ Tick

(* The main loop never waits.                                               *)
Fairness == WF_vars(Loop)

Spec == Init /\ [][Next]_vars /\ Fairness

----------------------------------------------------------------------------
(* The packets of one loop reach the ground newest first, so a report of    *)
(* what a command did comes before the reply that accepts it; those of an   *)
(* earlier loop come before those of a later one, also when the desktop     *)
(* build is several loops behind.                                           *)
ArrivalOrder ==
  LET queue == received \o sendQueue
  IN \A i, j \in DOMAIN queue : i < j =>
       \/ queue[i].batch < queue[j].batch
       \/ /\ queue[i].batch = queue[j].batch
          /\ queue[i].timestamp >= queue[j].timestamp

(* The packets from which the ground learns the state of the valve: the     *)
(* batches, and the reports of actuations that move it.                     *)
Moves(p) == p.header = "INF" /\ p.says # "NONE"
IsReport(p) == p.header = "VAL" \/ Moves(p)

(* What they tell of it.                                                    *)
Told(p) == IF p.says \in {"OPEN", "OPEN_VENT", "PULSE"} THEN "OPEN" ELSE "CLOSED"

(* The report received[k] of an actuation is the last before received[i].   *)
LastMove(k, i) ==
  /\ k \in 1..(i - 1) /\ Moves(received[k])
  /\ \A j \in (k + 1)..(i - 1) : ~Moves(received[j])

(* A ground that believes the last report it received is wrong about the    *)
(* valve, with nothing left to be sent, in two cases only. That report is a *)
(* batch of ValveControl in both: a CLOSED of a registry that was never     *)
(* told of the opening, because the last actuation reported is a PULSE or   *)
(* there is none and the valve is open by nature; or a batch put behind the *)
(* newer and true report of the actuation that followed it in its own loop. *)
StaleViewExplained ==
  enqueue = {} /\ sendQueue = <<>> =>
    \A i \in DOMAIN received :
      /\ IsReport(received[i]) /\ Told(received[i]) # position
      /\ \A j \in DOMAIN received : j > i => ~IsReport(received[j])
      => /\ received[i].header = "VAL"
         /\ \/ /\ received[i].says = "CLOSED"
               /\ \A k \in 1..(i - 1) :
                    LastMove(k, i) => received[k].says = "PULSE"
            \/ \E k \in 1..(i - 1) :
                 /\ Moves(received[k]) /\ Told(received[k]) = position
                 /\ received[k].batch = received[i].batch
                 /\ received[k].timestamp >= received[i].timestamp

(* Every packet that is queued reaches the ground: all that the program     *)
(* sends in a loop, though the desktop build writes one packet per loop.    *)
AllReceived ==
  \A k \in 1..MaxPackets :
    count >= k ~> \E p \in ToSet(received) : p.n = k
============================================================================
