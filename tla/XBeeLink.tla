------------------------------ MODULE XBeeLink -----------------------------
(***************************************************************************)
(* drivers/XBee, receiving: the characters of the ground's packets arrive  *)
(* one by one in the buffer of the serial port, some are lost, and         *)
(* XBee::read cuts packets out of what has arrived.                        *)
(*                                                                         *)
(* Packets are numbered in the order in which the ground sends them. A     *)
(* packet is four symbols here, the checksum one of them; a symbol carries *)
(* the number of its packet, and generateChecksum is taken to tell the     *)
(* packets apart.                                                          *)
(***************************************************************************)
EXTENDS Integers, Sequences, SequencesExt, FiniteSets

CONSTANTS
  MaxSent  \* bound on the packets the ground sends

ASSUME LinkAssumption == MaxSent \in Nat

VARIABLES
  nSent,     \* the packets the ground has sent: 1..nSent
  air,       \* symbols on their way
  serial,    \* symbols in the buffer of Serial3
  rcvd,      \* the member rcvd: what has been read, and not cut off
  delivered, \* how often read() has returned each packet
  lost       \* the symbols that did not reach rcvd

vars == <<nSent, air, serial, rcvd, delivered, lost>>

Numbers == 1..MaxSent
Symbols == [part : {"^", "text", "sum", "$"}, of : Numbers]

TypeOK ==
  /\ nSent \in 0..MaxSent
  /\ {air, serial, rcvd} \subseteq Seq(Symbols)
  /\ delivered \in [Numbers -> Nat]
  /\ lost \subseteq Symbols

Init ==
  /\ nSent = 0
  /\ air = <<>> /\ serial = <<>> /\ rcvd = <<>>
  /\ delivered = [n \in Numbers |-> 0]
  /\ lost = {}

----------------------------------------------------------------------------
Symbol(part, n) == [part |-> part, of |-> n]

(* A packet as Log::toString writes it. *)
Wire(n) ==
  <<Symbol("^", n), Symbol("text", n), Symbol("sum", n), Symbol("$", n)>>

GroundSends ==
  /\ nSent < MaxSent
  /\ nSent' = nSent + 1
  /\ air' = air \o Wire(nSent')
  /\ UNCHANGED <<serial, rcvd, delivered, lost>>

Arrive ==
  /\ air # <<>>
  /\ serial' = Append(serial, Head(air))
  /\ air' = Tail(air)
  /\ UNCHANGED <<nSent, rcvd, delivered, lost>>

(* A symbol is lost on the radio, or finds the serial buffer full. *)
Lose ==
  /\ air # <<>>
  /\ lost' = lost \cup {Head(air)}
  /\ air' = Tail(air)
  /\ UNCHANGED <<nSent, serial, rcvd, delivered>>

(* XBee::write calls begin() on the port again, which may drop what waits   *)
(* in its buffer.                                                           *)
Flush ==
  /\ serial # <<>>
  /\ lost' = lost \cup ToSet(serial)
  /\ serial' = <<>>
  /\ UNCHANGED <<nSent, air, rcvd, delivered>>

----------------------------------------------------------------------------
Indices(buffer, part) == {i \in DOMAIN buffer : buffer[i].part = part}

(* string::find: 0 if there is none. *)
FirstOf(buffer, part) ==
  IF Indices(buffer, part) = {} THEN 0 ELSE Min(Indices(buffer, part))

(* Util::getMaxIndex: 0 if there is none. *)
LastOf(buffer, part) == Max({0} \cup Indices(buffer, part))

(* Slip: the last ^ of the whole buffer opens the packet.                   *)
StartAnywhere(buffer) == LastOf(buffer, "^")

(* Where the last ^ is that can open the packet ended by the first $, or 0. *)
(* The search stops before the character that precedes the $; for a $ at    *)
(* the front, packet_end - 1 wraps around, and the whole buffer is searched.*)
Start(buffer) ==
  LET end == FirstOf(buffer, "$")
  IN IF end = 1 THEN LastOf(buffer, "^")
     ELSE LastOf(SubSeq(buffer, 1, end - 2), "^")

(* The packet between them. After a $ at the front its length wraps around  *)
(* too, and it is the rest of the buffer.                                   *)
Incoming(buffer) ==
  LET end == FirstOf(buffer, "$")
  IN SubSeq(buffer, Start(buffer) + 1,
            IF end = 1 THEN Len(buffer) ELSE end - 1)

(* Slip: the checksum is not compared.                                      *)
ValidUnchecked(packet) == packet # <<>> /\ packet[1].part = "text"

(* A text with its own checksum. *)
Valid(packet) ==
  \E n \in Numbers : packet = <<Symbol("text", n), Symbol("sum", n)>>

(* Slip: what has been cut stays in the buffer.                             *)
RestUncut(buffer) == buffer

(* What is left in rcvd. *)
Rest(buffer) == SubSeq(buffer, FirstOf(buffer, "$") + 1, Len(buffer))

(* XBee::read with read_buffer: everything that has arrived is taken, and   *)
(* at most one packet cut off, which is returned if it is valid.            *)
Read ==
  LET buffer == rcvd \o serial
      ended == FirstOf(buffer, "$") # 0
      accepted == ended /\ Start(buffer) # 0 /\ Valid(Incoming(buffer))
  IN /\ serial' = <<>>
     /\ rcvd' = IF ended THEN Rest(buffer) ELSE buffer
     /\ delivered' = [n \in Numbers |->
          IF accepted /\ Incoming(buffer)[1].of = n
          THEN delivered[n] + 1 ELSE delivered[n]]
     /\ UNCHANGED <<nSent, air, lost>>

Next ==
  \/ GroundSends
  \/ Arrive
  \/ Lose
  \/ Flush
  \/ Read

(* What is on its way arrives or gets lost, and the main loop reads again   *)
(* and again.                                                               *)
Fairness == WF_vars(Arrive \/ Lose) /\ WF_vars(Read)

Spec == Init /\ [][Next]_vars /\ Fairness

----------------------------------------------------------------------------
Damaged == {s.of : s \in lost}

OnlyEndArrived(n) == ToSet(Wire(n)) \ lost = {Symbol("$", n)}

(* Whatever is lost, and however the rest of several packets runs together, *)
(* no packet is returned whose text or checksum did not arrive, and none    *)
(* before it was sent.                                                      *)
OnlyWholeTexts ==
  \A n \in Numbers : delivered[n] > 0 =>
    n <= nSent /\ lost \cap {Symbol("text", n), Symbol("sum", n)} = {}

(* A packet is returned once, and once more for each packet before it of    *)
(* which only the $ arrived, and never for another reason: a read() that    *)
(* finds a $ at the front takes what follows it for a packet already, and   *)
(* takes it again when its own $ has arrived.                               *)
RepeatsExplained ==
  \A n \in Numbers :
    delivered[n] <= 1 + Cardinality({m \in 1..(n - 1) : OnlyEndArrived(m)})

Worn == {n \in Numbers : ToSet(Wire(n)) \ lost \subseteq {Symbol("$", n)}}

Promise == INSTANCE PacketLink WITH sent <- nSent, worn <- Worn

(* The driver implements PacketLink: while no packet has worn down to its $ *)
(* or to nothing, packets are returned in the order they were sent and once *)
(* each, whatever else is lost or dropped with the buffer.                  *)
ImplementsLink == Promise!Spec

(* A packet of which nothing is lost is returned at last, whatever is lost  *)
(* of the packets around it, and although each read() cuts one packet: the  *)
(* link has caught up with the ground again and again.                      *)
IntactDelivered ==
  []<>(\A n \in 1..nSent : delivered[n] > 0 \/ n \in Damaged)
============================================================================
