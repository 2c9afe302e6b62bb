----------------------------- MODULE PacketLink ----------------------------
(***************************************************************************)
(* What the receiving side of the XBee driver promises the tasks: packets  *)
(* of the ground arrive in the order they were sent, each at most once,    *)
(* some not at all. This holds as long as no packet wears down to its $    *)
(* on the way; each that does may repeat, and may put out of order, the    *)
(* packets after it.                                                       *)
(***************************************************************************)
EXTENDS Integers, FiniteSets

CONSTANTS
  MaxSent  \* bound on the packets the ground sends

VARIABLES
  sent,       \* the packets sent: 1..sent
  delivered,  \* how often each has been delivered
  worn        \* the packets that have lost everything but their $, or more

vars == <<sent, delivered, worn>>

Numbers == 1..MaxSent

Init ==
  /\ sent = 0
  /\ delivered = [n \in Numbers |-> 0]
  /\ worn = {}

Send ==
  /\ sent < MaxSent
  /\ sent' = sent + 1
  /\ UNCHANGED <<delivered, worn>>

Wear ==
  /\ worn \subseteq worn' /\ worn' \subseteq 1..sent
  /\ UNCHANGED <<sent, delivered>>

(* The packets that were delivered. *)
Past == {n \in Numbers : delivered[n] > 0}

Deliver(n) ==
  /\ n <= sent
  /\ delivered[n] <= Cardinality({m \in worn : m < n})
  /\ worn = {} => \A m \in Past : m < n
  /\ delivered' = [delivered EXCEPT ![n] = @ + 1]
  /\ UNCHANGED <<sent, worn>>

Next == Send \/ Wear \/ \E n \in Numbers : Deliver(n)

Spec == Init /\ [][Next]_vars
============================================================================
