--------------------------- MODULE XBeeLinkProofs --------------------------
(***************************************************************************)
(* What the receiving side of the XBee driver keeps, for any number of     *)
(* packets and whatever is lost.                                           *)
(***************************************************************************)
EXTENDS XBeeLink, FiniteSetTheorems, TLAPS

----------------------------------------------------------------------------
(* A set of naturals that is not empty has a least element.                 *)
LEMMA LeastNumber ==
  ASSUME NEW S, S \subseteq Nat, S # {}
  PROVE  \E x \in S : \A y \in S : x <= y
  <1> DEFINE Less == OpToRel(<, Nat)
  <1>1. IsWellFoundedOn(Less, Nat)
    BY NatLessThanWellFounded
  <1>2. \A x, y \in Nat : y < x => <<y, x>> \in Less
    BY DEF OpToRel
  <1> HIDE DEF Less
  <1>3. PICK x \in S : \A y \in S : <<y, x>> \notin Less
    BY <1>1, WFMin
  <1>4. ASSUME NEW y \in S PROVE x <= y
    <2>1. x \in Nat /\ y \in Nat
      OBVIOUS
    <2>2. ~(y < x)
      BY <1>2, <1>3, <2>1, Zenon
    <2> QED
      BY <2>1, <2>2
  <1> QED
    BY <1>4

(* If it has a bound, it has a greatest element, too.                       *)
LEMMA GreatestNumber ==
  ASSUME NEW n \in Nat, NEW S, S \subseteq 0..n, S # {}
  PROVE  \E x \in S : \A y \in S : y <= x
  <1> DEFINE Below == {n - y : y \in S}
  <1>1. Below \subseteq Nat /\ Below # {}
    <2>1. \A y \in S : y \in Int /\ n - y \in Nat
      OBVIOUS
    <2> QED
      BY <2>1
  <1>2. PICK b \in Below : \A c \in Below : b <= c
    <2> HIDE DEF Below
    <2> QED
      BY <1>1, LeastNumber
  <1>3. PICK x \in S : b = n - x
    OBVIOUS
  <1>4. ASSUME NEW y \in S PROVE y <= x
    <2>1. n - x <= n - y
      BY <1>2, <1>3
    <2> QED
      BY <2>1
  <1> QED
    BY <1>4

----------------------------------------------------------------------------
(* Every symbol is in one place: on its way, in the serial port, in rcvd,   *)
(* or lost; the text and the checksum of a packet that was returned have    *)
(* come to rcvd, where nothing gets lost.                                   *)
LinkInvariant ==
  /\ TypeOK
  /\ \A i \in DOMAIN air : air[i].of <= nSent
  /\ \A i, j \in DOMAIN air : air[i] = air[j] => i = j
  /\ \A s \in ToSet(serial) \cup ToSet(rcvd) \cup lost : s.of <= nSent
  /\ ToSet(rcvd) \cap (ToSet(serial) \cup ToSet(air) \cup lost) = {}
  /\ ToSet(serial) \cap (ToSet(air) \cup lost) = {}
  /\ ToSet(air) \cap lost = {}
  /\ \A n \in Numbers : delivered[n] > 0 =>
       /\ n <= nSent
       /\ {Symbol("text", n), Symbol("sum", n)}
            \cap (ToSet(serial) \cup ToSet(air) \cup lost) = {}

(* Every symbol has the number of a packet.                                 *)
LEMMA NaturalNumbers == \A s \in Symbols : s.of \in Nat
  BY LinkAssumption DEF Symbols, Numbers

(* string::find gives a place in the buffer, or 0.                          *)
LEMMA FirstPlace ==
  ASSUME NEW buffer \in Seq(Symbols), NEW part
  PROVE  /\ FirstOf(buffer, part) \in 0..Len(buffer)
         /\ FirstOf(buffer, part) # 0 =>
              FirstOf(buffer, part) \in Indices(buffer, part)
  <1>1. Indices(buffer, part) \subseteq 1..Len(buffer)
    BY DEF Indices
  <1>2. CASE Indices(buffer, part) = {}
    BY <1>2 DEF FirstOf
  <1>3. CASE Indices(buffer, part) # {}
    <2>1. Len(buffer) \in Nat /\ Indices(buffer, part) \subseteq Nat
      BY <1>1
    <2>2. \E x \in Indices(buffer, part) :
            \A y \in Indices(buffer, part) : x <= y
      BY <1>3, <2>1, LeastNumber
    <2>3. Min(Indices(buffer, part)) \in Indices(buffer, part)
      BY <2>2 DEF Min
    <2> QED
      BY <1>1, <1>3, <2>3 DEF FirstOf
  <1> QED
    BY <1>2, <1>3

(* Util::getMaxIndex, too.                                                  *)
LEMMA LastPlace ==
  ASSUME NEW buffer \in Seq(Symbols), NEW part
  PROVE  LastOf(buffer, part) \in 0..Len(buffer)
  <1> DEFINE S == {0} \cup Indices(buffer, part)
  <1>1. Len(buffer) \in Nat /\ S \subseteq 0..Len(buffer) /\ S # {}
    BY DEF Indices
  <1> HIDE DEF S
  <1>2. \E x \in S : \A y \in S : y <= x
    BY <1>1, GreatestNumber
  <1>3. Max(S) \in S
    <2>1. \E x \in S : \A y \in S : x >= y
      BY <1>1, <1>2
    <2> QED
      BY <2>1 DEF Max
  <1> QED
    BY <1>1, <1>3 DEF LastOf, S

(* What is cut out of a buffer, or left in it, came in it.                  *)
LEMMA CutIsPart ==
  ASSUME NEW buffer \in Seq(Symbols), NEW a \in Nat, a >= 1,
         NEW b \in Nat, b <= Len(buffer)
  PROVE  /\ SubSeq(buffer, a, b) \in Seq(Symbols)
         /\ ToSet(SubSeq(buffer, a, b)) \subseteq ToSet(buffer)
  <1>1. Len(buffer) \in Nat /\ \A i \in 1..Len(buffer) : buffer[i] \in Symbols
    OBVIOUS
  <1>2. SubSeq(buffer, a, b) \in Seq(Symbols)
    BY <1>1
  <1>3. ASSUME NEW i \in DOMAIN SubSeq(buffer, a, b)
        PROVE  SubSeq(buffer, a, b)[i] \in ToSet(buffer)
    <2>1. SubSeq(buffer, a, b)[i] = buffer[a + i - 1]
          /\ a + i - 1 \in DOMAIN buffer
      BY <1>1
    <2> QED
      BY <2>1 DEF ToSet
  <1> QED
    BY <1>2, <1>3 DEF ToSet

(* The ^ stands before the text, and the text before the $, unless the $    *)
(* is at the front.                                                         *)
LEMMA StartPlace ==
  ASSUME NEW buffer \in Seq(Symbols), FirstOf(buffer, "$") # 0
  PROVE  /\ Start(buffer) \in Nat
         /\ FirstOf(buffer, "$") # 1 =>
              Start(buffer) <= FirstOf(buffer, "$") - 2
  <1> DEFINE end == FirstOf(buffer, "$")
  <1>1. end \in 1..Len(buffer) /\ Len(buffer) \in Nat
    BY FirstPlace
  <1> HIDE DEF end
  <1>2. CASE end = 1
    BY <1>1, <1>2, LastPlace DEF Start, end
  <1>3. CASE end # 1
    <2>1. /\ SubSeq(buffer, 1, end - 2) \in Seq(Symbols)
          /\ Len(SubSeq(buffer, 1, end - 2)) = end - 2
      <3>1. end - 2 \in Nat /\ end - 2 <= Len(buffer)
        BY <1>1, <1>3
      <3> QED
        BY <3>1, CutIsPart
    <2>2. Start(buffer) = LastOf(SubSeq(buffer, 1, end - 2), "^")
      BY <1>3 DEF Start, end
    <2>3. LastOf(SubSeq(buffer, 1, end - 2), "^")
            \in 0..Len(SubSeq(buffer, 1, end - 2))
      BY <2>1, LastPlace, Zenon
    <2> QED
      BY <1>1, <1>3, <2>1, <2>2, <2>3 DEF end
  <1> QED
    BY <1>2, <1>3

(* The packet read() looks at came in the buffer, if it finds one at all.   *)
LEMMA IncomingIsPart ==
  ASSUME NEW buffer \in Seq(Symbols), FirstOf(buffer, "$") # 0,
         Start(buffer) # 0
  PROVE  ToSet(Incoming(buffer)) \subseteq ToSet(buffer)
  <1> DEFINE end == FirstOf(buffer, "$")
  <1>1. end \in 1..Len(buffer) /\ Len(buffer) \in Nat
    BY FirstPlace
  <1> HIDE DEF end
  <1>2. Start(buffer) \in Nat
    BY StartPlace
  <1>3. Incoming(buffer) = SubSeq(buffer, Start(buffer) + 1,
                                  IF end = 1 THEN Len(buffer) ELSE end - 1)
    BY DEF Incoming, end
  <1> QED
    BY <1>1, <1>2, <1>3, CutIsPart

(* Its first symbol stands before the $, unless the $ is at the front.      *)
LEMMA IncomingPlace ==
  ASSUME NEW buffer \in Seq(Symbols), FirstOf(buffer, "$") # 0,
         Start(buffer) # 0, Len(Incoming(buffer)) > 0
  PROVE  \E i \in DOMAIN buffer :
           /\ Incoming(buffer)[1] = buffer[i]
           /\ IF FirstOf(buffer, "$") = 1 THEN i > 1
                                          ELSE i < FirstOf(buffer, "$")
  <1> DEFINE end == FirstOf(buffer, "$")
             i == Start(buffer) + 1
             j == IF end = 1 THEN Len(buffer) ELSE end - 1
  <1>1. end \in 1..Len(buffer) /\ Len(buffer) \in Nat
    BY FirstPlace
  <1>2. i \in Nat /\ i > 1 /\ (end # 1 => i < end)
    BY <1>1, StartPlace
  <1>3. Incoming(buffer) = SubSeq(buffer, i, j)
    BY DEF Incoming
  <1> HIDE DEF end, i
  <1>4. j \in Nat /\ j <= Len(buffer)
    BY <1>1
  <1> HIDE DEF j
  <1>5. i <= j
    BY <1>2, <1>3, <1>4
  <1>6. i \in DOMAIN buffer /\ SubSeq(buffer, i, j)[1] = buffer[i]
    BY <1>1, <1>2, <1>4, <1>5
  <1> QED
    BY <1>2, <1>3, <1>6 DEF end

(* The parts of two buffers put together.                                   *)
LEMMA JoinParts ==
  ASSUME NEW s \in Seq(Symbols), NEW t \in Seq(Symbols)
  PROVE  /\ s \o t \in Seq(Symbols)
         /\ ToSet(s \o t) = ToSet(s) \cup ToSet(t)
         /\ \A i \in DOMAIN (s \o t) :
              \/ i \in DOMAIN s /\ (s \o t)[i] = s[i]
              \/ /\ i \notin DOMAIN s /\ i - Len(s) \in DOMAIN t
                 /\ (s \o t)[i] = t[i - Len(s)]
  <1>1. Len(s) \in Nat /\ Len(t) \in Nat /\ s \o t \in Seq(Symbols)
        /\ Len(s \o t) = Len(s) + Len(t)
    OBVIOUS
  <1>2. \A i \in DOMAIN s : i \in DOMAIN (s \o t) /\ (s \o t)[i] = s[i]
    BY <1>1
  <1>3. \A i \in DOMAIN t : /\ i + Len(s) \in DOMAIN (s \o t)
                            /\ (s \o t)[i + Len(s)] = t[i]
    BY <1>1
  <1>4. \A i \in DOMAIN (s \o t) :
          \/ i \in DOMAIN s /\ (s \o t)[i] = s[i]
          \/ /\ i \notin DOMAIN s /\ i - Len(s) \in DOMAIN t
             /\ (s \o t)[i] = t[i - Len(s)]
    BY <1>1
  <1>5. ToSet(s \o t) \subseteq ToSet(s) \cup ToSet(t)
    BY <1>4 DEF ToSet
  <1>6. ToSet(s) \subseteq ToSet(s \o t)
    BY <1>2 DEF ToSet
  <1>7. ToSet(t) \subseteq ToSet(s \o t)
    BY <1>3 DEF ToSet
  <1> QED
    BY <1>1, <1>4, <1>5, <1>6, <1>7

----------------------------------------------------------------------------
(* The ground sends four new symbols.                                       *)
LEMMA SendKeeps == LinkInvariant /\ GroundSends => LinkInvariant'
  <1> SUFFICES ASSUME LinkInvariant, GroundSends PROVE LinkInvariant'
    OBVIOUS
  <1> DEFINE wire == Wire(nSent + 1)
  <1>1. /\ nSent \in Nat /\ nSent' = nSent + 1 /\ nSent' \in 0..MaxSent
        /\ nSent + 1 \in Numbers /\ air' = air \o wire
        /\ UNCHANGED <<serial, rcvd, delivered, lost>>
    BY LinkAssumption DEF GroundSends, LinkInvariant, TypeOK, Numbers
  <1>2. /\ wire \in Seq(Symbols) /\ Len(wire) = 4
        /\ \A i \in DOMAIN wire : wire[i].of = nSent + 1
        /\ \A i, j \in DOMAIN wire : wire[i] = wire[j] => i = j
    BY <1>1 DEF Wire, Symbol, Symbols
  <1> HIDE DEF wire
  <1>3. air \in Seq(Symbols) /\ Len(air) \in Nat
    BY DEF LinkInvariant, TypeOK
  <1>4. air' \in Seq(Symbols) /\ ToSet(air') = ToSet(air) \cup ToSet(wire)
    BY <1>1, <1>2, <1>3, JoinParts
  <1>5. \A i \in DOMAIN air' :
          \/ i \in DOMAIN air /\ air'[i] = air[i]
          \/ /\ i \notin DOMAIN air /\ i - Len(air) \in DOMAIN wire
             /\ air'[i] = wire[i - Len(air)]
    BY <1>1, <1>2, <1>3, JoinParts
  <1>6. \A i \in DOMAIN air : air[i].of <= nSent
    BY DEF LinkInvariant
  <1>7. \A i \in DOMAIN air' : air'[i].of <= nSent'
    <2>1. \A i \in DOMAIN air : air[i].of \in Nat
      <3>1. \A i \in DOMAIN air : air[i] \in Symbols
        BY <1>3
      <3> QED
        BY <3>1, NaturalNumbers
    <2> QED
      BY <1>1, <1>2, <1>5, <1>6, <2>1
  <1>8. \A i, j \in DOMAIN air' : air'[i] = air'[j] => i = j
    <2> SUFFICES ASSUME NEW i \in DOMAIN air', NEW j \in DOMAIN air',
                        air'[i] = air'[j]
                 PROVE  i = j
      OBVIOUS
    <2>1. i \in Int /\ j \in Int
      BY <1>4
    <2>2. CASE i \in DOMAIN air /\ j \in DOMAIN air
      BY <1>5, <2>2 DEF LinkInvariant
    <2>3. CASE i \notin DOMAIN air /\ j \notin DOMAIN air
      <3>1. i - Len(air) = j - Len(air)
        BY <1>2, <1>5, <2>3
      <3> QED
        BY <1>3, <2>1, <3>1
    <2>4. CASE i \in DOMAIN air /\ j \notin DOMAIN air
      BY <1>1, <1>2, <1>5, <1>6, <2>4
    <2>5. CASE i \notin DOMAIN air /\ j \in DOMAIN air
      BY <1>1, <1>2, <1>5, <1>6, <2>5
    <2> QED
      BY <2>2, <2>3, <2>4, <2>5
  <1>9. \A s \in ToSet(wire) : s.of = nSent + 1
    BY <1>2 DEF ToSet
  <1>10. \A s \in ToSet(serial) \cup ToSet(rcvd) \cup lost : s.of <= nSent
    BY DEF LinkInvariant
  <1>11. ToSet(wire) \cap (ToSet(serial) \cup ToSet(rcvd) \cup lost) = {}
    BY <1>1, <1>9, <1>10
  <1>12. \A s \in ToSet(serial) \cup ToSet(rcvd) \cup lost : s.of <= nSent'
    <2>1. \A s \in ToSet(serial) \cup ToSet(rcvd) \cup lost : s.of \in Nat
      <3>1. ToSet(serial) \cup ToSet(rcvd) \cup lost \subseteq Symbols
        BY DEF LinkInvariant, TypeOK, ToSet
      <3> QED
        BY <3>1, NaturalNumbers
    <2> QED
      BY <1>1, <1>10, <2>1
  <1>13. ASSUME NEW n \in Numbers, delivered'[n] > 0
         PROVE  /\ n <= nSent'
                /\ {Symbol("text", n), Symbol("sum", n)}
                     \cap (ToSet(serial) \cup ToSet(air') \cup lost) = {}
    <2>1. /\ n <= nSent
          /\ {Symbol("text", n), Symbol("sum", n)}
               \cap (ToSet(serial) \cup ToSet(air) \cup lost) = {}
      BY <1>1, <1>13 DEF LinkInvariant
    <2>2. n \in Nat
      BY DEF Numbers
    <2>3. {Symbol("text", n), Symbol("sum", n)} \cap ToSet(wire) = {}
      BY <1>1, <1>9, <2>1, <2>2 DEF Symbol
    <2> QED
      BY <1>1, <1>4, <2>1, <2>2, <2>3
  <1>14. TypeOK'
    BY <1>1, <1>4 DEF LinkInvariant, TypeOK
  <1> QED
    BY <1>1, <1>4, <1>7, <1>8, <1>11, <1>12, <1>13, <1>14
      DEF LinkInvariant

(* A symbol arrives, or is lost.                                            *)
LEMMA AirMoves == LinkInvariant /\ (Arrive \/ Lose) => LinkInvariant'
  <1> SUFFICES ASSUME LinkInvariant, Arrive \/ Lose PROVE LinkInvariant'
    OBVIOUS
  <1>1. air \in Seq(Symbols) /\ serial \in Seq(Symbols) /\ air # <<>>
        /\ air' = Tail(air)
    BY DEF LinkInvariant, TypeOK, Arrive, Lose
  <1>2. Len(air) \in Nat \ {0} /\ Head(air) = air[1] /\ Head(air) \in Symbols
    BY <1>1
  <1>3. /\ air' \in Seq(Symbols)
        /\ \A i \in DOMAIN air' : i + 1 \in DOMAIN air /\ air'[i] = air[i + 1]
    BY <1>1, <1>2
  <1>4. /\ \A i \in DOMAIN air' : air'[i].of <= nSent
        /\ \A i, j \in DOMAIN air' : air'[i] = air'[j] => i = j
    <2>1. \A i \in DOMAIN air' : i \in Int
      BY <1>3
    <2> QED
      BY <1>3, <2>1 DEF LinkInvariant
  <1>5. ToSet(air') \subseteq ToSet(air)
    BY <1>3 DEF ToSet
  <1>6. Head(air) \in ToSet(air)
    BY <1>2 DEF ToSet
  <1>7. Head(air) \notin ToSet(air')
    <2>1. \A i \in DOMAIN air' : air[i + 1] # air[1]
      BY <1>2, <1>3 DEF LinkInvariant
    <2> QED
      BY <1>2, <1>3, <2>1 DEF ToSet
  <1>8. Head(air).of <= nSent
    BY <1>2 DEF LinkInvariant
  <1>9. CASE Arrive
    <2>1. /\ serial' = Append(serial, Head(air))
          /\ UNCHANGED <<nSent, rcvd, delivered, lost>>
      BY <1>9 DEF Arrive
    <2>2. serial' \in Seq(Symbols) /\ ToSet(serial') = ToSet(serial) \cup {Head(air)}
      <3>1. serial' = serial \o <<Head(air)>>
        BY <1>1, <1>2, <2>1
      <3>2. ToSet(<<Head(air)>>) = {Head(air)}
            /\ <<Head(air)>> \in Seq(Symbols)
        BY <1>2 DEF ToSet
      <3> QED
        BY <1>1, <1>2, <3>1, <3>2, JoinParts
    <2> QED
      BY <1>3, <1>4, <1>5, <1>6, <1>7, <1>8, <2>1, <2>2
        DEF LinkInvariant, TypeOK
  <1>10. CASE Lose
    <2>1. lost' = lost \cup {Head(air)}
          /\ UNCHANGED <<nSent, serial, rcvd, delivered>>
      BY <1>10 DEF Lose
    <2> QED
      BY <1>2, <1>3, <1>4, <1>5, <1>6, <1>7, <1>8, <2>1
        DEF LinkInvariant, TypeOK
  <1> QED
    BY <1>9, <1>10

(* The port drops what waits in it.                                         *)
LEMMA FlushKeeps == LinkInvariant /\ Flush => LinkInvariant'
  <1> SUFFICES ASSUME LinkInvariant, Flush PROVE LinkInvariant'
    OBVIOUS
  <1>1. /\ lost' = lost \cup ToSet(serial) /\ serial' = <<>>
        /\ UNCHANGED <<nSent, air, rcvd, delivered>>
    BY DEF Flush
  <1>2. ToSet(<<>>) = {} /\ <<>> \in Seq(Symbols) /\ ToSet(serial) \subseteq Symbols
    BY DEF ToSet, LinkInvariant, TypeOK
  <1> QED
    BY <1>1, <1>2 DEF LinkInvariant, TypeOK

(* read() takes what has arrived to rcvd, and returns only what it found    *)
(* there.                                                                   *)
LEMMA ReadKeepsLink == LinkInvariant /\ Read => LinkInvariant'
  <1> SUFFICES ASSUME LinkInvariant, Read PROVE LinkInvariant'
    OBVIOUS
  <1> DEFINE buffer == rcvd \o serial
             ended == FirstOf(buffer, "$") # 0
             accepted == ended /\ Start(buffer) # 0 /\ Valid(Incoming(buffer))
  <1>1. /\ serial' = <<>>
        /\ rcvd' = IF ended THEN Rest(buffer) ELSE buffer
        /\ delivered' = [n \in Numbers |->
             IF accepted /\ Incoming(buffer)[1].of = n
             THEN delivered[n] + 1 ELSE delivered[n]]
        /\ UNCHANGED <<nSent, air, lost>>
    BY DEF Read
  <1>2. buffer \in Seq(Symbols) /\ ToSet(buffer) = ToSet(rcvd) \cup ToSet(serial)
    BY JoinParts DEF LinkInvariant, TypeOK
  <1> HIDE DEF buffer
  <1>3. rcvd' \in Seq(Symbols) /\ ToSet(rcvd') \subseteq ToSet(buffer)
    <2>1. CASE ended
      <3>1. FirstOf(buffer, "$") + 1 \in Nat /\ FirstOf(buffer, "$") + 1 >= 1
            /\ Len(buffer) \in Nat
        BY <1>2, FirstPlace
      <3> QED
        BY <1>1, <1>2, <2>1, <3>1, CutIsPart DEF Rest
    <2>2. CASE ~ended
      BY <1>1, <1>2, <2>2
    <2> QED
      BY <2>1, <2>2
  <1>4. ASSUME NEW n \in Numbers, accepted, Incoming(buffer)[1].of = n
        PROVE  {Symbol("text", n), Symbol("sum", n)} \subseteq ToSet(buffer)
    <2>1. PICK m \in Numbers :
            Incoming(buffer) = <<Symbol("text", m), Symbol("sum", m)>>
      BY <1>4 DEF Valid
    <2>2. m = n
      BY <1>4, <2>1 DEF Symbol
    <2>3. {Symbol("text", n), Symbol("sum", n)} \subseteq ToSet(Incoming(buffer))
      <3>1. ToSet(<<Symbol("text", n), Symbol("sum", n)>>)
            = {Symbol("text", n), Symbol("sum", n)}
        BY DEF ToSet
      <3> QED
        BY <2>1, <2>2, <3>1
    <2>4. ToSet(Incoming(buffer)) \subseteq ToSet(buffer)
      BY <1>2, <1>4, IncomingIsPart
    <2> QED
      BY <2>3, <2>4
  <1>5. ToSet(serial') = {} /\ serial' \in Seq(Symbols)
    BY <1>1 DEF ToSet
  <1>6. delivered' \in [Numbers -> Nat]
    BY <1>1 DEF LinkInvariant, TypeOK
  <1>7. ToSet(buffer) \cap (ToSet(air) \cup lost) = {}
    BY <1>2 DEF LinkInvariant
  <1>8. \A s \in ToSet(buffer) : s.of <= nSent
    BY <1>2 DEF LinkInvariant
  <1>9. ASSUME NEW n \in Numbers, delivered'[n] > 0
        PROVE  /\ n <= nSent
               /\ {Symbol("text", n), Symbol("sum", n)}
                    \cap (ToSet(air) \cup lost) = {}
    <2>1. CASE accepted /\ Incoming(buffer)[1].of = n
      <3>1. {Symbol("text", n), Symbol("sum", n)} \subseteq ToSet(buffer)
        BY <1>4, <2>1
      <3>2. n <= nSent
        BY <1>8, <3>1 DEF Symbol
      <3> QED
        BY <1>7, <3>1, <3>2
    <2>2. CASE ~(accepted /\ Incoming(buffer)[1].of = n)
      <3>1. delivered'[n] = delivered[n]
        BY <1>1, <2>2
      <3> QED
        BY <1>9, <3>1 DEF LinkInvariant
    <2> QED
      BY <2>1, <2>2
  <1> HIDE DEF ended, accepted
  <1>10. TypeOK'
    BY <1>1, <1>3, <1>5, <1>6 DEF LinkInvariant, TypeOK
  <1> QED
    BY <1>1, <1>3, <1>5, <1>7, <1>8, <1>9, <1>10 DEF LinkInvariant

(* The invariant of the link.                                               *)
LEMMA LinkInvariantHolds == Spec => []LinkInvariant
  <1>1. Init => LinkInvariant
    BY LinkAssumption DEF Init, LinkInvariant, TypeOK, ToSet, Numbers
  <1>2. LinkInvariant /\ [Next]_vars => LinkInvariant'
    <2>1. LinkInvariant /\ UNCHANGED vars => LinkInvariant'
      BY DEF vars, LinkInvariant, TypeOK
    <2> QED
      BY <2>1, SendKeeps, AirMoves, FlushKeeps, ReadKeepsLink DEF Next
  <1> QED
    BY <1>1, <1>2, PTL DEF Spec

(* The link keeps its types, for any number of packets.                     *)
THEOREM LinkTypeCorrect == Spec => []TypeOK
  <1>1. LinkInvariant => TypeOK
    BY DEF LinkInvariant
  <1> QED
    BY <1>1, LinkInvariantHolds, PTL

(* For any number of packets, and whatever is lost or dropped between the   *)
(* ground and rcvd: what read() returns was sent, and its text and checksum *)
(* have both arrived.                                                       *)
THEOREM WholeTextsOnly == Spec => []OnlyWholeTexts
  <1>1. LinkInvariant => OnlyWholeTexts
    BY DEF LinkInvariant, OnlyWholeTexts
  <1> QED
    BY <1>1, LinkInvariantHolds, PTL
----------------------------------------------------------------------------
(* What comes behind a symbol belongs to the same packet or to a later one, *)
(* behind a $ to a later one.                                               *)
Follows(s, t) == s.of <= t.of /\ (s.part = "$" => s.of < t.of)

InOrder(str) == \A i, j \in DOMAIN str : i < j => Follows(str[i], str[j])

(* Losses leave the symbols in the order in which they were sent.           *)
OrderOK ==
  /\ InOrder(rcvd) /\ InOrder(serial) /\ InOrder(air)
  /\ \A s \in ToSet(rcvd) : \A t \in ToSet(serial) \cup ToSet(air) :
       Follows(s, t)
  /\ \A s \in ToSet(serial) : \A t \in ToSet(air) : Follows(s, t)

(* Two buffers in order, one behind the other.                              *)
LEMMA JoinInOrder ==
  ASSUME NEW s \in Seq(Symbols), NEW t \in Seq(Symbols),
         InOrder(s), InOrder(t),
         \A x \in ToSet(s) : \A y \in ToSet(t) : Follows(x, y)
  PROVE  InOrder(s \o t)
  <1> SUFFICES ASSUME NEW i \in DOMAIN (s \o t), NEW j \in DOMAIN (s \o t), i < j
               PROVE  Follows((s \o t)[i], (s \o t)[j])
    BY DEF InOrder
  <1>1. Len(s) \in Nat /\ Len(t) \in Nat /\ i \in Int /\ j \in Int
        /\ DOMAIN s = 1..Len(s) /\ DOMAIN t = 1..Len(t)
        /\ i >= 1 /\ j >= 1
    <2>1. s \o t \in Seq(Symbols)
      OBVIOUS
    <2>2. DOMAIN (s \o t) = 1..Len(s \o t)
      BY <2>1
    <2> QED
      BY <2>2
  <1>2. CASE i \in DOMAIN s /\ j \in DOMAIN s
    BY <1>2, JoinParts DEF InOrder
  <1>3. CASE i \notin DOMAIN s /\ j \notin DOMAIN s
    <2>1. i - Len(s) \in DOMAIN t /\ (s \o t)[i] = t[i - Len(s)]
          /\ j - Len(s) \in DOMAIN t /\ (s \o t)[j] = t[j - Len(s)]
      BY <1>3, JoinParts
    <2>2. i - Len(s) < j - Len(s)
      BY <1>1
    <2> QED
      BY <2>1, <2>2 DEF InOrder
  <1>4. CASE i \in DOMAIN s /\ j \notin DOMAIN s
    <2>1. (s \o t)[i] = s[i] /\ j - Len(s) \in DOMAIN t
          /\ (s \o t)[j] = t[j - Len(s)]
      BY <1>4, JoinParts
    <2> QED
      BY <1>4, <2>1 DEF ToSet
  <1>5. ~(i \notin DOMAIN s /\ j \in DOMAIN s)
    BY <1>1
  <1> QED
    BY <1>2, <1>3, <1>4, <1>5

(* What is left of a buffer is in order, too.                               *)
LEMMA CutInOrder ==
  ASSUME NEW str \in Seq(Symbols), InOrder(str), NEW a \in Nat, a >= 1
  PROVE  InOrder(SubSeq(str, a, Len(str)))
  <1> DEFINE cut == SubSeq(str, a, Len(str))
  <1>1. Len(str) \in Nat /\ DOMAIN str = 1..Len(str)
    OBVIOUS
  <1>2. \A i \in DOMAIN cut : i \in Int /\ a + i - 1 \in DOMAIN str
                              /\ cut[i] = str[a + i - 1]
    BY <1>1
  <1> HIDE DEF cut
  <1>3. \A i, j \in DOMAIN cut : i < j => a + i - 1 < a + j - 1
    BY <1>2
  <1> QED
    BY <1>2, <1>3 DEF InOrder, cut

(* Every step keeps the order.                                              *)
LEMMA OrderStep == LinkInvariant /\ OrderOK /\ [Next]_vars => OrderOK'
  <1> SUFFICES ASSUME LinkInvariant, OrderOK, [Next]_vars PROVE OrderOK'
    OBVIOUS
  <1>1. /\ rcvd \in Seq(Symbols) /\ serial \in Seq(Symbols)
        /\ air \in Seq(Symbols)
    BY DEF LinkInvariant, TypeOK
  <1>2. CASE GroundSends
    <2> DEFINE wire == Wire(nSent + 1)
    <2>1. /\ nSent \in Nat /\ nSent + 1 \in Numbers /\ nSent' = nSent + 1
          /\ air' = air \o wire /\ UNCHANGED <<serial, rcvd>>
      BY <1>2, LinkAssumption DEF GroundSends, LinkInvariant, TypeOK, Numbers
    <2>2. wire \in Seq(Symbols) /\ InOrder(wire)
      BY <2>1 DEF Wire, Symbol, Symbols, InOrder, Follows
    <2>3. \A t \in ToSet(wire) : t.of = nSent + 1
      BY DEF Wire, Symbol, ToSet
    <2> HIDE DEF wire
    <2>4. \A s \in ToSet(rcvd) \cup ToSet(serial) \cup ToSet(air) :
            s.of \in Nat /\ s.of <= nSent
      <3>1. ToSet(rcvd) \cup ToSet(serial) \cup ToSet(air) \subseteq Symbols
        BY <1>1 DEF ToSet
      <3> QED
        BY <3>1, NaturalNumbers DEF LinkInvariant, ToSet
    <2>5. \A s \in ToSet(rcvd) \cup ToSet(serial) \cup ToSet(air) :
            \A t \in ToSet(wire) : Follows(s, t)
      BY <2>1, <2>3, <2>4 DEF Follows
    <2>6. InOrder(air') /\ ToSet(air') = ToSet(air) \cup ToSet(wire)
      BY <1>1, <2>1, <2>2, <2>5, JoinInOrder, JoinParts DEF OrderOK
    <2> QED
      BY <2>1, <2>5, <2>6 DEF OrderOK
  <1>3. CASE Arrive \/ Lose
    <2>1. air # <<>> /\ air' = Tail(air) /\ UNCHANGED rcvd
      BY <1>3 DEF Arrive, Lose
    <2>2. Len(air) \in Nat \ {0} /\ Head(air) = air[1] /\ Head(air) \in Symbols
          /\ 1 \in DOMAIN air
      BY <1>1, <2>1
    <2>3. /\ air' \in Seq(Symbols)
          /\ \A i \in DOMAIN air' : /\ i \in Nat \ {0} /\ i + 1 \in DOMAIN air
                                    /\ air'[i] = air[i + 1]
      BY <1>1, <2>1, <2>2
    <2>4. InOrder(air')
      <3>1. \A i, j \in DOMAIN air' : i < j => i + 1 < j + 1
        BY <2>3
      <3> QED
        BY <2>3, <3>1 DEF InOrder, OrderOK
    <2>5. ToSet(air') \subseteq ToSet(air) /\ Head(air) \in ToSet(air)
      BY <2>2, <2>3 DEF ToSet
    <2>6. \A t \in ToSet(air') : Follows(Head(air), t)
      <3>1. \A i \in DOMAIN air' : 1 < i + 1
        BY <2>3
      <3> QED
        BY <2>2, <2>3, <3>1 DEF InOrder, OrderOK, ToSet
    <2>7. CASE Lose
      <3>1. UNCHANGED serial
        BY <2>7 DEF Lose
      <3> QED
        BY <2>1, <2>4, <2>5, <3>1 DEF OrderOK
    <2>8. CASE Arrive
      <3>1. serial' = serial \o <<Head(air)>>
        BY <1>1, <2>2, <2>8 DEF Arrive
      <3>2. <<Head(air)>> \in Seq(Symbols) /\ ToSet(<<Head(air)>>) = {Head(air)}
            /\ InOrder(<<Head(air)>>)
        BY <2>2 DEF ToSet, InOrder
      <3>3. \A s \in ToSet(rcvd) \cup ToSet(serial) : Follows(s, Head(air))
        BY <2>5 DEF OrderOK
      <3>4. InOrder(serial') /\ ToSet(serial') = ToSet(serial) \cup {Head(air)}
        <4>1. \A s \in ToSet(serial) : \A t \in ToSet(<<Head(air)>>) :
                Follows(s, t)
          BY <3>2, <3>3
        <4>2. InOrder(serial \o <<Head(air)>>)
          BY <1>1, <3>2, <4>1, JoinInOrder DEF OrderOK
        <4> QED
          BY <1>1, <3>1, <3>2, <4>2, JoinParts
      <3> QED
        BY <2>1, <2>4, <2>5, <2>6, <3>3, <3>4 DEF OrderOK
    <2> QED
      BY <1>3, <2>7, <2>8
  <1>4. CASE Flush
    <2>1. serial' = <<>> /\ UNCHANGED <<air, rcvd>>
      BY <1>4 DEF Flush
    <2>2. ToSet(<<>>) = {} /\ InOrder(<<>>)
      BY DEF ToSet, InOrder
    <2> QED
      BY <2>1, <2>2 DEF OrderOK
  <1>5. CASE Read
    <2> DEFINE buffer == rcvd \o serial
    <2>1. /\ buffer \in Seq(Symbols) /\ InOrder(buffer)
          /\ ToSet(buffer) = ToSet(rcvd) \cup ToSet(serial)
      BY <1>1, JoinInOrder, JoinParts DEF OrderOK
    <2>2. /\ serial' = <<>> /\ air' = air
          /\ rcvd' = IF FirstOf(buffer, "$") # 0 THEN Rest(buffer) ELSE buffer
      BY <1>5 DEF Read
    <2> HIDE DEF buffer
    <2>3. InOrder(rcvd') /\ ToSet(rcvd') \subseteq ToSet(buffer)
      <3>1. FirstOf(buffer, "$") + 1 \in Nat /\ FirstOf(buffer, "$") + 1 >= 1
            /\ Len(buffer) \in Nat
        BY <2>1, FirstPlace
      <3>2. InOrder(Rest(buffer)) /\ ToSet(Rest(buffer)) \subseteq ToSet(buffer)
        BY <2>1, <3>1, CutInOrder, CutIsPart DEF Rest
      <3> QED
        BY <2>1, <2>2, <3>2
    <2>4. ToSet(serial') = {} /\ InOrder(serial')
      BY <2>2 DEF ToSet, InOrder
    <2> QED
      BY <2>1, <2>2, <2>3, <2>4 DEF OrderOK
  <1>6. CASE UNCHANGED vars
    BY <1>6 DEF vars, OrderOK
  <1> QED
    BY <1>2, <1>3, <1>4, <1>5, <1>6 DEF Next

----------------------------------------------------------------------------
(* What has not been lost and not been cut off.                             *)
Pending == ToSet(rcvd) \cup ToSet(serial) \cup ToSet(air)

(* The packets up to c that can have made a later packet n repeat.          *)
Repeaters(n, c) == {m \in 1..(n - 1) : m <= c /\ OnlyEndArrived(m)}

(* The last $ that was cut off is the one of packet c: what came before it  *)
(* is gone, what comes behind it is pending or lost; and a packet has been  *)
(* returned once for each of its repeaters up to c, and once more if its    *)
(* text is gone.                                                            *)
CutUpTo(c) ==
  /\ c \in 0..nSent
  /\ \A s \in Symbols : c < s.of /\ s.of <= nSent => s \in Pending \cup lost
  /\ \A s \in Pending : c < s.of
  /\ \A n \in Numbers :
       /\ Symbol("text", n) \in Pending =>
            delivered[n] <= Cardinality(Repeaters(n, c))
       /\ delivered[n] <= 1 + Cardinality(Repeaters(n, c))
       /\ delivered[n] > 0 => n <= c \/ Worn # {}

(* The repeaters can be counted, and more can only become more.             *)
LEMMA CountRepeaters ==
  ASSUME NEW n \in Numbers, NEW S \in SUBSET (1..(n - 1)),
         NEW T \in SUBSET S
  PROVE  /\ Cardinality(S) \in Nat /\ Cardinality(T) \in Nat
         /\ Cardinality(T) <= Cardinality(S)
         /\ \A m \in S \ T : Cardinality(T) + 1 <= Cardinality(S)
  <1>1. n \in Nat
    BY DEF Numbers
  <1>2. IsFiniteSet(1..(n - 1))
    BY <1>1, FS_Interval
  <1>3. IsFiniteSet(S) /\ IsFiniteSet(T) /\ Cardinality(T) <= Cardinality(S)
    BY <1>2, FS_Subset
  <1>4. Cardinality(S) \in Nat /\ Cardinality(T) \in Nat
    BY <1>3, FS_CardinalityType
  <1>5. ASSUME NEW m \in S \ T PROVE Cardinality(T) + 1 <= Cardinality(S)
    <2>1. Cardinality(T \cup {m}) = Cardinality(T) + 1
      BY <1>3, <1>5, FS_AddElement
    <2>2. T \cup {m} \in SUBSET S
      BY <1>5
    <2>3. Cardinality(T \cup {m}) <= Cardinality(S)
      BY <1>3, <2>2, FS_Subset
    <2> QED
      BY <2>1, <2>3
  <1> QED
    BY <1>3, <1>4, <1>5

(* A loss behind c changes nothing about the repeaters up to c.             *)
LEMMA SameRepeaters ==
  ASSUME NEW c \in Nat, lost \subseteq lost',
         \A s \in lost' \ lost : c < s.of,
         NEW n \in Numbers
  PROVE  Repeaters(n, c)' = Repeaters(n, c)
  <1>1. ASSUME NEW m \in 1..(n - 1), m <= c
        PROVE  OnlyEndArrived(m)' <=> OnlyEndArrived(m)
    <2>1. n \in Nat /\ m \in Nat
      BY DEF Numbers
    <2>2. \A s \in ToSet(Wire(m)) : s.of = m
      BY DEF Wire, Symbol, ToSet
    <2>3. ToSet(Wire(m)) \ lost' = ToSet(Wire(m)) \ lost
      BY <1>1, <2>1, <2>2
    <2> QED
      BY <2>3 DEF OnlyEndArrived
  <1> QED
    BY <1>1 DEF Repeaters

(* The steps before read() keep the mark.                                   *)
LEMMA MarkStays ==
  ASSUME LinkInvariant, NEW c, CutUpTo(c),
         GroundSends \/ Arrive \/ Lose \/ Flush \/ UNCHANGED vars
  PROVE  CutUpTo(c)'
  <1>1. /\ nSent \in Nat /\ nSent <= MaxSent /\ MaxSent \in Nat /\ c \in Nat
        /\ rcvd \in Seq(Symbols) /\ serial \in Seq(Symbols)
        /\ air \in Seq(Symbols)
    BY LinkAssumption DEF LinkInvariant, TypeOK, CutUpTo
  <1>2. CASE GroundSends
    <2> DEFINE wire == Wire(nSent + 1)
    <2>1. /\ nSent + 1 \in Numbers /\ nSent' = nSent + 1
          /\ air' = air \o wire /\ UNCHANGED <<serial, rcvd, lost, delivered>>
      BY <1>1, <1>2 DEF GroundSends, Numbers
    <2>2. /\ wire \in Seq(Symbols)
          /\ ToSet(wire) = {s \in Symbols : s.of = nSent + 1}
      <3>1. ToSet(wire) = {Symbol("^", nSent + 1), Symbol("text", nSent + 1),
                           Symbol("sum", nSent + 1), Symbol("$", nSent + 1)}
        BY DEF Wire, ToSet
      <3>2. \A s \in Symbols : s.of = nSent + 1 =>
              \E part \in {"^", "text", "sum", "$"} :
                s = Symbol(part, nSent + 1)
        BY DEF Symbols, Symbol
      <3>3. \A part \in {"^", "text", "sum", "$"} :
              /\ Symbol(part, nSent + 1) \in Symbols
              /\ Symbol(part, nSent + 1).of = nSent + 1
        BY <2>1 DEF Symbols, Symbol
      <3>4. wire \in Seq(Symbols)
        BY <2>1 DEF Wire, Symbol, Symbols
      <3> QED
        BY <3>1, <3>2, <3>3, <3>4
    <2> HIDE DEF wire
    <2>3. Pending' = Pending \cup ToSet(wire)
      BY <1>1, <2>1, <2>2, JoinParts DEF Pending
    <2>4. \A n \in Numbers : Repeaters(n, c)' = Repeaters(n, c)
      BY <1>1, <2>1, SameRepeaters
    <2>5. ASSUME NEW s \in Symbols, c < s.of, s.of <= nSent'
          PROVE  s \in Pending' \cup lost'
      <3>1. s.of \in Nat
        BY NaturalNumbers
      <3>2. CASE s.of <= nSent
        BY <2>1, <2>3, <2>5, <3>2 DEF CutUpTo
      <3>3. CASE s.of = nSent + 1
        BY <2>2, <2>3, <3>3
      <3> QED
        BY <1>1, <2>1, <2>5, <3>1, <3>2, <3>3
    <2>6. \A s \in Pending' : c < s.of
      <3>1. c < nSent + 1
        BY <1>1 DEF CutUpTo
      <3> QED
        BY <2>2, <2>3, <3>1 DEF CutUpTo
    <2>7. ASSUME NEW n \in Numbers
          PROVE  /\ Symbol("text", n) \in Pending' =>
                      delivered'[n] <= Cardinality(Repeaters(n, c)')
                 /\ delivered'[n] <= 1 + Cardinality(Repeaters(n, c)')
                 /\ delivered'[n] > 0 => n <= c \/ Worn' # {}
      <3>1. Worn' = Worn
        BY <2>1 DEF Worn
      <3>2. CASE Symbol("text", n) \in ToSet(wire)
        <4>1. n = nSent + 1
          BY <2>2, <3>2 DEF Symbol
        <4>2. delivered[n] = 0
          BY <1>1, <4>1 DEF LinkInvariant, TypeOK
        <4>3. Cardinality(Repeaters(n, c)) \in Nat
          BY CountRepeaters DEF Repeaters
        <4> QED
          BY <2>1, <2>4, <4>2, <4>3
      <3>3. CASE Symbol("text", n) \notin ToSet(wire)
        BY <2>1, <2>3, <2>4, <3>1, <3>3 DEF CutUpTo
      <3> QED
        BY <3>2, <3>3
    <2> QED
      BY <1>1, <2>1, <2>5, <2>6, <2>7 DEF CutUpTo
  <1>3. CASE Arrive \/ Lose \/ Flush \/ UNCHANGED vars
    <2>1. /\ Pending' \subseteq Pending
          /\ lost' = lost \cup (Pending \ Pending')
          /\ UNCHANGED <<nSent, delivered>>
      <3>1. CASE Arrive \/ Lose
        <4>1. air # <<>> /\ air' = Tail(air) /\ UNCHANGED <<rcvd, nSent, delivered>>
          BY <3>1 DEF Arrive, Lose
        <4>2. ToSet(air) = {Head(air)} \cup ToSet(air') /\ Head(air) \in Symbols
              /\ Head(air) \notin ToSet(air')
          <5>1. Len(air) \in Nat \ {0} /\ Head(air) = air[1]
                /\ 1 \in DOMAIN air /\ Head(air) \in Symbols
            BY <1>1, <4>1
          <5>2. \A i \in DOMAIN air' : /\ i \in Nat \ {0}
                                       /\ i + 1 \in DOMAIN air
                                       /\ air'[i] = air[i + 1]
            BY <1>1, <4>1, <5>1
          <5>3. \A i \in DOMAIN air : i # 1 =>
                  i - 1 \in DOMAIN air' /\ air'[i - 1] = air[i]
            BY <1>1, <4>1, <5>1
          <5>4. \A i \in DOMAIN air' : air[i + 1] # air[1]
            BY <5>1, <5>2 DEF LinkInvariant
          <5> QED
            BY <5>1, <5>2, <5>3, <5>4 DEF ToSet
        <4>3. CASE Lose
          <5>1. lost' = lost \cup {Head(air)} /\ UNCHANGED serial
            BY <4>3 DEF Lose
          <5>2. Head(air) \notin ToSet(rcvd) \cup ToSet(serial)
            BY <4>2 DEF LinkInvariant
          <5> QED
            BY <4>1, <4>2, <5>1, <5>2 DEF Pending
        <4>4. CASE Arrive
          <5>1. serial' = serial \o <<Head(air)>> /\ UNCHANGED lost
            <6>1. serial' = Append(serial, Head(air)) /\ UNCHANGED lost
              BY <4>4 DEF Arrive
            <6>2. Append(serial, Head(air)) = serial \o <<Head(air)>>
              BY <1>1, <4>2
            <6> QED
              BY <6>1, <6>2
          <5>2. ToSet(<<Head(air)>>) = {Head(air)} /\ <<Head(air)>> \in Seq(Symbols)
            BY <4>2 DEF ToSet
          <5>3. ToSet(serial') = ToSet(serial) \cup {Head(air)}
            BY <1>1, <5>1, <5>2, JoinParts
          <5> QED
            BY <4>1, <4>2, <5>1, <5>3 DEF Pending
        <4> QED
          BY <3>1, <4>3, <4>4
      <3>2. CASE Flush
        <4>1. /\ lost' = lost \cup ToSet(serial) /\ serial' = <<>>
              /\ UNCHANGED <<nSent, air, rcvd, delivered>>
          BY <3>2 DEF Flush
        <4>2. ToSet(<<>>) = {}
          BY DEF ToSet
        <4>3. ToSet(serial) \cap (ToSet(rcvd) \cup ToSet(air)) = {}
          BY DEF LinkInvariant
        <4> QED
          BY <4>1, <4>2, <4>3 DEF Pending
      <3>3. CASE UNCHANGED vars
        BY <3>3 DEF vars, Pending
      <3> QED
        BY <1>3, <3>1, <3>2, <3>3
    <2>2. \A s \in lost' \ lost : c < s.of
      BY <2>1 DEF CutUpTo
    <2>3. \A n \in Numbers : Repeaters(n, c)' = Repeaters(n, c)
      BY <1>1, <2>1, <2>2, SameRepeaters
    <2>4. Worn \subseteq Worn'
      BY <2>1 DEF Worn
    <2> QED
      BY <2>1, <2>3, <2>4 DEF CutUpTo
  <1> QED
    BY <1>2, <1>3

(* What a read() that cuts up to the $ of packet m leaves, and what it      *)
(* returns: a packet sent before that $, or, where that $ is the first of   *)
(* all that is pending, a packet sent after it.                             *)
LEMMA ReadCuts ==
  ASSUME LinkInvariant, OrderOK, Read
  PROVE  \/ Pending' = Pending /\ delivered' = delivered
         \/ \E m \in Numbers :
              /\ Symbol("$", m) \in Pending
              /\ Pending' = {s \in Pending : m < s.of}
              /\ \/ delivered' = delivered
                 \/ \E n \in Numbers :
                      /\ delivered' = [delivered EXCEPT ![n] = @ + 1]
                      /\ Symbol("text", n) \in Pending
                      /\ \/ n <= m
                         \/ /\ m < n
                            /\ \A s \in Pending : s = Symbol("$", m) \/ m < s.of
  <1> DEFINE buffer == rcvd \o serial
             end == FirstOf(buffer, "$")
             accepted == end # 0 /\ Start(buffer) # 0 /\ Valid(Incoming(buffer))
  <1>1. /\ rcvd \in Seq(Symbols) /\ serial \in Seq(Symbols)
        /\ delivered \in [Numbers -> Nat]
    BY DEF LinkInvariant, TypeOK
  <1>2. /\ buffer \in Seq(Symbols) /\ InOrder(buffer)
        /\ ToSet(buffer) = ToSet(rcvd) \cup ToSet(serial)
    BY <1>1, JoinInOrder, JoinParts DEF OrderOK
  <1>3. /\ serial' = <<>>
        /\ rcvd' = IF end # 0 THEN Rest(buffer) ELSE buffer
        /\ delivered' = [n \in Numbers |->
             IF accepted /\ Incoming(buffer)[1].of = n
             THEN delivered[n] + 1 ELSE delivered[n]]
        /\ UNCHANGED <<nSent, air, lost>>
    BY DEF Read
  <1> HIDE DEF buffer
  <1>4. /\ Pending = ToSet(buffer) \cup ToSet(air)
        /\ Pending' = ToSet(rcvd') \cup ToSet(air)
    <2>1. ToSet(serial') = {}
      BY <1>3 DEF ToSet
    <2> QED
      BY <1>2, <1>3, <2>1 DEF Pending
  <1>5. \A s \in ToSet(buffer) : \A t \in ToSet(air) : Follows(s, t)
    BY <1>2 DEF OrderOK
  <1>6. Len(buffer) \in Nat /\ DOMAIN buffer = 1..Len(buffer)
        /\ end \in 0..Len(buffer)
        /\ (end # 0 => end \in DOMAIN buffer /\ buffer[end].part = "$")
    BY <1>2, FirstPlace DEF Indices
  <1>7. CASE end = 0
    <2>1. delivered' = delivered
      BY <1>1, <1>3, <1>7
    <2> QED
      BY <1>3, <1>4, <1>7, <2>1
  <1>8. CASE end # 0
    <2> DEFINE m == buffer[end].of
    <2>1. /\ end \in DOMAIN buffer /\ m \in Numbers /\ m \in Nat
          /\ buffer[end] = Symbol("$", m) /\ buffer[end] \in Pending
      <3>1. buffer[end] \in Symbols /\ buffer[end].part = "$"
        BY <1>2, <1>6, <1>8
      <3>2. buffer[end] = Symbol("$", buffer[end].of)
            /\ buffer[end].of \in Numbers
        BY <3>1 DEF Symbols, Symbol
      <3> QED
        BY <1>4, <1>6, <1>8, <3>1, <3>2, NaturalNumbers DEF ToSet
    <2> HIDE DEF end
    <2>2. \A i \in DOMAIN buffer : i < end => buffer[i].of <= m
      BY <1>2, <2>1 DEF InOrder, Follows
    <2>3. \A i \in DOMAIN buffer : end < i => m < buffer[i].of
      BY <1>2, <1>6, <1>8, <2>1 DEF InOrder, Follows
    <2>4. \A t \in ToSet(air) : m < t.of
      BY <1>5, <1>6, <1>8, <2>1 DEF Follows, ToSet
    <2>5. Pending' = {s \in Pending : m < s.of}
      <3> DEFINE rest == Rest(buffer)
      <3>1. rest = SubSeq(buffer, end + 1, Len(buffer)) /\ rcvd' = rest
        BY <1>3, <1>8 DEF Rest, end
      <3>2. \A j \in DOMAIN rest : /\ end + j \in DOMAIN buffer /\ end < end + j
                                   /\ rest[j] = buffer[end + j]
        BY <1>2, <1>6, <2>1, <3>1
      <3>3. \A i \in DOMAIN buffer : end < i =>
              i - end \in DOMAIN rest /\ rest[i - end] = buffer[i]
        BY <1>2, <1>6, <2>1, <3>1
      <3> HIDE DEF rest
      <3>4. ASSUME NEW s \in Pending' PROVE s \in Pending /\ m < s.of
        <4>1. CASE s \in ToSet(air)
          BY <1>4, <2>4, <4>1
        <4>2. CASE s \in ToSet(rest)
          BY <1>4, <2>3, <3>2, <4>2 DEF ToSet
        <4> QED
          BY <1>4, <3>1, <3>4, <4>1, <4>2
      <3>5. ASSUME NEW s \in Pending, m < s.of PROVE s \in Pending'
        <4>1. CASE s \in ToSet(air)
          BY <1>4, <4>1
        <4>2. CASE s \in ToSet(buffer)
          <5>1. PICK i \in DOMAIN buffer : s = buffer[i]
            BY <4>2 DEF ToSet
          <5>2. s.of \in Nat /\ i \in Nat /\ end \in Nat
            BY <1>2, <1>6, <5>1, NaturalNumbers
          <5>3. ~(i < end) /\ i # end
            BY <2>1, <2>2, <3>5, <5>1, <5>2
          <5>4. end < i
            BY <5>2, <5>3
          <5> QED
            BY <1>4, <3>1, <3>3, <5>1, <5>4 DEF ToSet
        <4> QED
          BY <1>4, <4>1, <4>2
      <3> QED
        BY <3>4, <3>5
    <2>6. CASE ~accepted
      <3>1. delivered' = delivered
        BY <1>1, <1>3, <2>6
      <3> QED
        BY <2>1, <2>5, <3>1
    <2>7. CASE accepted
      <3>1. PICK n \in Numbers :
              Incoming(buffer) = <<Symbol("text", n), Symbol("sum", n)>>
        BY <2>7 DEF Valid
      <3>2. Incoming(buffer)[1] = Symbol("text", n) /\ Len(Incoming(buffer)) > 0
            /\ Incoming(buffer)[1].of = n
        BY <3>1 DEF Symbol
      <3>3. delivered' = [delivered EXCEPT ![n] = @ + 1]
        BY <1>1, <1>3, <2>7, <3>2
      <3>4. PICK i \in DOMAIN buffer :
              /\ Symbol("text", n) = buffer[i]
              /\ IF end = 1 THEN i > 1 ELSE i < end
        BY <1>2, <2>7, <3>2, IncomingPlace DEF end
      <3>5. Symbol("text", n) \in Pending /\ buffer[i].of = n
        BY <1>4, <3>4 DEF ToSet, Symbol
      <3>6. CASE end # 1
        <4>1. n <= m
          BY <2>2, <3>4, <3>5, <3>6
        <4> QED
          BY <2>1, <2>5, <3>3, <3>5, <4>1
      <3>7. CASE end = 1
        <4>1. m < n
          BY <2>3, <3>4, <3>5, <3>7
        <4>2. ASSUME NEW s \in Pending PROVE s = Symbol("$", m) \/ m < s.of
          <5>1. CASE s \in ToSet(air)
            BY <2>4, <5>1
          <5>2. CASE s \in ToSet(buffer)
            <6>1. PICK k \in DOMAIN buffer : s = buffer[k]
              BY <5>2 DEF ToSet
            <6>2. k = end \/ end < k
              BY <1>6, <3>7
            <6> QED
              BY <2>1, <2>3, <6>1, <6>2
          <5> QED
            BY <1>4, <5>1, <5>2
        <4> QED
          BY <2>1, <2>5, <3>3, <3>5, <4>1, <4>2
      <3> QED
        BY <3>6, <3>7
    <2> QED
      BY <2>6, <2>7
  <1> QED
    BY <1>7, <1>8

(* A read() moves the mark to the $ it cut: it returns a packet before that *)
(* $ for the last time, or one behind it because only that $ arrived of its *)
(* packet.                                                                  *)
LEMMA MarkMoves ==
  ASSUME LinkInvariant, OrderOK, NEW c, CutUpTo(c), Read
  PROVE  \E d : CutUpTo(d)'
  <1>1. /\ UNCHANGED <<nSent, air, lost>> /\ Worn' = Worn
        /\ c \in Nat /\ nSent \in Nat /\ delivered \in [Numbers -> Nat]
    BY DEF Read, Worn, CutUpTo, LinkInvariant, TypeOK
  <1>2. \A d \in Nat : \A n \in Numbers : Repeaters(n, d)' = Repeaters(n, d)
    BY <1>1 DEF Repeaters, OnlyEndArrived
  <1>3. CASE Pending' = Pending /\ delivered' = delivered
    BY <1>1, <1>2, <1>3 DEF CutUpTo
  <1>4. CASE \E m \in Numbers :
              /\ Symbol("$", m) \in Pending
              /\ Pending' = {s \in Pending : m < s.of}
              /\ \/ delivered' = delivered
                 \/ \E n \in Numbers :
                      /\ delivered' = [delivered EXCEPT ![n] = @ + 1]
                      /\ Symbol("text", n) \in Pending
                      /\ \/ n <= m
                         \/ /\ m < n
                            /\ \A s \in Pending : s = Symbol("$", m) \/ m < s.of
    <2>1. PICK m \in Numbers :
              /\ Symbol("$", m) \in Pending
              /\ Pending' = {s \in Pending : m < s.of}
              /\ \/ delivered' = delivered
                 \/ \E n \in Numbers :
                      /\ delivered' = [delivered EXCEPT ![n] = @ + 1]
                      /\ Symbol("text", n) \in Pending
                      /\ \/ n <= m
                         \/ /\ m < n
                            /\ \A s \in Pending : s = Symbol("$", m) \/ m < s.of
      BY <1>4
    <2>2. m \in Nat /\ c < m /\ m <= nSent
      <3>1. Symbol("$", m).of = m /\ m \in Nat
        BY DEF Symbol, Numbers
      <3>2. \A s \in Pending : s.of <= nSent
        BY DEF Pending, LinkInvariant, ToSet
      <3> QED
        BY <2>1, <3>1, <3>2 DEF CutUpTo
    <2>3. ASSUME NEW s \in Symbols, m < s.of, s.of <= nSent
          PROVE  s \in Pending' \cup lost
      <3>1. c < s.of
        BY <1>1, <2>2, <2>3, NaturalNumbers
      <3> QED
        BY <2>1, <2>3, <3>1 DEF CutUpTo
    <2>4. ASSUME NEW n \in Numbers
          PROVE  /\ Repeaters(n, m) \in SUBSET (1..(n - 1))
                 /\ Repeaters(n, c) \in SUBSET Repeaters(n, m)
                 /\ Cardinality(Repeaters(n, m)) \in Nat
                 /\ Cardinality(Repeaters(n, c)) \in Nat
                 /\ Cardinality(Repeaters(n, c)) <= Cardinality(Repeaters(n, m))
      <3>1. n \in Nat
        BY DEF Numbers
      <3>2. /\ Repeaters(n, m) \in SUBSET (1..(n - 1))
            /\ Repeaters(n, c) \in SUBSET Repeaters(n, m)
        BY <1>1, <2>2, <3>1 DEF Repeaters
      <3> QED
        BY <3>2, CountRepeaters
    <2>5. ASSUME NEW n \in Numbers
          PROVE  /\ Symbol("text", n) \in Pending' =>
                      delivered'[n] <= Cardinality(Repeaters(n, m))
                 /\ delivered'[n] <= 1 + Cardinality(Repeaters(n, m))
                 /\ delivered'[n] > 0 => n <= m \/ Worn # {}
      <3>0. n \in Nat /\ delivered[n] \in Nat /\ Symbol("text", n).of = n
        BY <1>1 DEF Numbers, Symbol
      <3>1. CASE delivered'[n] = delivered[n]
        <4>1. Symbol("text", n) \in Pending' => Symbol("text", n) \in Pending
          BY <2>1
        <4> QED
          BY <1>1, <2>2, <2>4, <3>0, <3>1, <4>1 DEF CutUpTo
      <3>2. CASE delivered'[n] # delivered[n]
        <4>1. /\ delivered'[n] = delivered[n] + 1
              /\ Symbol("text", n) \in Pending
              /\ \/ n <= m
                 \/ /\ m < n
                    /\ \A s \in Pending : s = Symbol("$", m) \/ m < s.of
          BY <1>1, <2>1, <3>2
        <4>2. delivered[n] <= Cardinality(Repeaters(n, c))
          BY <4>1 DEF CutUpTo
        <4>3. CASE n <= m
          <5>1. Symbol("text", n) \notin Pending'
            BY <2>1, <2>2, <3>0, <4>3
          <5> QED
            BY <2>4, <3>0, <4>1, <4>2, <4>3, <5>1
        <4>4. CASE /\ m < n
                   /\ \A s \in Pending : s = Symbol("$", m) \/ m < s.of
          <5>1. OnlyEndArrived(m)
            <6>1. Symbol("$", m) \notin lost
              BY <2>1 DEF Pending, LinkInvariant
            <6>2. ASSUME NEW part \in {"^", "text", "sum"}
                  PROVE  Symbol(part, m) \in lost
              <7>1. Symbol(part, m) \in Symbols /\ Symbol(part, m).of = m
                    /\ Symbol(part, m) # Symbol("$", m)
                BY DEF Symbol, Symbols
              <7>2. Symbol(part, m) \in Pending \cup lost
                BY <2>2, <7>1 DEF CutUpTo
              <7> QED
                BY <2>2, <4>4, <7>1, <7>2
            <6>3. ToSet(Wire(m)) = {Symbol("^", m), Symbol("text", m),
                                    Symbol("sum", m), Symbol("$", m)}
              BY DEF Wire, ToSet
            <6> QED
              BY <6>1, <6>2, <6>3 DEF OnlyEndArrived
          <5>2. m \in Repeaters(n, m) \ Repeaters(n, c)
            BY <1>1, <2>2, <3>0, <4>4, <5>1 DEF Repeaters, Numbers
          <5>3. Cardinality(Repeaters(n, c)) + 1 <= Cardinality(Repeaters(n, m))
            BY <2>4, <5>2, CountRepeaters
          <5>4. m \in Worn
            BY <5>1 DEF OnlyEndArrived, Worn
          <5> QED
            BY <2>4, <3>0, <4>1, <4>2, <5>3, <5>4
        <4> QED
          BY <4>1, <4>3, <4>4
      <3> QED
        BY <3>1, <3>2
    <2> HIDE DEF CutUpTo
    <2>6. CutUpTo(m)'
      <3>1. \A s \in Pending' : m < s.of
        BY <2>1
      <3> QED
        BY <1>1, <1>2, <2>2, <2>3, <2>5, <3>1 DEF CutUpTo
    <2> QED
      BY <2>6
  <1> QED
    BY <1>3, <1>4, ReadCuts

(* The invariant of the link, with the order and the mark.                  *)
LinkOrder == LinkInvariant /\ OrderOK /\ \E c : CutUpTo(c)

(* It holds from the start, and every step keeps it.                        *)
LEMMA LinkOrderHolds == Spec => []LinkOrder
  <1>1. Init => LinkOrder
    <2> SUFFICES ASSUME Init PROVE LinkOrder
      OBVIOUS
    <2>1. LinkInvariant
      BY LinkAssumption DEF Init, LinkInvariant, TypeOK, ToSet, Numbers
    <2>2. Pending = {} /\ OrderOK
      BY DEF Init, Pending, OrderOK, InOrder, ToSet
    <2>3. \A n \in Numbers : delivered[n] = 0
                             /\ Cardinality(Repeaters(n, 0)) \in Nat
      <3>1. \A n \in Numbers : Repeaters(n, 0) \in SUBSET (1..(n - 1))
        BY DEF Repeaters
      <3> QED
        BY <3>1, CountRepeaters DEF Init
    <2>4. \A s \in Symbols : ~(0 < s.of /\ s.of <= nSent)
      BY NaturalNumbers DEF Init
    <2>5. CutUpTo(0)
      BY <2>2, <2>3, <2>4 DEF CutUpTo, Init
    <2> QED
      BY <2>1, <2>2, <2>5 DEF LinkOrder
  <1>2. LinkOrder /\ [Next]_vars => LinkOrder'
    <2> SUFFICES ASSUME LinkOrder, [Next]_vars PROVE LinkOrder'
      OBVIOUS
    <2>1. LinkInvariant'
      <3>1. LinkInvariant /\ UNCHANGED vars => LinkInvariant'
        BY DEF vars, LinkInvariant, TypeOK
      <3> QED
        BY <3>1, SendKeeps, AirMoves, FlushKeeps, ReadKeepsLink
          DEF Next, LinkOrder
    <2>2. OrderOK'
      BY OrderStep DEF LinkOrder
    <2>3. PICK c : CutUpTo(c)
      BY DEF LinkOrder
    <2>4. (\E d : CutUpTo(d))'
      <3>1. CASE Read
        BY <2>3, <3>1, MarkMoves DEF LinkOrder
      <3>2. CASE GroundSends \/ Arrive \/ Lose \/ Flush \/ UNCHANGED vars
        <4>1. CutUpTo(c)'
          BY <2>3, <3>2, MarkStays DEF LinkOrder
        <4> QED
          BY <4>1
      <3> QED
        BY <3>1, <3>2 DEF Next
    <2> QED
      BY <2>1, <2>2, <2>4 DEF LinkOrder
  <1> QED
    BY <1>1, <1>2, PTL DEF Spec

(* For any number of packets and any losses: a packet is returned once, and *)
(* once more for each packet before it of which only the $ arrived.         *)
THEOREM RepeatsAreExplained == Spec => []RepeatsExplained
  <1>1. LinkOrder => RepeatsExplained
    <2> SUFFICES ASSUME LinkOrder, NEW n \in Numbers
                 PROVE  delivered[n] <= 1 + Cardinality(
                          {m \in 1..(n - 1) : OnlyEndArrived(m)})
      BY DEF RepeatsExplained
    <2> DEFINE all == {m \in 1..(n - 1) : OnlyEndArrived(m)}
    <2>1. PICK c : CutUpTo(c)
      BY DEF LinkOrder
    <2>2. delivered[n] <= 1 + Cardinality(Repeaters(n, c))
          /\ delivered[n] \in Nat
      BY <2>1 DEF CutUpTo, LinkOrder, LinkInvariant, TypeOK
    <2>3. all \in SUBSET (1..(n - 1)) /\ Repeaters(n, c) \in SUBSET all
      BY DEF Repeaters
    <2>4. /\ Cardinality(all) \in Nat /\ Cardinality(Repeaters(n, c)) \in Nat
          /\ Cardinality(Repeaters(n, c)) <= Cardinality(all)
      BY <2>3, CountRepeaters
    <2> HIDE DEF all
    <2>5. delivered[n] <= 1 + Cardinality(all)
      BY <2>2, <2>4
    <2> QED
      BY <2>5 DEF all
  <1> QED
    BY <1>1, LinkOrderHolds, PTL

----------------------------------------------------------------------------
(* The packets that have worn down were sent.                               *)
WornOK == Worn \subseteq 1..nSent

(* Nothing is lost that was not sent.                                       *)
LEMMA WornWereSent == LinkInvariant => WornOK
  <1> SUFFICES ASSUME LinkInvariant, NEW n \in Worn PROVE n \in 1..nSent
    BY DEF WornOK
  <1>1. Symbol("text", n) \in lost /\ n \in Numbers
    BY DEF Worn, Wire, Symbol, ToSet
  <1>2. n <= nSent
    BY <1>1 DEF LinkInvariant, Symbol
  <1> QED
    BY <1>1, <1>2 DEF Numbers, LinkInvariant, TypeOK

(* So they were after any step.                                             *)
LEMMA WornWillBeSent == LinkInvariant' => WornOK'
  BY WornWereSent, PTL

(* PacketLink counts as this module does.                                   *)
LEMMA SameCount == \A S : Promise!Cardinality(S) = Cardinality(S)
  BY DEF Promise!Cardinality, Cardinality

(* A step of the link is one of PacketLink's, or changes nothing there.     *)
LEMMA StepPromised ==
  LinkOrder /\ LinkOrder' /\ [Next]_vars => [Promise!Next]_(Promise!vars)
  <1> SUFFICES ASSUME LinkOrder, LinkOrder', [Next]_vars
               PROVE  Promise!Next \/ UNCHANGED Promise!vars
    BY DEF Promise!vars
  <1>1. CASE GroundSends
    <2>1. /\ nSent < MaxSent /\ nSent' = nSent + 1
          /\ UNCHANGED <<delivered, lost>>
      BY <1>1 DEF GroundSends
    <2>2. Worn' = Worn
      BY <2>1 DEF Worn
    <2> QED
      BY <2>1, <2>2 DEF Promise!Next, Promise!Send
  <1>2. CASE Arrive \/ Lose \/ Flush
    <2>1. UNCHANGED <<nSent, delivered>> /\ lost \subseteq lost'
      BY <1>2 DEF Arrive, Lose, Flush
    <2>2. Worn \subseteq Worn'
      BY <2>1 DEF Worn
    <2>3. Worn' \subseteq 1..nSent
      BY <2>1, WornWillBeSent DEF LinkOrder, WornOK
    <2> QED
      BY <2>1, <2>2, <2>3 DEF Promise!Next, Promise!Wear
  <1>3. CASE Read
    <2>1. UNCHANGED <<nSent, lost>> /\ Worn' = Worn
      BY <1>3 DEF Read, Worn
    <2>2. CASE delivered' = delivered
      BY <2>1, <2>2 DEF Promise!vars
    <2>3. CASE delivered' # delivered
      <3>1. PICK n \in Numbers :
              /\ delivered' = [delivered EXCEPT ![n] = @ + 1]
              /\ Symbol("text", n) \in Pending
        BY <1>3, <2>3, ReadCuts DEF LinkOrder
      <3>2. PICK c : CutUpTo(c)
        BY DEF LinkOrder
      <3>3. c < n /\ n <= nSent /\ c \in Nat /\ n \in Nat
        <4>1. Symbol("text", n).of = n /\ n \in Nat
          BY DEF Symbol, Numbers
        <4>2. \A s \in Pending : s.of <= nSent
          BY DEF LinkOrder, Pending, LinkInvariant, ToSet
        <4> QED
          BY <3>1, <3>2, <4>1, <4>2 DEF CutUpTo
      <3>4. delivered[n] <= Cardinality({m \in Worn : m < n})
        <4> DEFINE before == {m \in Worn : m < n}
        <4>1. delivered[n] <= Cardinality(Repeaters(n, c))
              /\ delivered[n] \in Nat
          BY <3>1, <3>2 DEF CutUpTo, LinkOrder, LinkInvariant, TypeOK
        <4>2. before \in SUBSET (1..(n - 1)) /\ Repeaters(n, c) \in SUBSET before
          <5>1. \A m \in Worn : m \in Nat /\ m >= 1
            BY DEF Worn, Numbers
          <5>2. \A m \in 1..(n - 1) : m \in Numbers /\ m < n
            BY <3>3, LinkAssumption DEF Numbers
          <5>3. \A m \in Repeaters(n, c) : m \in Worn /\ m < n
            BY <5>2 DEF Repeaters, OnlyEndArrived, Worn
          <5> QED
            BY <3>3, <5>1, <5>3
        <4>3. /\ Cardinality(before) \in Nat
              /\ Cardinality(Repeaters(n, c)) \in Nat
              /\ Cardinality(Repeaters(n, c)) <= Cardinality(before)
          BY <4>2, CountRepeaters
        <4> HIDE DEF before
        <4>4. delivered[n] <= Cardinality(before)
          BY <4>1, <4>3
        <4> QED
          BY <4>4 DEF before
      <3>5. ASSUME Worn = {} PROVE \A m \in Promise!Past : m < n
        <4>1. \A m \in Numbers : delivered[m] > 0 => m <= c /\ m \in Nat
          BY <3>2, <3>5 DEF CutUpTo, Numbers
        <4> QED
          BY <3>3, <4>1 DEF Promise!Past, Promise!Numbers, Numbers
      <3>6. Promise!Deliver(n)
        BY <2>1, <3>1, <3>3, <3>4, <3>5, SameCount DEF Promise!Deliver
      <3> QED
        BY <3>6 DEF Promise!Next, Promise!Numbers, Numbers
    <2> QED
      BY <2>2, <2>3
  <1>4. CASE UNCHANGED vars
    BY <1>4 DEF vars, Promise!vars, Worn
  <1> QED
    BY <1>1, <1>2, <1>3, <1>4 DEF Next

(* For any number of packets and any losses the driver keeps the promise of *)
(* PacketLink: in order and at most once, until a packet has worn down.     *)
THEOREM PromiseKept == Spec => ImplementsLink
  <1>1. Init => Promise!Init
    <2> SUFFICES ASSUME Init PROVE Promise!Init
      OBVIOUS
    <2>1. Worn = {}
      <3>1. \A n \in Numbers : Symbol("^", n) \in ToSet(Wire(n)) \ lost
                               /\ Symbol("^", n) # Symbol("$", n)
        BY DEF Init, Wire, Symbol, ToSet
      <3> QED
        BY <3>1 DEF Worn
    <2> QED
      BY <2>1 DEF Init, Promise!Init, Numbers, Promise!Numbers
  <1> QED
    BY <1>1, StepPromised, LinkOrderHolds, PTL DEF Spec, ImplementsLink,
       Promise!Spec
============================================================================
