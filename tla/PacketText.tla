----------------------------- MODULE PacketText ----------------------------
(***************************************************************************)
(* lib/Log and the conversions of lib/Util: a packet is written as text    *)
(* with a checksum between ^ and $, at most one mistake happens to it on   *)
(* the way, the driver cuts out what it takes for a packet and compares    *)
(* the checksum, and Log::from_string takes it apart.                      *)
(*                                                                         *)
(* A text is a sequence of character codes. One packet is followed, from   *)
(* an empty buffer until its last $ has been read; what the remains of one *)
(* do to the next is in XBeeLink.                                          *)
(***************************************************************************)
EXTENDS Integers, Sequences, SequencesExt

CONSTANTS
  Logs,     \* the packets sent
  Alphabet  \* the codes a character may be taken for

Delim == 124 \* PACKET_DELIMITER, a |
Caret == 94  \* opens a packet
Dollar == 36 \* ends it

(* The printable characters. *)
Codes == 32..126
IsText(x) == x \in Seq(Codes)

ASSUME TextAssumption ==
  /\ \A log \in Logs : /\ IsText(log.header) /\ Len(log.header) = 3
                       /\ IsText(log.message) /\ log.timestamp \in Nat
                       /\ \A i \in 1..3 :
                            log.header[i] \notin {Delim, Caret, Dollar}
  /\ Alphabet \subseteq Codes

VARIABLES
  log,     \* the packet that is sent
  text,    \* its text, as it is on the way
  damage,  \* what has happened to it
  arrived, \* how much of it XBee::read has taken up
  cut,     \* how much of that has been cut off rcvd
  outcome, \* what has become of what was cut off last
  parsed   \* the Log that from_string has made of it

vars == <<log, text, damage, arrived, cut, outcome, parsed>>

NoLog == [header |-> <<>>, timestamp |-> 0, message |-> <<>>]

TypeOK ==
  /\ log \in Logs
  /\ IsText(text)
  /\ damage \in {"none", "substituted", "swapped"}
  /\ arrived \in 0..Len(text) /\ cut \in 0..arrived
  /\ outcome \in {"sent", "rejected", "throws", "undefined", "parsed"}
  /\ IsText(parsed.header) /\ IsText(parsed.message)
  /\ parsed.timestamp \in Int

----------------------------------------------------------------------------
(* Slip: the digit is not made a character.                                 *)
DigitRaw(d) == d

(* The character of a digit.                                                *)
DigitOf(d) == IF d < 10 THEN 48 + d ELSE 55 + d

(* Slip: zeros are dropped wherever they stand.                             *)
DigitsWithoutZeros(base, w) ==
  LET digits[v \in Nat] ==
        IF v < base THEN <<DigitOf(v)>>
        ELSE digits[v \div base] \o
               (IF v % base = 0 THEN <<>> ELSE <<DigitOf(v % base)>>)
  IN digits[w]

(* Util::hex and Util::to_string(long), of a number that is not negative.   *)
Digits(base, w) ==
  LET digits[v \in Nat] ==
        IF v < base THEN <<DigitOf(v)>>
        ELSE Append(digits[v \div base], DigitOf(v % base))
  IN digits[w]

(* Milliseconds have up to 11 digits until the year 2527; the board's long  *)
(* has 8.                                                                   *)
ASSUME TimestampAssumption ==
  \A l \in Logs : Len(Digits(16, l.timestamp)) <= 11

(* The number that a digit, and a sequence of them, stands for.             *)
DigitValue(c) == IF c < 58 THEN c - 48 ELSE c - 55

ValueOf(base, digits) ==
  LET value[i \in 0..Len(digits)] ==
        IF i = 0 THEN 0 ELSE base * value[i - 1] + DigitValue(digits[i])
  IN value[Len(digits)]

(* strtol(..., 10): the decimal digits a section starts with.               *)
LeadingNumber(section) ==
  LET end == Min({i \in 1..Len(section) : section[i] \notin 48..57}
                   \cup {Len(section) + 1})
  IN ValueOf(10, SubSeq(section, 1, end - 1))

----------------------------------------------------------------------------
(* Every character, weighed with its place, of which the first is 0.        *)
WeighedSum(packet) ==
  LET sum[i \in 0..Len(packet)] ==
        IF i = 0 THEN 0 ELSE sum[i - 1] + (i - 1) * packet[i]
  IN sum[Len(packet)]

(* Slip: the characters are not weighed with their places.                  *)
ChecksumUnweighed(packet) ==
  Digits(10, FoldLeft(LAMBDA sum, c : sum + c, 0, packet) % 999)

(* Slip: the sum is cut to one digit.                                       *)
ChecksumOneDigit(packet) == Digits(10, WeighedSum(packet) % 9)

(* Log::generateChecksum                                                    *)
Checksum(packet) == Digits(10, WeighedSum(packet) % 999)

(* What Log::toString writes before the checksum.                           *)
Body(l) ==
  l.header \o <<Delim>> \o Digits(16, l.timestamp) \o <<Delim>> \o l.message

(* Slip: the checksum includes the delimiter before it.                     *)
ContentDelimited(l) ==
  Body(l) \o <<Delim>> \o Checksum(Body(l) \o <<Delim>>)

(* What it writes between the ^ and the $.                                  *)
Content(l) == Body(l) \o <<Delim>> \o Checksum(Body(l))

(* Log::toString *)
Write(l) == <<Caret>> \o Content(l) \o <<Dollar>>

Delims(str) == {i \in 1..Len(str) : str[i] = Delim}

(* Util::getMaxIndex; 0 if there is none.                                   *)
LastDelim(str) == Max(Delims(str) \cup {0})

(* The packet without its checksum, and the checksum. Without a delimiter   *)
(* each is all of the text.                                                 *)
Checkless(str) ==
  SubSeq(str, 1, IF LastDelim(str) = 0 THEN Len(str) ELSE LastDelim(str) - 1)
SentChecksum(str) == SubSeq(str, LastDelim(str) + 1, Len(str))

(* Slip: the driver does not compare the checksums.                         *)
AcceptedAlways(str) == TRUE

(* The test of XBee::read_buffer, and of from_string.                       *)
Accepted(str) == Checksum(Checkless(str)) = SentChecksum(str)

(* string::find, from place i on; behind the end if there is none.          *)
NextDelim(str, i) == Min({j \in Delims(str) : i <= j} \cup {Len(str) + 1})

(* Util::split: the pieces that a delimiter follows, one after the other.   *)
Split(str) ==
  LET from[i \in 1..(Len(str) + 1)] ==
        LET j == NextDelim(str, i)
        IN IF j = Len(str) + 1 THEN <<>>
           ELSE <<SubSeq(str, i, j - 1)>> \o from[j + 1]
  IN from[1]

(* The first three sections, which from_string does not count. *)
Parse(str) ==
  [header |-> Split(str)[1], timestamp |-> LeadingNumber(Split(str)[2]),
   message |-> Split(str)[3]]

(* What XBee::read and from_string make of what was cut out: from_string    *)
(* throws, and nothing catches it, or reads past the end of the sections.   *)
OutcomeOf(str) ==
  CASE ~Accepted(str) -> "rejected"
    [] Accepted(str) /\ Split(str) = <<>> -> "throws"
    [] Accepted(str) /\ Split(str) # <<>> /\ Len(Split(str)[1]) # 3 -> "throws"
    [] Accepted(str) /\ Len(Split(str)) \in 1..2 /\ Len(Split(str)[1]) = 3 ->
         "undefined"
    [] OTHER -> "parsed"

----------------------------------------------------------------------------
HasEnd(buffer) == \E i \in 1..Len(buffer) : buffer[i] = Dollar

(* string::find of the first $.                                             *)
End(buffer) == Min({i \in 1..Len(buffer) : buffer[i] = Dollar})

(* The last ^ that can open the packet, or 0. The search stops before the   *)
(* character in front of the $; for a $ at the front packet_end - 1 wraps   *)
(* around, and all of the buffer is searched.                               *)
Start(buffer) ==
  LET searched == IF End(buffer) = 1 THEN buffer
                  ELSE SubSeq(buffer, 1, End(buffer) - 2)
  IN Max({i \in 1..Len(searched) : searched[i] = Caret} \cup {0})

(* The packet between them; with a $ at the front its length wraps around   *)
(* too, and it is all that has arrived behind the ^.                        *)
Incoming(buffer) ==
  SubSeq(buffer, Start(buffer) + 1,
         IF End(buffer) = 1 THEN Len(buffer) ELSE End(buffer) - 1)

(* Without a ^ it is dropped.                                               *)
Verdict(buffer) ==
  IF Start(buffer) = 0 THEN "rejected" ELSE OutcomeOf(Incoming(buffer))

----------------------------------------------------------------------------
Send(l) ==
  /\ log' = l /\ text' = Write(l) /\ damage' = "none"
  /\ arrived' = 0 /\ cut' = 0 /\ outcome' = "sent" /\ parsed' = NoLog

Init ==
  /\ log \in Logs /\ text = Write(log) /\ damage = "none"
  /\ arrived = 0 /\ cut = 0 /\ outcome = "sent" /\ parsed = NoLog

(* One character is taken for another one, or two neighbours change places. *)
Substitute(i, code) ==
  /\ outcome = "sent" /\ damage = "none"
  /\ text[i] # code
  /\ text' = [text EXCEPT ![i] = code]
  /\ damage' = "substituted"
  /\ UNCHANGED <<log, arrived, cut, outcome, parsed>>

Swap(i) ==
  /\ outcome = "sent" /\ damage = "none"
  /\ text[i] # text[i + 1]
  /\ text' = [text EXCEPT ![i] = text[i + 1], ![i + 1] = text[i]]
  /\ damage' = "swapped"
  /\ UNCHANGED <<log, arrived, cut, outcome, parsed>>

(* XBee::read with read_buffer, TelemetryTask::read and from_string: what   *)
(* has arrived is taken up, and everything up to its first $ cut off.       *)
Receive ==
  /\ outcome \notin {"throws", "undefined"}
  /\ \E n \in arrived..Len(text) :
       LET buffer == SubSeq(text, cut + 1, n)
       IN /\ HasEnd(buffer)
          /\ arrived' = n
          /\ cut' = cut + End(buffer)
          /\ outcome' = Verdict(buffer)
          /\ parsed' = IF outcome' = "parsed" THEN Parse(Incoming(buffer))
                       ELSE NoLog
  /\ UNCHANGED <<log, text, damage>>

(* The text has been read to its last $, or the program has ended.          *)
Over ==
  \/ outcome \in {"throws", "undefined"}
  \/ ~HasEnd(SubSeq(text, cut + 1, Len(text)))

Next ==
  \/ \E i \in DOMAIN text, code \in Alphabet : Substitute(i, code)
  \/ \E i \in 1..(Len(text) - 1) : Swap(i)
  \/ Receive
  \/ Over /\ \E l \in Logs : Send(l)

Spec == Init /\ [][Next]_vars

----------------------------------------------------------------------------
Received == outcome # "sent"

(* A packet whose message holds none of the characters that frame it. The   *)
(* others are cut inside their message, and nothing is claimed of them.     *)
Plain(l) == \A i \in 1..Len(l.message) : l.message[i] \notin {Caret, Dollar}

(* A mistake has put a ^ or a $ where there was none.                       *)
Reframed ==
  \E i \in DOMAIN text : text[i] # Write(log)[i] /\ text[i] \in {Caret, Dollar}

(* An undamaged packet is taken apart into the header and the message it    *)
(* was made of; a message that holds a delimiter comes back up to there.    *)
UndamagedComesBack ==
  Received /\ Plain(log) /\ damage = "none" =>
    /\ outcome = "parsed"
    /\ parsed.header = log.header
    /\ parsed.message = Split(log.message \o <<Delim>>)[1]

(* The timestamp is written in hexadecimal digits, as the ground expects    *)
(* it, but read in decimal ones (Log.cpp:44): from 10 on it comes back too  *)
(* small, and two packets of the ground may change their order.             *)
TimestampReadsLow ==
  outcome = "parsed" /\ Plain(log) /\ damage = "none" =>
    /\ ValueOf(16, Split(Incoming(text))[2]) = log.timestamp
    /\ parsed.timestamp <= log.timestamp
    /\ parsed.timestamp = log.timestamp <=> log.timestamp < 10

(* A substituted character is noticed by the checksum, but in four cases:   *)
(* the first character behind the ^ has no weight; 999 is 27 times 37, so a *)
(* weight of 27 leaves a change of the code by 37 unnoticed, and only       *)
(* behind the 27th character; a digit of the checksum that becomes a        *)
(* delimiter, or the last delimiter that becomes something else, leaves     *)
(* another checksum; and a ^ or $ in the middle leaves another packet (of   *)
(* SGP|2310||682 with the 0 read as $, SGP|231, whose checksum fits).       *)
SubstitutionCaught ==
  Received /\ Plain(log) /\ damage = "substituted" /\ outcome # "rejected" =>
    \/ LastDelim(text) # LastDelim(Write(log))
    \/ \E i \in DOMAIN text : text[i] # Write(log)[i] /\ (i = 2 \/ i > 28)
    \/ Reframed

(* An exchange of two neighbours is noticed, but for the last delimiter,    *)
(* where the digit that moves to its other side leaves another checksum,    *)
(* and for the ^, which leaves a packet without its first character.        *)
SwapCaught ==
  Received /\ Plain(log) /\ damage = "swapped" /\ outcome # "rejected" =>
    LastDelim(text) # LastDelim(Write(log)) \/ text[2] = Caret

(* A mistake that leaves no ^ or $ behind never makes from_string read past *)
(* the sections, and makes it throw, which ends the program, in one case    *)
(* only: the first character of the header has become a delimiter.          *)
ThrowsOnlyAtFirst ==
  Received /\ Plain(log) /\ outcome \notin {"rejected", "parsed"} =>
    (outcome = "throws" /\ text[2] = Delim) \/ Reframed
============================================================================
