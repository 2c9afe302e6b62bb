---------------------------- MODULE MCPacketText ---------------------------
(***************************************************************************)
(* An SAC; a batch of readings with a delimiter too many; an INF that is   *)
(* long enough for weights above 27; and two texts that a damaged last     *)
(* delimiter leaves with a fitting checksum: SAC|AB|NNNNNNNNNN|885, which  *)
(* becomes |8|5, and SAC|9|DDDDDDDDDDDDD|39, which becomes D3|9. Two more  *)
(* that a mistake in the frame leaves with one: SGP|2310||682 becomes      *)
(* SGP|231, and SAC|0|rrrrs|958 without its S has the same checksum. And   *)
(* two messages that hold a ^ and a $ of their own.                        *)
(* Any character can be taken for one of those, a delimiter, a digit, an   *)
(* upper or lower case letter, among them pairs whose codes are 27 or 37   *)
(* apart.                                                                  *)
(***************************************************************************)
EXTENDS PacketText

MCMessages ==
  {<<49, 50, 52>>,
   <<48, 45, 49, Delim, 65>>,
   [i \in 1..30 |-> IF i % 2 = 0 THEN 49 + i ELSE 65],
   [i \in 1..10 |-> 78],
   [i \in 1..13 |-> 68]}

Packet(header, timestamp, message) ==
  [header |-> header, timestamp |-> timestamp, message |-> message]

MCLogs ==
  [header : {<<83, 65, 67>>}, message : MCMessages,
   timestamp : {0, 9, 10, 171, 4097}]
  \cup
  {Packet(<<83, 71, 80>>, 8976, <<>>),
   Packet(<<83, 65, 67>>, 0, <<114, 114, 114, 114, 115>>),
   Packet(<<83, 65, 67>>, 9, <<49, Caret, 50, 52>>),
   Packet(<<83, 65, 67>>, 9, <<49, Dollar, 50, 52>>)}

MCAlphabet == {Dollar, Caret, Delim, 48, 52, 65, 76, 92, 102}
============================================================================
