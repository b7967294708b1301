----------------------------- MODULE PacketHeader -----------------------------
(***************************************************************************)
(* The header of a packet: createHeader and matchHeader of                 *)
(* src/Server8/protocol.cpp. A text field is the number of its characters, *)
(* all of them word characters (\w; any but a line break for TimeStamp);   *)
(* the number ContentLength is written in decimal and read back.           *)
(***************************************************************************)
EXTENDS Integers

Word == 0..32
MaxContent == 8 * 1024 * 1024
Packet ==
    [Operation : Word, OperationStatus : Word, ContentLength : {n \in Nat : n <= MaxContent}, TimeStamp : {23},
     InstanceName : Word, SessionID : {0, 16}]

\* sprintf_s "%d" of a number that is not negative: a digit, and one more for every power of
\* ten it reaches.
Reaches(n, power) == IF n >= power THEN 1 ELSE 0
Digits(n) ==
    1 + Reaches(n, 10) + Reaches(n, 100) + Reaches(n, 1000) + Reaches(n, 10 * 1000)
      + Reaches(n, 100 * 1000) + Reaches(n, 1000 * 1000) + Reaches(n, 10 * 1000 * 1000)

\* A label of n characters, a text and a line break, if there is a text.
Line(n, text) == n + text + 1
Optional(n, text) == IF text > 0 THEN Line(n, text) ELSE 0

\* The length of the header that createHeader makes.
createHeader(p) ==
    Line(10, p.Operation)
    + Optional(16, p.OperationStatus)
    + Line(14, Digits(p.ContentLength))
    + Line(10, p.TimeStamp)
    + Optional(13, p.InstanceName)
    + Optional(10, p.SessionID)
    + 1

\* What the pattern accepts of the fields.
Pattern(p) ==
    /\ p.Operation \in 1..32
    /\ p.OperationStatus \in 0..32
    /\ Digits(p.ContentLength) \in 1..7
    /\ p.TimeStamp = 23
    /\ p.InstanceName \in 0..32
    /\ p.SessionID \in {0, 16}

Seen(length) == IF length > 256 THEN 256 ELSE length

\* matchHeader on length bytes that begin with the header of p: of these it looks at 256.
matchHeader(p, length) ==
    /\ length > 0
    /\ Pattern(p) /\ createHeader(p) <= Seen(length)

\* getPacketLength, once headLength has been set by either function.
getPacketLength(p) == createHeader(p) + p.ContentLength

\* The lengths sendData accepts (src/Server8/server.cpp).
Sendable(length) == length > 0 /\ length <= MaxContent + 256
===============================================================================
