--------------------------- MODULE PacketStreamProofs ---------------------------
(***************************************************************************)
(* Proofs about headers and about the framing of a connection's stream:    *)
(* where the handlers stand (Place), which calls are due (Due, Ordered)    *)
(* and, last, that a packet is called for exactly when it can be found     *)
(* (Tracked). An induction over the packets takes the least packet for     *)
(* which the claim would fail.                                             *)
(***************************************************************************)
EXTENDS PacketStream, SequenceTheorems, WellFoundedInduction, TLAPS

Header == INSTANCE PacketHeader

-------------------------------------------------------------------------------
(* Headers. *)

LEMMA DigitsBound ==
    ASSUME NEW n \in Nat, n <= Header!MaxContent
    PROVE  Header!Digits(n) \in 1..7
BY SMT DEF Header!Digits, Header!Reaches, Header!MaxContent

\* A header whose fields keep to the limits of protocol.h is shorter than 256 bytes, as its
\* note 1 says, so matchHeader, which looks at 256 bytes, sees all of it.
THEOREM HeaderFits ==
    ASSUME NEW p \in Header!Packet
    PROVE  Header!createHeader(p) \in 1..222
<1>1. Header!Digits(p.ContentLength) \in 1..7
  BY DigitsBound, SMT DEF Header!Packet
<1>2. /\ p.Operation \in 0..32 /\ p.OperationStatus \in 0..32 /\ p.InstanceName \in 0..32
      /\ p.TimeStamp = 23 /\ p.SessionID \in 0..16
  BY SMT DEF Header!Packet, Header!Word
<1> QED
  BY <1>1, <1>2, SMTT(30) DEF Header!createHeader, Header!Line, Header!Optional

\* Both ends agree on headers: one that createHeader makes, with an operation, is matched as
\* soon as all its bytes are there and never before; and the packet is one that sendData takes.
THEOREM HeaderMatched ==
    ASSUME NEW p \in Header!Packet, p.Operation > 0, NEW length \in Nat
    PROVE  /\ Header!matchHeader(p, length) <=> length >= Header!createHeader(p)
           /\ Header!Sendable(Header!getPacketLength(p))
<1>1. Header!createHeader(p) \in 1..222
  BY HeaderFits, SMT
<1>2. Header!Pattern(p)
  BY DigitsBound, SMT DEF Header!Packet, Header!Word, Header!Pattern
<1>3. p.ContentLength \in Nat /\ p.ContentLength <= Header!MaxContent
  BY SMT DEF Header!Packet
<1> QED
  BY <1>1, <1>2, <1>3, SMT
     DEF Header!matchHeader, Header!Seen, Header!Sendable, Header!MaxContent, Header!getPacketLength

\* protocol.h allows an operation of 0 to 32 bytes; a packet without one is never matched.
THEOREM EmptyOperationUnmatched ==
    ASSUME NEW p \in Header!Packet, p.Operation = 0, NEW length \in Nat
    PROVE  ~Header!matchHeader(p, length)
BY SMT DEF Header!matchHeader, Header!Pattern

-------------------------------------------------------------------------------
(* The stream. *)

LEMMA StreamFacts ==
    ASSUME starts \in Streams
    PROVE  /\ 1 \in Numbers /\ starts[1] = 0
           /\ \A k \in Numbers :
                /\ k \in Nat /\ k >= 1
                /\ starts[k] \in Nat /\ starts[k + 1] \in Nat
                /\ starts[k + 1] - starts[k] >= 1
<1>1. Packets \in Nat /\ Packets >= 1 /\ HeadLen \in Nat /\ HeadLen >= 1 /\ StreamBound \in Nat
  BY StreamAssumption
<1>2. /\ starts \in [1..(Packets + 1) -> 0..StreamBound]
      /\ starts[1] = 0 /\ \A k \in Numbers : starts[k + 1] - starts[k] \in Lengths
  BY DEF Streams
<1>3. 1 \in Numbers
  BY <1>1 DEF Numbers
<1>4. ASSUME NEW k \in Numbers
      PROVE  /\ k \in Nat /\ k >= 1
             /\ starts[k] \in Nat /\ starts[k + 1] \in Nat
             /\ starts[k + 1] - starts[k] >= 1
  <2>1. k \in Nat /\ k >= 1 /\ k \in 1..(Packets + 1) /\ k + 1 \in 1..(Packets + 1)
    BY <1>1 DEF Numbers
  <2>2. starts[k] \in Nat /\ starts[k + 1] \in Nat
    BY <1>1, <1>2, <2>1
  <2>3. starts[k + 1] - starts[k] >= HeadLen
    BY <1>2, StreamAssumption
  <2> QED
    BY <1>1, <2>1, <2>2, <2>3
<1> QED
  BY <1>2, <1>3, <1>4

CallSet == [from : Nat, to : Nat, end : Nat]

Types ==
    /\ starts \in Streams
    /\ pc \in {"accept", "recv", "splice"}
    /\ pos \in Nat /\ dataLength \in Nat /\ count \in Nat /\ pack \in Nat
    /\ bytesToRecv \in Nat /\ packetLength \in Nat /\ block \in Nat
    /\ pending \in Seq(CallSet) /\ calls \in Seq(CallSet) /\ cuts \in Seq(Nat)

\* What a context that has prevFlag waits for: the rest of packet k.
Lacks(k) ==
    /\ bytesToRecv > 0 /\ pos + bytesToRecv = End(k) /\ Start(k) < pos
    /\ k = 1 => packetLength = Length(1) /\ block = Length(1)

\* The loop stands at the end of packet k; if that is behind the piece's end the packet began
\* in this piece and is the one last matched.
StandsAt(k) ==
    /\ pos + count = End(k)
    /\ count > dataLength =>
         k > 1 /\ pack = Length(k) /\ pos <= Start(k) /\ Start(k) < pos + dataLength

\* Where the handlers are in the stream, and which pieces have been cut off it.
Place ==
    ~fault =>
        /\ pc = "accept" => pos = 0 /\ ~prevFlag /\ calls = << >> /\ pending = << >>
        /\ pc = "recv" => pos >= 1 /\ Len(cuts) >= 1 /\ cuts[Len(cuts)] = pos
        /\ pc = "splice" =>
            /\ pos >= 1 /\ ~prevFlag /\ Len(cuts) >= 2
            /\ cuts[Len(cuts)] = pos + dataLength /\ cuts[Len(cuts) - 1] = pos
            /\ count > 0 => \E k \in Numbers : StandsAt(k)
        /\ prevFlag => \E k \in Numbers : Lacks(k)

LEMMA InitPlace == Init => Types /\ Place
<1>1. << >> \in Seq(CallSet) /\ << >> \in Seq(Nat)
  OBVIOUS
<1>2. Init => Types
  BY <1>1 DEF Init, Types
<1>3. Init => Place
  BY DEF Init, Place
<1> QED
  BY <1>2, <1>3

LEMMA TypesStep ==
    ASSUME Types, Place, [Next]_vars
    PROVE  Types'
<1> USE DEF Types
<1>0. /\ Packets \in Nat /\ AcceptSize \in Nat /\ ContextSize \in Nat
  BY StreamAssumption
<1>1. /\ 1 \in Numbers /\ starts[1] = 0
      /\ \A k \in Numbers :
           starts[k] \in Nat /\ starts[k + 1] \in Nat /\ starts[k + 1] - starts[k] >= 1
  BY StreamFacts
<1>2. CASE UNCHANGED vars
  BY <1>2 DEF vars, context
<1>3. ASSUME NEW n \in 1..AcceptSize, doAccept(n) PROVE Types'
  <2>1. n \in Nat /\ Call(0, n, n) \in CallSet /\ <<n>> \in Seq(Nat)
    BY <1>0 DEF Call, CallSet
  <2>2. <<Call(0, n, n)>> \in Seq(CallSet)
    BY <2>1
  <2> QED
    <3>1. Length(1) \in Nat
      BY <1>1 DEF Start, End, Length
    <3>2. CASE Fault
      BY <1>3, <2>1, <3>2 DEF doAccept, acceptPiece, Fault, context
    <3>3. CASE ~Fault
      <4>1. /\ UNCHANGED <<starts, dataLength, count, pack, calls>>
            /\ pc' = "recv" /\ pos' = n /\ cuts' = <<n>>
        BY <1>3, <3>3 DEF doAccept, acceptPiece
      <4>2. /\ bytesToRecv' \in Nat /\ packetLength' \in Nat /\ block' \in Nat
            /\ pending' \in Seq(CallSet)
        <5>1. CASE n < Length(1) /\ Keep(Length(1) - n, Length(1)) /\ packetLength' = Length(1)
                   /\ UNCHANGED pending
          BY <2>1, <3>1, <5>1 DEF Keep
        <5>2. CASE pending' = <<Call(0, n, n)>> /\ UNCHANGED context
          BY <2>2, <5>2 DEF context
        <5>3. CASE UNCHANGED <<context, pending>>
          BY <5>3 DEF context
        <5> QED
          BY <1>3, <3>3, <5>1, <5>2, <5>3 DEF doAccept, acceptPiece
      <4> QED
        BY <2>1, <4>1, <4>2
    <3> QED
      BY <3>2, <3>3
<1>4. CASE acceptCallback
  BY <1>4 DEF acceptCallback, context
<1>5. ASSUME NEW n \in 1..ContextSize, doRecv(n) PROVE Types'
  <2>1. n \in Nat /\ pos + n \in Nat /\ Append(cuts, pos + n) \in Seq(Nat)
    BY <1>0
  <2>2. ASSUME NEW e \in Nat PROVE Append(calls, Call(pos, pos + n, e)) \in Seq(CallSet)
    BY <2>1 DEF Call, CallSet
  <2>3. CASE recvLast(n)
    BY <2>1, <2>2, <2>3 DEF recvLast, Receive, Drop
  <2>4. CASE recvMiddle(n)
    <3>1. CASE Fault
      BY <2>1, <2>4, <3>1 DEF recvMiddle, Receive, Fault, context
    <3>2. CASE ~Fault
      <4>1. bytesToRecv - n \in Nat
        BY <2>1, <2>4 DEF recvMiddle
      <4> QED
        BY <2>1, <2>4, <3>2, <4>1 DEF recvMiddle, Receive
    <3> QED
      BY <3>1, <3>2
  <2>5. CASE recvBeyond(n)
    <3>1. CASE Fault
      BY <2>1, <2>5, <3>1 DEF recvBeyond, Receive, Fault, context
    <3>2. CASE ~Fault
      <4>1. pos + bytesToRecv \in Nat
        OBVIOUS
      <4>2. Append(calls, Call(pos, pos + n, pos + bytesToRecv)) \in Seq(CallSet)
        BY <2>2, <4>1
      <4> QED
        <5>1. /\ cuts' = Append(cuts, pos + n)
              /\ calls' = Append(calls, Call(pos, pos + n, pos + bytesToRecv))
              /\ bytesToRecv' = 0 /\ block' = 0
              /\ pc' = "splice" /\ dataLength' = n /\ count' = bytesToRecv /\ pack' = 0
              /\ UNCHANGED <<starts, pos, packetLength, pending>>
          BY <2>5, <3>2 DEF recvBeyond, Receive, Drop
        <5> QED
          BY <2>1, <4>2, <5>1
    <3> QED
      BY <3>1, <3>2
  <2>6. CASE recvInvalid(n)
    BY <2>1, <2>6 DEF recvInvalid, Receive, Drop
  <2>7. CASE recvFresh(n)
    BY <2>1, <2>7 DEF recvFresh, Receive, context
  <2> QED
    BY <1>5, <2>3, <2>4, <2>5, <2>6, <2>7 DEF doRecv
<1>6. ASSUME NEW k \in Numbers, splice(k) PROVE Types'
  <2>1. Length(k) \in Nat
    BY <1>1 DEF Length, Start, End
  <2>2. Append(calls, Call(pos, pos + dataLength, pos + count + Length(k))) \in Seq(CallSet)
    BY <2>1 DEF Call, CallSet
  <2> QED
    BY <1>6, <2>1, <2>2 DEF splice, spliceStep, context
<1>7. CASE leftover
  <2>1. CASE Fault
    BY <1>7, <2>1 DEF leftover, finishSplice, Fault, context
  <2>2. CASE ~Fault /\ count > dataLength
    <3>1. count - dataLength \in Nat
      BY <2>2
    <3> QED
      BY <1>7, <2>2, <3>1 DEF leftover, finishSplice, Keep
  <2>3. CASE ~Fault /\ ~(count > dataLength)
    BY <1>7, <2>3 DEF leftover, finishSplice, context
  <2> QED
    BY <2>1, <2>2, <2>3
<1> QED
  BY <1>2, <1>3, <1>4, <1>5, <1>6, <1>7 DEF Next

LEMMA PlaceStep ==
    ASSUME Types, Types', Place, [Next]_vars
    PROVE  Place'
<1> SUFFICES ASSUME ~fault' PROVE Place'
  BY DEF Place
<1>0. /\ 1 \in Numbers /\ starts[1] = 0 /\ AcceptSize \in Nat /\ ContextSize \in Nat
      /\ \A k \in Numbers :
           /\ k \in Nat /\ k >= 1 /\ starts[k] \in Nat /\ starts[k + 1] \in Nat
           /\ starts[k + 1] - starts[k] >= 1
  BY StreamFacts, StreamAssumption DEF Types
<1> USE DEF Start, End, Length
<1>1. CASE UNCHANGED vars
  <2>1. UNCHANGED <<starts, pc, pos, dataLength, count, pack, pending, calls, cuts, fault,
                    prevFlag, bytesToRecv, packetLength, block>>
    BY <1>1 DEF vars, context
  <2> QED
    BY <2>1 DEF Place, Lacks, StandsAt
<1>2. ASSUME NEW n \in 1..AcceptSize, doAccept(n) PROVE Place'
  <2>1. n \in Nat /\ n >= 1 /\ ~Fault
    BY <1>0 DEF Fault
  <2>2. ~fault /\ pc' = "recv" /\ pos' = n /\ cuts' = <<n>> /\ starts' = starts /\ pc = "accept"
    BY <1>2, <2>1 DEF doAccept, acceptPiece
  <2>3. Len(cuts') >= 1 /\ cuts'[Len(cuts')] = pos'
    BY <2>2
  <2>4. ~prevFlag
    BY <2>2 DEF Place
  <2>5. prevFlag' => Lacks(1)'
    <3>1. CASE n < Length(1) /\ Keep(Length(1) - n, Length(1)) /\ packetLength' = Length(1)
      <4>1. bytesToRecv' = Length(1) - n /\ block' = Length(1)
        BY <3>1 DEF Keep
      <4> QED
        BY <1>0, <2>1, <2>2, <3>1, <4>1 DEF Lacks
    <3>2. CASE UNCHANGED context
      BY <2>4, <3>2 DEF context
    <3> QED
      BY <1>2, <2>1, <3>1, <3>2 DEF doAccept, acceptPiece
  <2> QED
    BY <1>0, <2>1, <2>2, <2>3, <2>5 DEF Place, Numbers
<1>3. CASE acceptCallback
  <2>1. /\ UNCHANGED <<starts, pc, pos, dataLength, count, pack, cuts, fault, prevFlag,
                       bytesToRecv, packetLength, block>>
        /\ pending # << >> /\ ~fault
    BY <1>3 DEF acceptCallback, context
  <2>2. pc # "accept"
    BY <2>1 DEF Place
  <2> QED
    BY <2>1, <2>2 DEF Place, Lacks, StandsAt
<1>4. ASSUME NEW n \in 1..ContextSize, doRecv(n) PROVE Place'
  <2>1. n \in Nat /\ n >= 1 /\ ~Fault
    BY <1>0 DEF Fault
  <2>2. /\ ~fault /\ pc = "recv" /\ cuts' = Append(cuts, pos + n) /\ starts' = starts
        /\ cuts \in Seq(Nat) /\ pos \in Nat /\ bytesToRecv \in Nat
    BY <1>4, <2>1
       DEF doRecv, recvLast, recvMiddle, recvBeyond, recvInvalid, recvFresh, Receive, Types
  <2>3. pos >= 1 /\ Len(cuts) >= 1 /\ cuts[Len(cuts)] = pos
    BY <2>2 DEF Place
  <2>4. /\ Len(cuts') = Len(cuts) + 1 /\ Len(cuts') >= 2
        /\ cuts'[Len(cuts')] = pos + n /\ cuts'[Len(cuts') - 1] = pos
    BY <2>1, <2>2, <2>3
  <2>5. prevFlag => \E k \in Numbers : Lacks(k)
    BY <2>2 DEF Place
  <2>6. CASE pc' = "recv" /\ pos' = pos + n /\ ~prevFlag'
    BY <2>1, <2>2, <2>3, <2>4, <2>6 DEF Place
  <2>7. CASE recvMiddle(n)
    <3>1. /\ prevFlag /\ n < bytesToRecv /\ pc' = pc /\ pos' = pos + n
          /\ bytesToRecv' = bytesToRecv - n /\ packetLength' = packetLength /\ block' = block
      BY <2>1, <2>7 DEF recvMiddle, Receive
    <3>2. PICK k \in Numbers : Lacks(k)
      BY <2>5, <3>1
    <3>3. Lacks(k)'
      BY <1>0, <2>1, <2>2, <3>1, <3>2 DEF Lacks
    <3> QED
      BY <2>1, <2>2, <2>3, <2>4, <3>1, <3>3 DEF Place, Numbers
  <2>8. CASE recvBeyond(n)
    <3>1. /\ prevFlag /\ n > bytesToRecv /\ pc' = "splice" /\ pos' = pos /\ ~prevFlag'
          /\ dataLength' = n /\ count' = bytesToRecv
      BY <2>1, <2>8 DEF recvBeyond, Receive, Drop
    <3>2. PICK k \in Numbers : Lacks(k)
      BY <2>5, <3>1
    <3>3. StandsAt(k)'
      BY <1>0, <2>1, <2>2, <3>1, <3>2 DEF Lacks, StandsAt
    <3> QED
      BY <2>1, <2>2, <2>3, <2>4, <3>1, <3>3 DEF Place, Numbers
  <2>9. CASE recvFresh(n)
    <3>1. pc' = "splice" /\ pos' = pos /\ ~prevFlag' /\ dataLength' = n /\ count' = 0
      BY <2>9 DEF recvFresh, Receive, context
    <3> QED
      BY <2>1, <2>2, <2>3, <2>4, <3>1 DEF Place
  <2>10. CASE recvLast(n) \/ recvInvalid(n)
    BY <2>2, <2>6, <2>10 DEF recvLast, recvInvalid, Drop
  <2> QED
    BY <1>4, <2>7, <2>8, <2>9, <2>10 DEF doRecv
<1>5. ASSUME NEW k \in Numbers, splice(k) PROVE Place'
  <2>1. /\ ~fault /\ pc = "splice" /\ count < dataLength /\ starts[k] = pos + count
        /\ count' = count + Length(k) /\ pack' = Length(k)
        /\ UNCHANGED <<starts, pc, pos, dataLength, cuts, prevFlag>>
    BY <1>5 DEF splice, spliceStep, Splicing, Matches, matchHeader, context
  <2>2. /\ pos >= 1 /\ ~prevFlag /\ Len(cuts) >= 2
        /\ cuts[Len(cuts)] = pos + dataLength /\ cuts[Len(cuts) - 1] = pos
    BY <2>1 DEF Place
  <2>3. StandsAt(k)'
    <3>1. pos \in Nat /\ count \in Nat /\ dataLength \in Nat
      BY DEF Types
    <3>2. k \in Nat /\ k >= 1 /\ starts[k] \in Nat /\ starts[k + 1] \in Nat
      BY <1>0
    <3>3. k # 1
      <4> SUFFICES ASSUME k = 1 PROVE FALSE
        OBVIOUS
      <4> QED
        BY <1>0, <2>1, <2>2, <3>1
    <3>4. pos' + count' = starts'[k + 1] /\ pack' = starts'[k + 1] - starts'[k]
      BY <2>1, <3>1, <3>2
    <3>5. k > 1 /\ pos' <= starts'[k] /\ starts'[k] < pos' + dataLength'
      BY <2>1, <3>1, <3>2, <3>3
    <3> QED
      BY <3>4, <3>5 DEF StandsAt
  <2> QED
    BY <2>1, <2>2, <2>3 DEF Place, Numbers
<1>6. CASE leftover
  <2>1. ~Fault
    BY DEF Fault
  <2>2. /\ ~fault /\ pc = "splice" /\ pc' = "recv" /\ pos' = pos + dataLength
        /\ UNCHANGED <<starts, cuts>>
    BY <1>6, <2>1 DEF leftover, finishSplice, Splicing
  <2>3. /\ pos >= 1 /\ ~prevFlag /\ Len(cuts) >= 2
        /\ cuts[Len(cuts)] = pos + dataLength
        /\ count > 0 => \E k \in Numbers : StandsAt(k)
    BY <2>2 DEF Place
  <2>4. pos' >= 1 /\ Len(cuts') >= 1 /\ cuts'[Len(cuts')] = pos'
    BY <2>2, <2>3 DEF Types
  <2>5. CASE count > dataLength
    <3>1. bytesToRecv' = count - dataLength
      BY <1>6, <2>1, <2>5 DEF leftover, finishSplice, Keep
    <3>2. PICK k \in Numbers : StandsAt(k)
      BY <2>3, <2>5 DEF Types
    <3>3. Lacks(k)'
      BY <1>0, <2>2, <2>3, <2>5, <3>1, <3>2 DEF StandsAt, Lacks, Types
    <3> QED
      BY <2>2, <2>4, <3>3 DEF Place, Numbers
  <2>6. CASE ~(count > dataLength)
    <3>1. ~prevFlag'
      BY <1>6, <2>1, <2>3, <2>6 DEF leftover, finishSplice, context
    <3> QED
      BY <2>2, <2>4, <3>1 DEF Place
  <2> QED
    BY <2>5, <2>6
<1> QED
  BY <1>1, <1>2, <1>3, <1>4, <1>5, <1>6 DEF Next

\* The handlers keep their place in the stream: for every stream and every way of cutting it,
\* doAccept and doRecv wait for exactly the bytes a packet lacks.
THEOREM HandlersInStep == Spec => []InStep
<1>1. Types /\ Place => InStep
  <2> SUFFICES ASSUME Types, Place, ~fault PROVE InStep
    BY DEF InStep
  <2>1. prevFlag => bytesToRecv > 0 /\ pos + bytesToRecv \in Ends
    BY DEF Place, Lacks, Ends
  <2>2. pc = "splice" => count = 0 \/ pos + count \in Ends
    BY DEF Place, StandsAt, Ends, Types
  <2> QED
    BY <2>1, <2>2 DEF InStep
<1>2. Types /\ Place /\ [Next]_vars => (Types /\ Place)'
  BY TypesStep, PlaceStep
<1> QED
  BY InitPlace, <1>1, <1>2, PTL DEF Spec

-------------------------------------------------------------------------------
(* Copies. *)

\* A step that makes a copy leave its block has the cause FaultHasCause names.
LEMMA CauseStep ==
    ASSUME Types, Place, FaultHasCause, [Next]_vars
    PROVE  FaultHasCause'
<1>0. /\ 1 \in Numbers /\ starts[1] = 0 /\ AcceptSize \in Nat /\ ContextSize \in Nat
      /\ Packets \in Nat
      /\ \A k \in Numbers :
           /\ k \in Nat /\ k >= 1 /\ starts[k] \in Nat /\ starts[k + 1] \in Nat
           /\ starts[k + 1] - starts[k] >= 1
  BY StreamFacts, StreamAssumption DEF Types
<1>1. ASSUME fault' = fault, cuts' = cuts, starts' = starts PROVE FaultHasCause'
  BY <1>1 DEF FaultHasCause, Untidy, PieceStart, Start, End
<1>2. CASE UNCHANGED vars
  BY <1>1, <1>2 DEF vars
<1>3. ASSUME NEW n \in 1..AcceptSize, doAccept(n) PROVE FaultHasCause'
  <2>1. ~fault /\ cuts' = <<n>> /\ starts' = starts
    BY <1>3 DEF doAccept, acceptPiece, Fault
  <2>2. CASE Fault
    <3>1. n > Length(1)
      BY <1>3, <2>1, <2>2 DEF doAccept, acceptPiece, Fault
    <3>2. Len(cuts') = 1 /\ cuts'[1] = n
      BY <2>1
    <3>3. cuts'[1] > starts'[1 + 1]
      BY <1>0, <2>1, <3>1, <3>2 DEF Length, Start, End
    <3> QED
      BY <3>2, <3>3 DEF FaultHasCause, Untidy, End
  <2>3. CASE ~Fault
    BY <1>3, <2>1, <2>3 DEF doAccept, acceptPiece, FaultHasCause
  <2> QED
    BY <2>2, <2>3
<1>4. CASE acceptCallback
  BY <1>1, <1>4 DEF acceptCallback
<1>5. ASSUME NEW n \in 1..ContextSize, doRecv(n) PROVE FaultHasCause'
  <2>1. n \in Nat /\ n >= 1
    BY <1>0
  <2>2. /\ ~fault /\ pc = "recv" /\ cuts' = Append(cuts, pos + n) /\ starts' = starts
        /\ cuts \in Seq(Nat) /\ pos \in Nat /\ bytesToRecv \in Nat
        /\ packetLength \in Nat /\ block \in Nat
    BY <1>5
       DEF doRecv, recvLast, recvMiddle, recvBeyond, recvInvalid, recvFresh, Receive, Types, Fault
  <2>3. pos >= 1 /\ Len(cuts) >= 1 /\ cuts[Len(cuts)] = pos
    BY <2>2 DEF Place
  <2>4. /\ Len(cuts') = Len(cuts) + 1 /\ Len(cuts') > 1
        /\ cuts'[Len(cuts')] = pos + n /\ cuts'[Len(cuts') - 1] = pos
    BY <2>1, <2>2, <2>3
  <2>5. CASE ~fault'
    BY <2>5 DEF FaultHasCause
  <2>6. CASE fault'
    <3>1. /\ prevFlag /\ n # bytesToRecv
          /\ \/ ~CopyFits(n) /\ n < bytesToRecv
             \/ ~CopyFits(bytesToRecv) /\ n > bytesToRecv
      <4>1. ~recvLast(n) /\ ~recvInvalid(n) /\ ~recvFresh(n)
        BY <2>2, <2>6 DEF recvLast, recvInvalid, recvFresh
      <4>2. recvMiddle(n) => prevFlag /\ ~CopyFits(n) /\ n < bytesToRecv
        BY <2>2, <2>6 DEF recvMiddle, Receive
      <4>3. recvBeyond(n) => prevFlag /\ ~CopyFits(bytesToRecv) /\ n > bytesToRecv
        BY <2>2, <2>6 DEF recvBeyond, Receive
      <4> QED
        BY <1>5, <2>1, <2>2, <4>1, <4>2, <4>3 DEF doRecv
    <3>2. PICK k \in Numbers : Lacks(k)
      BY <2>2, <3>1 DEF Place
    <3>3. /\ k \in Nat /\ k >= 1 /\ starts[k] \in Nat /\ starts[k + 1] \in Nat
          /\ bytesToRecv > 0 /\ pos + bytesToRecv = starts[k + 1] /\ starts[k] < pos
      BY <1>0, <3>2 DEF Lacks, Start, End
    <3>4. k # 1
      <4> SUFFICES ASSUME k = 1 PROVE FALSE
        OBVIOUS
      <4>1. /\ packetLength = starts[1 + 1] - starts[1] /\ block = starts[1 + 1] - starts[1]
            /\ pos + bytesToRecv = starts[1 + 1]
        BY <3>2, <3>3 DEF Lacks, Length, Start, End
      <4>2. packetLength = pos + bytesToRecv /\ block = pos + bytesToRecv
        BY <1>0, <2>2, <4>1
      <4> QED
        BY <2>1, <2>2, <3>1, <4>2 DEF CopyFits
    <3>5. k \in 2..Packets
      BY <1>0, <3>3, <3>4 DEF Numbers
    <3>6. PieceStart(Len(cuts))' = pos
      BY <2>4 DEF PieceStart
    <3>7. /\ starts'[k] < PieceStart(Len(cuts))' /\ PieceStart(Len(cuts))' < starts'[k + 1]
          /\ cuts'[Len(cuts')] # starts'[k + 1]
      BY <2>1, <2>2, <2>4, <3>1, <3>3, <3>6
    <3>8. Untidy(Len(cuts))'
      BY <2>4, <3>5, <3>7 DEF Untidy, Start, End
    <3> QED
      BY <3>8 DEF FaultHasCause
  <2> QED
    BY <2>5, <2>6
<1>6. ASSUME NEW k \in Numbers, splice(k) PROVE FaultHasCause'
  BY <1>1, <1>6 DEF splice, spliceStep
<1>7. CASE leftover
  <2>1. ~fault /\ pc = "splice" /\ UNCHANGED <<starts, cuts>>
    BY <1>7 DEF leftover, finishSplice, Splicing, Fault
  <2>2. CASE ~fault'
    BY <2>2 DEF FaultHasCause
  <2>3. CASE fault'
    <3>1. count > dataLength /\ (count - pack) + (count - dataLength) > ContextSize
      BY <1>7, <2>1, <2>3 DEF leftover, finishSplice
    <3>2. /\ pos >= 1 /\ Len(cuts) >= 2
          /\ cuts[Len(cuts)] = pos + dataLength /\ cuts[Len(cuts) - 1] = pos
          /\ count > 0 => \E k \in Numbers : StandsAt(k)
      BY <2>1 DEF Place
    <3>3. pos \in Nat /\ count \in Nat /\ dataLength \in Nat /\ pack \in Nat /\ Len(cuts) \in Nat
      BY DEF Types
    <3>4. PICK k \in Numbers : StandsAt(k)
      BY <3>1, <3>2, <3>3
    <3>5. /\ k \in Nat /\ k > 1 /\ starts[k] \in Nat /\ starts[k + 1] \in Nat
          /\ pos + count = starts[k + 1] /\ pack = starts[k + 1] - starts[k]
          /\ pos <= starts[k] /\ starts[k] < pos + dataLength
      BY <1>0, <3>1, <3>4 DEF StandsAt, Length, Start, End
    <3>6. k \in 2..Packets
      BY <1>0, <3>5 DEF Numbers
    <3>7. PieceStart(Len(cuts)) = pos /\ Len(cuts) > 1
      BY <3>2, <3>3 DEF PieceStart
    <3>8. /\ PieceStart(Len(cuts)) <= starts[k] /\ starts[k] < cuts[Len(cuts)]
          /\ cuts[Len(cuts)] < starts[k + 1]
          /\ (starts[k] - PieceStart(Len(cuts))) + (starts[k + 1] - cuts[Len(cuts)]) > ContextSize
      <4>1. count - pack = starts[k] - pos /\ count - dataLength = starts[k + 1] - (pos + dataLength)
        BY <3>3, <3>5
      <4>2. /\ pos <= starts[k] /\ starts[k] < pos + dataLength
            /\ pos + dataLength < starts[k + 1]
            /\ (starts[k] - pos) + (starts[k + 1] - (pos + dataLength)) > ContextSize
        BY <3>1, <3>3, <3>5, <4>1
      <4> QED
        BY <3>2, <3>7, <4>2
    <3>9. Untidy(Len(cuts))
      BY <3>6, <3>7, <3>8 DEF Untidy, Start, End
    <3>10. Untidy(Len(cuts))'
      BY <2>1, <3>9 DEF Untidy, PieceStart, Start, End
    <3> QED
      BY <3>10 DEF FaultHasCause
  <2> QED
    BY <2>2, <2>3
<1> QED
  BY <1>2, <1>3, <1>4, <1>5, <1>6, <1>7 DEF Next

\* For every stream, every way of cutting it and all sizes of buffers, no copy of doAccept and
\* doRecv leaves its block on a connection whose packets come tidily.
THEOREM CopiesFit == Spec => []FaultHasCause
<1>1. Init => FaultHasCause
  BY DEF Init, FaultHasCause
<1>2. (Types /\ Place /\ FaultHasCause) /\ [Next]_vars => (Types /\ Place /\ FaultHasCause)'
  BY TypesStep, PlaceStep, CauseStep
<1> QED
  BY InitPlace, <1>1, <1>2, PTL DEF Spec

-------------------------------------------------------------------------------
(* Calls. *)

\* What HandedOver says of one call, for a stream and the pieces' ends.
HandedIn(c, stream, ends) ==
    \E k \in Numbers :
        /\ c.end = stream[k + 1] /\ c.from < stream[k + 1] /\ stream[k + 1] <= c.to
        /\ (\A i \in 1..Len(ends) : ends[i] <= stream[k] \/ ends[i] >= stream[k + 1])
             => c.from <= stream[k]

FirstCall == Call(0, End(1), End(1))

\* The calls made were due, and doAccept owes at most the first packet's.
Due ==
    /\ pending = << >> \/ pending = <<FirstCall>>
    /\ \A i \in 1..Len(calls) : HandedIn(calls[i], starts, cuts)

\* A call stays right when pieces follow.
LEMMA HandedKept ==
    ASSUME NEW c, NEW stream, NEW ends \in Seq(Nat), NEW more \in Seq(Nat),
           HandedIn(c, stream, ends),
           Len(ends) <= Len(more), \A i \in 1..Len(ends) : more[i] = ends[i]
    PROVE  HandedIn(c, stream, more)
<1>1. PICK k \in Numbers :
        /\ c.end = stream[k + 1] /\ c.from < stream[k + 1] /\ stream[k + 1] <= c.to
        /\ (\A i \in 1..Len(ends) : ends[i] <= stream[k] \/ ends[i] >= stream[k + 1])
             => c.from <= stream[k]
  BY DEF HandedIn
<1>2. (\A i \in 1..Len(more) : more[i] <= stream[k] \/ more[i] >= stream[k + 1]) =>
        (\A i \in 1..Len(ends) : ends[i] <= stream[k] \/ ends[i] >= stream[k + 1])
  <2>1. \A i \in 1..Len(ends) : i \in 1..Len(more)
    OBVIOUS
  <2> QED
    BY <2>1
<1> QED
  BY <1>1, <1>2 DEF HandedIn

LEMMA FirstHanded ==
    ASSUME starts \in Streams
    PROVE  HandedIn(FirstCall, starts, cuts) /\ FirstCall \in CallSet /\ FirstCall.end = End(1)
<1>1. 1 \in Numbers /\ starts[1] = 0 /\ starts[1 + 1] \in Nat /\ starts[1 + 1] >= 1
  BY StreamFacts
<1>2. FirstCall.from = 0 /\ FirstCall.to = End(1) /\ FirstCall.end = End(1)
  BY DEF FirstCall, Call
<1>3. HandedIn(FirstCall, starts, cuts)
  BY <1>1, <1>2 DEF HandedIn, End
<1> QED
  BY <1>1, <1>2, <1>3 DEF FirstCall, Call, CallSet, End

LEMMA OneMore ==
    ASSUME NEW c \in CallSet, NEW old \in Seq(CallSet), NEW new, new = Append(old, c)
    PROVE  /\ Len(new) = Len(old) + 1 /\ new[Len(new)] = c
           /\ \A i \in 1..Len(old) : new[i] = old[i]
           /\ \A i \in 1..Len(new) : i \in 1..Len(old) \/ i = Len(new)
OBVIOUS

\* What the first packet's late call adds.
LEMMA LateCall ==
    ASSUME Types, Due, acceptCallback
    PROVE  /\ calls' = Append(calls, FirstCall) /\ pending' = << >> /\ ~fault
           /\ pending # << >>
           /\ UNCHANGED <<starts, pc, pos, dataLength, count, cuts, fault>>
<1>1. pending = <<FirstCall>> /\ FirstCall \in CallSet
  BY FirstHanded DEF Due, acceptCallback, Types
<1>2. calls \o <<FirstCall>> = Append(calls, FirstCall)
  BY <1>1, AppendIsConcat DEF Types
<1> QED
  BY <1>1, <1>2 DEF acceptCallback

\* What a receive adds: nothing, or the call for the packet it completes.
LEMMA ReceiveCall ==
    ASSUME Types, Place, NEW n \in 1..ContextSize, doRecv(n)
    PROVE  /\ ~fault /\ pc = "recv" /\ pos \in Nat /\ n \in Nat /\ n >= 1
           /\ cuts' = Append(cuts, pos + n) /\ UNCHANGED <<starts, pending>>
           /\ Threads > 1 \/ pending = << >>
           /\ \/ fault'
              \/ pc' = "recv" /\ pos' = pos + n
              \/ pc' = "splice" /\ pos' = pos /\ dataLength' = n /\ count' \in Nat
           /\ \/ calls' = calls
              \/ \E e \in Nat :
                   /\ calls' = Append(calls, Call(pos, pos + n, e))
                   /\ pos < e /\ e <= pos + n
                   /\ \E k \in Numbers : e = End(k) /\ Start(k) < pos
                   /\ pc' = "splice" => count' = e - pos
<1>0. ContextSize \in Nat
  BY StreamAssumption
<1>1. n \in Nat /\ n >= 1
  BY <1>0
<1>2. /\ ~fault /\ pc = "recv" /\ cuts' = Append(cuts, pos + n) /\ UNCHANGED <<starts, pending>>
      /\ Threads > 1 \/ pending = << >>
  BY <1>1 DEF doRecv, recvLast, recvMiddle, recvBeyond, recvInvalid, recvFresh, Receive, Fault
<1>3. pos \in Nat /\ bytesToRecv \in Nat
  BY DEF Types
<1>4. prevFlag => \E k \in Numbers : Lacks(k)
  BY <1>2 DEF Place
<1>5. CASE recvLast(n)
  <2>1. /\ prevFlag /\ n = bytesToRecv /\ calls' = Append(calls, Call(pos, pos + n, pos + n))
        /\ pc' = pc /\ pos' = pos + n
    BY <1>5 DEF recvLast
  <2>2. PICK k \in Numbers : Lacks(k)
    BY <1>4, <2>1
  <2>3. pos + n = End(k) /\ Start(k) < pos /\ pos + n \in Nat /\ pos < pos + n
    BY <1>1, <1>3, <2>1, <2>2 DEF Lacks
  <2> QED
    BY <1>1, <1>2, <1>3, <2>1, <2>3
<1>6. CASE recvMiddle(n)
  <2>1. calls' = calls
    BY <1>6 DEF recvMiddle, Fault
  <2>2. fault' \/ (pc' = pc /\ pos' = pos + n)
    BY <1>6 DEF recvMiddle, Fault
  <2> QED
    BY <1>1, <1>2, <1>3, <2>1, <2>2
<1>7. CASE recvBeyond(n)
  <2>1. prevFlag /\ n > bytesToRecv
    BY <1>7 DEF recvBeyond
  <2>2. CASE Fault
    <3>1. calls' = calls /\ fault'
      BY <2>2 DEF Fault
    <3> QED
      BY <1>1, <1>2, <1>3, <3>1
  <2>3. CASE ~Fault
    <3>1. /\ calls' = Append(calls, Call(pos, pos + n, pos + bytesToRecv))
          /\ pc' = "splice" /\ pos' = pos /\ dataLength' = n /\ count' = bytesToRecv
      BY <1>7, <2>3 DEF recvBeyond
    <3>2. PICK k \in Numbers : Lacks(k)
      BY <1>4, <2>1
    <3>3. /\ pos + bytesToRecv = End(k) /\ Start(k) < pos /\ pos + bytesToRecv \in Nat
          /\ pos < pos + bytesToRecv /\ pos + bytesToRecv <= pos + n
          /\ bytesToRecv = (pos + bytesToRecv) - pos
      BY <1>1, <1>3, <2>1, <3>2 DEF Lacks
    <3> QED
      BY <1>1, <1>2, <1>3, <3>1, <3>3
  <2> QED
    BY <2>2, <2>3
<1>8. CASE recvInvalid(n)
  BY <1>1, <1>2, <1>3, <1>8 DEF recvInvalid
<1>9. CASE recvFresh(n)
  BY <1>1, <1>2, <1>3, <1>9 DEF recvFresh
<1> QED
  BY <1>5, <1>6, <1>7, <1>8, <1>9 DEF doRecv

\* What the loop adds: nothing, or the call for the packet it has found whole.
LEMMA SpliceCall ==
    ASSUME Types, NEW k \in Numbers, splice(k)
    PROVE  /\ ~fault /\ pc = "splice" /\ pos \in Nat /\ count \in Nat /\ dataLength \in Nat
           /\ Start(k) = pos + count /\ End(k) \in Nat /\ Start(k) < End(k)
           /\ pos + count' = End(k)
           /\ UNCHANGED <<starts, pc, pos, dataLength, pending, cuts, fault>>
           /\ \/ calls' = calls
              \/ /\ calls' = Append(calls, Call(pos, pos + dataLength, End(k)))
                 /\ End(k) <= pos + dataLength
<1>1. /\ starts[k] \in Nat /\ starts[k + 1] \in Nat /\ starts[k + 1] - starts[k] >= 1
      /\ pos \in Nat /\ count \in Nat /\ dataLength \in Nat
  BY StreamFacts DEF Types
<1>2. /\ ~fault /\ pc = "splice" /\ Start(k) = pos + count /\ count' = count + Length(k)
      /\ UNCHANGED <<starts, pc, pos, dataLength, pending, cuts, fault>>
      /\ calls' = IF dataLength - count >= Length(k)
                  THEN Append(calls, Call(pos, pos + dataLength, pos + count + Length(k)))
                  ELSE calls
  BY DEF splice, spliceStep, Splicing, Matches, matchHeader
<1>3. pos + count + Length(k) = End(k) /\ pos + count' = End(k)
  BY <1>1, <1>2 DEF Start, End, Length
<1>4. dataLength - count >= Length(k) => End(k) <= pos + dataLength
  BY <1>1, <1>3 DEF Start, End, Length
<1> QED
  BY <1>1, <1>2, <1>3, <1>4 DEF Start, End

LEMMA DueStep ==
    ASSUME Types, Types', Place, Due, [Next]_vars
    PROVE  Due'
<1>0. /\ cuts \in Seq(Nat) /\ cuts' \in Seq(Nat) /\ calls \in Seq(CallSet) /\ starts \in Streams
      /\ ContextSize \in Nat
  BY StreamAssumption DEF Types
<1>1. ASSUME starts' = starts, cuts' = cuts, calls' = calls, pending' = pending PROVE Due'
  BY <1>1 DEF Due, FirstCall, End
<1>2. ASSUME starts' = starts, Len(cuts) <= Len(cuts'),
             \A i \in 1..Len(cuts) : cuts'[i] = cuts[i]
      PROVE  \A i \in 1..Len(calls) : HandedIn(calls[i], starts', cuts')
  BY <1>0, <1>2, HandedKept DEF Due
<1>3. ASSUME NEW c \in CallSet, calls' = Append(calls, c), HandedIn(c, starts', cuts'),
             \A i \in 1..Len(calls) : HandedIn(calls[i], starts', cuts')
      PROVE  \A i \in 1..Len(calls') : HandedIn(calls'[i], starts', cuts')
  BY <1>0, <1>3, OneMore
<1>4. ASSUME NEW x, cuts' = Append(cuts, x), x \in Nat
      PROVE  /\ Len(cuts') = Len(cuts) + 1 /\ Len(cuts) <= Len(cuts')
             /\ \A i \in 1..Len(cuts) : cuts'[i] = cuts[i]
  BY <1>0, <1>4
<1>5. CASE UNCHANGED vars
  BY <1>1, <1>5 DEF vars
<1>6. ASSUME NEW n \in 1..AcceptSize, doAccept(n) PROVE Due'
  <2>1. calls = << >> /\ pending = << >> /\ calls' = calls /\ starts' = starts
    BY <1>6 DEF doAccept, acceptPiece, Fault, Place
  <2>2. pending' = pending \/ (pending' = <<Call(0, n, n)>> /\ n = Length(1))
    BY <1>6 DEF doAccept, acceptPiece, Fault
  <2>3. Length(1) = End(1)
    BY <1>0, StreamFacts DEF Length, Start, End
  <2> QED
    BY <2>1, <2>2, <2>3 DEF Due, FirstCall, End
<1>7. CASE acceptCallback
  <2>1. calls' = Append(calls, FirstCall) /\ pending' = << >> /\ UNCHANGED <<starts, cuts>>
    BY <1>7, LateCall
  <2>2. FirstCall \in CallSet /\ HandedIn(FirstCall, starts', cuts')
    BY <1>0, <2>1, FirstHanded
  <2>3. \A i \in 1..Len(calls) : HandedIn(calls[i], starts', cuts')
    BY <2>1 DEF Due
  <2>4. \A i \in 1..Len(calls') : HandedIn(calls'[i], starts', cuts')
    BY <1>3, <2>1, <2>2, <2>3
  <2> QED
    BY <2>1, <2>4 DEF Due
<1>8. ASSUME NEW n \in 1..ContextSize, doRecv(n) PROVE Due'
  <2>1. /\ ~fault /\ pc = "recv" /\ pos \in Nat /\ n \in Nat /\ n >= 1 /\ pos + n \in Nat
        /\ cuts' = Append(cuts, pos + n) /\ UNCHANGED <<starts, pending>>
    BY <1>8, ReceiveCall
  <2>2. Len(cuts) >= 1 /\ cuts[Len(cuts)] = pos
    BY <2>1 DEF Place
  <2>3. /\ Len(cuts') = Len(cuts) + 1
        /\ \A i \in 1..Len(cuts) : cuts'[i] = cuts[i]
        /\ \A i \in 1..Len(calls) : HandedIn(calls[i], starts', cuts')
    BY <1>2, <1>4, <2>1
  <2>4. CASE calls' = calls
    BY <2>1, <2>3, <2>4 DEF Due, FirstCall, End
  <2>5. CASE calls' # calls
    <3>1. PICK e \in Nat :
            /\ calls' = Append(calls, Call(pos, pos + n, e))
            /\ pos < e /\ e <= pos + n
            /\ \E k \in Numbers : e = End(k) /\ Start(k) < pos
      BY <1>8, <2>5, ReceiveCall
    <3>2. PICK k \in Numbers : e = starts[k + 1] /\ starts[k] < pos
      BY <3>1 DEF Start, End
    <3> DEFINE c == Call(pos, pos + n, e)
    <3>3. c.from = pos /\ c.to = pos + n /\ c.end = e /\ c \in CallSet
      BY <2>1 DEF Call, CallSet
    <3>4. Len(cuts) \in 1..Len(cuts') /\ cuts'[Len(cuts)] = pos /\ starts[k] \in Nat
      <4>1. starts[k] \in Nat
        BY <1>0, StreamFacts
      <4>2. Len(cuts) \in Nat /\ Len(cuts) \in 1..Len(cuts) /\ Len(cuts) \in 1..Len(cuts')
        BY <1>0, <2>2, <2>3
      <4> QED
        BY <2>2, <2>3, <4>1, <4>2
    <3>5. ~(cuts'[Len(cuts)] <= starts[k] \/ cuts'[Len(cuts)] >= starts[k + 1])
      BY <2>1, <3>1, <3>2, <3>4
    <3>6. HandedIn(c, starts', cuts')
      BY <2>1, <3>1, <3>2, <3>3, <3>4, <3>5 DEF HandedIn
    <3>7. \A i \in 1..Len(calls') : HandedIn(calls'[i], starts', cuts')
      BY <1>3, <2>3, <3>1, <3>3, <3>6
    <3> QED
      BY <2>1, <3>7 DEF Due, FirstCall, End
  <2> QED
    BY <2>4, <2>5
<1>9. ASSUME NEW k \in Numbers, splice(k) PROVE Due'
  <2>1. /\ pos \in Nat /\ count \in Nat /\ dataLength \in Nat
        /\ Start(k) = pos + count /\ End(k) \in Nat /\ Start(k) < End(k)
        /\ UNCHANGED <<starts, pending, cuts>>
        /\ \/ calls' = calls
           \/ /\ calls' = Append(calls, Call(pos, pos + dataLength, End(k)))
              /\ End(k) <= pos + dataLength
    BY <1>9, SpliceCall
  <2>2. CASE calls' = calls
    BY <1>1, <2>1, <2>2
  <2>3. CASE calls' # calls
    <3> DEFINE c == Call(pos, pos + dataLength, End(k))
    <3>1. c.from = pos /\ c.to = pos + dataLength /\ c.end = End(k) /\ c \in CallSet
      BY <2>1 DEF Call, CallSet
    <3>2. pos <= Start(k) /\ pos < End(k)
      BY <2>1
    <3>3. HandedIn(c, starts', cuts')
      BY <2>1, <2>3, <3>1, <3>2 DEF HandedIn, Start, End
    <3>4. \A i \in 1..Len(calls) : HandedIn(calls[i], starts', cuts')
      BY <2>1 DEF Due
    <3>5. \A i \in 1..Len(calls') : HandedIn(calls'[i], starts', cuts')
      BY <1>3, <2>1, <2>3, <3>1, <3>3, <3>4
    <3> QED
      BY <2>1, <3>5 DEF Due, FirstCall, End
  <2> QED
    BY <2>2, <2>3
<1>10. CASE leftover
  BY <1>1, <1>10 DEF leftover, finishSplice, Fault
<1> QED
  BY <1>5, <1>6, <1>7, <1>8, <1>9, <1>10 DEF Next

\* For every stream and every way of cutting it, doAccept and doRecv call the callback only for
\* packets whose last byte is in the buffer, and with the whole packet if no piece cut it.
THEOREM CallsHandOver == Spec => []HandedOver
<1>1. Init => Due
  BY DEF Init, Due
<1>2. Due => HandedOver
  BY DEF Due, HandedOver, HandedIn, Calls, Start, End
<1>3. (Types /\ Place /\ Due) /\ [Next]_vars => (Types /\ Place /\ Due)'
  BY TypesStep, PlaceStep, DueStep
<1> QED
  BY InitPlace, <1>1, <1>2, <1>3, PTL DEF Spec

\* How far in the stream the calls made so far may have got.
Reached(e) ==
    IF pc = "splice" THEN e <= pos + count /\ e <= pos + dataLength ELSE e <= pos

\* The order of the calls, and what it rests on: they do not run ahead of the stream, and while
\* the first packet's call is due all others are for later packets, by other workers.
Ordered ==
    /\ CallsInOrder
    /\ ~fault =>
        /\ \A i \in 1..Len(calls) : Reached(calls[i].end)
        /\ pending # << >> =>
            /\ End(1) <= pos
            /\ pc = "splice" => Threads > 1
            /\ \A i \in 1..Len(calls) : calls[i].end > End(1) /\ Threads > 1

\* A call for something behind all that calls were made for keeps the order.
LEMMA LaterCall ==
    ASSUME Types, CallsInOrder, starts' = starts, NEW c \in CallSet, calls' = Append(calls, c),
           \A i \in 1..Len(calls) :
             calls[i].end < c.end \/ (Threads > 1 /\ c.end = End(1) /\ calls[i].end # End(1))
    PROVE  CallsInOrder'
<1>1. /\ Len(calls') = Len(calls) + 1 /\ calls'[Len(calls')] = c /\ Len(calls) \in Nat
      /\ \A i \in 1..Len(calls) : calls'[i] = calls[i]
      /\ \A i \in 1..Len(calls') : i \in 1..Len(calls) \/ i = Len(calls')
  BY OneMore DEF Types
<1> SUFFICES ASSUME NEW i \in 1..Len(calls'), NEW j \in 1..Len(calls'), i < j
             PROVE  \/ calls'[i].end < calls'[j].end
                    \/ Threads > 1 /\ calls'[j].end = End(1) /\ calls'[i].end # End(1)
  BY DEF CallsInOrder, End
<1>2. i \in 1..Len(calls)
  BY <1>1
<1>3. CASE j \in 1..Len(calls)
  BY <1>1, <1>2, <1>3 DEF CallsInOrder
<1>4. CASE j = Len(calls')
  BY <1>1, <1>2, <1>4
<1> QED
  BY <1>1, <1>3, <1>4

LEMMA OrderedStep ==
    ASSUME Types, Types', Place, Due, Ordered, [Next]_vars
    PROVE  Ordered'
<1>0. /\ calls \in Seq(CallSet) /\ starts \in Streams /\ ContextSize \in Nat /\ Threads \in Nat
      /\ pos \in Nat /\ count \in Nat /\ dataLength \in Nat /\ End(1) \in Nat
      /\ \A i \in 1..Len(calls) : calls[i] \in CallSet /\ calls[i].end \in Nat
  <2>1. calls \in Seq(CallSet) /\ starts \in Streams /\ pos \in Nat /\ count \in Nat /\ dataLength \in Nat
    BY DEF Types
  <2>2. \A i \in 1..Len(calls) : calls[i] \in CallSet /\ calls[i].end \in Nat
    <3>1. \A i \in 1..Len(calls) : calls[i] \in CallSet
      BY <2>1
    <3>2. \A c \in CallSet : c.end \in Nat
      BY DEF CallSet
    <3> QED
      BY <3>1, <3>2
  <2>3. End(1) \in Nat
    BY <2>1, StreamFacts DEF End
  <2> QED
    BY <2>1, <2>2, <2>3, StreamAssumption
<1>1. ASSUME starts' = starts, calls' = calls PROVE CallsInOrder'
  BY <1>1 DEF Ordered, CallsInOrder, End
<1>2. CASE UNCHANGED vars
  BY <1>1, <1>2 DEF vars, Ordered, Reached, End
<1>3. ASSUME NEW n \in 1..AcceptSize, doAccept(n) PROVE Ordered'
  <2>1. calls = << >> /\ calls' = calls /\ starts' = starts /\ pending = << >>
    BY <1>3 DEF doAccept, acceptPiece, Fault, Place
  <2>2. fault' \/ (pc' = "recv" /\ pos' = n)
    BY <1>3 DEF doAccept, acceptPiece, Fault
  <2>3. pending' # << >> => n = Length(1)
    BY <1>3, <2>1 DEF doAccept, acceptPiece, Fault
  <2>4. Length(1) = End(1)
    BY <1>0, StreamFacts DEF Length, Start, End
  <2>5. CallsInOrder'
    BY <1>1, <2>1
  <2>6. ~fault' /\ pending' # << >> => End(1)' <= pos'
    BY <1>0, <2>1, <2>2, <2>3, <2>4 DEF End
  <2> QED
    BY <2>1, <2>2, <2>5, <2>6 DEF Ordered
<1>4. CASE acceptCallback
  <2>1. /\ calls' = Append(calls, FirstCall) /\ pending' = << >> /\ ~fault
        /\ pending # << >>
        /\ UNCHANGED <<starts, pc, pos, dataLength, count>>
    BY <1>4, LateCall
  <2>2. FirstCall \in CallSet /\ FirstCall.end = End(1)
    BY <1>0, FirstHanded
  <2>3. /\ End(1) <= pos
        /\ \A i \in 1..Len(calls) : calls[i].end > End(1) /\ Threads > 1
        /\ \A i \in 1..Len(calls) : Reached(calls[i].end)
    BY <2>1 DEF Ordered
  <2>4. CallsInOrder'
    <3>1. \A i \in 1..Len(calls) : Threads > 1 /\ FirstCall.end = End(1) /\ calls[i].end # End(1)
      BY <1>0, <2>2, <2>3
    <3> QED
      BY <2>1, <2>2, <3>1, LaterCall DEF Ordered
  <2>5. /\ Len(calls') = Len(calls) + 1 /\ calls'[Len(calls')] = FirstCall
        /\ \A i \in 1..Len(calls) : calls'[i] = calls[i]
        /\ \A i \in 1..Len(calls') : i \in 1..Len(calls) \/ i = Len(calls')
    BY <1>0, <2>1, <2>2, OneMore
  <2>6. ASSUME NEW i \in 1..Len(calls') PROVE Reached(calls[i].end)'
    <3>1. CASE i \in 1..Len(calls)
      BY <2>1, <2>3, <2>5, <3>1 DEF Reached
    <3>2. CASE i = Len(calls')
      BY <1>0, <2>1, <2>2, <2>3, <2>5, <3>2, Types' DEF Reached, Types
    <3> QED
      BY <2>5, <3>1, <3>2
  <2> QED
    BY <2>1, <2>4, <2>6 DEF Ordered
<1>5. ASSUME NEW n \in 1..ContextSize, doRecv(n) PROVE Ordered'
  <2>1. /\ ~fault /\ pc = "recv" /\ n \in Nat /\ n >= 1 /\ UNCHANGED <<starts, pending>>
        /\ Threads > 1 \/ pending = << >>
        /\ \/ fault'
           \/ pc' = "recv" /\ pos' = pos + n
           \/ pc' = "splice" /\ pos' = pos /\ dataLength' = n /\ count' \in Nat
    BY <1>5, ReceiveCall
  <2>2. /\ \A i \in 1..Len(calls) : calls[i].end <= pos
        /\ pending # << >> =>
            End(1) <= pos /\ \A i \in 1..Len(calls) : calls[i].end > End(1) /\ Threads > 1
    BY <2>1 DEF Ordered, Reached
  <2>3. CASE calls' = calls
    <3>1. ~fault' => \A i \in 1..Len(calls') : Reached(calls[i].end)'
      BY <1>0, <2>1, <2>2, <2>3 DEF Reached
    <3>2. ~fault' /\ pending' # << >> => End(1)' <= pos' /\ (pc' = "splice" => Threads > 1)
      BY <1>0, <2>1, <2>2 DEF End
    <3> QED
      BY <1>1, <2>1, <2>2, <2>3, <3>1, <3>2 DEF Ordered, End
  <2>4. CASE calls' # calls
    <3>1. PICK e \in Nat :
            /\ calls' = Append(calls, Call(pos, pos + n, e))
            /\ pos < e /\ e <= pos + n
            /\ pc' = "splice" => count' = e - pos
      BY <1>5, <2>4, ReceiveCall
    <3> DEFINE c == Call(pos, pos + n, e)
    <3>2. c \in CallSet /\ c.end = e
      BY <1>0, <2>1 DEF Call, CallSet
    <3> HIDE DEF c
    <3>3. CallsInOrder'
      <4>1. \A i \in 1..Len(calls) : calls[i].end < c.end
        BY <1>0, <2>2, <3>1, <3>2
      <4> QED
        BY <2>1, <3>1, <3>2, <4>1, LaterCall DEF Ordered, c
    <3>4. /\ Len(calls') = Len(calls) + 1 /\ calls'[Len(calls')] = c
          /\ \A i \in 1..Len(calls) : calls'[i] = calls[i]
          /\ \A i \in 1..Len(calls') : i \in 1..Len(calls) \/ i = Len(calls')
      BY <1>0, <3>1, <3>2, OneMore DEF c
    <3>5. ASSUME ~fault', NEW i \in 1..Len(calls') PROVE Reached(calls[i].end)'
      <4>1. CASE i \in 1..Len(calls)
        BY <1>0, <2>1, <2>2, <3>4, <3>5, <4>1 DEF Reached
      <4>2. CASE i = Len(calls')
        BY <1>0, <2>1, <3>1, <3>2, <3>4, <3>5, <4>2 DEF Reached
      <4> QED
        BY <3>4, <4>1, <4>2
    <3>6. ASSUME ~fault', pending' # << >>
          PROVE  /\ End(1)' <= pos' /\ Threads > 1
                 /\ \A i \in 1..Len(calls') : calls'[i].end > End(1)'
      <4>1. End(1)' = End(1) /\ End(1) <= pos /\ Threads > 1
        BY <2>1, <2>2, <3>6 DEF End
      <4>2. End(1)' <= pos'
        BY <1>0, <2>1, <3>6, <4>1
      <4>3. ASSUME NEW i \in 1..Len(calls') PROVE calls'[i].end > End(1)
        <5>1. CASE i \in 1..Len(calls)
          BY <2>1, <2>2, <3>4, <3>6, <5>1
        <5>2. CASE i = Len(calls')
          BY <1>0, <3>1, <3>2, <3>4, <4>1, <5>2
        <5> QED
          BY <3>4, <5>1, <5>2
      <4> QED
        BY <4>1, <4>2, <4>3
    <3> QED
      BY <3>3, <3>5, <3>6 DEF Ordered
  <2> QED
    BY <2>3, <2>4
<1>6. ASSUME NEW k \in Numbers, splice(k) PROVE Ordered'
  <2>1. /\ ~fault /\ pc = "splice"
        /\ Start(k) = pos + count /\ End(k) \in Nat /\ Start(k) < End(k) /\ pos + count' = End(k)
        /\ UNCHANGED <<starts, pc, pos, dataLength, pending, fault>>
        /\ \/ calls' = calls
           \/ /\ calls' = Append(calls, Call(pos, pos + dataLength, End(k)))
              /\ End(k) <= pos + dataLength
    BY <1>6, SpliceCall
  <2>2. /\ \A i \in 1..Len(calls) : calls[i].end <= pos + count /\ calls[i].end <= pos + dataLength
        /\ pending # << >> =>
            /\ End(1) <= pos /\ Threads > 1
            /\ \A i \in 1..Len(calls) : calls[i].end > End(1)
    BY <2>1 DEF Ordered, Reached
  <2>3. Start(k) \in Nat
    BY <1>0, StreamFacts DEF Start
  <2>4. CASE calls' = calls
    <3>1. \A i \in 1..Len(calls') : Reached(calls[i].end)'
      BY <1>0, <2>1, <2>2, <2>3, <2>4 DEF Reached
    <3> QED
      BY <1>1, <2>1, <2>2, <2>4, <3>1 DEF Ordered, End
  <2>5. CASE calls' # calls
    <3> DEFINE c == Call(pos, pos + dataLength, End(k))
    <3>1. c \in CallSet /\ c.end = End(k) /\ calls' = Append(calls, c) /\ End(k) <= pos + dataLength
      BY <1>0, <2>1, <2>5 DEF Call, CallSet
    <3> HIDE DEF c
    <3>2. CallsInOrder'
      <4>1. \A i \in 1..Len(calls) : calls[i].end < c.end
        <5>1. pos + count \in Nat /\ pos + count < c.end /\ c.end \in Nat
          BY <2>1, <2>3, <3>1
        <5>2. \A i \in 1..Len(calls) : calls[i].end \in Nat /\ calls[i].end <= pos + count
          BY <1>0, <2>2
        <5> QED
          BY <5>1, <5>2
      <4>2. calls \in Seq(CallSet) /\ CallsInOrder
        BY <1>0 DEF Ordered
      <4> QED
        BY <2>1, <3>1, <4>1, <4>2, LaterCall
    <3>3. /\ Len(calls') = Len(calls) + 1 /\ calls'[Len(calls')] = c
          /\ \A i \in 1..Len(calls) : calls'[i] = calls[i]
          /\ \A i \in 1..Len(calls') : i \in 1..Len(calls) \/ i = Len(calls')
      BY <1>0, <3>1, OneMore
    <3>4. ASSUME NEW i \in 1..Len(calls') PROVE Reached(calls[i].end)'
      <4>1. CASE i \in 1..Len(calls)
        BY <1>0, <2>1, <2>2, <2>3, <3>3, <4>1 DEF Reached
      <4>2. CASE i = Len(calls')
        BY <2>1, <3>1, <3>3, <4>2 DEF Reached
      <4> QED
        BY <3>3, <4>1, <4>2
    <3>5. ASSUME pending' # << >>
          PROVE  /\ End(1)' <= pos' /\ Threads > 1
                 /\ \A i \in 1..Len(calls') : calls'[i].end > End(1)'
      <4>1. End(1)' = End(1) /\ End(1) <= pos /\ Threads > 1 /\ pos' = pos
        BY <2>1, <2>2, <3>5 DEF End
      <4>2. ASSUME NEW i \in 1..Len(calls') PROVE calls'[i].end > End(1)
        <5>1. CASE i \in 1..Len(calls)
          BY <2>1, <2>2, <3>3, <3>5, <5>1
        <5>2. CASE i = Len(calls')
          BY <1>0, <2>1, <2>3, <3>1, <3>3, <4>1, <5>2
        <5> QED
          BY <3>3, <5>1, <5>2
      <4> QED
        BY <4>1, <4>2
    <3> QED
      BY <3>2, <3>4, <3>5 DEF Ordered
  <2> QED
    BY <2>4, <2>5
<1>7. CASE leftover
  <2>1. /\ ~fault /\ pc = "splice" /\ UNCHANGED <<starts, calls, pending>>
        /\ fault' \/ (pc' = "recv" /\ pos' = pos + dataLength)
    BY <1>7 DEF leftover, finishSplice, Splicing, Fault
  <2>2. /\ \A i \in 1..Len(calls) : calls[i].end <= pos + dataLength
        /\ pending # << >> =>
            End(1) <= pos /\ \A i \in 1..Len(calls) : calls[i].end > End(1) /\ Threads > 1
    BY <2>1 DEF Ordered, Reached
  <2>3. ~fault' => \A i \in 1..Len(calls') : Reached(calls[i].end)'
    BY <2>1, <2>2 DEF Reached
  <2>4. ~fault' /\ pending' # << >> => End(1)' <= pos' /\ pc' # "splice"
    BY <1>0, <2>1, <2>2 DEF End
  <2> QED
    BY <1>1, <2>1, <2>2, <2>3, <2>4 DEF Ordered, End
<1> QED
  BY <1>2, <1>3, <1>4, <1>5, <1>6, <1>7 DEF Next

\* For every stream, every way of cutting it and any number of workers, the callback runs at
\* most once for a packet and in the packets' order, but for the first packet's call.
THEOREM CallsComeInOrder == Spec => []CallsInOrder
<1>1. Init => Due /\ Ordered
  BY DEF Init, Due, Ordered, CallsInOrder
<1>2. Ordered => CallsInOrder
  BY DEF Ordered
<1>3. (Types /\ Place /\ Due /\ Ordered) /\ [Next]_vars => (Types /\ Place /\ Due /\ Ordered)'
  BY TypesStep, PlaceStep, DueStep, OrderedStep
<1> QED
  BY InitPlace, <1>1, <1>2, <1>3, PTL DEF Spec
-------------------------------------------------------------------------------
(* Packets that are found. Facts about all packets up to one are proved by looking at the     *)
(* smallest that would be an exception.                                                        *)

LEMMA Smallest ==
    ASSUME NEW S, S \subseteq Nat, S # {}
    PROVE  \E m \in S : \A j \in S : m <= j
<1> DEFINE R == OpToRel(<, Nat)
<1>1. IsWellFoundedOn(R, Nat)
  BY NatLessThanWellFounded
<1>2. \A x, y \in Nat : x < y => <<x, y>> \in R
  BY DEF OpToRel
<1> HIDE DEF R
<1>3. PICK m \in S : \A y \in S : ~(<<y, m>> \in R)
  BY <1>1, WFMin
<1>4. \A j \in S : j \in Nat /\ m \in Nat /\ ~(j < m)
  BY <1>2, <1>3
<1>5. \A j \in S : m <= j
  BY <1>4
<1> QED
  BY <1>5

\* The packets lie one behind the other.
LEMMA StartsRise ==
    ASSUME starts \in Streams
    PROVE  \A k \in Numbers, m \in Numbers : k < m => End(k) <= Start(m)
<1>0. /\ Packets \in Nat
      /\ \A k \in Numbers : starts[k] \in Nat /\ starts[k + 1] \in Nat /\ starts[k] < starts[k + 1]
  <2>1. \A k \in Numbers : starts[k] \in Nat /\ starts[k + 1] \in Nat /\ starts[k + 1] - starts[k] >= 1
    BY StreamFacts
  <2> QED
    BY <2>1, StreamAssumption
<1> SUFFICES ASSUME NEW k \in Numbers, NEW n \in Numbers, k < n, ~(starts[k + 1] <= starts[n]) PROVE FALSE
  BY DEF Start, End
<1> DEFINE B == {m \in Numbers : k < m /\ ~(starts[k + 1] <= starts[m])}
<1>1. B \subseteq Nat /\ B # {}
  <2>1. n \in B
    OBVIOUS
  <2>2. \A m \in B : m \in Nat
    BY <1>0 DEF Numbers
  <2> HIDE DEF B
  <2> QED
    BY <2>1, <2>2
<1>2. PICK m \in B : \A j \in B : m <= j
  <2> HIDE DEF B
  <2> QED
    BY <1>1, Smallest
<1>3. m \in Numbers /\ m - 1 \in Numbers /\ k <= m - 1 /\ (m - 1) + 1 = m /\ ~(starts[k + 1] <= starts[m]) /\ k \in Nat
  BY <1>0 DEF Numbers
<1>4. starts[m - 1] < starts[m] /\ starts[m - 1] \in Nat /\ starts[m] \in Nat /\ starts[k + 1] \in Nat
  BY <1>0, <1>3
<1>5. m - 1 \notin B
  BY <1>2, <1>3 DEF Numbers
<1>6. CASE k = m - 1
  BY <1>3, <1>4, <1>6
<1>7. CASE k # m - 1
  <2>1. k < m - 1
    BY <1>0, <1>3, <1>7 DEF Numbers
  <2>2. starts[k + 1] <= starts[m - 1]
    BY <1>3, <1>5, <2>1
  <2> QED
    BY <1>3, <1>4, <2>2
<1> QED
  BY <1>6, <1>7

\* Every byte of the stream belongs to a packet.
LEMMA PacketAt ==
    ASSUME starts \in Streams, NEW p \in Nat, p < Total
    PROVE  \E k \in Numbers : Start(k) <= p /\ p < End(k)
<1>0. /\ Packets \in Nat /\ Packets >= 1 /\ starts[1] = 0
      /\ \A k \in Numbers : starts[k] \in Nat /\ starts[k + 1] \in Nat
  BY StreamFacts, StreamAssumption
<1> DEFINE B == {m \in Numbers : p < starts[m + 1]}
<1>1. B \subseteq Nat /\ B # {}
  <2>1. Packets \in B
    BY <1>0 DEF Numbers, Total
  <2>2. \A m \in B : m \in Nat
    BY <1>0 DEF Numbers
  <2> HIDE DEF B
  <2> QED
    BY <2>1, <2>2
<1>2. PICK k \in B : \A j \in B : k <= j
  <2> HIDE DEF B
  <2> QED
    BY <1>1, Smallest
<1>3. k \in Numbers /\ k \in Nat /\ k >= 1 /\ p < starts[k + 1]
  BY <1>0 DEF Numbers
<1>4. starts[k] <= p
  <2>1. CASE k = 1
    BY <1>0, <2>1
  <2>2. CASE k # 1
    <3>1. k - 1 \in Numbers /\ (k - 1) + 1 = k
      BY <1>0, <1>3, <2>2 DEF Numbers
    <3>2. k - 1 \notin B
      BY <1>2, <1>3
    <3>3. ~(p < starts[k]) /\ starts[k] \in Nat
      BY <1>0, <1>3, <3>1, <3>2
    <3> QED
      BY <3>3
  <2> QED
    BY <2>1, <2>2
<1> QED
  BY <1>3, <1>4 DEF Start, End

LEMMA PacketFacts ==
    ASSUME Types, NEW k \in Numbers
    PROVE  /\ k \in Nat /\ k >= 1 /\ Start(k) \in Nat /\ End(k) \in Nat
           /\ HeadLen \in Nat /\ HeadLen >= 1 /\ Start(k) + HeadLen <= End(k)
           /\ Length(k) = End(k) - Start(k) /\ End(k) <= Total
<1>1. /\ k \in Nat /\ k >= 1 /\ starts[k] \in Nat /\ starts[k + 1] \in Nat
      /\ HeadLen \in Nat /\ HeadLen >= 1 /\ Packets \in Nat
  BY StreamFacts, StreamAssumption DEF Types
<1>2. starts[k + 1] - starts[k] >= HeadLen
  BY StreamAssumption DEF Types, Streams
<1>3. End(k) <= Total
  <2>1. CASE k = Packets
    BY <1>1, <2>1 DEF End, Total
  <2>2. CASE k # Packets
    <3>1. k < Packets /\ Packets \in Numbers /\ k + 1 \in Numbers
      BY <1>1, <2>2 DEF Numbers
    <3>2. End(k) <= Start(Packets)
      BY <3>1, StartsRise DEF Types
    <3>3. starts[Packets] \in Nat /\ starts[Packets + 1] \in Nat /\ starts[Packets + 1] - starts[Packets] >= 1
      BY <3>1, StreamFacts DEF Types
    <3> QED
      BY <1>1, <3>2, <3>3 DEF Start, End, Total
  <2> QED
    BY <2>1, <2>2
<1> QED
  BY <1>1, <1>2, <1>3 DEF Start, End, Length

\* At most one packet lies across a place, and one that ends there is the last to end so far.
LEMMA Across ==
    ASSUME Types, NEW k \in Numbers, NEW m \in Numbers, NEW p \in Nat, Start(k) <= p, p < End(k)
    PROVE  /\ End(m) <= p <=> m < k
           /\ Start(m) <= p <=> m <= k
           /\ Start(m) <= p /\ p < End(m) => m = k
<1>1. /\ k \in Nat /\ m \in Nat /\ Start(k) \in Nat /\ End(k) \in Nat /\ Start(m) \in Nat /\ End(m) \in Nat
      /\ Start(m) < End(m) /\ Start(k) < End(k)
  BY PacketFacts
<1>2. (k < m => End(k) <= Start(m)) /\ (m < k => End(m) <= Start(k))
  BY StartsRise DEF Types
<1> QED
  BY <1>1, <1>2

\* A packet is found if a piece begins with it or the one before was found, and its header is
\* in one piece.
LEMMA FoundNext ==
    ASSUME Types, NEW k \in Numbers, HeaderWhole(k), AtBorder(k) \/ (k - 1 \in Numbers /\ Found(k - 1))
    PROVE  Found(k)
<1>0. k \in Nat /\ k >= 1
  BY PacketFacts
<1>1. CASE AtBorder(k)
  <2>1. k \in 1..k /\ \A i \in k..k : i = k
    BY <1>0
  <2> QED
    BY <1>1, <2>1 DEF Found
<1>2. CASE k - 1 \in Numbers /\ Found(k - 1)
  <2>1. PICK j \in 1..(k - 1) : AtBorder(j) /\ \A i \in j..(k - 1) : HeaderWhole(i)
    BY <1>2 DEF Found
  <2>2. j \in 1..k /\ \A i \in j..k : i \in j..(k - 1) \/ i = k
    BY <1>0
  <2>3. \A i \in j..k : HeaderWhole(i)
    BY <2>1, <2>2
  <2> QED
    BY <2>1, <2>2, <2>3 DEF Found
<1> QED
  BY <1>1, <1>2

LEMMA FoundWhole ==
    ASSUME Types, NEW k \in Numbers, Found(k)
    PROVE  HeaderWhole(k)
<1>0. k \in Nat /\ k >= 1
  BY PacketFacts
<1>1. PICK j \in 1..k : AtBorder(j) /\ \A i \in j..k : HeaderWhole(i)
  BY DEF Found
<1>2. k \in j..k
  BY <1>0
<1> QED
  BY <1>1, <1>2

\* A further piece changes nothing for a packet whose header it does not cut.
LEMMA FoundStable ==
    ASSUME Types, starts' = starts, NEW p \in Nat, cuts' = Append(cuts, p),
           NEW k \in Numbers, Start(k) + HeadLen <= p
    PROVE  Found(k)' <=> Found(k)
<1>0. /\ k \in Nat /\ k >= 1 /\ cuts \in Seq(Nat) /\ HeadLen \in Nat /\ HeadLen >= 1
      /\ Start(k) \in Nat
  BY PacketFacts DEF Types
<1>1. /\ Len(cuts) \in Nat /\ Len(cuts') = Len(cuts) + 1 /\ cuts'[Len(cuts) + 1] = p
      /\ \A i \in 1..Len(cuts) : cuts'[i] = cuts[i] /\ cuts[i] \in Nat
  BY <1>0
<1>2. 1..Len(cuts') = 1..Len(cuts) \cup {Len(cuts) + 1}
  BY <1>1
<1>3. ASSUME NEW i \in 1..k
      PROVE  /\ i \in Numbers /\ Start(i) \in Nat /\ Start(i) + HeadLen <= p /\ Start(i) # p
             /\ Start(i)' = Start(i)
  <2>1. i \in Numbers
    BY <1>0, StreamAssumption DEF Numbers
  <2>2. Start(i) \in Nat /\ End(i) \in Nat /\ Start(i) <= End(i)
    BY <2>1, PacketFacts
  <2>3. Start(i) <= Start(k)
    <3>1. CASE i = k
      BY <1>0, <3>1
    <3>2. CASE i # k
      <4>1. End(i) <= Start(k)
        BY <1>0, <2>1, <3>2, StartsRise DEF Types
      <4> QED
        BY <1>0, <2>2, <4>1
    <3> QED
      BY <3>1, <3>2
  <2>4. Start(i) + HeadLen <= p /\ Start(i) # p
    BY <1>0, <2>2, <2>3
  <2> QED
    BY <2>1, <2>2, <2>4 DEF Start
<1>4. ASSUME NEW i \in 1..k PROVE (HeaderWhole(i)' <=> HeaderWhole(i)) /\ (AtBorder(i)' <=> AtBorder(i))
  <2>1. /\ Start(i) \in Nat /\ p >= Start(i) + HeadLen /\ Start(i) # p /\ Start(i)' = Start(i)
    BY <1>0, <1>3
  <2>2. HeaderWhole(i)' <=> HeaderWhole(i)
    BY <1>1, <1>2, <2>1 DEF HeaderWhole
  <2>3. AtBorder(i)' <=> AtBorder(i)
    BY <1>1, <1>2, <2>1 DEF AtBorder
  <2> QED
    BY <2>2, <2>3
<1>5. \A j \in 1..k, i \in Int : i \in j..k => i \in 1..k
  BY <1>0
<1> QED
  BY <1>4, <1>5 DEF Found

\* Behind a packet that was not found no other is, up to where the next piece begins.
LEMMA LostAfter ==
    ASSUME Types, NEW k \in Numbers, Start(k) < pos, pos < End(k), ~Found(k),
           NEW q \in Nat, \A i \in 1..Len(cuts) : cuts[i] <= pos \/ cuts[i] >= q,
           NEW m \in Numbers, k <= m, Start(m) < q
    PROVE  ~Found(m)
<1>0. /\ k \in Nat /\ k >= 1 /\ m \in Nat /\ pos \in Nat /\ cuts \in Seq(Nat) /\ Packets \in Nat
      /\ Start(k) \in Nat /\ End(k) \in Nat /\ Start(m) \in Nat /\ End(m) \in Nat
  BY PacketFacts, StreamAssumption DEF Types
<1> SUFFICES ASSUME Found(m) PROVE FALSE
  OBVIOUS
<1>1. PICK j \in 1..m : AtBorder(j) /\ \A i \in j..m : HeaderWhole(i)
  BY DEF Found
<1>2. CASE j <= k
  <2>1. j \in 1..k /\ \A i \in j..k : i \in j..m
    BY <1>0, <1>2
  <2> QED
    BY <1>1, <2>1 DEF Found
<1>3. CASE k < j
  <2>1. j \in Numbers /\ j \in Nat
    BY <1>0 DEF Numbers
  <2>2. Start(j) \in Nat /\ End(k) <= Start(j)
    BY <1>3, <2>1, StartsRise, PacketFacts DEF Types
  <2>3. Start(j) <= Start(m)
    <3>1. CASE j = m
      BY <1>0, <3>1
    <3>2. CASE j # m
      <4>1. End(j) <= Start(m) /\ End(j) \in Nat /\ Start(j) <= End(j)
        <5>1. End(j) <= Start(m)
          BY <1>0, <2>1, <3>2, StartsRise DEF Types
        <5>2. End(j) \in Nat /\ HeadLen \in Nat /\ Start(j) + HeadLen <= End(j)
          BY <2>1, PacketFacts
        <5> QED
          BY <2>2, <5>1, <5>2
      <4> QED
        BY <1>0, <2>2, <4>1
    <3> QED
      BY <3>1, <3>2
  <2>4. pos < Start(j) /\ Start(j) < q
    BY <1>0, <2>2, <2>3
  <2>5. PICK i \in 1..Len(cuts) : cuts[i] = Start(j)
    BY <1>0, <1>1, <2>2, <2>4 DEF AtBorder
  <2>6. cuts[i] <= pos \/ cuts[i] >= q
    OBVIOUS
  <2> QED
    BY <1>0, <2>2, <2>4, <2>5, <2>6
<1>4. j <= k \/ k < j
  BY <1>0
<1> QED
  BY <1>2, <1>3, <1>4

-------------------------------------------------------------------------------
(* The callback is run for the packets that are found. *)

IsMade(e) ==
    \/ \E i \in 1..Len(calls) : calls[i].end = e
    \/ \E i \in 1..Len(pending) : pending[i].end = e

\* The packet should have had its callback by now.
Ripe(k) == Found(k) /\ Reached(End(k))

MadeOK == \A e : IsMade(e) <=> \E k \in Numbers : e = End(k) /\ Ripe(k)

\* The borders of the pieces so far, and of the piece in the loop.
CutsOK ==
    /\ pos <= Total
    /\ \A i \in 1..Len(cuts) : cuts[i] <= pos \/ (pc = "splice" /\ cuts[i] = pos + dataLength)
    /\ pc = "splice" => dataLength >= 1 /\ pos + dataLength <= Total

\* A packet that lies across the border of two pieces is continued if it was found, and the
\* loop only stands behind packets that were found.
CarryOK ==
    /\ pc # "splice" => \A k \in Numbers : Start(k) < pos /\ pos < End(k) => (prevFlag <=> Found(k))
    /\ pc = "splice" /\ count = 0 => \A k \in Numbers : Start(k) < pos /\ pos < End(k) => ~Found(k)
    /\ pc = "splice" /\ count > 0 => \A k \in Numbers : End(k) = pos + count => Found(k)

Tracked == ~fault /\ ~refused => MadeOK /\ CutsOK /\ CarryOK

LEMMA MadeSame ==
    ASSUME MadeOK, starts' = starts, \A e : IsMade(e)' <=> IsMade(e),
           \A k \in Numbers : Ripe(k)' <=> Ripe(k)
    PROVE  MadeOK'
<1>1. \A k \in Numbers : End(k)' = End(k)
  BY DEF End
<1> QED
  BY <1>1 DEF MadeOK

LEMMA MadeMore ==
    ASSUME MadeOK, starts' = starts, NEW n \in Numbers,
           \A e : IsMade(e)' <=> IsMade(e) \/ e = End(n),
           \A k \in Numbers : Ripe(k)' <=> Ripe(k) \/ k = n
    PROVE  MadeOK'
<1>1. \A k \in Numbers : End(k)' = End(k)
  BY DEF End
<1> QED
  BY <1>1 DEF MadeOK

LEMMA CallsSame ==
    ASSUME calls' = calls, pending' = pending
    PROVE  \A e : IsMade(e)' <=> IsMade(e)
BY DEF IsMade

LEMMA CallsMore ==
    ASSUME Types, NEW c \in CallSet, calls' = Append(calls, c), pending' = pending
    PROVE  \A e : IsMade(e)' <=> IsMade(e) \/ e = c.end
<1>1. /\ Len(calls') = Len(calls) + 1 /\ calls'[Len(calls')] = c /\ Len(calls) \in Nat
      /\ \A i \in 1..Len(calls) : calls'[i] = calls[i]
      /\ \A i \in 1..Len(calls') : i \in 1..Len(calls) \/ i = Len(calls')
  BY OneMore DEF Types
<1>2. \A i \in 1..Len(calls) : i \in 1..Len(calls')
  BY <1>1
<1>3. Len(calls') \in 1..Len(calls')
  BY <1>1
<1> QED
  BY <1>1, <1>2, <1>3 DEF IsMade

LEMMA TrackedAccept ==
    ASSUME Types, Types', Place, Tracked, NEW n \in 1..AcceptSize, doAccept(n), ~fault', ~refused'
    PROVE  Tracked'
<1>0. /\ n \in Nat /\ n >= 1 /\ starts' = starts /\ cuts' = <<n>> /\ pos' = n /\ pc' = "recv" /\ pc = "accept"
      /\ n <= Total /\ ~fault /\ refused' = refused /\ calls' = calls
  <2>1. n \in Nat /\ n >= 1
    BY StreamAssumption
  <2> QED
    BY <2>1 DEF doAccept, acceptPiece, Fault
<1>1. /\ calls = << >> /\ pending = << >> /\ ~prevFlag /\ 1 \in Numbers /\ Start(1) = 0
  <2>1. calls = << >> /\ pending = << >> /\ ~prevFlag
    BY <1>0 DEF Place
  <2>2. 1 \in Numbers /\ Start(1) = 0
    BY StreamFacts DEF Types, Start
  <2> QED
    BY <2>1, <2>2
<1>2. /\ End(1) \in Nat /\ HeadLen \in Nat /\ HeadLen >= 1 /\ HeadLen <= End(1) /\ Length(1) = End(1)
  BY <1>1, PacketFacts
<1>3. Len(cuts') = 1 /\ cuts'[1] = n /\ 1..Len(cuts') = {1}
  BY <1>0
<1>4. \A k \in Numbers : Start(k)' = Start(k) /\ End(k)' = End(k)
  BY <1>0 DEF Start, End
\* Only the first packet can have been reached.
<1>5. n <= End(1)
  <2>1. ~(matchHeader(1, 0, n) /\ n > Length(1))
    <3>1. matchHeader(1, 0, n) => n <= Length(1)
      BY <1>0 DEF doAccept, acceptPiece, Fault
    <3> QED
      BY <1>0, <1>2, <3>1
  <2>2. n < HeadLen \/ n <= End(1)
    BY <1>0, <1>1, <1>2, <2>1 DEF matchHeader
  <2> QED
    BY <1>0, <1>2, <2>2
<1>6. ASSUME NEW k \in Numbers PROVE /\ End(k) <= n => k = 1 /\ n = End(1)
                                     /\ Start(k) < n => k = 1
  <2>1. CASE k = 1
    BY <1>0, <1>2, <1>5, <2>1
  <2>2. CASE k # 1
    <3>1. k \in Nat /\ k > 1 /\ Start(k) \in Nat /\ End(k) \in Nat /\ Start(k) < End(k)
      BY <2>2, PacketFacts
    <3>2. End(1) <= Start(k)
      BY <1>1, <3>1, StartsRise DEF Types
    <3> QED
      BY <1>0, <1>2, <1>5, <3>1, <3>2
  <2> QED
    BY <2>1, <2>2
<1>7. HeaderWhole(1)' <=> n >= HeadLen
  BY <1>0, <1>1, <1>2, <1>3, <1>4 DEF HeaderWhole
<1>8. Found(1)' <=> n >= HeadLen
  <2>1. AtBorder(1)'
    BY <1>1, <1>4 DEF AtBorder
  <2>2. 1..1 = {1}
    OBVIOUS
  <2> QED
    BY <1>7, <2>1, <2>2 DEF Found
<1>9. CutsOK'
  <2>1. Total' = Total
    BY <1>0 DEF Total
  <2> QED
    BY <1>0, <1>3, <2>1 DEF CutsOK
<1>10. \/ n >= HeadLen /\ n = End(1) /\ pending' = <<Call(0, n, n)>> /\ prevFlag' = prevFlag
       \/ n >= HeadLen /\ n < End(1) /\ prevFlag' = TRUE /\ pending' = pending
       \/ n < HeadLen /\ prevFlag' = prevFlag /\ pending' = pending
  <2>1. matchHeader(1, 0, n) <=> n >= HeadLen
    BY <1>1 DEF matchHeader
  <2>2. \/ /\ matchHeader(1, 0, n) /\ n = Length(1)
           /\ pending' = <<Call(0, n, n)>>
           /\ UNCHANGED context
        \/ /\ matchHeader(1, 0, n) /\ n < Length(1)
           /\ Keep(Length(1) - n, Length(1))
           /\ UNCHANGED pending
        \/ ~matchHeader(1, 0, n) /\ UNCHANGED <<context, pending>>
    BY DEF doAccept, acceptPiece, Fault
  <2> QED
    BY <1>0, <1>2, <2>1, <2>2 DEF Keep, context
<1>11. CarryOK'
  <2>1. ASSUME NEW k \in Numbers, Start(k) < n, n < End(k) PROVE prevFlag' <=> Found(k)'
    <3>1. k = 1 /\ n < End(1)
      BY <1>6, <2>1
    <3> QED
      BY <1>0, <1>1, <1>2, <1>8, <1>10, <3>1
  <2> QED
    BY <1>0, <1>4, <2>1 DEF CarryOK
<1>12. MadeOK'
  <2>1. \A k \in Numbers : Reached(End(k))' <=> k = 1 /\ n = End(1)
    BY <1>0, <1>1, <1>2, <1>4, <1>6 DEF Reached
  <2>2. CASE n = End(1)
    <3>1. n >= HeadLen /\ pending' = <<Call(0, n, n)>>
      BY <1>0, <1>2, <1>10, <2>2
    <3>2. Len(pending') = 1 /\ pending'[1] = Call(0, n, n) /\ Call(0, n, n).end = n
      BY <3>1 DEF Call
    <3>3. Len(calls') = 0
      BY <1>0, <1>1
    <3>4. \A e : IsMade(e)' <=> e = n
      BY <3>2, <3>3 DEF IsMade
    <3>5. \A k \in Numbers : Ripe(k)' <=> k = 1
      BY <1>8, <2>1, <2>2, <3>1 DEF Ripe
    <3> QED
      BY <1>1, <1>4, <2>2, <3>4, <3>5 DEF MadeOK
  <2>3. CASE n # End(1)
    <3>1. pending' = << >> /\ calls' = << >>
      BY <1>0, <1>1, <1>10, <2>3
    <3>2. Len(pending') = 0 /\ Len(calls') = 0
      BY <3>1
    <3>3. \A e : ~IsMade(e)'
      BY <3>2 DEF IsMade
    <3>4. \A k \in Numbers : ~Ripe(k)'
      BY <2>1, <2>3 DEF Ripe
    <3> QED
      BY <3>3, <3>4 DEF MadeOK
  <2> QED
    BY <2>2, <2>3
<1> QED
  BY <1>9, <1>11, <1>12 DEF Tracked

\* The ends of packets are in the packets' order, and no packet lies across one.
LEMMA EndsRise ==
    ASSUME Types, NEW k \in Numbers, NEW m \in Numbers
    PROVE  /\ End(m) <= End(k) <=> m <= k
           /\ End(m) = End(k) => m = k
           /\ m < k => End(m) <= Start(k)
           /\ ~(Start(m) < End(k) /\ End(k) < End(m))
<1>1. /\ k \in Nat /\ m \in Nat /\ Start(k) \in Nat /\ End(k) \in Nat /\ Start(m) \in Nat /\ End(m) \in Nat
      /\ Start(m) < End(m) /\ Start(k) < End(k)
  BY PacketFacts
<1>2. (k < m => End(k) <= Start(m)) /\ (m < k => End(m) <= Start(k))
  BY StartsRise DEF Types
<1> QED
  BY <1>1, <1>2

LEMMA TrackedReceive ==
    ASSUME Types, Types', Place, Tracked, NEW n \in 1..ContextSize, doRecv(n), ~fault', ~refused'
    PROVE  Tracked'
<1> DEFINE p == pos + n
<1>0. /\ ~fault /\ ~refused /\ pc = "recv" /\ cuts' = Append(cuts, pos + n) /\ pos + n <= Total
      /\ starts' = starts /\ pending' = pending
  BY DEF doRecv, recvLast, recvMiddle, recvBeyond, recvInvalid, recvFresh, Receive, Fault
<1>1. /\ n \in Nat /\ n >= 1 /\ pos \in Nat /\ p \in Nat /\ p > pos /\ bytesToRecv \in Nat
      /\ cuts \in Seq(Nat) /\ calls \in Seq(CallSet) /\ pos >= 1 /\ Len(cuts) >= 1 /\ cuts[Len(cuts)] = pos
  <2>1. n \in Nat /\ n >= 1
    BY StreamAssumption
  <2> QED
    BY <1>0, <2>1 DEF Types, Place
<1>2. MadeOK /\ CutsOK /\ CarryOK
  BY <1>0 DEF Tracked
<1>3. /\ Len(cuts) \in Nat /\ Len(cuts') = Len(cuts) + 1 /\ cuts'[Len(cuts) + 1] = p
      /\ \A i \in 1..Len(cuts) : cuts'[i] = cuts[i] /\ cuts[i] \in Nat /\ cuts[i] <= pos
      /\ \A i \in 1..Len(cuts') : i \in 1..Len(cuts) \/ i = Len(cuts) + 1
  <2>1. /\ Len(cuts) \in Nat /\ Len(cuts') = Len(cuts) + 1 /\ cuts'[Len(cuts) + 1] = p
        /\ \A i \in 1..Len(cuts) : cuts'[i] = cuts[i] /\ cuts[i] \in Nat
    BY <1>0, <1>1
  <2>2. \A i \in 1..Len(cuts) : cuts[i] <= pos
    BY <1>0, <1>2 DEF CutsOK
  <2>3. \A i \in 1..Len(cuts') : i \in 1..Len(cuts) \/ i = Len(cuts) + 1
    BY <2>1
  <2> QED
    BY <2>1, <2>2, <2>3
<1> HIDE DEF p
<1>4. \A k \in Numbers : Start(k)' = Start(k) /\ End(k)' = End(k)
  BY <1>0 DEF Start, End
<1>5. \A k \in Numbers : Start(k) + HeadLen <= p => (Found(k)' <=> Found(k))
  BY <1>0, <1>1, FoundStable DEF p
<1>6. \A k \in Numbers : End(k) <= p => (Found(k)' <=> Found(k))
  <2> SUFFICES ASSUME NEW k \in Numbers, End(k) <= p PROVE Found(k)' <=> Found(k)
    OBVIOUS
  <2>1. /\ Start(k) \in Nat /\ End(k) \in Nat /\ HeadLen \in Nat /\ Start(k) + HeadLen <= End(k)
    BY PacketFacts
  <2>2. Start(k) + HeadLen <= p
    BY <1>1, <2>1
  <2> QED
    BY <1>5, <2>2
<1>7. Total' = Total /\ Total \in Nat
  <2>1. Packets \in Numbers
    BY StreamAssumption DEF Numbers
  <2>2. End(Packets) \in Nat
    BY <2>1, PacketFacts
  <2>3. Total = End(Packets)
    BY DEF Total, End
  <2>4. Total' = Total
    BY <1>0 DEF Total
  <2> QED
    BY <2>2, <2>3, <2>4
<1>8. ASSUME pos' = p, pc' = "recv" PROVE CutsOK'
  <2>1. ASSUME NEW i \in 1..Len(cuts') PROVE cuts'[i] <= p
    <3>1. CASE i \in 1..Len(cuts)
      <4>1. cuts'[i] \in Nat /\ cuts'[i] <= pos
        BY <1>3, <3>1
      <4> QED
        BY <1>1, <4>1
    <3>2. CASE i = Len(cuts) + 1
      BY <1>1, <1>3, <3>2
    <3> QED
      BY <1>3, <3>1, <3>2
  <2>2. p <= Total
    BY <1>0 DEF p
  <2> QED
    BY <1>7, <1>8, <2>1, <2>2 DEF CutsOK
<1>9. ASSUME pos' = pos, pc' = "splice", dataLength' = n PROVE CutsOK'
  <2>1. \A i \in 1..Len(cuts') : cuts'[i] <= pos \/ cuts'[i] = pos + n
    BY <1>3 DEF p
  <2>2. pos + n <= Total /\ pos <= Total
    BY <1>0, <1>1, <1>7
  <2> QED
    BY <1>1, <1>7, <1>9, <2>1, <2>2 DEF CutsOK
<1>10. ASSUME prevFlag, ~recvInvalid(n), ~recvFresh(n) PROVE Tracked'
  <2>1. PICK k \in Numbers : bytesToRecv > 0 /\ pos + bytesToRecv = End(k) /\ Start(k) < pos
    BY <1>0, <1>10 DEF Place, Lacks
  <2>2. Start(k) \in Nat /\ End(k) \in Nat /\ pos < End(k) /\ HeadLen \in Nat
    BY <1>1, <2>1, PacketFacts
  <2>3. Found(k)
    BY <1>0, <1>2, <1>10, <2>1, <2>2 DEF CarryOK
  <2>4. HeaderWhole(k)
    BY <2>3, FoundWhole
  <2>5. Start(k) + HeadLen <= pos
    <3>1. Len(cuts) \in 1..Len(cuts)
      BY <1>1, <1>3
    <3>2. pos <= Start(k) \/ pos >= Start(k) + HeadLen
      BY <1>1, <2>4, <3>1 DEF HeaderWhole
    <3> QED
      BY <1>1, <2>1, <2>2, <3>2
  <2>6. Found(k)'
    BY <1>1, <1>5, <2>2, <2>3, <2>5
  <2>7. \A m \in Numbers : End(m) <= pos <=> m < k
    BY <1>1, <2>1, <2>2, Across
  <2>8. \A m \in Numbers : m \in Nat /\ k \in Nat /\ End(m) \in Nat
    BY PacketFacts
  <2>9. \A m \in Numbers : Reached(End(m)) <=> m < k
    BY <1>0, <2>7 DEF Reached
  \* Packet k gets its call.
  <2>10. ASSUME NEW q \in Nat, calls' = Append(calls, Call(pos, q, End(k))), End(k) <= p,
                \A m \in Numbers : Reached(End(m))' <=> End(m) <= End(k)
         PROVE  MadeOK'
    <3>1. Call(pos, q, End(k)) \in CallSet /\ Call(pos, q, End(k)).end = End(k)
      BY <1>1, <2>2 DEF Call, CallSet
    <3>2. \A e : IsMade(e)' <=> IsMade(e) \/ e = End(k)
      BY <1>0, <2>10, <3>1, CallsMore
    <3>3. ASSUME NEW m \in Numbers PROVE Ripe(m)' <=> Ripe(m) \/ m = k
      <4>1. End(m) <= End(k) <=> m <= k
        BY EndsRise
      <4>2. m <= k => End(m) <= p
        BY <1>1, <2>2, <2>8, <2>10, <4>1
      <4>3. m <= k <=> m < k \/ m = k
        BY <2>8
      <4> QED
        BY <1>6, <2>3, <2>6, <2>9, <2>10, <4>1, <4>2, <4>3 DEF Ripe
    <3> QED
      BY <1>0, <1>2, <3>2, <3>3, MadeMore
  <2>11. CASE recvLast(n)
    <3>1. /\ n = bytesToRecv /\ calls' = Append(calls, Call(pos, pos + n, pos + n))
          /\ pos' = p /\ pc' = "recv"
      BY <1>0, <2>11 DEF recvLast, p
    <3>2. p = End(k)
      BY <2>1, <3>1 DEF p
    <3>3. calls' = Append(calls, Call(pos, pos + n, End(k))) /\ pos + n \in Nat
      BY <1>1, <3>1, <3>2 DEF p
    <3>4. \A m \in Numbers : Reached(End(m))' <=> End(m) <= End(k)
      BY <1>4, <3>1, <3>2 DEF Reached
    <3>5. MadeOK'
      BY <1>1, <2>2, <2>10, <3>2, <3>3, <3>4
    <3>6. CarryOK'
      <4>1. \A m \in Numbers : ~(Start(m) < p /\ p < End(m))
        BY <3>2, EndsRise
      <4> QED
        BY <1>4, <3>1, <4>1 DEF CarryOK
    <3> QED
      BY <1>8, <3>1, <3>5, <3>6 DEF Tracked
  <2>12. CASE recvMiddle(n)
    <3>1. /\ n < bytesToRecv /\ calls' = calls /\ pos' = p /\ pc' = "recv" /\ prevFlag' = prevFlag
      BY <1>0, <2>12 DEF recvMiddle, Fault, p
    <3>2. p < End(k) /\ Start(k) <= p
      BY <1>1, <2>1, <2>2, <3>1 DEF p
    <3>3. \A m \in Numbers : (End(m) <= p <=> m < k) /\ (Start(m) <= p /\ p < End(m) => m = k)
      BY <1>1, <3>2, Across
    <3>4. \A m \in Numbers : Ripe(m)' <=> Ripe(m)
      <4>1. \A m \in Numbers : Reached(End(m))' <=> End(m) <= p
        BY <1>4, <3>1 DEF Reached
      <4> QED
        BY <1>6, <2>9, <3>3, <4>1 DEF Ripe
    <3>5. MadeOK'
      BY <1>0, <1>2, <3>1, <3>4, MadeSame, CallsSame
    <3>6. CarryOK'
      <4>1. ASSUME NEW m \in Numbers, Start(m) < p, p < End(m) PROVE prevFlag' <=> Found(m)'
        <5>1. Start(m) <= p
          BY <1>1, <4>1, PacketFacts
        <5>2. m = k
          BY <3>3, <4>1, <5>1
        <5> QED
          BY <1>10, <2>6, <3>1, <5>2
      <4> QED
        BY <1>4, <3>1, <4>1 DEF CarryOK
    <3> QED
      BY <1>8, <3>1, <3>5, <3>6 DEF Tracked
  <2>13. CASE recvBeyond(n)
    <3>1. /\ n > bytesToRecv /\ calls' = Append(calls, Call(pos, pos + n, pos + bytesToRecv))
          /\ pos' = pos /\ pc' = "splice" /\ dataLength' = n /\ count' = bytesToRecv
      BY <1>0, <2>13 DEF recvBeyond, Fault
    <3>2. End(k) <= p /\ p \in Nat /\ p = pos + n
      BY <1>1, <2>1, <2>2, <3>1 DEF p
    <3>3. \A m \in Numbers : Reached(End(m))' <=> End(m) <= End(k)
      <4>1. \A m \in Numbers : Reached(End(m))' <=> End(m) <= End(k) /\ End(m) <= p
        BY <1>4, <2>1, <3>1, <3>2 DEF Reached
      <4>2. \A m \in Numbers : End(m) <= End(k) => End(m) <= p
        BY <2>2, <2>8, <3>2
      <4> QED
        BY <4>1, <4>2
    <3>4. MadeOK'
      BY <2>1, <2>10, <3>1, <3>2, <3>3
    <3>5. CarryOK'
      <4>1. \A m \in Numbers : End(m) = pos + bytesToRecv => Found(m)'
        BY <2>1, <2>6, EndsRise
      <4>2. count' # 0
        BY <2>1, <3>1
      <4> QED
        BY <1>4, <3>1, <4>1, <4>2 DEF CarryOK
    <3> QED
      BY <1>9, <3>1, <3>4, <3>5 DEF Tracked
  <2> QED
    BY <1>10, <2>11, <2>12, <2>13 DEF doRecv
<1>11. CASE recvFresh(n)
  <2>1. /\ ~prevFlag /\ calls' = calls /\ pos' = pos /\ pc' = "splice" /\ dataLength' = n /\ count' = 0
    BY <1>11 DEF recvFresh
  <2>2. \A m \in Numbers : Ripe(m)' <=> Ripe(m)
    <3> SUFFICES ASSUME NEW m \in Numbers PROVE Ripe(m)' <=> Ripe(m)
      OBVIOUS
    <3>1. End(m) \in Nat
      BY PacketFacts
    <3>2. Reached(End(m))' <=> End(m) <= pos
      BY <1>1, <1>4, <2>1, <3>1 DEF Reached
    <3>3. Reached(End(m)) <=> End(m) <= pos
      BY <1>0 DEF Reached
    <3>4. End(m) <= pos => End(m) <= p
      BY <1>1, <3>1
    <3> QED
      BY <1>6, <3>2, <3>3, <3>4 DEF Ripe
  <2>3. MadeOK'
    BY <1>0, <1>2, <2>1, <2>2, MadeSame, CallsSame
  <2>4. CarryOK'
    <3>1. ASSUME NEW m \in Numbers, Start(m) < pos, pos < End(m) PROVE ~Found(m)'
      <4>1. ~Found(m)
        BY <1>0, <1>2, <2>1, <3>1 DEF CarryOK
      <4>2. m \in Nat /\ m >= 1 /\ Start(m) \in Nat /\ HeadLen \in Nat
        BY PacketFacts
      <4>3. CASE Start(m) + HeadLen <= p
        BY <1>5, <4>1, <4>3
      <4>4. CASE ~(Start(m) + HeadLen <= p)
        <5>1. Len(cuts) + 1 \in 1..Len(cuts') /\ cuts'[Len(cuts) + 1] = p
          BY <1>3
        <5>2. ~(p <= Start(m) \/ p >= Start(m) + HeadLen)
          BY <1>1, <3>1, <4>2, <4>4
        <5>3. ~HeaderWhole(m)'
          BY <1>4, <5>1, <5>2 DEF HeaderWhole
        <5>4. \A j \in 1..m : m \in j..m
          BY <4>2
        <5> QED
          BY <5>3, <5>4 DEF Found
      <4> QED
        BY <4>3, <4>4
    <3> QED
      BY <1>4, <2>1, <3>1 DEF CarryOK
  <2> QED
    BY <1>9, <2>1, <2>3, <2>4 DEF Tracked
<1>12. ~recvInvalid(n)
  BY DEF recvInvalid
<1>13. CASE ~recvFresh(n)
  <2>1. prevFlag
    BY <1>12, <1>13 DEF doRecv, recvLast, recvMiddle, recvBeyond
  <2> QED
    BY <1>10, <1>12, <1>13, <2>1
<1> QED
  BY <1>11, <1>13

\* A header that the loop matches belongs to a packet that is found.
LEMMA TrackedSplice ==
    ASSUME Types, Types', Place, Tracked, NEW k \in Numbers, splice(k), ~fault', ~refused'
    PROVE  Tracked'
<1> DEFINE q == pos + dataLength
<1>0. /\ ~fault /\ ~refused /\ pc = "splice" /\ count < dataLength /\ Start(k) = pos + count
      /\ dataLength - count >= HeadLen
      /\ count' = count + Length(k)
      /\ UNCHANGED <<starts, pc, pos, dataLength, pending, cuts>>
      /\ calls' = IF dataLength - count >= Length(k)
                  THEN Append(calls, Call(pos, pos + dataLength, pos + count + Length(k)))
                  ELSE calls
  BY DEF splice, spliceStep, Splicing, Matches, matchHeader
<1>1. /\ pos \in Nat /\ count \in Nat /\ dataLength \in Nat /\ cuts \in Seq(Nat) /\ q \in Nat
      /\ pos >= 1 /\ Len(cuts) >= 2 /\ cuts[Len(cuts) - 1] = pos
  <2>1. /\ pos \in Nat /\ count \in Nat /\ dataLength \in Nat /\ cuts \in Seq(Nat)
    BY DEF Types
  <2>2. /\ pos >= 1 /\ Len(cuts) >= 2 /\ cuts[Len(cuts) - 1] = pos
    BY <1>0 DEF Place
  <2>3. q \in Nat
    BY <2>1
  <2> QED
    BY <2>1, <2>2, <2>3
<1>2. MadeOK /\ CutsOK /\ CarryOK
  BY <1>0 DEF Tracked
<1>3. /\ k \in Nat /\ k >= 1 /\ Start(k) \in Nat /\ End(k) \in Nat /\ HeadLen \in Nat /\ HeadLen >= 1
      /\ Start(k) + HeadLen <= End(k) /\ Length(k) = End(k) - Start(k)
  BY PacketFacts
<1>4. pos + count + Length(k) = End(k) /\ pos + count' = End(k) /\ Start(k) < q /\ Start(k) + HeadLen <= q
  <2>1. /\ Start(k) = pos + count /\ count < dataLength /\ dataLength - count >= HeadLen
        /\ count' = count + Length(k)
    BY <1>0
  <2>2. pos + count + Length(k) = End(k) /\ pos + count' = End(k)
    <3>1. Length(k) \in Int /\ Start(k) + Length(k) = End(k)
      BY <1>3
    <3>2. pos + (count + Length(k)) = (pos + count) + Length(k)
      BY <1>1, <3>1
    <3> QED
      BY <2>1, <3>1, <3>2
  <2>3. Start(k) < q /\ Start(k) + HeadLen <= q
    BY <1>1, <1>3, <2>1
  <2> QED
    BY <2>2, <2>3
<1>5. HeaderWhole(k)
  <2> SUFFICES ASSUME NEW i \in 1..Len(cuts) PROVE cuts[i] <= Start(k) \/ cuts[i] >= Start(k) + HeadLen
    BY DEF HeaderWhole
  <2>1. cuts[i] \in Nat
    BY <1>1
  <2>2. cuts[i] <= pos \/ cuts[i] = q
    BY <1>2 DEF CutsOK
  <2>3. pos <= Start(k)
    BY <1>0, <1>1
  <2> HIDE DEF q
  <2>4. CASE cuts[i] <= pos
    BY <1>1, <1>3, <2>1, <2>3, <2>4
  <2>5. CASE cuts[i] = q
    BY <1>1, <1>3, <1>4, <2>5
  <2> QED
    BY <2>2, <2>4, <2>5
<1>6. Found(k)
  <2>1. CASE count = 0
    <3>1. Len(cuts) - 1 \in 1..Len(cuts) /\ cuts[Len(cuts) - 1] = Start(k)
      BY <1>0, <1>1, <2>1
    <3>2. AtBorder(k)
      BY <3>1 DEF AtBorder
    <3> QED
      BY <1>5, <3>2, FoundNext
  <2>2. CASE count # 0
    <3>1. k # 1
      <4>1. Start(1) = 0
        BY StreamFacts DEF Start, Types
      <4>2. Start(k) # 0
        BY <1>0, <1>1
      <4> QED
        BY <4>1, <4>2
    <3>2. k - 1 \in Numbers /\ (k - 1) + 1 = k
      BY <1>3, <3>1, StreamAssumption DEF Numbers
    <3>3. End(k - 1) = pos + count
      BY <1>0, <3>2 DEF Start, End
    <3>4. Found(k - 1)
      BY <1>0, <1>1, <1>2, <2>2, <3>2, <3>3 DEF CarryOK
    <3> QED
      BY <1>5, <3>2, <3>4, FoundNext
  <2> QED
    BY <2>1, <2>2
<1>7. \A m \in Numbers : /\ Start(m)' = Start(m) /\ End(m)' = End(m) /\ (Found(m)' <=> Found(m))
  BY <1>0 DEF Start, End, Found, HeaderWhole, AtBorder
<1>8. CutsOK'
  BY <1>0, <1>2 DEF CutsOK, Total
<1>9. CarryOK'
  <2>1. count' # 0 /\ count' > 0
    <3>1. Length(k) \in Nat /\ Length(k) >= 1
      BY <1>3
    <3>2. count' = count + Length(k) /\ count \in Nat
      BY <1>0, <1>1
    <3> QED
      BY <3>1, <3>2
  <2>2. \A m \in Numbers : End(m) = pos + count' => Found(m)
    BY <1>4, <1>6, EndsRise
  <2> QED
    BY <1>0, <1>7, <2>1, <2>2 DEF CarryOK
<1>10. ASSUME NEW m \in Numbers
       PROVE  /\ Reached(End(m)) <=> m < k
              /\ Reached(End(m))' <=> m < k \/ (m = k /\ End(k) <= q)
  <2>1. m \in Nat /\ End(m) \in Nat /\ (End(m) <= End(k) <=> m <= k) /\ (m < k => End(m) <= Start(k))
    BY PacketFacts, EndsRise
  <2>2. End(m) <= Start(k) <=> m < k
    <3>1. Start(k) < End(k)
      BY <1>3
    <3> QED
      BY <1>3, <3>1, Across
  <2>3. Reached(End(m)) <=> End(m) <= Start(k) /\ End(m) <= q
    BY <1>0 DEF Reached, q
  <2>4. Reached(End(m))' <=> End(m) <= End(k) /\ End(m) <= q
    BY <1>0, <1>4, <1>7 DEF Reached, q
  <2>5. q \in Nat /\ Start(k) \in Nat /\ Start(k) < q /\ k \in Nat
    BY <1>1, <1>3, <1>4
  <2> HIDE DEF q
  <2>6. m < k => End(m) <= q
    BY <2>1, <2>5
  <2>7. Reached(End(m)) <=> m < k
    BY <2>2, <2>3, <2>6
  <2>8. m <= k <=> m < k \/ m = k
    BY <2>1, <2>5
  <2>9. Reached(End(m))' <=> m < k \/ (m = k /\ End(k) <= q)
    BY <2>1, <2>4, <2>6, <2>8
  <2> QED
    BY <2>7, <2>9
<1>11. MadeOK'
  <2>1. CASE dataLength - count >= Length(k)
    <3>1. End(k) <= q
      BY <1>0, <1>1, <1>3, <2>1
    <3>2. calls' = Append(calls, Call(pos, q, End(k)))
      BY <1>0, <1>4, <2>1
    <3>3. Call(pos, q, End(k)) \in CallSet /\ Call(pos, q, End(k)).end = End(k)
      BY <1>1, <1>3 DEF Call, CallSet
    <3>4. \A e : IsMade(e)' <=> IsMade(e) \/ e = End(k)
      BY <1>0, <3>2, <3>3, CallsMore
    <3>5. \A m \in Numbers : Ripe(m)' <=> Ripe(m) \/ m = k
      BY <1>6, <1>7, <1>10, <3>1 DEF Ripe
    <3> QED
      BY <1>0, <1>2, <3>4, <3>5, MadeMore
  <2>2. CASE ~(dataLength - count >= Length(k))
    <3>1. ~(End(k) <= q)
      BY <1>0, <1>1, <1>3, <2>2
    <3>2. calls' = calls
      BY <1>0, <2>2
    <3>3. \A m \in Numbers : Ripe(m)' <=> Ripe(m)
      BY <1>7, <1>10, <3>1 DEF Ripe
    <3> QED
      BY <1>0, <1>2, <3>2, <3>3, MadeSame, CallsSame
  <2> QED
    BY <2>1, <2>2
<1> QED
  BY <1>8, <1>9, <1>11 DEF Tracked

\* When the loop ends no packet that is found and complete has been passed over.
LEMMA TrackedLeftover ==
    ASSUME Types, Types', Place, Tracked, leftover, ~fault', ~refused'
    PROVE  Tracked'
<1> DEFINE q == pos + dataLength
<1>0. /\ ~fault /\ ~refused /\ pc = "splice" /\ pc' = "recv" /\ pos' = pos + dataLength
      /\ UNCHANGED <<starts, calls, pending, cuts>>
      /\ ~\E k \in Numbers : Matches(k)
  BY DEF leftover, finishSplice, Splicing, Fault
<1>1. /\ pos \in Nat /\ count \in Nat /\ dataLength \in Nat /\ cuts \in Seq(Nat) /\ q \in Nat
      /\ ~prevFlag /\ Len(cuts) >= 2 /\ cuts[Len(cuts)] = q /\ Len(cuts) \in 1..Len(cuts)
      /\ count > 0 => \E k \in Numbers : StandsAt(k)
  BY <1>0 DEF Types, Place
<1>2. MadeOK /\ CutsOK /\ CarryOK
  BY <1>0 DEF Tracked
<1>3. /\ dataLength >= 1 /\ q <= Total
      /\ \A i \in 1..Len(cuts) : cuts[i] <= pos \/ cuts[i] = q
  BY <1>0, <1>2 DEF CutsOK
<1>4. prevFlag' <=> count > dataLength
  <2>1. CASE count > dataLength
    BY <1>0, <2>1 DEF leftover, finishSplice, Keep, Fault
  <2>2. CASE ~(count > dataLength)
    BY <1>0, <1>1, <2>2 DEF leftover, finishSplice, context
  <2> QED
    BY <2>1, <2>2
<1>5. \A m \in Numbers : /\ Start(m)' = Start(m) /\ End(m)' = End(m) /\ (Found(m)' <=> Found(m))
  BY <1>0 DEF Start, End, Found, HeaderWhole, AtBorder
<1>6. \A m \in Numbers : m \in Nat /\ Start(m) \in Nat /\ End(m) \in Nat /\ Start(m) < End(m)
  BY PacketFacts
<1>7. CutsOK'
  <2>1. \A i \in 1..Len(cuts) : cuts[i] <= q
    <3> SUFFICES ASSUME NEW i \in 1..Len(cuts) PROVE cuts[i] <= q
      OBVIOUS
    <3>1. cuts[i] \in Nat /\ (cuts[i] <= pos \/ cuts[i] = q)
      BY <1>1, <1>3
    <3> QED
      BY <1>1, <3>1
  <2> QED
    BY <1>0, <1>3, <2>1 DEF CutsOK, Total
\* Two things are left to show: nothing found is passed over, and what lies across the border is
\* kept exactly if it was found.
<1>8. ASSUME \A m \in Numbers : Found(m) /\ End(m) <= q => End(m) <= pos + count,
             \A m \in Numbers : Start(m) < q /\ q < End(m) => (prevFlag' <=> Found(m))
      PROVE  Tracked'
  <2>1. \A m \in Numbers : Ripe(m)' <=> Ripe(m)
    <3> SUFFICES ASSUME NEW m \in Numbers PROVE Ripe(m)' <=> Ripe(m)
      OBVIOUS
    <3>1. Reached(End(m)) <=> End(m) <= pos + count /\ End(m) <= q
      BY <1>0 DEF Reached
    <3>2. Reached(End(m))' <=> End(m) <= q
      BY <1>0, <1>5 DEF Reached
    <3> QED
      BY <1>5, <1>8, <3>1, <3>2 DEF Ripe
  <2>2. MadeOK'
    BY <1>0, <1>2, <2>1, MadeSame, CallsSame
  <2>3. CarryOK'
    BY <1>0, <1>5, <1>8 DEF CarryOK
  <2> QED
    BY <1>7, <2>2, <2>3 DEF Tracked
<1>9. CASE count >= dataLength
  <2>1. PICK k \in Numbers : StandsAt(k)
    BY <1>1, <1>3, <1>9
  <2>2. pos + count = End(k) /\ Found(k) /\ (count > dataLength => Start(k) < q)
    BY <1>0, <1>1, <1>2, <1>3, <1>9, <2>1 DEF StandsAt, CarryOK
  <2>3. \A m \in Numbers : Found(m) /\ End(m) <= q => End(m) <= pos + count
    <3>1. q <= pos + count
      BY <1>1, <1>9
    <3> HIDE DEF q
    <3> QED
      BY <1>1, <1>6, <3>1
  <2>4. ASSUME NEW m \in Numbers, Start(m) < q, q < End(m) PROVE prevFlag' <=> Found(m)
    <3>1. CASE count = dataLength
      <4>1. q = End(k)
        BY <2>2, <3>1
      <4>2. ~(Start(m) < End(k) /\ End(k) < End(m))
        BY EndsRise
      <4> HIDE DEF q
      <4> QED
        BY <2>4, <4>1, <4>2
    <3>2. CASE count # dataLength
      <4>1. count > dataLength
        BY <1>1, <1>9, <3>2
      <4>2. q < End(k)
        BY <1>1, <2>2, <4>1
      <4>3. Start(k) <= q /\ Start(m) <= q
        <5>1. q \in Nat /\ Start(k) \in Nat /\ Start(m) \in Nat /\ Start(k) < q
          BY <1>1, <1>6, <2>2, <4>1
        <5> HIDE DEF q
        <5> QED
          BY <2>4, <5>1
      <4>4. m = k
        BY <1>1, <2>4, <4>2, <4>3, Across
      <4> QED
        BY <1>4, <2>2, <4>1, <4>4
    <3> QED
      BY <3>1, <3>2
  <2> QED
    BY <1>8, <2>3, <2>4
<1>10. CASE count < dataLength
  <2> DEFINE x == pos + count
  <2>1. x \in Nat /\ x < q /\ pos <= x
    BY <1>1, <1>10
  <2>2. x < Total
    <3>1. Total \in Nat
      <4>1. Packets \in Numbers
        BY StreamAssumption DEF Numbers
      <4> QED
        BY <1>6, <4>1 DEF Total, End
    <3> HIDE DEF x, q
    <3> QED
      BY <1>1, <1>3, <2>1, <3>1
  <2>3. PICK j \in Numbers : Start(j) <= x /\ x < End(j)
    BY <2>1, <2>2, PacketAt DEF Types
  <2>4. \A m \in Numbers : End(m) <= x <=> m < j
    BY <2>1, <2>3, Across
  <2>5. ~prevFlag'
    BY <1>1, <1>4, <1>10
  <2>6. CASE Start(j) = x
    <3>1. ~(dataLength - count >= HeadLen) /\ HeadLen \in Nat /\ Start(j) + HeadLen <= End(j)
      BY <1>0, <1>10, <2>6, PacketFacts DEF Matches, matchHeader
    <3>2. q < Start(j) + HeadLen /\ q < End(j) /\ Start(j) < q
      BY <1>1, <1>6, <2>1, <2>6, <3>1
    <3>3. ~HeaderWhole(j)
      <4>1. ~(q <= Start(j) \/ q >= Start(j) + HeadLen)
        BY <1>1, <1>6, <3>1, <3>2
      <4> QED
        BY <1>1, <4>1 DEF HeaderWhole
    <3>4. ~Found(j)
      BY <3>3, FoundWhole
    <3>5. ASSUME NEW m \in Numbers
          PROVE  (End(m) <= q <=> m < j) /\ (Start(m) < q /\ q < End(m) => m = j)
      <4>1. Start(j) <= q /\ q < End(j)
        BY <1>1, <1>6, <3>2
      <4>2. Start(m) < q => Start(m) <= q
        BY <1>1, <1>6
      <4> QED
        BY <1>1, <4>1, <4>2, Across
    <3> QED
      BY <1>8, <2>4, <2>5, <3>4, <3>5
  <2>7. CASE Start(j) # x
    <3>1. Start(j) < x
      BY <1>6, <2>1, <2>3, <2>7
    <3>2. count = 0
      <4> SUFFICES ASSUME count # 0 PROVE FALSE
        OBVIOUS
      <4>1. PICK k \in Numbers : StandsAt(k)
        BY <1>1
      <4>2. x = End(k)
        BY <4>1 DEF StandsAt
      <4> QED
        BY <2>3, <3>1, <4>2, EndsRise
    <3>3. x = pos
      BY <1>1, <3>2
    <3>4. ~Found(j)
      BY <1>0, <1>2, <2>3, <3>1, <3>2, <3>3 DEF CarryOK
    <3>5. \A i \in 1..Len(cuts) : cuts[i] <= pos \/ cuts[i] >= q
      <4>1. q >= q
        BY <1>1
      <4> QED
        BY <1>3, <4>1
    <3>6. \A m \in Numbers : j <= m /\ Start(m) < q => ~Found(m)
      BY <1>1, <2>3, <3>1, <3>3, <3>4, <3>5, LostAfter
    <3>7. ASSUME NEW m \in Numbers, Found(m), End(m) <= q PROVE End(m) <= x
      <4>1. Start(m) < q
        BY <1>1, <1>6, <3>7
      <4>2. m < j
        BY <1>6, <3>6, <3>7, <4>1
      <4> QED
        BY <2>4, <4>2
    <3>8. ASSUME NEW m \in Numbers, Start(m) < q, q < End(m) PROVE ~Found(m)
      <4>1. ~(End(m) <= x)
        BY <1>1, <1>6, <2>1, <3>8
      <4>2. j <= m
        BY <1>6, <2>4, <4>1
      <4> QED
        BY <3>6, <3>8, <4>2
    <3> QED
      BY <1>8, <2>5, <3>7, <3>8
  <2> QED
    BY <2>6, <2>7
<1> QED
  BY <1>1, <1>9, <1>10

LEMMA TrackedStep ==
    ASSUME Types, Types', Place, Due, Tracked, [Next]_vars
    PROVE  Tracked'
<1> SUFFICES ASSUME ~fault', ~refused' PROVE Tracked'
  BY DEF Tracked
<1>1. ASSUME UNCHANGED <<starts, pc, pos, dataLength, count, prevFlag, cuts, fault, refused>>,
             \A e : IsMade(e)' <=> IsMade(e)
      PROVE  Tracked'
  <2>1. MadeOK /\ CutsOK /\ CarryOK
    BY <1>1 DEF Tracked
  <2>2. \A m \in Numbers : /\ Start(m)' = Start(m) /\ End(m)' = End(m) /\ (Found(m)' <=> Found(m))
    BY <1>1 DEF Start, End, Found, HeaderWhole, AtBorder
  <2>3. \A m \in Numbers : Ripe(m)' <=> Ripe(m)
    BY <1>1, <2>2 DEF Ripe, Reached
  <2>4. MadeOK'
    BY <1>1, <2>1, <2>3, MadeSame
  <2>5. CutsOK'
    BY <1>1, <2>1 DEF CutsOK, Total
  <2>6. CarryOK'
    BY <1>1, <2>1, <2>2 DEF CarryOK
  <2> QED
    BY <2>4, <2>5, <2>6 DEF Tracked
<1>2. CASE UNCHANGED vars
  <2>1. calls' = calls /\ pending' = pending
    BY <1>2 DEF vars
  <2>2. \A e : IsMade(e)' <=> IsMade(e)
    BY <2>1, CallsSame
  <2> QED
    BY <1>1, <1>2, <2>2 DEF vars, context
<1>3. CASE acceptCallback
  <2>1. calls' = Append(calls, FirstCall) /\ pending' = << >> /\ pending = <<FirstCall>>
    BY <1>3, LateCall DEF Due
  <2>2. /\ UNCHANGED <<starts, pc, pos, dataLength, count, prevFlag, cuts, fault, refused>>
    BY <1>3 DEF acceptCallback, context
  <2>3. FirstCall \in CallSet /\ calls \in Seq(CallSet)
    BY FirstHanded DEF Types
  <2>4. /\ Len(calls') = Len(calls) + 1 /\ calls'[Len(calls')] = FirstCall /\ Len(calls) \in Nat
        /\ \A i \in 1..Len(calls) : calls'[i] = calls[i]
        /\ \A i \in 1..Len(calls') : i \in 1..Len(calls) \/ i = Len(calls')
    BY <2>1, <2>3, OneMore
  <2>5. Len(pending) = 1 /\ pending[1] = FirstCall /\ Len(pending') = 0
    BY <2>1
  <2>6. /\ \A i \in 1..Len(calls) : i \in 1..Len(calls')
        /\ Len(calls') \in 1..Len(calls')
    BY <2>4
  <2>7. \A e : IsMade(e)' <=> IsMade(e)
    BY <2>4, <2>5, <2>6 DEF IsMade
  <2> QED
    BY <1>1, <2>2, <2>7
<1> QED
  BY <1>2, <1>3, TrackedAccept, TrackedReceive, TrackedSplice, TrackedLeftover DEF Next

\* For every stream, every way of cutting it and all buffer sizes, the callback is run for exactly
\* the complete packets that doAccept and doRecv can find: a header cut in two costs the packets up
\* to the next one at which a piece begins, and nothing more.
THEOREM FoundPacketsCalled == Spec => []FoundAreCalled
<1>1. Init => Due /\ Tracked
  <2> SUFFICES ASSUME Init PROVE Due /\ Tracked
    OBVIOUS
  <2>1. Types
    BY InitPlace
  <2>2. Due
    BY DEF Init, Due
  <2>3. /\ pc = "accept" /\ pos = 0 /\ calls = << >> /\ pending = << >> /\ cuts = << >>
    BY DEF Init
  <2>4. Len(calls) = 0 /\ Len(pending) = 0 /\ Len(cuts) = 0
    BY <2>3
  <2>5. \A k \in Numbers : Start(k) \in Nat /\ End(k) \in Nat /\ ~(End(k) <= 0) /\ ~(Start(k) < 0)
    <3> SUFFICES ASSUME NEW k \in Numbers
                 PROVE  Start(k) \in Nat /\ End(k) \in Nat /\ ~(End(k) <= 0) /\ ~(Start(k) < 0)
      OBVIOUS
    <3>1. Start(k) \in Nat /\ End(k) \in Nat /\ HeadLen \in Nat /\ HeadLen >= 1 /\ Start(k) + HeadLen <= End(k)
      BY <2>1, PacketFacts
    <3> QED
      BY <3>1
  <2>6. MadeOK
    BY <2>3, <2>4, <2>5 DEF MadeOK, IsMade, Ripe, Reached
  <2>7. CutsOK
    <3>1. 0 <= Total
      <4>1. Packets \in Numbers
        BY StreamAssumption DEF Numbers
      <4>2. End(Packets) \in Nat
        BY <2>5, <4>1
      <4> QED
        BY <4>2 DEF End, Total
    <3> QED
      BY <2>3, <2>4, <3>1 DEF CutsOK
  <2>8. CarryOK
    BY <2>3, <2>5 DEF CarryOK
  <2> QED
    BY <2>2, <2>6, <2>7, <2>8 DEF Tracked
<1>2. Types /\ Tracked => FoundAreCalled
  <2> SUFFICES ASSUME Types, Tracked, ~fault, ~refused, pc # "splice"
               PROVE  {c.end : c \in Calls} \cup {pending[i].end : i \in 1..Len(pending)}
                        = {End(k) : k \in {j \in Numbers : Found(j) /\ End(j) <= pos}}
    BY DEF FoundAreCalled
  <2>1. \A e : IsMade(e) <=> \E k \in Numbers : e = End(k) /\ Found(k) /\ End(k) <= pos
    BY DEF Tracked, MadeOK, Ripe, Reached
  <2>2. \A e : e \in {c.end : c \in Calls} \cup {pending[i].end : i \in 1..Len(pending)} <=> IsMade(e)
    BY DEF IsMade, Calls
  <2>3. \A e : e \in {End(k) : k \in {j \in Numbers : Found(j) /\ End(j) <= pos}}
                 <=> \E k \in Numbers : e = End(k) /\ Found(k) /\ End(k) <= pos
    OBVIOUS
  <2> QED
    BY <2>1, <2>2, <2>3
<1>3. (Types /\ Place /\ Due /\ Tracked) /\ [Next]_vars => (Types /\ Place /\ Due /\ Tracked)'
  BY TypesStep, PlaceStep, DueStep, TrackedStep
<1> QED
  BY InitPlace, <1>1, <1>2, <1>3, PTL DEF Spec

===============================================================================
