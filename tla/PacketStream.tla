----------------------------- MODULE PacketStream -----------------------------
(***************************************************************************)
(* How one connection's byte stream becomes packets: the framing part of   *)
(* doAccept and doRecv (src/Server8/server.cpp). A client sends packets    *)
(* one behind the other and the kernel delivers the stream in pieces of    *)
(* any size, so a piece may hold several packets, end inside one, or end   *)
(* inside a header.                                                        *)
(*                                                                         *)
(* A byte is its position in the stream and a packet the interval from its *)
(* start to the next packet's; what is in it matters to nobody here, only  *)
(* that no content looks like a header. A copy that leaves its block sets  *)
(* fault, which ends a behaviour. Whose turn it is to handle a completion, *)
(* and what happens when a post fails, is in IOCPModule.tla: one receive   *)
(* of a connection is in flight at a time, and only the callback of the    *)
(* first packet overlaps with later receives, since doAccept posts the     *)
(* receive before it runs the callback.                                    *)
(*                                                                         *)
(* doAcceptShortBlock, spliceCallsAlways, spliceStrict, leftoverAtEnd and  *)
(* leftoverSkewed are faulty variants of the definitions that follow them, *)
(* used by no action.                                                      *)
(***************************************************************************)
EXTENDS Integers, Sequences

CONSTANTS HeadLen,     \* bytes of a header
          Lengths,     \* the packet lengths clients use
          Packets, StreamBound,  \* bounds: packets of the stream, and its bytes
          AcceptSize,  \* the most bytes AcceptEx delivers
          ContextSize, \* DEFAULT_BUF_SIZ, the size of a receive context's buffer
          bufferSize,  \* the module's own buffer size
          Threads      \* worker threads

ASSUME StreamAssumption ==
    /\ HeadLen \in Nat \ {0}
    /\ Lengths \subseteq {n \in Nat : n >= HeadLen}
    /\ Packets \in Nat \ {0} /\ StreamBound \in Nat
    /\ AcceptSize \in Nat \ {0} /\ ContextSize \in Nat \ {0} /\ bufferSize \in Nat \ {0}
    /\ Threads \in Nat \ {0}

VARIABLES starts,    \* where the packets start; the stream ends at starts[Packets + 1]
          pc,        \* "accept", "recv" (a receive is posted), "splice" (doRecv's loop)
          pos,       \* where the buffer's first byte is in the stream
          dataLength, count, pack,  \* doRecv's argument and locals; of pack, its length
          prevFlag, bytesToRecv,    \* a packet has begun, and the bytes it lacks
          packetLength,             \* of IOCPContext::packet, 0 until it is set
          block,     \* size of prevData
          pending,   \* the call doAccept has still to make, if any
          calls,     \* the callback's calls so far
          cuts,      \* where the pieces delivered so far ended: an observer only
          refused,   \* a piece has been longer than bufferSize: an observer only
          fault      \* a copy has left its block

context == <<prevFlag, bytesToRecv, packetLength, block>>
vars == <<starts, pc, pos, dataLength, count, pack, context, pending, calls, cuts, refused, fault>>

Numbers == 1..Packets
Start(k) == starts[k]
End(k) == starts[k + 1]
Length(k) == End(k) - Start(k)
Total == starts[Packets + 1]

Streams ==
    {s \in [1..(Packets + 1) -> 0..StreamBound] :
        s[1] = 0 /\ \A k \in Numbers : s[k + 1] - s[k] \in Lengths}

\* What a callback is given (the buffer, as an interval of the stream) and where the
\* packet it is run for ends.
Call(from, to, end) == [from |-> from, to |-> to, end |-> end]

Init ==
    /\ starts \in Streams
    /\ pc = "accept" /\ pos = 0 /\ dataLength = 0 /\ count = 0 /\ pack = 0
    /\ prevFlag = FALSE /\ bytesToRecv = 0 /\ packetLength = 0 /\ block = 0
    /\ pending = << >> /\ calls = << >> /\ cuts = << >>
    /\ refused = FALSE /\ fault = FALSE

-------------------------------------------------------------------------------
\* matchHeader on the bytes from position at on, of which avail are there: they have to begin
\* with a whole header. Headers are shorter than the 256 bytes it looks at (PacketHeader.tla).
matchHeader(k, at, avail) == Start(k) = at /\ avail >= HeadLen

\* A packet that lacks bytes is kept in a block of its own.
Keep(lacking, size) ==
    /\ prevFlag' = TRUE /\ bytesToRecv' = lacking /\ block' = size

Drop == prevFlag' = FALSE /\ bytesToRecv' = 0 /\ block' = 0

Fault ==
    /\ fault' = TRUE
    /\ UNCHANGED <<starts, pc, pos, dataLength, count, pack, context, pending, calls, refused>>

\* The first piece. A packet that is there as a whole is handed over later, after the receive
\* has been posted; of one that is not, the beginning is copied into a block. More than one
\* packet is more than the block holds.
acceptPiece(n, size) ==
    /\ ~fault /\ pc = "accept" /\ n <= Total
    /\ cuts' = <<n>>
    /\ \/ /\ matchHeader(1, 0, n) /\ n > Length(1)
          /\ Fault
       \/ /\ matchHeader(1, 0, n) => n <= Length(1)
          /\ pc' = "recv" /\ pos' = n
          /\ \/ /\ matchHeader(1, 0, n) /\ n = Length(1)
                /\ pending' = <<Call(0, n, n)>>
                /\ UNCHANGED context
             \/ /\ matchHeader(1, 0, n) /\ n < Length(1)
                /\ Keep(Length(1) - n, size)
                /\ packetLength' = Length(1)
                /\ UNCHANGED pending
             \/ ~matchHeader(1, 0, n) /\ UNCHANGED <<context, pending>>
          /\ UNCHANGED <<starts, dataLength, count, pack, calls, refused, fault>>

doAcceptShortBlock(n) == acceptPiece(n, Length(1) - n)

\* The block has the packet's length.
doAccept(n) == acceptPiece(n, Length(1))

\* The end of doAccept: pRecvCallback->run on the first packet.
acceptCallback ==
    /\ ~fault /\ pending # << >>
    /\ calls' = calls \o pending
    /\ pending' = << >>
    /\ UNCHANGED <<starts, pc, pos, dataLength, count, pack, context, cuts, refused, fault>>

-------------------------------------------------------------------------------
(* doRecv on a piece of n bytes. *)

Receive(n) ==
    /\ ~fault /\ pc = "recv"
    /\ Threads > 1 \/ pending = << >>
    /\ n \in 1..ContextSize /\ pos + n <= Total
    /\ cuts' = Append(cuts, pos + n)

\* memcpy(prevData + packet.getPacketLength() - bytesToRecv, buf, length).
CopyFits(length) ==
    /\ packetLength - bytesToRecv >= 0
    /\ packetLength - bytesToRecv + length <= block

\* The piece is what the packet lacks.
recvLast(n) ==
    /\ Receive(n) /\ prevFlag /\ n = bytesToRecv
    /\ calls' = Append(calls, Call(pos, pos + n, pos + n))
    /\ Drop
    /\ pos' = pos + n
    /\ UNCHANGED <<starts, pc, dataLength, count, pack, packetLength, pending, refused, fault>>

\* The packet lacks more.
recvMiddle(n) ==
    /\ Receive(n) /\ prevFlag /\ n < bytesToRecv
    /\ \/ ~CopyFits(n) /\ Fault
       \/ /\ CopyFits(n)
          /\ bytesToRecv' = bytesToRecv - n
          /\ pos' = pos + n
          /\ UNCHANGED <<starts, pc, dataLength, count, pack, prevFlag, packetLength, block,
                         pending, calls, refused, fault>>

\* The piece goes on behind the packet's end.
recvBeyond(n) ==
    /\ Receive(n) /\ prevFlag /\ n > bytesToRecv /\ n <= bufferSize
    /\ \/ ~CopyFits(bytesToRecv) /\ Fault
       \/ /\ CopyFits(bytesToRecv)
          /\ calls' = Append(calls, Call(pos, pos + n, pos + bytesToRecv))
          /\ Drop
          /\ pc' = "splice" /\ dataLength' = n /\ count' = bytesToRecv /\ pack' = 0
          /\ UNCHANGED <<starts, pos, packetLength, pending, refused, fault>>

\* "prevdata is invalid".
recvInvalid(n) ==
    /\ Receive(n) /\ prevFlag /\ n > bytesToRecv /\ n > bufferSize
    /\ Drop
    /\ refused' = TRUE
    /\ pos' = pos + n
    /\ UNCHANGED <<starts, pc, dataLength, count, pack, packetLength, pending, calls, fault>>

\* No packet has begun.
recvFresh(n) ==
    /\ Receive(n) /\ ~prevFlag
    /\ pc' = "splice" /\ dataLength' = n /\ count' = 0 /\ pack' = 0
    /\ UNCHANGED <<starts, pos, context, pending, calls, refused, fault>>

doRecv(n) ==
    recvLast(n) \/ recvMiddle(n) \/ recvBeyond(n) \/ recvInvalid(n) \/ recvFresh(n)

-------------------------------------------------------------------------------
(* The loop "packet splicing" over the rest of the piece, and what it leaves over. *)

Splicing == ~fault /\ pc = "splice"
Matches(k) == count < dataLength /\ matchHeader(k, pos + count, dataLength - count)

spliceStep(k, whole) ==
    /\ Splicing /\ Matches(k)
    /\ calls' = IF whole THEN Append(calls, Call(pos, pos + dataLength, pos + count + Length(k)))
                         ELSE calls
    /\ count' = count + Length(k) /\ pack' = Length(k)
    /\ UNCHANGED <<starts, pc, pos, dataLength, context, pending, cuts, refused, fault>>

spliceCallsAlways(k) == spliceStep(k, TRUE)
spliceStrict(k) == spliceStep(k, dataLength - count > Length(k))

\* One iteration: a packet that is there as a whole is handed over.
splice(k) == spliceStep(k, dataLength - count >= Length(k))

\* The loop's end, with a packet begun that lacks some bytes or with none. For a packet begun, a
\* block of as many bytes as it lacks is made and that many are copied from the buffer, starting
\* with the packet; IOCPContext::packet stays as it was. Bytes that are no header are dropped.
finishSplice(begun, lacking) ==
    /\ Splicing /\ ~\E k \in Numbers : Matches(k)
    /\ \/ begun /\ (count - pack) + lacking > ContextSize /\ Fault
       \/ /\ begun /\ (count - pack) + lacking <= ContextSize
          /\ Keep(lacking, lacking)
          /\ pc' = "recv" /\ pos' = pos + dataLength
          /\ UNCHANGED <<starts, dataLength, count, pack, packetLength, pending, calls, refused,
                         fault>>
       \/ /\ ~begun
          /\ pc' = "recv" /\ pos' = pos + dataLength
          /\ UNCHANGED <<starts, dataLength, count, pack, context, pending, calls, refused, fault>>
    /\ UNCHANGED cuts

leftoverAtEnd == finishSplice(count >= dataLength, count - dataLength)
leftoverSkewed == finishSplice(count > dataLength, count)

leftover == finishSplice(count > dataLength, count - dataLength)

Next ==
    \/ \E n \in 1..AcceptSize : doAccept(n)
    \/ acceptCallback
    \/ \E n \in 1..ContextSize : doRecv(n)
    \/ \E k \in Numbers : splice(k)
    \/ leftover

Spec == Init /\ [][Next]_vars

-------------------------------------------------------------------------------
(* Properties. *)

Calls == {calls[i] : i \in 1..Len(calls)}
Ends == {End(k) : k \in Numbers}

\* The handlers keep their place in the stream, whatever the pieces were: the bytes a
\* connection waits for end where a packet ends, and the loop stands at a packet's end unless
\* it has not moved.
InStep ==
    ~fault =>
        /\ prevFlag => bytesToRecv > 0 /\ pos + bytesToRecv \in Ends
        /\ pc = "splice" => count = 0 \/ pos + count \in Ends

\* A callback is run for a packet whose last byte is in the buffer it is given, and that has
\* the whole packet if none of the pieces' borders fell into it.
HandedOver ==
    \A c \in Calls : \E k \in Numbers :
        /\ c.end = End(k) /\ c.from < End(k) /\ End(k) <= c.to
        /\ (\A i \in 1..Len(cuts) : cuts[i] <= Start(k) \/ cuts[i] >= End(k)) => c.from <= Start(k)

\* The callback runs at most once for a packet, in the packets' order, except that the first
\* packet's call may come late when a second worker handles what follows it.
CallsInOrder ==
    \A i, j \in 1..Len(calls) :
        i < j => calls[i].end < calls[j].end \/ (Threads > 1 /\ calls[j].end = End(1) /\ calls[i].end # End(1))

HeaderWhole(k) == \A i \in 1..Len(cuts) : cuts[i] <= Start(k) \/ cuts[i] >= Start(k) + HeadLen
AtBorder(k) == Start(k) = 0 \/ \E i \in 1..Len(cuts) : cuts[i] = Start(k)

\* The packets the handlers find: a piece begins here or at an earlier packet, and every header
\* from there on has arrived in one piece.
Found(k) == \E j \in 1..k : AtBorder(j) /\ \A i \in j..k : HeaderWhole(i)

\* Of the bytes received so far, every packet that is complete and can be found has had its
\* callback, and no other has: a header cut in two costs the packets up to the next one at
\* which a piece begins, and nothing more.
FoundAreCalled ==
    ~fault /\ ~refused /\ pc # "splice" =>
        {c.end : c \in Calls} \cup {pending[i].end : i \in 1..Len(pending)}
            = {End(k) : k \in {j \in Numbers : Found(j) /\ End(j) <= pos}}

PieceStart(i) == IF i = 1 THEN 0 ELSE cuts[i - 1]

\* Why piece i may make a copy leave its block: the first piece goes on behind the first
\* packet; a later packet that an earlier piece began does not end with this one; or so much of
\* a later packet is missing that as many bytes are not in the buffer.
Untidy(i) ==
    \/ i = 1 /\ cuts[1] > End(1)
    \/ i > 1 /\ \E k \in 2..Packets :
        \/ Start(k) < PieceStart(i) /\ PieceStart(i) < End(k) /\ cuts[i] # End(k)
        \/ /\ PieceStart(i) <= Start(k) /\ Start(k) < cuts[i] /\ cuts[i] < End(k)
           /\ (Start(k) - PieceStart(i)) + (End(k) - cuts[i]) > ContextSize

\* No copy leaves its block on a connection whose first packet comes alone, in pieces of any
\* size, and whose later packets come whole or in two pieces that end with the packet.
FaultHasCause == fault => Untidy(Len(cuts))
===============================================================================
