------------------------------ MODULE IOCPModule ------------------------------
(***************************************************************************)
(* The network core of the server: class svr::IOCPModule of                *)
(* src/Server8/server.h and server.cpp. Worker threads take completion     *)
(* packets from one I/O completion port, and each packet names the         *)
(* SocketContext (pSC) and the IOCPContext (pIC) of the operation that     *)
(* ended. Both are heap objects that other workers may have deleted.       *)
(*                                                                         *)
(* A step of a worker is the code between two accesses to shared state:    *)
(* socketContextMap under the module's lock, the kernel's queues, or a     *)
(* context of another operation. The bytes of packets are abstracted to    *)
(* "some arrived", since here only the count > 0 decides what is called.   *)
(*                                                                         *)
(* SocketContext objects are named by their connection and a name is never *)
(* reused. The kernel (AcceptEx, WSARecv, WSASend, the port) is external.  *)
(* Reading a deleted object sets fault, and nothing is said of what the    *)
(* process does after that: the behaviour ends there.                      *)
(*                                                                         *)
(* Both callbacks have been set before initIOCP. What workers do when they *)
(* find none is the subject of DefaultCallback.tla.                        *)
(*                                                                         *)
(* TakeKeepsLast, emptyAcceptForgets, insertReturns, doRecvPostsFirst,     *)
(* postRecvGivesUp, recvFailedReposts, recvFailedIgnored,                  *)
(* recvFailedDeletes and RequestCloseAgain are faulty variants of the      *)
(* definitions that follow them, used by no action.                        *)
(***************************************************************************)
EXTENDS Integers, Sequences

CONSTANTS Workers,          \* the threads of IOCPThreadPool
          Conns,            \* SocketContext objects of clients
          Listen,           \* listenSocketContext
          NoConn, NoPacket,
          maxStandbySocket, \* AcceptEx operations kept waiting for clients
          MaxSends,         \* bound: sendData calls by callbacks
          MaxCloses,        \* bound: postCloseConnection calls by callbacks
          MaxAcceptFails    \* bound: AcceptEx calls the kernel refuses

ASSUME NamesAssumption == Listen \notin Conns /\ NoConn \notin Conns
ASSUME BoundsAssumption == {maxStandbySocket, MaxSends, MaxCloses, MaxAcceptFails} \subseteq Nat

VARIABLES object,           \* is the client's SocketContext allocated
          socketContextMap, \* the registered SocketContexts
          closeFlag,        \* SocketContext::closeFlag
          count,            \* SocketContext::count, IOCPContexts made so far
          IOCPContextMap,   \* per SocketContext, the keys of the contexts it owns
          pending,          \* operations the kernel is working on
          port,             \* completion packets nobody has taken yet, first in first out
          pc, hand,         \* per worker, where it is and the packet it handles
          gone,             \* connections whose peer has left
          sends, closes, acceptFails,  \* calls made, counted against the bounds
          sending,          \* workers in sendData, between its look-up and what follows
          posting,          \* workers in postSend, between WSASend and the write after it
          fault             \* a deleted object has been read

contexts == <<object, socketContextMap, closeFlag, count, IOCPContextMap>>
calls    == <<sends, closes, acceptFails, sending, posting>>
vars     == <<contexts, pending, port, pc, hand, gone, calls, fault>>

SocketContexts == Conns \cup {Listen}
Signals == {"SIG_ACCEPT", "SIG_RECV", "SIG_SEND", "SIG_CLOSE_CONNECTION"}

\* An IOCPContext: the key under which its SocketContext holds it, and its operation.
IO(sc, key, op) == [sc |-> sc, key |-> key, operation |-> op]
IOs == [sc : SocketContexts, key : Nat, operation : Signals]

\* Completion of io: "data" moved all, "part" some, "zero" no bytes; "error" is a FALSE from
\* GetQueuedCompletionStatus. peer is the socket that an accept brought in.
Packet(io, result, peer) == [io |-> io, result |-> result, peer |-> peer]
Packets == [io : IOs, result : {"data", "part", "zero", "error"}, peer : Conns \cup {NoConn}]

\* createIOCPContext: the new context gets contextIndex = count and the key count + 1.
newKey(sc) == count[sc] + 1
contextIndex(io) == io.key - 1

\* IOCPContextMap after removeIOCPContext(i): the context under key i is deleted, if any is.
removeIOCPContext(sc, i) == [IOCPContextMap EXCEPT ![sc] = @ \ {i}]

\* initIOCP holds the exclusive lock until it has posted its accepts.
LockFree == count[Listen] = maxStandbySocket

-------------------------------------------------------------------------------
Init ==
    /\ object = [c \in Conns |-> "none"]
    /\ socketContextMap = {}
    /\ closeFlag = [c \in Conns |-> FALSE]
    /\ count = [s \in SocketContexts |-> 0]
    /\ IOCPContextMap = [s \in SocketContexts |-> {}]
    /\ pending = {}
    /\ port = << >>
    /\ pc = [w \in Workers |-> "idle"]
    /\ hand = [w \in Workers |-> NoPacket]
    /\ gone = {}
    /\ sends = 0 /\ closes = 0 /\ acceptFails = 0 /\ sending = {} /\ posting = {}
    /\ fault = FALSE

(* initIOCP posts its accepts while the workers already run. The failures that make it return *)
(* before that start no worker and leave nothing to model.                                   *)

NewAccept == IO(Listen, newKey(Listen), "SIG_ACCEPT")

initIOCP ==
    /\ ~fault /\ ~LockFree
    /\ count' = [count EXCEPT ![Listen] = @ + 1]
    /\ \/ /\ IOCPContextMap' = [IOCPContextMap EXCEPT ![Listen] = @ \cup {newKey(Listen)}]
          /\ pending' = pending \cup {NewAccept}
          /\ UNCHANGED acceptFails
       \/ /\ acceptFails < MaxAcceptFails
          /\ acceptFails' = acceptFails + 1
          /\ IOCPContextMap' = [IOCPContextMap EXCEPT
                ![Listen] = (@ \cup {newKey(Listen)}) \ {contextIndex(NewAccept)}]
          /\ UNCHANGED pending
    /\ UNCHANGED <<object, socketContextMap, closeFlag, port, pc, hand, gone, sends, closes,
                   sending, posting, fault>>

-------------------------------------------------------------------------------
(* The kernel. *)

Complete(io, result, peer) ==
    /\ pending' = pending \ {io}
    /\ port' = Append(port, Packet(io, result, peer))

\* A client connects and sends, connects and sends nothing, or the accept fails.
AcceptCompletes(io) ==
    /\ ~fault /\ io \in pending /\ io.operation = "SIG_ACCEPT"
    /\ \/ \E c \in Conns :
             /\ object[c] = "none"
             /\ object' = [object EXCEPT ![c] = "arrived"]
             /\ Complete(io, "data", c)
       \/ \E r \in {"zero", "error"} : Complete(io, r, NoConn) /\ UNCHANGED object
    /\ UNCHANGED <<socketContextMap, closeFlag, count, IOCPContextMap, pc, hand, gone, calls, fault>>

DataArrives(io) ==
    /\ ~fault /\ io \in pending /\ io.operation = "SIG_RECV"
    /\ object[io.sc] = "alive" /\ io.sc \notin gone
    /\ Complete(io, "data", NoConn)
    /\ UNCHANGED <<contexts, pc, hand, gone, calls, fault>>

\* The peer's end of stream or reset ends the waiting receive, if one waits.
StreamEnds(io) ==
    /\ ~fault /\ io \in pending /\ io.operation = "SIG_RECV"
    /\ object[io.sc] = "alive" /\ io.sc \in gone
    /\ \E r \in {"zero", "error"} : Complete(io, r, NoConn)
    /\ UNCHANGED <<contexts, pc, hand, gone, calls, fault>>

\* "zero" can follow only the stray descriptor of doSendRest; it is allowed for every send.
SendEnds(io) ==
    /\ ~fault /\ io \in pending /\ io.operation = "SIG_SEND"
    /\ object[io.sc] = "alive"
    /\ \E r \in {"data", "part", "zero", "error"} : Complete(io, r, NoConn)
    /\ UNCHANGED <<contexts, pc, hand, gone, calls, fault>>

\* Deleting a SocketContext closes its socket, which aborts what is pending on it.
Aborted(io) ==
    /\ ~fault /\ io \in pending /\ io.sc \in Conns /\ object[io.sc] = "freed"
    /\ Complete(io, "error", NoConn)
    /\ UNCHANGED <<contexts, pc, hand, gone, calls, fault>>

PeerLeaves(c) ==
    /\ ~fault /\ object[c] \in {"arrived", "alive"} /\ c \notin gone
    /\ gone' = gone \cup {c}
    /\ UNCHANGED <<contexts, pending, port, pc, hand, calls, fault>>

-------------------------------------------------------------------------------
(* The loop of IOCPWorkThread: take a packet, handle it, forget it. *)

\* Worker by has called WSASend for io, which the kernel has taken or refused.
PostSend(w, io, taken) == [by |-> w, io |-> io, taken |-> taken]

Posting(w) == \E p \in posting : p.by = w

TakeKeepsLast(w) ==
    /\ ~fault /\ pc[w] = "idle" /\ ~Posting(w) /\ port # << >>
    /\ port' = Tail(port)
    /\ pc' = [pc EXCEPT ![w] = "dispatch"]
    /\ UNCHANGED <<contexts, pending, hand, gone, calls, fault>>

GetQueuedCompletionStatus(w) ==
    /\ ~fault /\ pc[w] = "idle" /\ ~Posting(w) /\ port # << >>
    /\ hand' = [hand EXCEPT ![w] = Head(port)]
    /\ port' = Tail(port)
    /\ pc' = [pc EXCEPT ![w] = "dispatch"]
    /\ UNCHANGED <<contexts, pending, gone, calls, fault>>

Goto(w, label) == pc' = [pc EXCEPT ![w] = label] /\ UNCHANGED hand
Done(w) == pc' = [pc EXCEPT ![w] = "idle"] /\ hand' = [hand EXCEPT ![w] = NoPacket]

Allocated(io) == io.key \in IOCPContextMap[io.sc]

\* What worker w is about to read has not been deleted. postCloseConnection compares pSC with
\* the map's keys before it reads through it, and nothing is read of a failed send after its
\* operation, so these need nothing.
Usable(w) ==
    IF w \in sending THEN object[hand[w].io.sc] = "alive"
    ELSE IF Posting(w) THEN \A p \in posting : p.by = w => Allocated(p.io)
    ELSE /\ pc[w] = "insert" => object[hand[w].peer] = "alive"
         /\ pc[w] \in {"dispatch", "postAccept", "recvCallback", "sendCallback"} => Allocated(hand[w].io)

UseAfterFree(w) ==
    /\ ~fault /\ (pc[w] # "idle" \/ Posting(w)) /\ ~Usable(w)
    /\ fault' = TRUE
    /\ UNCHANGED <<contexts, pending, port, pc, hand, gone, calls>>

\* Worker w is at label, and what it is about to read is still there.
At(w, label) == ~fault /\ w \notin sending /\ ~Posting(w) /\ pc[w] = label /\ Usable(w)

Handles(w, op, results) ==
    At(w, "dispatch") /\ hand[w].io.operation = op /\ hand[w].result \in results

-------------------------------------------------------------------------------
(* Accepting a client. *)

emptyAcceptForgets(w) ==
    /\ Handles(w, "SIG_ACCEPT", {"zero", "error"})
    /\ Done(w)
    /\ UNCHANGED <<contexts, pending, port, gone, calls, fault>>

\* An accept that failed or brought no bytes: close the socket, accept again.
emptyAccept(w) ==
    /\ Handles(w, "SIG_ACCEPT", {"zero", "error"})
    /\ Goto(w, "postAccept")
    /\ UNCHANGED <<contexts, pending, port, gone, calls, fault>>

\* doAccept up to postRecv: the new SocketContext has one receive context; a failed bind or
\* receive deletes it again.
doAccept(w) ==
    /\ Handles(w, "SIG_ACCEPT", {"data"})
    /\ LET c == hand[w].peer
       IN \/ /\ object' = [object EXCEPT ![c] = "alive"]
             /\ count' = [count EXCEPT ![c] = 1]
             /\ IOCPContextMap' = [IOCPContextMap EXCEPT ![c] = {1}]
             /\ pending' = pending \cup {IO(c, 1, "SIG_RECV")}
             /\ Goto(w, "insert")
          \/ /\ object' = [object EXCEPT ![c] = "freed"]
             /\ Goto(w, "postAccept")
             /\ UNCHANGED <<count, IOCPContextMap, pending>>
    /\ UNCHANGED <<socketContextMap, closeFlag, port, gone, calls, fault>>

insertReturns(w) ==
    /\ At(w, "insert") /\ LockFree
    /\ socketContextMap' = socketContextMap \cup {hand[w].peer}
    /\ Done(w)
    /\ UNCHANGED <<object, closeFlag, count, IOCPContextMap, pending, port, gone, calls, fault>>

\* doAccept, step 4. The callback that follows is given listenSocketContext, on which sendData
\* and postCloseConnection have no effect: it is not in the map and is bound already.
insertContext(w) ==
    /\ At(w, "insert") /\ LockFree
    /\ socketContextMap' = socketContextMap \cup {hand[w].peer}
    /\ Goto(w, "postAccept")
    /\ UNCHANGED <<object, closeFlag, count, IOCPContextMap, pending, port, gone, calls, fault>>

\* Step 5 of doAccept and the other callers of postAccept.
postAccept(w) ==
    /\ At(w, "postAccept")
    /\ \/ /\ pending' = pending \cup {hand[w].io}
          /\ UNCHANGED <<IOCPContextMap, acceptFails>>
       \/ /\ acceptFails < MaxAcceptFails
          /\ acceptFails' = acceptFails + 1
          /\ IOCPContextMap' = removeIOCPContext(Listen, contextIndex(hand[w].io))
          /\ UNCHANGED pending
    /\ Done(w)
    /\ UNCHANGED <<object, socketContextMap, closeFlag, count, port, gone, sends, closes, sending, posting, fault>>

-------------------------------------------------------------------------------
(* Receiving and sending. *)

doRecvPostsFirst(w) ==
    /\ Handles(w, "SIG_RECV", {"data"})
    /\ pending' = pending \cup {hand[w].io}
    /\ Goto(w, "recvCallback")
    /\ UNCHANGED <<contexts, port, gone, calls, fault>>

\* doRecv hands complete packets to the receive callback, then posts the next receive.
doRecv(w) ==
    /\ Handles(w, "SIG_RECV", {"data"})
    /\ Goto(w, "recvCallback")
    /\ UNCHANGED <<contexts, pending, port, gone, calls, fault>>

postRecvGivesUp(w) ==
    /\ At(w, "recvCallback")
    /\ pending' = pending \cup {hand[w].io} \/ UNCHANGED pending
    /\ Done(w)
    /\ UNCHANGED <<contexts, port, gone, calls, fault>>

postRecv(w) ==
    /\ At(w, "recvCallback")
    /\ \/ pending' = pending \cup {hand[w].io} /\ Done(w)
       \/ Goto(w, "close") /\ UNCHANGED pending
    /\ UNCHANGED <<contexts, port, gone, calls, fault>>

\* doSend: all bytes are out, the send callback runs.
doSend(w) ==
    /\ Handles(w, "SIG_SEND", {"data"})
    /\ Goto(w, "sendCallback")
    /\ UNCHANGED <<contexts, pending, port, gone, calls, fault>>

releaseSend(w) ==
    /\ At(w, "sendCallback")
    /\ IOCPContextMap' = removeIOCPContext(hand[w].io.sc, contextIndex(hand[w].io))
    /\ Done(w)
    /\ UNCHANGED <<object, socketContextMap, closeFlag, count, pending, port, gone, calls, fault>>

\* doSend: some bytes are left. postSend reads a WSABUF past the context's own (the offset is
\* added to the pointer to the buffer descriptor), so the kernel may take or refuse it. Once
\* taken, another worker may handle its completion before postSend has returned here.
doSendRest(w) ==
    /\ Handles(w, "SIG_SEND", {"part"})
    /\ \/ /\ pending' = pending \cup {hand[w].io}
          /\ posting' = posting \cup {PostSend(w, hand[w].io, TRUE)}
          /\ Done(w)
       \/ /\ posting' = posting \cup {PostSend(w, hand[w].io, FALSE)}
          /\ Goto(w, "close")
          /\ UNCHANGED pending
    /\ UNCHANGED <<contexts, port, gone, sends, closes, acceptFails, sending, fault>>

\* The end of postSend writes the operation into the context that the kernel already has, and
\* its caller removes the context of a send that was refused.
postSendReturns(w) ==
    /\ ~fault /\ w \notin sending /\ Usable(w)
    /\ \E p \in posting :
          /\ p.by = w
          /\ posting' = posting \ {p}
          /\ IOCPContextMap' = IF p.taken THEN IOCPContextMap
                               ELSE removeIOCPContext(p.io.sc, contextIndex(p.io))
    /\ UNCHANGED <<object, socketContextMap, closeFlag, count, pending, port, pc, hand, gone,
                   sends, closes, acceptFails, sending, fault>>

\* A failed send also runs the send callback, then closes.
sendError(w) ==
    /\ Handles(w, "SIG_SEND", {"error"})
    /\ Goto(w, "errorCallback")
    /\ UNCHANGED <<contexts, pending, port, gone, calls, fault>>

errorCallbackReturns(w) ==
    /\ At(w, "errorCallback")
    /\ Goto(w, "close")
    /\ UNCHANGED <<contexts, pending, port, gone, calls, fault>>

recvFailedReposts(w) ==
    /\ Handles(w, "SIG_RECV", {"zero", "error"})
    /\ pending' = pending \cup {hand[w].io}
    /\ Goto(w, "close")
    /\ UNCHANGED <<contexts, port, gone, calls, fault>>

recvFailedIgnored(w) ==
    /\ Handles(w, "SIG_RECV", {"zero", "error"})
    /\ Done(w)
    /\ UNCHANGED <<contexts, pending, port, gone, calls, fault>>

recvFailedDeletes(w) ==
    /\ Handles(w, "SIG_RECV", {"zero", "error"})
    /\ object' = [object EXCEPT ![hand[w].io.sc] = "freed"]
    /\ IOCPContextMap' = [IOCPContextMap EXCEPT ![hand[w].io.sc] = {}]
    /\ socketContextMap' = socketContextMap \ {hand[w].io.sc}
    /\ Done(w)
    /\ UNCHANGED <<closeFlag, count, pending, port, gone, calls, fault>>

\* A failed receive goes to postCloseConnection; so does one of no bytes, unless a close is
\* under way already (closeFlag is read without the lock).
recvFailed(w) ==
    /\ Handles(w, "SIG_RECV", {"zero", "error"})
    /\ IF hand[w].result = "zero" /\ closeFlag[hand[w].io.sc] THEN Done(w) ELSE Goto(w, "close")
    /\ UNCHANGED <<contexts, pending, port, gone, calls, fault>>

\* A send of no bytes is not told from a receive of none.
sendEmpty(w) ==
    /\ Handles(w, "SIG_SEND", {"zero"})
    /\ IF closeFlag[hand[w].io.sc] THEN Done(w) ELSE Goto(w, "close")
    /\ UNCHANGED <<contexts, pending, port, gone, calls, fault>>

-------------------------------------------------------------------------------
(* Closing a connection. *)

RequestCloseAgain(c) ==
    IF c \in socketContextMap
    THEN /\ closeFlag' = [closeFlag EXCEPT ![c] = TRUE]
         /\ count' = [count EXCEPT ![c] = @ + 1]
         /\ IOCPContextMap' = [IOCPContextMap EXCEPT ![c] = @ \cup {newKey(c)}]
         /\ port' = Append(port, Packet(IO(c, newKey(c), "SIG_CLOSE_CONNECTION"), "data", NoConn))
    ELSE UNCHANGED <<closeFlag, count, IOCPContextMap, port>>

\* postCloseConnection(pSC), all of it under the lock: only a registered context that is not
\* closing yet gets a close packet.
RequestClose(c) ==
    IF c \in socketContextMap /\ ~closeFlag[c]
    THEN /\ closeFlag' = [closeFlag EXCEPT ![c] = TRUE]
         /\ count' = [count EXCEPT ![c] = @ + 1]
         /\ IOCPContextMap' = [IOCPContextMap EXCEPT ![c] = @ \cup {newKey(c)}]
         /\ port' = Append(port, Packet(IO(c, newKey(c), "SIG_CLOSE_CONNECTION"), "data", NoConn))
    ELSE UNCHANGED <<closeFlag, count, IOCPContextMap, port>>

postCloseConnection(w) ==
    /\ At(w, "close") /\ LockFree
    /\ RequestClose(hand[w].io.sc)
    /\ Done(w)
    /\ UNCHANGED <<object, socketContextMap, pending, gone, calls, fault>>

\* The destructor of SocketContext deletes every context it owns and closes the socket.
doCloseConnection(w) ==
    /\ Handles(w, "SIG_CLOSE_CONNECTION", {"data"}) /\ LockFree
    /\ LET c == hand[w].io.sc
       IN IF c \in socketContextMap
          THEN /\ object' = [object EXCEPT ![c] = "freed"]
               /\ IOCPContextMap' = [IOCPContextMap EXCEPT ![c] = {}]
               /\ socketContextMap' = socketContextMap \ {c}
          ELSE UNCHANGED <<object, IOCPContextMap, socketContextMap>>
    /\ Done(w)
    /\ UNCHANGED <<closeFlag, count, pending, port, gone, calls, fault>>

-------------------------------------------------------------------------------
(* What a callback may do with the SocketContext it is given. *)

InCallback(w) == \E label \in {"recvCallback", "sendCallback", "errorCallback"} : At(w, label)

\* sendData looks for the context under the lock. One that doAccept has not registered yet it
\* tries to bind a second time, which fails, and returns false; it reads a deleted one too.
sendChecks(w) ==
    /\ InCallback(w) /\ LockFree /\ sends < MaxSends
    /\ hand[w].io.sc \in socketContextMap \/ object[hand[w].io.sc] = "freed"
    /\ sends' = sends + 1
    /\ sending' = sending \cup {w}
    /\ UNCHANGED <<contexts, pending, port, pc, hand, gone, closes, acceptFails, posting, fault>>

\* It uses what it found after it has released the lock, up to the call of WSASend.
sendData(w) ==
    /\ ~fault /\ w \in sending /\ Usable(w)
    /\ LET c  == hand[w].io.sc
           io == IO(c, newKey(c), "SIG_SEND")
       IN /\ count' = [count EXCEPT ![c] = @ + 1]
          /\ IOCPContextMap' = [IOCPContextMap EXCEPT ![c] = @ \cup {io.key}]
          /\ \/ pending' = pending \cup {io} /\ posting' = posting \cup {PostSend(w, io, TRUE)}
             \/ UNCHANGED pending /\ posting' = posting \cup {PostSend(w, io, FALSE)}
    /\ sending' = sending \ {w}
    /\ UNCHANGED <<object, socketContextMap, closeFlag, port, pc, hand, gone, sends, closes, acceptFails, fault>>

callbackCloses(w) ==
    /\ InCallback(w) /\ LockFree /\ closes < MaxCloses
    /\ closes' = closes + 1
    /\ RequestClose(hand[w].io.sc)
    /\ UNCHANGED <<object, socketContextMap, pending, pc, hand, gone, sends, acceptFails,
                   sending, posting, fault>>

-------------------------------------------------------------------------------
Kernel == \E io \in pending :
    AcceptCompletes(io) \/ DataArrives(io) \/ StreamEnds(io) \/ SendEnds(io) \/ Aborted(io)

\* What the code does with the packet in hand, its callbacks' own calls apart.
Handler(w) ==
    \/ emptyAccept(w) \/ doAccept(w) \/ insertContext(w) \/ postAccept(w)
    \/ doRecv(w) \/ postRecv(w) \/ recvFailed(w)
    \/ doSend(w) \/ releaseSend(w) \/ doSendRest(w) \/ sendEmpty(w)
    \/ sendError(w) \/ errorCallbackReturns(w)
    \/ postCloseConnection(w) \/ doCloseConnection(w)
    \/ UseAfterFree(w)

Next ==
    \/ initIOCP
    \/ Kernel
    \/ \E c \in Conns : PeerLeaves(c)
    \/ \E w \in Workers :
          \/ GetQueuedCompletionStatus(w) \/ Handler(w)
          \/ sendChecks(w) \/ sendData(w) \/ postSendReturns(w) \/ callbackCloses(w)

Spec == Init /\ [][Next]_vars

\* Threads are scheduled, some idle worker is woken for a queued packet, and the kernel ends
\* the receives of a peer that left and the operations of a closed socket. Nothing obliges a
\* client to connect, send or leave.
Fairness ==
    /\ WF_vars(initIOCP)
    /\ WF_vars(\E w \in Workers : GetQueuedCompletionStatus(w))
    /\ \A w \in Workers : WF_vars(Handler(w) \/ sendData(w) \/ postSendReturns(w))
    /\ \A c \in Conns : WF_vars(\E io \in pending : io.sc = c /\ (StreamEnds(io) \/ Aborted(io)))

FairSpec == Spec /\ Fairness
-------------------------------------------------------------------------------
(* Properties. *)

Labels == {"idle", "dispatch", "postAccept", "insert", "recvCallback", "sendCallback",
           "errorCallback", "close"}

\* Every variable has its type.
TypeOK ==
    /\ object \in [Conns -> {"none", "arrived", "alive", "freed"}]
    /\ socketContextMap \subseteq Conns
    /\ closeFlag \in [Conns -> BOOLEAN]
    /\ count \in [SocketContexts -> Nat]
    /\ IOCPContextMap \in [SocketContexts -> SUBSET Nat]
    /\ pending \subseteq IOs
    /\ port \in Seq(Packets)
    /\ pc \in [Workers -> Labels]
    /\ hand \in [Workers -> Packets \cup {NoPacket}]
    /\ \A w \in Workers : pc[w] # "idle" => hand[w] \in Packets
    /\ gone \subseteq Conns
    /\ sends \in Nat /\ closes \in Nat /\ acceptFails \in Nat /\ sending \subseteq Workers
    /\ posting \subseteq [by : Workers, io : IOs, taken : BOOLEAN]
    /\ fault \in BOOLEAN

Busy == {w \in Workers : pc[w] # "idle"}

\* The operations that are with the kernel, in the port or in a worker's hands.
InFlight == pending \cup {port[i].io : i \in DOMAIN port} \cup {hand[w].io : w \in Busy}

\* An operation is in one of those places at a time: no OVERLAPPED structure is given to the
\* kernel twice and no two workers handle one, whatever callbacks send, close or have fail.
SoleOwner ==
    /\ \A i, j \in DOMAIN port : port[i].io = port[j].io => i = j
    /\ \A v, w \in Busy : hand[v].io = hand[w].io => v = w
    /\ \A i \in DOMAIN port : port[i].io \notin pending
    /\ \A w \in Busy : hand[w].io \notin pending
    /\ \A i \in DOMAIN port, w \in Busy : port[i].io # hand[w].io

\* However many workers see a connection fail at the same time, it is closed once: at most one
\* close operation exists, and while it does the SocketContext is allocated, flagged and still
\* registered, so doCloseConnection finds what it deletes and nothing is deleted twice.
CloseOnce == \A x \in InFlight : x.operation = "SIG_CLOSE_CONNECTION" =>
    /\ object[x.sc] = "alive" /\ closeFlag[x.sc] /\ x.sc \in socketContextMap
    /\ \A y \in InFlight : y.sc = x.sc /\ y.operation = x.operation => y = x

\* While callbacks neither send nor close, a connection has one operation in flight at most:
\* its receive, so that one worker at most parses its stream, or after that its close.
OneOperation == sends = 0 /\ closes = 0 =>
    \A x, y \in InFlight : x.sc = y.sc /\ x.sc # Listen => x = y

\* Unless the kernel refuses an accept, every standby accept stays in flight: no path through
\* doAccept and the error branches loses one.
StandbyKept == acceptFails = 0 =>
    \A k \in 1 .. count[Listen] : IO(Listen, k, "SIG_ACCEPT") \in InFlight

\* No worker reads a deleted context, as long as callbacks neither send nor close and the
\* kernel refuses no accept: a server whose callbacks only read what they are given.
FaultHasCause == fault => sends > 0 \/ closes > 0 \/ acceptFails > 0

\* With one worker, a registered connection is attended: its receive is in flight, or its
\* close has been asked for.
Attended == \A c \in socketContextMap : closeFlag[c] \/ IO(c, 1, "SIG_RECV") \in InFlight

\* Each accept is posted again and again, whatever clients do: the server stays reachable.
AcceptsAgain == \A k \in 1 .. maxStandbySocket : []<>(IO(Listen, k, "SIG_ACCEPT") \in pending)

\* The SocketContext of a client that left is eventually deleted and its socket closed.
\* server.cpp keeps every valid client in socketContextMap for this ("managed in one place,
\* so that resources can be released", step 4 of doAccept).
LeaversReleased == \A c \in Conns : c \in gone ~> object[c] = "freed"

\* When an accept cannot be posted again its context is the one released: an accept context is
\* owned exactly while its accept is in flight ("post accept failed, release IOCPContext").
FailedAcceptReleased == \A k \in 1 .. count[Listen] :
    k \in IOCPContextMap[Listen] <=> IO(Listen, k, "SIG_ACCEPT") \in InFlight

stage == [c \in Conns |->
    IF object[c] = "none" THEN "none"
    ELSE IF object[c] = "freed" THEN "released"
    ELSE IF c \notin socketContextMap THEN "open"
    ELSE IF closeFlag[c] THEN "closing" ELSE "registered"]

Life == INSTANCE ConnectionLife

\* Every connection goes through the stages of ConnectionLife in order.
ImplementsLife == Life!Spec
===============================================================================
