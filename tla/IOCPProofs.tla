------------------------------ MODULE IOCPProofs ------------------------------
(***************************************************************************)
(* The ownership argument for IOCPModule, for every set of workers, every  *)
(* set of connections and every bound. An operation is with the kernel, in *)
(* the port or in the hands of one worker; a step moves one operation,     *)
(* creates one or drops one. The first part states what those moves do to  *)
(* the places, without the state machine; the second part applies it. The  *)
(* third part sorts the steps by what they do to the operations in flight  *)
(* (Shaped), which is all that the last two parts need to know of them:    *)
(* servers whose callbacks neither send nor close (SilentInv), and servers *)
(* with one worker (Watched).                                              *)
(***************************************************************************)
EXTENDS IOCPModule, SequenceTheorems, TLAPS

\* Operation x is in one of the places: kernel pe, port po, hands ha at labels lab.
InPlace(x, pe, po, lab, ha) ==
    \/ x \in pe
    \/ \E i \in 1 .. Len(po) : po[i].io = x
    \/ \E w \in Workers : lab[w] # "idle" /\ ha[w].io = x

\* No operation is in two places.
Sole(pe, po, lab, ha) ==
    /\ \A i, j \in 1 .. Len(po) : po[i].io = po[j].io => i = j
    /\ \A v, w \in Workers : lab[v] # "idle" /\ lab[w] # "idle" /\ ha[v].io = ha[w].io => v = w
    /\ \A i \in 1 .. Len(po) : po[i].io \notin pe
    /\ \A w \in Workers : lab[w] # "idle" => ha[w].io \notin pe
    /\ \A i \in 1 .. Len(po), w \in Workers : lab[w] # "idle" => po[i].io # ha[w].io

-------------------------------------------------------------------------------
(* Sequences: what Append and Tail do to the positions. *)

LEMMA AppendAt ==
  ASSUME NEW S, NEW q \in Seq(S), NEW e \in S
  PROVE  /\ Append(q, e) \in Seq(S)
         /\ Len(Append(q, e)) = Len(q) + 1 /\ Len(q) \in Nat
         /\ \A i \in 1 .. Len(q) + 1 : Append(q, e)[i] = IF i = Len(q) + 1 THEN e ELSE q[i]
  BY AppendProperties, LenProperties

LEMMA TailAt ==
  ASSUME NEW S, NEW q \in Seq(S), q # << >>
  PROVE  /\ Head(q) = q[1] /\ Head(q) \in S /\ Tail(q) \in Seq(S)
         /\ Len(Tail(q)) = Len(q) - 1 /\ Len(q) \in Nat /\ Len(q) >= 1
         /\ \A i \in 1 .. Len(q) - 1 : Tail(q)[i] = q[i + 1]
  <1>1. Len(q) \in Nat /\ Len(q) >= 1
    BY LenProperties, EmptySeq
  <1>2. Head(q) = q[1]
    OBVIOUS
  <1> QED BY <1>1, <1>2, HeadTailProperties

-------------------------------------------------------------------------------
(* The moves. *)

\* The kernel finishes an operation.
LEMMA MoveComplete ==
  ASSUME NEW pe, NEW po \in Seq(Packets), NEW lab, NEW ha, NEW io \in pe,
         NEW p \in Packets, p.io = io, Sole(pe, po, lab, ha)
  PROVE  /\ Sole(pe \ {io}, Append(po, p), lab, ha)
         /\ \A x : InPlace(x, pe \ {io}, Append(po, p), lab, ha) <=> InPlace(x, pe, po, lab, ha)
  <1> DEFINE n == Len(po)
             q == Append(po, p)
  <1>1. /\ Len(q) = n + 1 /\ n \in Nat
        /\ \A i \in 1 .. n + 1 : q[i] = IF i = n + 1 THEN p ELSE po[i]
    BY AppendAt
  <1> HIDE DEF n, q
  <1>2. \A i \in 1 .. n : i \in 1 .. n + 1 /\ q[i] = po[i]
    BY <1>1
  <1>3. n + 1 \in 1 .. n + 1 /\ q[n + 1] = p
    BY <1>1
  <1>4. \A i \in 1 .. n + 1 : i \in 1 .. n \/ i = n + 1
    BY <1>1
  <1>5. Sole(pe \ {io}, q, lab, ha)
    BY <1>1, <1>2, <1>3, <1>4 DEF Sole, n
  <1>6. ASSUME NEW x PROVE InPlace(x, pe \ {io}, q, lab, ha) <=> InPlace(x, pe, po, lab, ha)
    BY <1>1, <1>2, <1>3, <1>4 DEF InPlace, n
  <1> QED BY <1>5, <1>6 DEF q

\* A worker takes the first packet of the port.
LEMMA MoveTake ==
  ASSUME NEW pe, NEW po \in Seq(Packets), po # << >>,
         NEW lab \in [Workers -> Labels], NEW ha \in [Workers -> Packets \cup {NoPacket}],
         NEW w \in Workers, lab[w] = "idle", Sole(pe, po, lab, ha),
         NEW l2, l2 = [lab EXCEPT ![w] = "dispatch"], NEW h2, h2 = [ha EXCEPT ![w] = Head(po)]
  PROVE  /\ Sole(pe, Tail(po), l2, h2)
         /\ \A x : InPlace(x, pe, Tail(po), l2, h2) <=> InPlace(x, pe, po, lab, ha)
  <1> DEFINE n == Len(po)
             q == Tail(po)
  <1>1. /\ Head(po) = po[1] /\ Len(q) = n - 1 /\ n \in Nat /\ n >= 1
        /\ \A i \in 1 .. n - 1 : q[i] = po[i + 1]
    BY TailAt
  <1> HIDE DEF n, q
  <1>2. /\ \A v \in Workers : l2[v] = IF v = w THEN "dispatch" ELSE lab[v]
        /\ \A v \in Workers : h2[v] = IF v = w THEN po[1] ELSE ha[v]
    BY <1>1
  <1>3. /\ \A i \in 1 .. n - 1 : i + 1 \in 1 .. n /\ i + 1 # 1 /\ q[i] = po[i + 1]
        /\ 1 \in 1 .. n
    BY <1>1
  <1>4. \A i \in 1 .. n : i = 1 \/ \E j \in 1 .. n - 1 : i = j + 1
    <2>1. \A i \in 1 .. n : i = 1 \/ (i - 1 \in 1 .. n - 1 /\ i = (i - 1) + 1)
      BY <1>1
    <2> QED BY <2>1
  <1>5. \A i, j \in 1 .. n - 1 : i + 1 = j + 1 => i = j
    BY <1>1
  <1>6. Sole(pe, q, l2, h2)
    <2>1. \A i, j \in 1 .. n - 1 : q[i].io = q[j].io => i = j
      BY <1>3, <1>5 DEF Sole, n
    <2>2. \A v, u \in Workers : l2[v] # "idle" /\ l2[u] # "idle" /\ h2[v].io = h2[u].io => v = u
      BY <1>2, <1>3 DEF Sole, n
    <2>3. \A i \in 1 .. n - 1 : q[i].io \notin pe
      BY <1>3 DEF Sole, n
    <2>4. \A v \in Workers : l2[v] # "idle" => h2[v].io \notin pe
      BY <1>2, <1>3 DEF Sole, n
    <2>5. \A i \in 1 .. n - 1, v \in Workers : l2[v] # "idle" => q[i].io # h2[v].io
      BY <1>2, <1>3 DEF Sole, n
    <2> QED BY <1>1, <2>1, <2>2, <2>3, <2>4, <2>5 DEF Sole
  <1>7. ASSUME NEW x, InPlace(x, pe, q, l2, h2) PROVE InPlace(x, pe, po, lab, ha)
    <2>1. CASE \E i \in 1 .. n - 1 : q[i].io = x
      BY <2>1, <1>3 DEF InPlace, n
    <2>2. CASE \E v \in Workers : l2[v] # "idle" /\ h2[v].io = x
      BY <2>2, <1>2, <1>3 DEF InPlace, n
    <2> QED BY <1>1, <1>7, <2>1, <2>2 DEF InPlace
  <1>8. ASSUME NEW x, InPlace(x, pe, po, lab, ha) PROVE InPlace(x, pe, q, l2, h2)
    <2>1. CASE \E i \in 1 .. n : po[i].io = x
      <3>1. PICK i \in 1 .. n : po[i].io = x
        BY <2>1
      <3>2. CASE i = 1
        <4>1. l2[w] # "idle" /\ h2[w].io = x
          BY <1>2, <3>1, <3>2
        <4> QED BY <4>1 DEF InPlace
      <3>3. CASE \E j \in 1 .. n - 1 : i = j + 1
        BY <1>1, <1>3, <3>1, <3>3 DEF InPlace
      <3> QED BY <1>4, <3>2, <3>3
    <2>2. CASE \E v \in Workers : lab[v] # "idle" /\ ha[v].io = x
      BY <2>2, <1>2 DEF InPlace
    <2> QED BY <1>8, <2>1, <2>2 DEF InPlace, n
  <1> QED BY <1>6, <1>7, <1>8 DEF q

\* A worker gives its operation back to the kernel.
LEMMA MoveRepost ==
  ASSUME NEW pe, NEW po, NEW lab \in [Workers -> Labels],
         NEW ha \in [Workers -> Packets \cup {NoPacket}],
         NEW w \in Workers, lab[w] # "idle", Sole(pe, po, lab, ha),
         NEW l2, l2 = [lab EXCEPT ![w] = "idle"], NEW h2, h2 = [ha EXCEPT ![w] = NoPacket]
  PROVE  /\ Sole(pe \cup {ha[w].io}, po, l2, h2)
         /\ \A x : InPlace(x, pe \cup {ha[w].io}, po, l2, h2) <=> InPlace(x, pe, po, lab, ha)
  <1>1. /\ \A v \in Workers : l2[v] = IF v = w THEN "idle" ELSE lab[v]
        /\ \A v \in Workers : v # w => h2[v] = ha[v]
    OBVIOUS
  <1>2. Sole(pe \cup {ha[w].io}, po, l2, h2)
    BY <1>1 DEF Sole
  <1>3. ASSUME NEW x
        PROVE  InPlace(x, pe \cup {ha[w].io}, po, l2, h2) <=> InPlace(x, pe, po, lab, ha)
    BY <1>1 DEF InPlace
  <1> QED BY <1>2, <1>3

\* A worker is done with its operation and keeps it nowhere.
LEMMA MoveDrop ==
  ASSUME NEW pe, NEW po, NEW lab \in [Workers -> Labels],
         NEW ha \in [Workers -> Packets \cup {NoPacket}],
         NEW w \in Workers, lab[w] # "idle", Sole(pe, po, lab, ha),
         NEW l2, l2 = [lab EXCEPT ![w] = "idle"], NEW h2, h2 = [ha EXCEPT ![w] = NoPacket]
  PROVE  /\ Sole(pe, po, l2, h2)
         /\ \A x : InPlace(x, pe, po, l2, h2) <=> InPlace(x, pe, po, lab, ha) /\ x # ha[w].io
  <1>1. /\ \A v \in Workers : l2[v] = IF v = w THEN "idle" ELSE lab[v]
        /\ \A v \in Workers : v # w => h2[v] = ha[v]
    OBVIOUS
  <1>2. Sole(pe, po, l2, h2)
    BY <1>1 DEF Sole
  <1>3. ASSUME NEW x
        PROVE  InPlace(x, pe, po, l2, h2) <=> InPlace(x, pe, po, lab, ha) /\ x # ha[w].io
    BY <1>1 DEF InPlace, Sole
  <1> QED BY <1>2, <1>3

\* A worker goes on with the operation it has.
LEMMA MoveGoto ==
  ASSUME NEW pe, NEW po, NEW lab \in [Workers -> Labels], NEW ha,
         NEW w \in Workers, lab[w] # "idle", Sole(pe, po, lab, ha),
         NEW l \in Labels, l # "idle", NEW l2, l2 = [lab EXCEPT ![w] = l]
  PROVE  /\ Sole(pe, po, l2, ha)
         /\ \A x : InPlace(x, pe, po, l2, ha) <=> InPlace(x, pe, po, lab, ha)
  <1>1. \A v \in Workers : l2[v] = "idle" <=> lab[v] = "idle"
    OBVIOUS
  <1> QED BY <1>1 DEF Sole, InPlace

\* A new operation is given to the kernel.
LEMMA MovePost ==
  ASSUME NEW pe, NEW po, NEW lab, NEW ha, NEW io,
         ~InPlace(io, pe, po, lab, ha), Sole(pe, po, lab, ha)
  PROVE  /\ Sole(pe \cup {io}, po, lab, ha)
         /\ \A x : InPlace(x, pe \cup {io}, po, lab, ha) <=> InPlace(x, pe, po, lab, ha) \/ x = io
  BY DEF Sole, InPlace

\* A new packet is put into the port.
LEMMA MoveQueue ==
  ASSUME NEW pe, NEW po \in Seq(Packets), NEW lab, NEW ha, NEW p \in Packets,
         ~InPlace(p.io, pe, po, lab, ha), Sole(pe, po, lab, ha)
  PROVE  /\ Sole(pe, Append(po, p), lab, ha)
         /\ \A x : InPlace(x, pe, Append(po, p), lab, ha)
                     <=> InPlace(x, pe, po, lab, ha) \/ x = p.io
  <1> DEFINE n == Len(po)
             q == Append(po, p)
  <1>1. /\ Len(q) = n + 1 /\ n \in Nat
        /\ \A i \in 1 .. n + 1 : q[i] = IF i = n + 1 THEN p ELSE po[i]
    BY AppendAt
  <1> HIDE DEF n, q
  <1>2. \A i \in 1 .. n : i \in 1 .. n + 1 /\ q[i] = po[i]
    BY <1>1
  <1>3. n + 1 \in 1 .. n + 1 /\ q[n + 1] = p
    BY <1>1
  <1>4. \A i \in 1 .. n + 1 : i \in 1 .. n \/ i = n + 1
    BY <1>1
  <1>5. Sole(pe, q, lab, ha)
    BY <1>1, <1>2, <1>3, <1>4 DEF Sole, InPlace, n
  <1>6. ASSUME NEW x PROVE InPlace(x, pe, q, lab, ha) <=> InPlace(x, pe, po, lab, ha) \/ x = p.io
    BY <1>1, <1>2, <1>3, <1>4 DEF InPlace, n
  <1> QED BY <1>5, <1>6 DEF q

-------------------------------------------------------------------------------
(* The inductive invariant, over the values of the variables it constrains, so that a step    *)
(* that does two things (post a close, then forget the packet) can be proved as two changes.   *)

CLOSE == "SIG_CLOSE_CONNECTION"

CoreType(ob, mp, fl, ct, pe, po, lab, ha) ==
    /\ ob \in [Conns -> {"none", "arrived", "alive", "freed"}]
    /\ mp \subseteq Conns
    /\ fl \in [Conns -> BOOLEAN]
    /\ ct \in [SocketContexts -> Nat]
    /\ pe \subseteq IOs
    /\ po \in Seq(Packets)
    /\ lab \in [Workers -> Labels]
    /\ ha \in [Workers -> Packets \cup {NoPacket}]
    /\ \A w \in Workers : lab[w] # "idle" => ha[w] \in Packets

\* Accepts belong to the listening socket, keys have been given out, and a close in flight
\* belongs to a registered, flagged, allocated connection.
OperationOK(x, ob, mp, fl, ct) ==
    /\ x.operation = "SIG_ACCEPT" <=> x.sc = Listen
    /\ x.key \in 1 .. ct[x.sc]
    /\ x.operation = CLOSE => ob[x.sc] = "alive" /\ fl[x.sc] = TRUE /\ x.sc \in mp

FlightOK(ob, mp, fl, ct, pe, po, lab, ha) ==
    \A x : InPlace(x, pe, po, lab, ha) => OperationOK(x, ob, mp, fl, ct)

CloseUnique(pe, po, lab, ha) ==
    \A x, y : /\ InPlace(x, pe, po, lab, ha) /\ InPlace(y, pe, po, lab, ha)
              /\ x.operation = CLOSE /\ y.operation = CLOSE /\ x.sc = y.sc
              => x = y

PendingOK(pe) == \A x \in pe : x.operation # CLOSE

\* Exactly the accepts that brought bytes name a client.
PeerIff(p) == p.peer \in Conns <=> p.io.operation = "SIG_ACCEPT" /\ p.result = "data"

\* What a worker at label l has in hand.
LabelOK(l, p) ==
    /\ l = "insert" => p.io.operation = "SIG_ACCEPT" /\ p.peer \in Conns
    /\ l = "postAccept" => p.io.operation = "SIG_ACCEPT"
    /\ l = "recvCallback" => p.io.operation = "SIG_RECV"
    /\ l \in {"sendCallback", "errorCallback"} => p.io.operation = "SIG_SEND"
    /\ l = "close" => p.io.operation \in {"SIG_RECV", "SIG_SEND"}

PacketsOK(po, lab, ha) ==
    /\ \A i \in 1 .. Len(po) : PeerIff(po[i])
    /\ \A w \in Workers : lab[w] # "idle" => PeerIff(ha[w]) /\ LabelOK(lab[w], ha[w])

\* A client that no worker has seen yet is named by one packet.
PeersOK(ob, po, lab, ha) ==
    /\ \A i \in 1 .. Len(po) : po[i].peer \in Conns => ob[po[i].peer] = "arrived"
    /\ \A w \in Workers : lab[w] = "dispatch" /\ ha[w].peer \in Conns => ob[ha[w].peer] = "arrived"
    /\ \A i, j \in 1 .. Len(po) : po[i].peer \in Conns /\ po[i].peer = po[j].peer => i = j
    /\ \A v, w \in Workers : (/\ lab[v] = "dispatch" /\ lab[w] = "dispatch"
                              /\ ha[v].peer \in Conns /\ ha[v].peer = ha[w].peer) => v = w
    /\ \A i \in 1 .. Len(po), w \in Workers :
          lab[w] = "dispatch" /\ po[i].peer \in Conns => po[i].peer # ha[w].peer

RegisteredOK(ob, mp, fl, ct) == \A c \in Conns :
    /\ c \in mp => ob[c] = "alive"
    /\ fl[c] = TRUE => c \in mp \/ ob[c] = "freed"
    /\ ob[c] \in {"none", "arrived"} => ct[c] = 0

Core(ob, mp, fl, ct, pe, po, lab, ha) ==
    /\ CoreType(ob, mp, fl, ct, pe, po, lab, ha)
    /\ Sole(pe, po, lab, ha)
    /\ FlightOK(ob, mp, fl, ct, pe, po, lab, ha)
    /\ CloseUnique(pe, po, lab, ha)
    /\ PendingOK(pe)
    /\ PacketsOK(po, lab, ha)
    /\ PeersOK(ob, po, lab, ha)
    /\ RegisteredOK(ob, mp, fl, ct)

\* Leaving the label "dispatch" cannot break PeersOK.
LEMMA PeersShrink ==
  ASSUME NEW ob, NEW po, NEW lab, NEW ha, NEW l2, NEW h2, PeersOK(ob, po, lab, ha),
         \A v \in Workers : l2[v] = "dispatch" => lab[v] = "dispatch" /\ h2[v] = ha[v]
  PROVE  PeersOK(ob, po, l2, h2)
  <1>1. \A v \in Workers : l2[v] = "dispatch" /\ h2[v].peer \in Conns => ob[h2[v].peer] = "arrived"
    BY DEF PeersOK
  <1>2. \A u, v \in Workers : (/\ l2[u] = "dispatch" /\ l2[v] = "dispatch"
                              /\ h2[u].peer \in Conns /\ h2[u].peer = h2[v].peer) => u = v
    BY DEF PeersOK
  <1>3. \A i \in 1 .. Len(po), v \in Workers :
          l2[v] = "dispatch" /\ po[i].peer \in Conns => po[i].peer # h2[v].peer
    BY DEF PeersOK
  <1> QED BY <1>1, <1>2, <1>3 DEF PeersOK

LEMMA CoreGoto ==
  ASSUME NEW ob, NEW mp, NEW fl, NEW ct, NEW pe, NEW po, NEW lab, NEW ha,
         Core(ob, mp, fl, ct, pe, po, lab, ha), NEW w \in Workers, lab[w] # "idle",
         NEW l \in Labels \ {"idle", "dispatch"}, LabelOK(l, ha[w]),
         NEW l2, l2 = [lab EXCEPT ![w] = l]
  PROVE  Core(ob, mp, fl, ct, pe, po, l2, ha)
  <1>1. CoreType(ob, mp, fl, ct, pe, po, lab, ha)
    BY DEF Core
  <1>2. /\ Sole(pe, po, l2, ha)
        /\ \A x : InPlace(x, pe, po, l2, ha) <=> InPlace(x, pe, po, lab, ha)
    BY <1>1, MoveGoto DEF Core, CoreType
  <1>3. \A v \in Workers : l2[v] = IF v = w THEN l ELSE lab[v]
    BY <1>1 DEF CoreType
  <1>4. CoreType(ob, mp, fl, ct, pe, po, l2, ha)
    BY <1>1, <1>3 DEF CoreType
  <1>5. FlightOK(ob, mp, fl, ct, pe, po, l2, ha)
    BY <1>2 DEF Core, FlightOK
  <1>6. CloseUnique(pe, po, l2, ha)
    BY <1>2 DEF Core, CloseUnique
  <1>7. PacketsOK(po, l2, ha)
    BY <1>3 DEF Core, PacketsOK
  <1>8. PeersOK(ob, po, l2, ha)
    <2>1. \A v \in Workers : l2[v] = "dispatch" => lab[v] = "dispatch" /\ ha[v] = ha[v]
      BY <1>3
    <2>2. PeersOK(ob, po, lab, ha)
      BY DEF Core
    <2> QED BY ONLY <2>1, <2>2, PeersShrink
  <1> QED BY <1>2, <1>4, <1>5, <1>6, <1>7, <1>8 DEF Core

LEMMA CoreDone ==
  ASSUME NEW ob, NEW mp, NEW fl, NEW ct, NEW pe, NEW po, NEW lab, NEW ha,
         Core(ob, mp, fl, ct, pe, po, lab, ha), NEW w \in Workers, lab[w] # "idle",
         NEW l2, l2 = [lab EXCEPT ![w] = "idle"], NEW h2, h2 = [ha EXCEPT ![w] = NoPacket]
  PROVE  Core(ob, mp, fl, ct, pe, po, l2, h2)
  <1>1. CoreType(ob, mp, fl, ct, pe, po, lab, ha)
    BY DEF Core
  <1>2. /\ Sole(pe, po, l2, h2)
        /\ \A x : InPlace(x, pe, po, l2, h2) => InPlace(x, pe, po, lab, ha)
    BY <1>1, MoveDrop DEF Core, CoreType
  <1>3. /\ \A v \in Workers : l2[v] = IF v = w THEN "idle" ELSE lab[v]
        /\ \A v \in Workers : h2[v] = IF v = w THEN NoPacket ELSE ha[v]
    BY <1>1 DEF CoreType
  <1>4. CoreType(ob, mp, fl, ct, pe, po, l2, h2)
    BY <1>1, <1>3 DEF CoreType, Labels
  <1>5. FlightOK(ob, mp, fl, ct, pe, po, l2, h2)
    BY <1>2 DEF Core, FlightOK
  <1>6. CloseUnique(pe, po, l2, h2)
    BY <1>2 DEF Core, CloseUnique
  <1>7. PacketsOK(po, l2, h2)
    BY <1>3 DEF Core, PacketsOK
  <1>8. PeersOK(ob, po, l2, h2)
    <2>1. \A v \in Workers : l2[v] = "dispatch" => lab[v] = "dispatch" /\ h2[v] = ha[v]
      BY <1>3
    <2>2. PeersOK(ob, po, lab, ha)
      BY DEF Core
    <2> QED BY ONLY <2>1, <2>2, PeersShrink
  <1> QED BY <1>2, <1>4, <1>5, <1>6, <1>7, <1>8 DEF Core

LEMMA CoreRepost ==
  ASSUME NEW ob, NEW mp, NEW fl, NEW ct, NEW pe, NEW po, NEW lab, NEW ha,
         Core(ob, mp, fl, ct, pe, po, lab, ha), NEW w \in Workers, lab[w] # "idle",
         ha[w].io.operation # CLOSE,
         NEW l2, l2 = [lab EXCEPT ![w] = "idle"], NEW h2, h2 = [ha EXCEPT ![w] = NoPacket]
  PROVE  Core(ob, mp, fl, ct, pe \cup {ha[w].io}, po, l2, h2)
  <1> DEFINE p2 == pe \cup {ha[w].io}
  <1>1. CoreType(ob, mp, fl, ct, pe, po, lab, ha)
    BY DEF Core
  <1>2. /\ Sole(p2, po, l2, h2)
        /\ \A x : InPlace(x, p2, po, l2, h2) => InPlace(x, pe, po, lab, ha)
    BY <1>1, MoveRepost DEF Core, CoreType
  <1>3. /\ \A v \in Workers : l2[v] = IF v = w THEN "idle" ELSE lab[v]
        /\ \A v \in Workers : h2[v] = IF v = w THEN NoPacket ELSE ha[v]
    BY <1>1 DEF CoreType
  <1>4. ha[w].io \in IOs
    BY <1>1 DEF CoreType, Packets
  <1>5. CoreType(ob, mp, fl, ct, p2, po, l2, h2)
    BY <1>1, <1>3, <1>4 DEF CoreType, Labels
  <1>6. PendingOK(p2)
    BY DEF Core, PendingOK
  <1> HIDE DEF p2
  <1>7. FlightOK(ob, mp, fl, ct, p2, po, l2, h2)
    BY <1>2 DEF Core, FlightOK
  <1>8. CloseUnique(p2, po, l2, h2)
    BY <1>2 DEF Core, CloseUnique
  <1>9. PacketsOK(po, l2, h2)
    BY <1>3 DEF Core, PacketsOK
  <1>10. PeersOK(ob, po, l2, h2)
    <2>1. \A v \in Workers : l2[v] = "dispatch" => lab[v] = "dispatch" /\ h2[v] = ha[v]
      BY <1>3
    <2>2. PeersOK(ob, po, lab, ha)
      BY DEF Core
    <2> QED BY ONLY <2>1, <2>2, PeersShrink
  <1>11. Core(ob, mp, fl, ct, p2, po, l2, h2)
    BY <1>2, <1>5, <1>6, <1>7, <1>8, <1>9, <1>10 DEF Core
  <1> QED BY <1>11 DEF p2

LEMMA CoreTake ==
  ASSUME NEW ob, NEW mp, NEW fl, NEW ct, NEW pe, NEW po, NEW lab, NEW ha,
         Core(ob, mp, fl, ct, pe, po, lab, ha), NEW w \in Workers, lab[w] = "idle", po # << >>,
         NEW l2, l2 = [lab EXCEPT ![w] = "dispatch"], NEW h2, h2 = [ha EXCEPT ![w] = Head(po)]
  PROVE  Core(ob, mp, fl, ct, pe, Tail(po), l2, h2)
  <1> DEFINE n == Len(po)
             q == Tail(po)
  <1>1. CoreType(ob, mp, fl, ct, pe, po, lab, ha)
    BY DEF Core
  <1>2. /\ Sole(pe, q, l2, h2)
        /\ \A x : InPlace(x, pe, q, l2, h2) <=> InPlace(x, pe, po, lab, ha)
    BY <1>1, MoveTake DEF Core, CoreType
  <1>3. /\ Head(po) = po[1] /\ po[1] \in Packets /\ q \in Seq(Packets)
        /\ Len(q) = n - 1 /\ n \in Nat /\ n >= 1
        /\ \A i \in 1 .. n - 1 : q[i] = po[i + 1]
    BY <1>1, TailAt DEF CoreType
  <1> HIDE DEF n, q
  <1>4. /\ \A v \in Workers : l2[v] = IF v = w THEN "dispatch" ELSE lab[v]
        /\ \A v \in Workers : h2[v] = IF v = w THEN po[1] ELSE ha[v]
    BY <1>1, <1>3 DEF CoreType
  <1>5. /\ \A i \in 1 .. n - 1 : i + 1 \in 1 .. n /\ i + 1 # 1 /\ q[i] = po[i + 1]
        /\ 1 \in 1 .. n
        /\ \A i, j \in 1 .. n - 1 : i + 1 = j + 1 => i = j
    BY <1>3
  <1>6. CoreType(ob, mp, fl, ct, pe, q, l2, h2)
    BY <1>1, <1>3, <1>4 DEF CoreType, Labels
  <1>7. FlightOK(ob, mp, fl, ct, pe, q, l2, h2)
    BY <1>2 DEF Core, FlightOK
  <1>8. CloseUnique(pe, q, l2, h2)
    BY <1>2 DEF Core, CloseUnique
  <1>9. PacketsOK(q, l2, h2)
    <2>1. \A i \in 1 .. n : PeerIff(po[i])
      BY DEF Core, PacketsOK, n
    <2>2. \A i \in 1 .. Len(q) : PeerIff(q[i])
      BY <1>3, <1>5, <2>1
    <2>3. LabelOK("dispatch", po[1])
      BY DEF LabelOK
    <2>4. \A v \in Workers : l2[v] # "idle" => PeerIff(h2[v]) /\ LabelOK(l2[v], h2[v])
      BY <1>4, <1>5, <2>1, <2>3 DEF Core, PacketsOK
    <2> QED BY <2>2, <2>4 DEF PacketsOK
  <1>10. PeersOK(ob, q, l2, h2)
    <2>0. PeersOK(ob, po, lab, ha)
      BY DEF Core
    <2>1. \A i \in 1 .. n - 1 : q[i].peer \in Conns => ob[q[i].peer] = "arrived"
      BY <1>5, <2>0 DEF PeersOK, n
    <2>2. \A v \in Workers : l2[v] = "dispatch" /\ h2[v].peer \in Conns => ob[h2[v].peer] = "arrived"
      BY <1>4, <1>5, <2>0 DEF PeersOK, n
    <2>3. \A i, j \in 1 .. n - 1 : q[i].peer \in Conns /\ q[i].peer = q[j].peer => i = j
      BY <1>5, <2>0 DEF PeersOK, n
    <2>4. \A u, v \in Workers : (/\ l2[u] = "dispatch" /\ l2[v] = "dispatch"
                                /\ h2[u].peer \in Conns /\ h2[u].peer = h2[v].peer) => u = v
      BY <1>4, <1>5, <2>0 DEF PeersOK, n
    <2>5. \A i \in 1 .. n - 1, v \in Workers :
            l2[v] = "dispatch" /\ q[i].peer \in Conns => q[i].peer # h2[v].peer
      BY <1>4, <1>5, <2>0 DEF PeersOK, n
    <2> QED BY <1>3, <2>1, <2>2, <2>3, <2>4, <2>5 DEF PeersOK
  <1>11. Core(ob, mp, fl, ct, pe, q, l2, h2)
    BY <1>2, <1>6, <1>7, <1>8, <1>9, <1>10 DEF Core
  <1> QED BY <1>11 DEF q

\* A packet without a new client joins the port.
LEMMA PortGrows ==
  ASSUME NEW ob, NEW po \in Seq(Packets), NEW lab, NEW ha, NEW p \in Packets,
         p.peer \notin Conns, PeerIff(p), PacketsOK(po, lab, ha), PeersOK(ob, po, lab, ha)
  PROVE  PacketsOK(Append(po, p), lab, ha) /\ PeersOK(ob, Append(po, p), lab, ha)
  <1> DEFINE n == Len(po)
             q == Append(po, p)
  <1>1. /\ Len(q) = n + 1 /\ n \in Nat
        /\ \A i \in 1 .. n + 1 : q[i] = IF i = n + 1 THEN p ELSE po[i]
    BY AppendAt
  <1> HIDE DEF n, q
  <1>2. \A i \in 1 .. n + 1 : (i \in 1 .. n /\ q[i] = po[i]) \/ (i = n + 1 /\ q[i] = p)
    BY <1>1
  <1>3. PacketsOK(q, lab, ha)
    BY <1>1, <1>2 DEF PacketsOK, n
  <1>4. \A i \in 1 .. n + 1 : q[i].peer \in Conns => i \in 1 .. n /\ q[i] = po[i]
    BY <1>2
  <1>5. PeersOK(ob, q, lab, ha)
    <2>1. \A i \in 1 .. n + 1 : q[i].peer \in Conns => ob[q[i].peer] = "arrived"
      BY <1>4 DEF PeersOK, n
    <2>2. \A i, j \in 1 .. n + 1 : q[i].peer \in Conns /\ q[i].peer = q[j].peer => i = j
      <3> SUFFICES ASSUME NEW i \in 1 .. n + 1, NEW j \in 1 .. n + 1,
                          q[i].peer \in Conns, q[i].peer = q[j].peer
                   PROVE  i = j
        OBVIOUS
      <3>1. i \in 1 .. n /\ j \in 1 .. n /\ q[i] = po[i] /\ q[j] = po[j]
        BY <1>4
      <3> QED BY <3>1 DEF PeersOK, n
    <2>3. \A i \in 1 .. n + 1, w \in Workers :
            lab[w] = "dispatch" /\ q[i].peer \in Conns => q[i].peer # ha[w].peer
      BY <1>4 DEF PeersOK, n
    <2> QED BY <1>1, <2>1, <2>2, <2>3 DEF PeersOK
  <1> QED BY <1>3, <1>5 DEF q

LEMMA CoreComplete ==
  ASSUME NEW ob, NEW mp, NEW fl, NEW ct, NEW pe, NEW po, NEW lab, NEW ha,
         Core(ob, mp, fl, ct, pe, po, lab, ha), NEW io \in pe,
         NEW p \in Packets, p.io = io, p.peer \notin Conns, PeerIff(p)
  PROVE  Core(ob, mp, fl, ct, pe \ {io}, Append(po, p), lab, ha)
  <1> DEFINE q == Append(po, p)
             p2 == pe \ {io}
  <1>1. CoreType(ob, mp, fl, ct, pe, po, lab, ha)
    BY DEF Core
  <1>2. /\ Sole(p2, q, lab, ha)
        /\ \A x : InPlace(x, p2, q, lab, ha) <=> InPlace(x, pe, po, lab, ha)
    BY <1>1, MoveComplete DEF Core, CoreType
  <1>3. CoreType(ob, mp, fl, ct, p2, q, lab, ha)
    BY <1>1, AppendAt DEF CoreType
  <1>4. PendingOK(p2)
    BY DEF Core, PendingOK
  <1>5. PacketsOK(q, lab, ha) /\ PeersOK(ob, q, lab, ha)
    BY <1>1, PortGrows DEF Core, CoreType
  <1> HIDE DEF q, p2
  <1>6. FlightOK(ob, mp, fl, ct, p2, q, lab, ha)
    BY <1>2 DEF Core, FlightOK
  <1>7. CloseUnique(p2, q, lab, ha)
    BY <1>2 DEF Core, CloseUnique
  <1>8. Core(ob, mp, fl, ct, p2, q, lab, ha)
    BY <1>2, <1>3, <1>4, <1>5, <1>6, <1>7 DEF Core
  <1> QED BY <1>8 DEF p2, q

\* A client connects and sends: the accept's packet is the only one to name it.
LEMMA CoreArrive ==
  ASSUME NEW ob, NEW mp, NEW fl, NEW ct, NEW pe, NEW po, NEW lab, NEW ha,
         Core(ob, mp, fl, ct, pe, po, lab, ha), NEW io \in pe, io.operation = "SIG_ACCEPT",
         NEW c \in Conns, ob[c] = "none", NEW o2, o2 = [ob EXCEPT ![c] = "arrived"],
         NEW p \in Packets, p.io = io, p.peer = c, p.result = "data"
  PROVE  Core(o2, mp, fl, ct, pe \ {io}, Append(po, p), lab, ha)
  <1> DEFINE n == Len(po)
             q == Append(po, p)
             p2 == pe \ {io}
  <1>1. CoreType(ob, mp, fl, ct, pe, po, lab, ha)
    BY DEF Core
  <1>2. /\ Sole(p2, q, lab, ha)
        /\ \A x : InPlace(x, p2, q, lab, ha) <=> InPlace(x, pe, po, lab, ha)
    BY <1>1, MoveComplete DEF Core, CoreType
  <1>3. \A d \in Conns : o2[d] = IF d = c THEN "arrived" ELSE ob[d]
    BY <1>1 DEF CoreType
  <1>4. CoreType(o2, mp, fl, ct, p2, q, lab, ha)
    BY <1>1, AppendAt DEF CoreType
  <1>5. /\ Len(q) = n + 1 /\ n \in Nat
        /\ \A i \in 1 .. n + 1 : q[i] = IF i = n + 1 THEN p ELSE po[i]
    BY <1>1, AppendAt DEF CoreType
  <1>6. PendingOK(p2)
    BY DEF Core, PendingOK
  <1> HIDE DEF n, q, p2
  <1>7. \A i \in 1 .. n + 1 : (i \in 1 .. n /\ q[i] = po[i]) \/ (i = n + 1 /\ q[i] = p)
    BY <1>5
  <1>8. FlightOK(o2, mp, fl, ct, p2, q, lab, ha)
    <2>1. ASSUME NEW x, OperationOK(x, ob, mp, fl, ct)
          PROVE  OperationOK(x, o2, mp, fl, ct)
      BY <1>1, <1>3, <2>1 DEF OperationOK, CoreType
    <2> QED BY <1>2, <2>1 DEF Core, FlightOK
  <1>9. CloseUnique(p2, q, lab, ha)
    BY <1>2 DEF Core, CloseUnique
  <1>10. PacketsOK(q, lab, ha)
    <2>1. PeerIff(p)
      BY DEF PeerIff
    <2> QED BY <1>5, <1>7, <2>1 DEF Core, PacketsOK, n
  <1>11. PeersOK(o2, q, lab, ha)
    <2>0. PeersOK(ob, po, lab, ha)
      BY DEF Core
    <2>1. /\ \A i \in 1 .. n : po[i].peer # c
          /\ \A w \in Workers : lab[w] = "dispatch" => ha[w].peer # c
      BY <2>0 DEF PeersOK, n
    <2>2. \A i \in 1 .. n + 1 : q[i].peer \in Conns => o2[q[i].peer] = "arrived"
      BY <1>3, <1>7, <2>0 DEF PeersOK, n
    <2>3. \A w \in Workers : lab[w] = "dispatch" /\ ha[w].peer \in Conns => o2[ha[w].peer] = "arrived"
      BY <1>3, <2>0 DEF PeersOK
    <2>4. \A i, j \in 1 .. n + 1 : q[i].peer \in Conns /\ q[i].peer = q[j].peer => i = j
      BY <1>7, <2>0, <2>1 DEF PeersOK, n
    <2>5. \A i \in 1 .. n + 1, w \in Workers :
            lab[w] = "dispatch" /\ q[i].peer \in Conns => q[i].peer # ha[w].peer
      BY <1>7, <2>0, <2>1 DEF PeersOK, n
    <2> QED BY <1>5, <2>0, <2>2, <2>3, <2>4, <2>5 DEF PeersOK
  <1>12. RegisteredOK(o2, mp, fl, ct)
    BY <1>3 DEF Core, RegisteredOK
  <1>13. Core(o2, mp, fl, ct, p2, q, lab, ha)
    BY <1>2, <1>4, <1>6, <1>8, <1>9, <1>10, <1>11, <1>12 DEF Core
  <1> QED BY <1>13 DEF p2, q

\* What is in flight is an operation.
LEMMA FlightTyped ==
  ASSUME NEW ob, NEW mp, NEW fl, NEW ct, NEW pe, NEW po, NEW lab, NEW ha,
         CoreType(ob, mp, fl, ct, pe, po, lab, ha), NEW x, InPlace(x, pe, po, lab, ha)
  PROVE  x \in IOs
  <1>1. CASE x \in pe
    BY <1>1 DEF CoreType
  <1>2. CASE \E i \in 1 .. Len(po) : po[i].io = x
    <2>1. PICK i \in 1 .. Len(po) : po[i].io = x
      BY <1>2
    <2>2. po[i] \in Packets
      BY ElementOfSeq DEF CoreType
    <2> QED BY <2>1, <2>2 DEF Packets
  <1>3. CASE \E w \in Workers : lab[w] # "idle" /\ ha[w].io = x
    BY <1>3 DEF CoreType, Packets
  <1> QED BY <1>1, <1>2, <1>3 DEF InPlace

\* A key that has not been given out is in flight nowhere.
LEMMA FreshKey ==
  ASSUME NEW ob, NEW mp, NEW fl, NEW ct, NEW pe, NEW po, NEW lab, NEW ha,
         Core(ob, mp, fl, ct, pe, po, lab, ha), NEW s \in SocketContexts, NEW op
  PROVE  ~InPlace(IO(s, ct[s] + 1, op), pe, po, lab, ha)
  <1> DEFINE x == IO(s, ct[s] + 1, op)
  <1>1. ct[s] \in Nat
    BY DEF Core, CoreType
  <1>2. x.key = ct[s] + 1 /\ x.sc = s
    BY DEF IO
  <1>3. x.key \notin 1 .. ct[x.sc]
    BY <1>1, <1>2
  <1> HIDE DEF x
  <1>4. ~InPlace(x, pe, po, lab, ha)
    BY <1>3 DEF Core, FlightOK, OperationOK
  <1> QED BY <1>4 DEF x

\* createIOCPContext gives out one more key.
LEMMA CoreCount ==
  ASSUME NEW ob, NEW mp, NEW fl, NEW ct, NEW pe, NEW po, NEW lab, NEW ha,
         Core(ob, mp, fl, ct, pe, po, lab, ha), NEW s \in SocketContexts,
         s \in Conns => ob[s] \notin {"none", "arrived"},
         NEW c2, c2 = [ct EXCEPT ![s] = @ + 1]
  PROVE  Core(ob, mp, fl, c2, pe, po, lab, ha)
  <1>1. CoreType(ob, mp, fl, ct, pe, po, lab, ha)
    BY DEF Core
  <1>2. \A t \in SocketContexts : /\ c2[t] = IF t = s THEN ct[t] + 1 ELSE ct[t]
                                  /\ ct[t] \in Nat
    BY <1>1 DEF CoreType
  <1>3. CoreType(ob, mp, fl, c2, pe, po, lab, ha)
    BY <1>1 DEF CoreType
  <1>4. \A t \in SocketContexts : 1 .. ct[t] \subseteq 1 .. c2[t]
    BY <1>2
  <1>5. FlightOK(ob, mp, fl, c2, pe, po, lab, ha)
    <2>1. ASSUME NEW x, InPlace(x, pe, po, lab, ha) PROVE x \in IOs
      BY <1>1, <2>1, FlightTyped
    <2>2. ASSUME NEW x, InPlace(x, pe, po, lab, ha) PROVE OperationOK(x, ob, mp, fl, c2)
      <3>1. x.sc \in SocketContexts
        BY <2>1, <2>2 DEF IOs
      <3>2. OperationOK(x, ob, mp, fl, ct)
        BY <2>2 DEF Core, FlightOK
      <3> QED BY <1>4, <3>1, <3>2 DEF OperationOK
    <2> QED BY <2>2 DEF FlightOK
  <1>6. RegisteredOK(ob, mp, fl, c2)
    BY <1>2 DEF Core, RegisteredOK, SocketContexts
  <1> QED BY <1>3, <1>5, <1>6 DEF Core

\* A new operation is posted.
LEMMA CorePost ==
  ASSUME NEW ob, NEW mp, NEW fl, NEW ct, NEW pe, NEW po, NEW lab, NEW ha,
         Core(ob, mp, fl, ct, pe, po, lab, ha), NEW io \in IOs,
         ~InPlace(io, pe, po, lab, ha), io.operation # CLOSE, OperationOK(io, ob, mp, fl, ct)
  PROVE  Core(ob, mp, fl, ct, pe \cup {io}, po, lab, ha)
  <1> DEFINE p2 == pe \cup {io}
  <1>1. /\ Sole(p2, po, lab, ha)
        /\ \A x : InPlace(x, p2, po, lab, ha) <=> InPlace(x, pe, po, lab, ha) \/ x = io
    BY MovePost DEF Core
  <1>2. CoreType(ob, mp, fl, ct, p2, po, lab, ha)
    BY DEF Core, CoreType
  <1>3. PendingOK(p2)
    BY DEF Core, PendingOK
  <1> HIDE DEF p2
  <1>4. FlightOK(ob, mp, fl, ct, p2, po, lab, ha)
    BY <1>1 DEF Core, FlightOK
  <1>5. CloseUnique(p2, po, lab, ha)
    BY <1>1 DEF Core, CloseUnique
  <1>6. Core(ob, mp, fl, ct, p2, po, lab, ha)
    BY <1>1, <1>2, <1>3, <1>4, <1>5 DEF Core
  <1> QED BY <1>6 DEF p2

\* postCloseConnection flags a registered connection and queues its close.
LEMMA CoreClose ==
  ASSUME NEW ob, NEW mp, NEW fl, NEW ct, NEW pe, NEW po, NEW lab, NEW ha,
         Core(ob, mp, fl, ct, pe, po, lab, ha), NEW c \in mp, fl[c] # TRUE,
         NEW f2, f2 = [fl EXCEPT ![c] = TRUE], NEW c2, c2 = [ct EXCEPT ![c] = @ + 1],
         NEW p, p = Packet(IO(c, ct[c] + 1, CLOSE), "data", NoConn)
  PROVE  Core(ob, mp, f2, c2, pe, Append(po, p), lab, ha)
  <1> DEFINE q == Append(po, p)
  <1>1. CoreType(ob, mp, fl, ct, pe, po, lab, ha)
    BY DEF Core
  <1>2. c \in Conns /\ c \in SocketContexts /\ c # Listen /\ ob[c] = "alive" /\ ct[c] \in Nat
    BY <1>1, NamesAssumption DEF Core, CoreType, RegisteredOK, SocketContexts
  <1>3. Core(ob, mp, fl, c2, pe, po, lab, ha)
    BY <1>2, CoreCount
  <1>4. CoreType(ob, mp, fl, c2, pe, po, lab, ha) /\ c2[c] = ct[c] + 1
    BY <1>1, <1>2, <1>3 DEF Core, CoreType
  <1>5. /\ p.io.sc = c /\ p.io.key = ct[c] + 1 /\ p.io.operation = CLOSE
        /\ p.peer = NoConn /\ p.result = "data" /\ p.io = IO(c, ct[c] + 1, CLOSE)
    BY DEF Packet, IO
  <1>6. p \in Packets
    BY <1>2 DEF Packet, Packets, IO, IOs, Signals, CLOSE
  <1>7. ~InPlace(p.io, pe, po, lab, ha)
    BY <1>2, <1>5, FreshKey
  <1>8. /\ Sole(pe, q, lab, ha)
        /\ \A x : InPlace(x, pe, q, lab, ha) <=> InPlace(x, pe, po, lab, ha) \/ x = p.io
    BY <1>1, <1>6, <1>7, MoveQueue DEF Core, CoreType
  <1>9. PeerIff(p) /\ p.peer \notin Conns
    BY <1>5, NamesAssumption DEF PeerIff, CLOSE
  <1>10. PacketsOK(q, lab, ha) /\ PeersOK(ob, q, lab, ha)
    BY <1>1, <1>6, <1>9, PortGrows DEF Core, CoreType
  <1>11. CoreType(ob, mp, f2, c2, pe, q, lab, ha)
    BY <1>4, <1>6, AppendAt DEF CoreType
  <1> HIDE DEF q
  <1>12. \A d \in Conns : f2[d] = IF d = c THEN TRUE ELSE fl[d]
    BY <1>1 DEF CoreType
  <1>13. FlightOK(ob, mp, f2, c2, pe, q, lab, ha)
    <2>1. ASSUME NEW x, InPlace(x, pe, po, lab, ha) PROVE OperationOK(x, ob, mp, f2, c2)
      <3>1. OperationOK(x, ob, mp, fl, c2)
        BY <1>3, <2>1 DEF Core, FlightOK
      <3>2. x.operation = CLOSE => x.sc \in Conns
        BY <1>1, <3>1 DEF OperationOK, CoreType
      <3> QED BY <1>12, <3>1, <3>2 DEF OperationOK
    <2>2. OperationOK(p.io, ob, mp, f2, c2)
      <3>1. p.io.key \in 1 .. c2[p.io.sc]
        BY <1>2, <1>4, <1>5
      <3>2. ob[p.io.sc] = "alive" /\ f2[p.io.sc] = TRUE /\ p.io.sc \in mp
        BY <1>2, <1>5, <1>12
      <3>3. p.io.operation # "SIG_ACCEPT" /\ p.io.sc # Listen
        BY <1>2, <1>5 DEF CLOSE
      <3> QED BY ONLY <3>1, <3>2, <3>3 DEF OperationOK
    <2> QED BY <1>8, <2>1, <2>2 DEF FlightOK
  <1>14. CloseUnique(pe, q, lab, ha)
    <2>1. \A x : InPlace(x, pe, po, lab, ha) /\ x.operation = CLOSE => x.sc # c
      BY DEF Core, FlightOK, OperationOK
    <2> QED BY <1>5, <1>8, <2>1 DEF Core, CloseUnique
  <1>15. RegisteredOK(ob, mp, f2, c2)
    BY <1>3, <1>12 DEF Core, RegisteredOK
  <1>16. Core(ob, mp, f2, c2, pe, q, lab, ha)
    BY <1>8, <1>10, <1>11, <1>13, <1>14, <1>15 DEF Core
  <1> QED BY <1>16 DEF q

\* doAccept takes the client on, or deletes its context again.
LEMMA CoreSeen ==
  ASSUME NEW ob, NEW mp, NEW fl, NEW ct, NEW pe, NEW po, NEW lab, NEW ha,
         Core(ob, mp, fl, ct, pe, po, lab, ha), NEW w \in Workers, lab[w] = "dispatch",
         NEW c \in Conns, c = ha[w].peer, NEW st \in {"alive", "freed"},
         NEW o2, o2 = [ob EXCEPT ![c] = st],
         NEW l \in {"insert", "postAccept"}, NEW l2, l2 = [lab EXCEPT ![w] = l]
  PROVE  Core(o2, mp, fl, ct, pe, po, l2, ha)
  <1>1. CoreType(ob, mp, fl, ct, pe, po, lab, ha) /\ PeersOK(ob, po, lab, ha)
    BY DEF Core
  <1>2. ob[c] = "arrived"
    BY <1>1 DEF PeersOK
  <1>3. ct[c] = 0 /\ c \notin mp /\ fl[c] # TRUE
    BY <1>2 DEF Core, RegisteredOK
  <1>4. PeerIff(ha[w])
    BY DEF Core, PacketsOK
  <1>5. LabelOK(l, ha[w])
    BY <1>4 DEF LabelOK, PeerIff
  <1>6. Core(ob, mp, fl, ct, pe, po, l2, ha)
    BY <1>5, CoreGoto DEF Labels
  <1>7. \A v \in Workers : l2[v] = "dispatch" => lab[v] = "dispatch" /\ v # w
    BY <1>1 DEF CoreType
  <1>8. \A d \in Conns : o2[d] = IF d = c THEN st ELSE ob[d]
    BY <1>1 DEF CoreType
  <1>9. CoreType(o2, mp, fl, ct, pe, po, l2, ha)
    BY <1>6 DEF Core, CoreType
  <1>10. FlightOK(o2, mp, fl, ct, pe, po, l2, ha)
    <2>1. ASSUME NEW x, OperationOK(x, ob, mp, fl, ct)
          PROVE  OperationOK(x, o2, mp, fl, ct)
      BY <1>1, <1>3, <1>8, <2>1 DEF OperationOK, CoreType
    <2> QED BY <1>6, <2>1 DEF Core, FlightOK
  <1>11. PeersOK(o2, po, l2, ha)
    <2>1. \A i \in 1 .. Len(po) : po[i].peer \in Conns => po[i].peer # c
      BY <1>1 DEF PeersOK
    <2>2. \A v \in Workers : l2[v] = "dispatch" /\ ha[v].peer \in Conns => ha[v].peer # c
      BY <1>1, <1>7 DEF PeersOK
    <2>3. PeersOK(ob, po, l2, ha)
      BY <1>6 DEF Core
    <2>4. \A i \in 1 .. Len(po) : po[i].peer \in Conns => o2[po[i].peer] = "arrived"
      BY <1>8, <2>1, <2>3 DEF PeersOK
    <2>5. \A v \in Workers : l2[v] = "dispatch" /\ ha[v].peer \in Conns => o2[ha[v].peer] = "arrived"
      BY <1>8, <2>2, <2>3 DEF PeersOK
    <2> QED BY ONLY <2>3, <2>4, <2>5 DEF PeersOK
  <1>12. RegisteredOK(o2, mp, fl, ct)
    <2>1. RegisteredOK(ob, mp, fl, ct)
      BY DEF Core
    <2> QED BY ONLY <1>3, <1>8, <2>1, st \in {"alive", "freed"} DEF RegisteredOK
  <1> QED BY <1>6, <1>9, <1>10, <1>11, <1>12 DEF Core

\* doAccept registers the client.
LEMMA CoreInsert ==
  ASSUME NEW ob, NEW mp, NEW fl, NEW ct, NEW pe, NEW po, NEW lab, NEW ha,
         Core(ob, mp, fl, ct, pe, po, lab, ha), NEW c \in Conns, ob[c] = "alive"
  PROVE  Core(ob, mp \cup {c}, fl, ct, pe, po, lab, ha)
  <1> DEFINE m2 == mp \cup {c}
  <1>1. CoreType(ob, m2, fl, ct, pe, po, lab, ha)
    BY DEF Core, CoreType
  <1>2. FlightOK(ob, m2, fl, ct, pe, po, lab, ha)
    BY DEF Core, FlightOK, OperationOK
  <1>3. RegisteredOK(ob, m2, fl, ct)
    BY DEF Core, RegisteredOK
  <1> QED BY <1>1, <1>2, <1>3 DEF Core

\* doCloseConnection deletes the context of the close in its hands and forgets the packet.
LEMMA CoreRelease ==
  ASSUME NEW ob, NEW mp, NEW fl, NEW ct, NEW pe, NEW po, NEW lab, NEW ha,
         Core(ob, mp, fl, ct, pe, po, lab, ha), NEW w \in Workers, lab[w] # "idle",
         ha[w].io.operation = CLOSE, NEW c, c = ha[w].io.sc,
         NEW o2, o2 = [ob EXCEPT ![c] = "freed"],
         NEW l2, l2 = [lab EXCEPT ![w] = "idle"], NEW h2, h2 = [ha EXCEPT ![w] = NoPacket]
  PROVE  Core(o2, mp \ {c}, fl, ct, pe, po, l2, h2)
  <1> DEFINE m2 == mp \ {c}
  <1>1. CoreType(ob, mp, fl, ct, pe, po, lab, ha)
    BY DEF Core
  <1>2. InPlace(ha[w].io, pe, po, lab, ha)
    BY DEF InPlace
  <1>3. c \in mp /\ ob[c] = "alive" /\ fl[c] = TRUE /\ c \in Conns
    BY <1>1, <1>2 DEF Core, CoreType, FlightOK, OperationOK
  <1>4. Core(ob, mp, fl, ct, pe, po, l2, h2)
    BY CoreDone
  <1>5. \A x : InPlace(x, pe, po, l2, h2) <=> InPlace(x, pe, po, lab, ha) /\ x # ha[w].io
    <2>1. lab \in [Workers -> Labels] /\ ha \in [Workers -> Packets \cup {NoPacket}]
      BY <1>1 DEF CoreType
    <2>2. Sole(pe, po, lab, ha)
      BY DEF Core
    <2>3. /\ \A v \in Workers : l2[v] = IF v = w THEN "idle" ELSE lab[v]
          /\ \A v \in Workers : v # w => h2[v] = ha[v]
      BY <2>1
    <2>4. w \in Workers /\ lab[w] # "idle"
      OBVIOUS
    <2> QED BY ONLY <2>2, <2>3, <2>4 DEF Sole, InPlace
  <1>6. \A d \in Conns : o2[d] = IF d = c THEN "freed" ELSE ob[d]
    BY <1>1 DEF CoreType
  <1>7. CoreType(o2, m2, fl, ct, pe, po, l2, h2)
    BY <1>4 DEF Core, CoreType
  <1>8. \A x : InPlace(x, pe, po, l2, h2) /\ x.operation = CLOSE => x.sc # c
    BY <1>2, <1>5 DEF Core, CloseUnique
  <1>9. FlightOK(o2, m2, fl, ct, pe, po, l2, h2)
    <2>1. ASSUME NEW x, InPlace(x, pe, po, l2, h2) PROVE OperationOK(x, o2, m2, fl, ct)
      <3>1. OperationOK(x, ob, mp, fl, ct)
        BY <1>4, <2>1 DEF Core, FlightOK
      <3>2. x.operation = CLOSE => x.sc \in Conns /\ x.sc # c
        BY <1>1, <1>8, <2>1, <3>1 DEF OperationOK, CoreType
      <3> QED BY <1>6, <3>1, <3>2 DEF OperationOK
    <2> QED BY <2>1 DEF FlightOK
  <1>10. PeersOK(o2, po, l2, h2)
    <2>1. PeersOK(ob, po, l2, h2)
      BY <1>4 DEF Core
    <2>2. \A i \in 1 .. Len(po) : po[i].peer \in Conns => o2[po[i].peer] = "arrived"
      BY <1>3, <1>6, <2>1 DEF PeersOK
    <2>3. \A v \in Workers : l2[v] = "dispatch" /\ h2[v].peer \in Conns => o2[h2[v].peer] = "arrived"
      BY <1>3, <1>6, <2>1 DEF PeersOK
    <2> QED BY ONLY <2>1, <2>2, <2>3 DEF PeersOK
  <1>11. RegisteredOK(o2, m2, fl, ct)
    BY <1>3, <1>6 DEF Core, RegisteredOK
  <1>12. Core(o2, m2, fl, ct, pe, po, l2, h2)
    BY <1>4, <1>7, <1>9, <1>10, <1>11 DEF Core
  <1> QED BY <1>12

-------------------------------------------------------------------------------
(* The state machine. *)

CoreInv == Core(object, socketContextMap, closeFlag, count, pending, port, pc, hand)

CoreNext == Core(object', socketContextMap', closeFlag', count', pending', port', pc', hand')

\* What a worker that handles a packet knows about it.
LEMMA Held ==
  ASSUME CoreInv, NEW w \in Workers, pc[w] # "idle"
  PROVE  /\ hand[w] \in Packets /\ hand[w].io \in IOs
         /\ PeerIff(hand[w]) /\ LabelOK(pc[w], hand[w])
         /\ OperationOK(hand[w].io, object, socketContextMap, closeFlag, count)
  <1>1. hand[w] \in Packets
    BY DEF CoreInv, Core, CoreType
  <1>2. InPlace(hand[w].io, pending, port, pc, hand)
    BY DEF InPlace
  <1>3. OperationOK(hand[w].io, object, socketContextMap, closeFlag, count)
    BY <1>2 DEF CoreInv, Core, FlightOK
  <1>4. PeerIff(hand[w]) /\ LabelOK(pc[w], hand[w])
    BY DEF CoreInv, Core, PacketsOK
  <1> QED BY <1>1, <1>3, <1>4 DEF Packets

LEMMA InitCore == Init => CoreInv
  <1> SUFFICES ASSUME Init PROVE CoreInv
    OBVIOUS
  <1>1. CoreType(object, socketContextMap, closeFlag, count, pending, port, pc, hand)
    BY DEF Init, CoreType, Labels
  <1>2. Len(port) = 0 /\ 1 .. Len(port) = {}
    BY DEF Init
  <1>3. pending = {} /\ \A w \in Workers : pc[w] = "idle"
    BY DEF Init
  <1>4. \A x : ~InPlace(x, pending, port, pc, hand)
    BY <1>2, <1>3 DEF InPlace
  <1>5. Sole(pending, port, pc, hand)
    BY <1>2, <1>3 DEF Sole
  <1>6. PeersOK(object, port, pc, hand)
    BY <1>2, <1>3 DEF PeersOK
  <1>7. PacketsOK(port, pc, hand)
    BY <1>2, <1>3 DEF PacketsOK
  <1>8. RegisteredOK(object, socketContextMap, closeFlag, count)
    BY DEF Init, RegisteredOK, SocketContexts
  <1>9. /\ FlightOK(object, socketContextMap, closeFlag, count, pending, port, pc, hand)
        /\ CloseUnique(pending, port, pc, hand) /\ PendingOK(pending)
    BY <1>3, <1>4 DEF FlightOK, CloseUnique, PendingOK
  <1> QED BY <1>1, <1>5, <1>6, <1>7, <1>8, <1>9 DEF CoreInv, Core

\* Steps that only move a worker to another label.
LEMMA GotoStep ==
  ASSUME CoreInv, NEW w \in Workers, pc[w] # "idle", NEW l \in Labels \ {"idle", "dispatch"},
         LabelOK(l, hand[w]), Goto(w, l),
         UNCHANGED <<object, socketContextMap, closeFlag, count, pending, port>>
  PROVE  CoreNext
  <1>1. /\ pc' = [pc EXCEPT ![w] = l] /\ hand' = hand
        /\ object' = object /\ socketContextMap' = socketContextMap /\ closeFlag' = closeFlag
        /\ count' = count /\ pending' = pending /\ port' = port
    BY DEF Goto
  <1>2. Core(object, socketContextMap, closeFlag, count, pending, port, pc', hand)
    BY <1>1, CoreGoto DEF CoreInv
  <1> QED BY <1>1, <1>2 DEF CoreNext

\* Steps that only forget the packet in hand.
LEMMA DoneStep ==
  ASSUME CoreInv, NEW w \in Workers, pc[w] # "idle", Done(w),
         UNCHANGED <<object, socketContextMap, closeFlag, count, pending, port>>
  PROVE  CoreNext
  <1>1. /\ pc' = [pc EXCEPT ![w] = "idle"] /\ hand' = [hand EXCEPT ![w] = NoPacket]
        /\ object' = object /\ socketContextMap' = socketContextMap /\ closeFlag' = closeFlag
        /\ count' = count /\ pending' = pending /\ port' = port
    BY DEF Done
  <1>2. Core(object, socketContextMap, closeFlag, count, pending, port, pc', hand')
    BY <1>1, CoreDone DEF CoreInv
  <1> QED BY <1>1, <1>2 DEF CoreNext

\* Steps that give the operation in hand back to the kernel.
LEMMA RepostStep ==
  ASSUME CoreInv, NEW w \in Workers, pc[w] # "idle", Done(w), hand[w].io.operation # CLOSE,
         pending' = pending \cup {hand[w].io},
         UNCHANGED <<object, socketContextMap, closeFlag, count, port>>
  PROVE  CoreNext
  <1>1. /\ pc' = [pc EXCEPT ![w] = "idle"] /\ hand' = [hand EXCEPT ![w] = NoPacket]
        /\ object' = object /\ socketContextMap' = socketContextMap /\ closeFlag' = closeFlag
        /\ count' = count /\ port' = port
    BY DEF Done
  <1>2. Core(object, socketContextMap, closeFlag, count, pending \cup {hand[w].io}, port, pc', hand')
    BY <1>1, CoreRepost DEF CoreInv
  <1> QED BY <1>1, <1>2 DEF CoreNext

\* Completions that bring no new client.
LEMMA CompleteStep ==
  ASSUME CoreInv, NEW io \in pending, NEW r \in {"data", "part", "zero", "error"},
         Complete(io, r, NoConn), io.operation = "SIG_ACCEPT" => r # "data",
         UNCHANGED <<object, socketContextMap, closeFlag, count, pc, hand>>
  PROVE  CoreNext
  <1> DEFINE p == Packet(io, r, NoConn)
  <1>1. /\ pending' = pending \ {io} /\ port' = Append(port, p)
        /\ object' = object /\ socketContextMap' = socketContextMap /\ closeFlag' = closeFlag
        /\ count' = count /\ pc' = pc /\ hand' = hand
    BY DEF Complete
  <1>2. io \in IOs
    BY DEF CoreInv, Core, CoreType
  <1>3. p \in Packets /\ p.io = io /\ p.peer = NoConn /\ p.result = r
    BY <1>2 DEF Packet, Packets
  <1> HIDE DEF p
  <1>4. p.peer \notin Conns /\ PeerIff(p)
    BY <1>3, NamesAssumption DEF PeerIff
  <1>5. Core(object, socketContextMap, closeFlag, count, pending \ {io}, Append(port, p), pc, hand)
    BY <1>3, <1>4, CoreComplete DEF CoreInv
  <1> QED BY <1>1, <1>5 DEF CoreNext

LEMMA StepInitIOCP ==
  ASSUME CoreInv, initIOCP
  PROVE  CoreNext
  <1>1. /\ object' = object /\ socketContextMap' = socketContextMap /\ closeFlag' = closeFlag
        /\ port' = port /\ pc' = pc /\ hand' = hand
        /\ count' = [count EXCEPT ![Listen] = @ + 1]
        /\ pending' = pending \cup {NewAccept} \/ pending' = pending
    BY DEF initIOCP
  <1>2. Listen \in SocketContexts /\ Listen \notin Conns /\ count[Listen] \in Nat
    BY NamesAssumption DEF CoreInv, Core, CoreType, SocketContexts
  <1>3. Core(object, socketContextMap, closeFlag, count', pending, port, pc, hand)
    BY <1>1, <1>2, CoreCount DEF CoreInv
  <1>4. CASE pending' = pending
    BY <1>1, <1>3, <1>4 DEF CoreNext
  <1>5. CASE pending' = pending \cup {NewAccept}
    <2>1. /\ NewAccept \in IOs /\ NewAccept.operation = "SIG_ACCEPT" /\ NewAccept.sc = Listen
          /\ NewAccept.key = count[Listen] + 1
          /\ NewAccept = IO(Listen, count[Listen] + 1, "SIG_ACCEPT")
      BY <1>2 DEF NewAccept, newKey, IO, IOs, Signals
    <2>2. ~InPlace(NewAccept, pending, port, pc, hand)
      BY <1>2, <2>1, FreshKey DEF CoreInv
    <2>3. count'[Listen] = count[Listen] + 1
      BY <1>1, <1>2 DEF CoreInv, Core, CoreType
    <2>4. OperationOK(NewAccept, object, socketContextMap, closeFlag, count')
      <3>1. NewAccept.key \in 1 .. count'[NewAccept.sc]
        BY <1>2, <2>1, <2>3
      <3> QED BY <2>1, <3>1 DEF OperationOK, CLOSE
    <2>5. NewAccept.operation # CLOSE
      BY <2>1 DEF CLOSE
    <2>6. Core(object, socketContextMap, closeFlag, count', pending \cup {NewAccept}, port, pc, hand)
      BY <1>3, <2>1, <2>2, <2>4, <2>5, CorePost
    <2> QED BY <1>1, <1>5, <2>6 DEF CoreNext
  <1> QED BY <1>1, <1>4, <1>5

LEMMA StepKernel ==
  ASSUME CoreInv, Kernel
  PROVE  CoreNext
  <1>1. PICK io \in pending : AcceptCompletes(io) \/ DataArrives(io) \/ StreamEnds(io)
                              \/ SendEnds(io) \/ Aborted(io)
    BY DEF Kernel
  <1>2. CASE AcceptCompletes(io)
    <2>1. CASE \E r \in {"zero", "error"} : Complete(io, r, NoConn) /\ UNCHANGED object
      <3>1. PICK r \in {"zero", "error"} : Complete(io, r, NoConn) /\ UNCHANGED object
        BY <2>1
      <3> QED BY <1>2, <3>1, CompleteStep DEF AcceptCompletes
    <2>2. CASE \E c \in Conns : /\ object[c] = "none"
                                /\ object' = [object EXCEPT ![c] = "arrived"]
                                /\ Complete(io, "data", c)
      <3>1. PICK c \in Conns : /\ object[c] = "none"
                               /\ object' = [object EXCEPT ![c] = "arrived"]
                               /\ Complete(io, "data", c)
        BY <2>2
      <3> DEFINE p == Packet(io, "data", c)
      <3>2. /\ pending' = pending \ {io} /\ port' = Append(port, p)
            /\ socketContextMap' = socketContextMap /\ closeFlag' = closeFlag
            /\ count' = count /\ pc' = pc /\ hand' = hand /\ io.operation = "SIG_ACCEPT"
        BY <1>2, <3>1 DEF AcceptCompletes, Complete
      <3>3. io \in IOs
        BY DEF CoreInv, Core, CoreType
      <3>4. p \in Packets /\ p.io = io /\ p.peer = c /\ p.result = "data"
        BY <3>3 DEF Packet, Packets
      <3> HIDE DEF p
      <3>5. Core(object', socketContextMap, closeFlag, count, pending \ {io}, Append(port, p), pc, hand)
        BY <3>1, <3>2, <3>4, CoreArrive DEF CoreInv
      <3> QED BY <3>2, <3>5 DEF CoreNext
    <2> QED BY <1>2, <2>1, <2>2 DEF AcceptCompletes
  <1>3. CASE DataArrives(io)
    BY <1>3, CompleteStep DEF DataArrives, contexts
  <1>4. CASE StreamEnds(io)
    <2>1. PICK r \in {"zero", "error"} : Complete(io, r, NoConn)
      BY <1>4 DEF StreamEnds
    <2> QED BY <1>4, <2>1, CompleteStep DEF StreamEnds, contexts
  <1>5. CASE SendEnds(io)
    <2>1. PICK r \in {"data", "part", "zero", "error"} : Complete(io, r, NoConn)
      BY <1>5 DEF SendEnds
    <2> QED BY <1>5, <2>1, CompleteStep DEF SendEnds, contexts
  <1>6. CASE Aborted(io)
    BY <1>6, CompleteStep DEF Aborted, contexts
  <1> QED BY <1>1, <1>2, <1>3, <1>4, <1>5, <1>6

LEMMA StepTake ==
  ASSUME CoreInv, NEW w \in Workers, GetQueuedCompletionStatus(w)
  PROVE  CoreNext
  <1>1. /\ object' = object /\ socketContextMap' = socketContextMap /\ closeFlag' = closeFlag
        /\ count' = count /\ pending' = pending /\ port' = Tail(port)
        /\ pc' = [pc EXCEPT ![w] = "dispatch"] /\ hand' = [hand EXCEPT ![w] = Head(port)]
        /\ pc[w] = "idle" /\ port # << >>
    BY DEF GetQueuedCompletionStatus, contexts
  <1>2. Core(object, socketContextMap, closeFlag, count, pending, Tail(port), pc', hand')
    BY <1>1, CoreTake DEF CoreInv
  <1> QED BY <1>1, <1>2 DEF CoreNext

LEMMA StepDoAccept ==
  ASSUME CoreInv, NEW w \in Workers, doAccept(w)
  PROVE  CoreNext
  <1> DEFINE c == hand[w].peer
  <1>1. /\ pc[w] = "dispatch" /\ hand[w].io.operation = "SIG_ACCEPT" /\ hand[w].result = "data"
        /\ socketContextMap' = socketContextMap /\ closeFlag' = closeFlag /\ port' = port
    BY DEF doAccept, Handles, At
  <1>2. c \in Conns /\ c = hand[w].peer
    BY <1>1, Held DEF PeerIff
  <1> HIDE DEF c
  <1>3. CASE /\ object' = [object EXCEPT ![c] = "freed"] /\ Goto(w, "postAccept")
             /\ UNCHANGED <<count, IOCPContextMap, pending>>
    <2>1. pc' = [pc EXCEPT ![w] = "postAccept"] /\ hand' = hand /\ count' = count /\ pending' = pending
      BY <1>3 DEF Goto
    <2>2. Core(object', socketContextMap, closeFlag, count, pending, port, pc', hand)
      <3>1. "freed" \in {"alive", "freed"} /\ "postAccept" \in {"insert", "postAccept"}
        OBVIOUS
      <3> QED BY <1>1, <1>2, <1>3, <2>1, <3>1, CoreSeen DEF CoreInv
    <2> QED BY <1>1, <2>1, <2>2 DEF CoreNext
  <1>4. CASE /\ object' = [object EXCEPT ![c] = "alive"]
             /\ count' = [count EXCEPT ![c] = 1]
             /\ pending' = pending \cup {IO(c, 1, "SIG_RECV")}
             /\ Goto(w, "insert")
    <2> DEFINE io == IO(c, 1, "SIG_RECV")
    <2>0. object' = [object EXCEPT ![c] = "alive"]
      BY <1>4
    <2>1. pc' = [pc EXCEPT ![w] = "insert"] /\ hand' = hand
      BY <1>4 DEF Goto
    <2>2. /\ Core(object', socketContextMap, closeFlag, count, pending, port, pc', hand)
          /\ object[c] = "arrived" /\ count[c] = 0
      <3>1. "alive" \in {"alive", "freed"} /\ "insert" \in {"insert", "postAccept"}
        OBVIOUS
      <3>2. Core(object', socketContextMap, closeFlag, count, pending, port, pc', hand)
        BY <1>1, <1>2, <2>0, <2>1, <3>1, CoreSeen DEF CoreInv
      <3>3. object[c] = "arrived"
        BY <1>1, <1>2 DEF CoreInv, Core, PeersOK
      <3>4. count[c] = 0
        BY <1>2, <3>3 DEF CoreInv, Core, RegisteredOK
      <3> QED BY <3>2, <3>3, <3>4
    <2>3. object'[c] = "alive" /\ c \in SocketContexts /\ c # Listen
      BY <1>2, <1>4, NamesAssumption DEF CoreInv, Core, CoreType, SocketContexts
    <2>4. count' = [count EXCEPT ![c] = @ + 1] /\ count'[c] = 1
      BY <1>4, <2>2, <2>3 DEF CoreInv, Core, CoreType
    <2>5. Core(object', socketContextMap, closeFlag, count', pending, port, pc', hand)
      BY <2>2, <2>3, <2>4, CoreCount
    <2>6. /\ io \in IOs /\ io.operation = "SIG_RECV" /\ io.sc = c /\ io.key = 1
          /\ io = IO(c, count[c] + 1, "SIG_RECV")
      BY <2>2, <2>3 DEF IO, IOs, Signals
    <2> HIDE DEF io
    <2>7. ~InPlace(io, pending, port, pc', hand)
      BY <2>2, <2>3, <2>6, FreshKey
    <2>8. OperationOK(io, object', socketContextMap, closeFlag, count')
      <3>1. io.key \in 1 .. count'[io.sc]
        BY <2>4, <2>6
      <3> QED BY <2>3, <2>6, <3>1 DEF OperationOK, CLOSE
    <2>9. io.operation # CLOSE
      BY <2>6 DEF CLOSE
    <2>10. Core(object', socketContextMap, closeFlag, count', pending \cup {io}, port, pc', hand)
      BY <2>5, <2>6, <2>7, <2>8, <2>9, CorePost
    <2> QED BY <1>1, <1>4, <2>1, <2>10 DEF CoreNext, io
  <1> QED BY <1>3, <1>4 DEF doAccept, c

LEMMA StepInsert ==
  ASSUME CoreInv, NEW w \in Workers, insertContext(w)
  PROVE  CoreNext
  <1> DEFINE c == hand[w].peer
  <1>1. /\ pc[w] = "insert" /\ socketContextMap' = socketContextMap \cup {c}
        /\ object' = object /\ closeFlag' = closeFlag /\ count' = count
        /\ pending' = pending /\ port' = port
        /\ pc' = [pc EXCEPT ![w] = "postAccept"] /\ hand' = hand
    BY DEF insertContext, At, Goto
  <1>2. object[c] = "alive"
    BY <1>1 DEF insertContext, At, Usable
  <1>3. c \in Conns /\ LabelOK("postAccept", hand[w])
    BY <1>1, Held DEF LabelOK
  <1>4. "postAccept" \in Labels \ {"idle", "dispatch"}
    BY DEF Labels
  <1> HIDE DEF c
  <1>5. Core(object, socketContextMap', closeFlag, count, pending, port, pc, hand)
    BY <1>1, <1>2, <1>3, CoreInsert DEF CoreInv
  <1>6. Core(object, socketContextMap', closeFlag, count, pending, port, pc', hand)
    BY <1>1, <1>3, <1>4, <1>5, CoreGoto
  <1> QED BY <1>1, <1>6 DEF CoreNext

\* RequestClose, before the worker goes on.
LEMMA RequestCore ==
  ASSUME CoreInv, NEW c, RequestClose(c)
  PROVE  Core(object, socketContextMap, closeFlag', count', pending, port', pc, hand)
  <1>1. CASE c \in socketContextMap /\ ~closeFlag[c]
    <2> DEFINE p == Packet(IO(c, count[c] + 1, CLOSE), "data", NoConn)
    <2>1. /\ closeFlag' = [closeFlag EXCEPT ![c] = TRUE]
          /\ count' = [count EXCEPT ![c] = @ + 1]
          /\ port' = Append(port, p)
      BY <1>1 DEF RequestClose, newKey, CLOSE
    <2>2. c \in socketContextMap /\ closeFlag[c] # TRUE
      BY <1>1
    <2> HIDE DEF p
    <2>3. p = Packet(IO(c, count[c] + 1, CLOSE), "data", NoConn)
      BY DEF p
    <2>4. Core(object, socketContextMap, closeFlag', count', pending, Append(port, p), pc, hand)
      BY <2>1, <2>2, <2>3, CoreClose DEF CoreInv
    <2> QED BY <2>1, <2>4
  <1>2. CASE ~(c \in socketContextMap /\ ~closeFlag[c])
    BY <1>2 DEF RequestClose, CoreInv
  <1> QED BY <1>1, <1>2

LEMMA StepPostClose ==
  ASSUME CoreInv, NEW w \in Workers, postCloseConnection(w)
  PROVE  CoreNext
  <1>1. /\ pc[w] = "close" /\ RequestClose(hand[w].io.sc)
        /\ object' = object /\ socketContextMap' = socketContextMap /\ pending' = pending
        /\ pc' = [pc EXCEPT ![w] = "idle"] /\ hand' = [hand EXCEPT ![w] = NoPacket]
    BY DEF postCloseConnection, At, Done
  <1>2. Core(object, socketContextMap, closeFlag', count', pending, port', pc, hand)
    BY <1>1, RequestCore
  <1>3. Core(object, socketContextMap, closeFlag', count', pending, port', pc', hand')
    BY <1>1, <1>2, CoreDone
  <1> QED BY <1>1, <1>3 DEF CoreNext

LEMMA StepCallbackCloses ==
  ASSUME CoreInv, NEW w \in Workers, callbackCloses(w)
  PROVE  CoreNext
  <1>1. /\ RequestClose(hand[w].io.sc) /\ object' = object /\ pending' = pending
        /\ socketContextMap' = socketContextMap /\ pc' = pc /\ hand' = hand
    BY DEF callbackCloses
  <1>2. Core(object, socketContextMap, closeFlag', count', pending, port', pc, hand)
    BY <1>1, RequestCore
  <1> QED BY <1>1, <1>2 DEF CoreNext

LEMMA StepDoClose ==
  ASSUME CoreInv, NEW w \in Workers, doCloseConnection(w)
  PROVE  /\ CoreNext
         /\ LET c == hand[w].io.sc
            IN /\ c \in socketContextMap /\ object[c] = "alive" /\ closeFlag[c] = TRUE
               /\ c \in Conns
  <1> DEFINE c == hand[w].io.sc
  <1>1. /\ pc[w] # "idle" /\ hand[w].io.operation = CLOSE
        /\ closeFlag' = closeFlag /\ count' = count /\ pending' = pending /\ port' = port
        /\ pc' = [pc EXCEPT ![w] = "idle"] /\ hand' = [hand EXCEPT ![w] = NoPacket]
    BY DEF doCloseConnection, Handles, At, Done, CLOSE
  <1>2. c \in socketContextMap /\ object[c] = "alive" /\ closeFlag[c] = TRUE
    BY <1>1, Held DEF OperationOK
  <1>3. c \in Conns
    BY <1>2 DEF CoreInv, Core, CoreType
  <1>4. object' = [object EXCEPT ![c] = "freed"] /\ socketContextMap' = socketContextMap \ {c}
    BY <1>2 DEF doCloseConnection
  <1>5. Core(object', socketContextMap \ {c}, closeFlag, count, pending, port, pc', hand')
    <2>1. c = hand[w].io.sc
      OBVIOUS
    <2> HIDE DEF c
    <2> QED BY <1>1, <1>4, <2>1, CoreRelease DEF CoreInv
  <1> QED BY <1>1, <1>2, <1>3, <1>4, <1>5 DEF CoreNext

\* A worker in sendData is in a callback, so its context is a client's.
SendingOK == \A w \in sending :
    w \in Workers /\ pc[w] \in {"recvCallback", "sendCallback", "errorCallback"}

LEMMA SendingUse ==
  ASSUME CoreInv, SendingOK, NEW w \in sending, Usable(w)
  PROVE  /\ object[hand[w].io.sc] = "alive" /\ hand[w].io.sc \in Conns
  <1>1. w \in Workers /\ pc[w] \in {"recvCallback", "sendCallback", "errorCallback"}
    BY DEF SendingOK
  <1>2. hand[w].io \in IOs /\ hand[w].io.sc # Listen
    BY <1>1, Held DEF LabelOK, OperationOK
  <1>3. hand[w].io.sc \in Conns
    BY <1>2 DEF IOs, SocketContexts
  <1> QED BY <1>1, <1>3 DEF Usable

LEMMA StepSendChecks ==
  ASSUME CoreInv, NEW w \in Workers, sendChecks(w)
  PROVE  CoreNext
  BY DEF sendChecks, contexts, CoreInv, CoreNext

LEMMA StepSendReturns ==
  ASSUME CoreInv, NEW w \in Workers, postSendReturns(w)
  PROVE  CoreNext
  BY DEF postSendReturns, CoreInv, CoreNext

LEMMA StepSendData ==
  ASSUME CoreInv, SendingOK, NEW w \in Workers, sendData(w)
  PROVE  CoreNext
  <1> DEFINE c == hand[w].io.sc
             io == IO(c, count[c] + 1, "SIG_SEND")
  <1>0. object[c] = "alive" /\ c \in Conns
    BY SendingUse DEF sendData
  <1>1. /\ count' = [count EXCEPT ![c] = @ + 1]
        /\ pending' = pending \cup {io} \/ pending' = pending
        /\ object' = object /\ socketContextMap' = socketContextMap /\ closeFlag' = closeFlag
        /\ port' = port /\ pc' = pc /\ hand' = hand
    BY DEF sendData, newKey
  <1> HIDE DEF c
  <1>2. c \in Conns /\ c \in SocketContexts /\ c # Listen /\ object[c] = "alive" /\ count[c] \in Nat
    BY <1>0, NamesAssumption DEF CoreInv, Core, CoreType, SocketContexts
  <1>3. Core(object, socketContextMap, closeFlag, count', pending, port, pc, hand)
    BY <1>1, <1>2, CoreCount DEF CoreInv
  <1>4. count'[c] = count[c] + 1
    BY <1>1, <1>2 DEF CoreInv, Core, CoreType
  <1>5. /\ io \in IOs /\ io.operation = "SIG_SEND" /\ io.sc = c /\ io.key = count[c] + 1
    BY <1>2 DEF IO, IOs, Signals
  <1>6. ~InPlace(io, pending, port, pc, hand)
    BY <1>2, FreshKey DEF CoreInv
  <1> HIDE DEF io
  <1>7. OperationOK(io, object, socketContextMap, closeFlag, count')
    <2>1. io.key \in 1 .. count'[io.sc]
      BY <1>2, <1>4, <1>5
    <2> QED BY <1>2, <1>5, <2>1 DEF OperationOK, CLOSE
  <1>8. io.operation # CLOSE
    BY <1>5 DEF CLOSE
  <1>9. Core(object, socketContextMap, closeFlag, count', pending \cup {io}, port, pc, hand)
    BY <1>3, <1>5, <1>6, <1>7, <1>8, CorePost
  <1> QED BY <1>1, <1>3, <1>9 DEF CoreNext

\* The other actions of a worker.
LEMMA StepHandler ==
  ASSUME CoreInv, NEW w \in Workers, Handler(w)
  PROVE  CoreNext
  <1>0. {"postAccept", "recvCallback", "sendCallback", "errorCallback", "close"}
          \subseteq Labels \ {"idle", "dispatch"}
    BY DEF Labels
  <1>1. CASE emptyAccept(w)
    <2>1. /\ pc[w] = "dispatch" /\ hand[w].io.operation = "SIG_ACCEPT" /\ Goto(w, "postAccept")
          /\ UNCHANGED <<object, socketContextMap, closeFlag, count, pending, port>>
      BY <1>1 DEF emptyAccept, Handles, At, contexts
    <2>2. LabelOK("postAccept", hand[w])
      BY <2>1 DEF LabelOK
    <2> QED BY <1>0, <2>1, <2>2, GotoStep
  <1>2. CASE postAccept(w)
    <2>1. /\ pc[w] = "postAccept" /\ Done(w)
          /\ pending' = pending \cup {hand[w].io} \/ pending' = pending
          /\ UNCHANGED <<object, socketContextMap, closeFlag, count, port>>
      BY <1>2 DEF postAccept, At
    <2>2. hand[w].io.operation # CLOSE
      BY <2>1, Held DEF LabelOK, CLOSE
    <2> QED BY <2>1, <2>2, RepostStep, DoneStep
  <1>3. CASE doRecv(w)
    <2>1. /\ pc[w] = "dispatch" /\ hand[w].io.operation = "SIG_RECV" /\ Goto(w, "recvCallback")
          /\ UNCHANGED <<object, socketContextMap, closeFlag, count, pending, port>>
      BY <1>3 DEF doRecv, Handles, At, contexts
    <2>2. LabelOK("recvCallback", hand[w])
      BY <2>1 DEF LabelOK
    <2> QED BY <1>0, <2>1, <2>2, GotoStep
  <1>4. CASE postRecv(w)
    <2>1. /\ pc[w] = "recvCallback"
          /\ UNCHANGED <<object, socketContextMap, closeFlag, count, port>>
          /\ \/ pending' = pending \cup {hand[w].io} /\ Done(w)
             \/ Goto(w, "close") /\ UNCHANGED pending
      BY <1>4 DEF postRecv, At, contexts
    <2>2. hand[w].io.operation = "SIG_RECV"
      BY <2>1, Held DEF LabelOK
    <2>3. hand[w].io.operation # CLOSE /\ LabelOK("close", hand[w])
      BY <2>2 DEF LabelOK, CLOSE
    <2> QED BY <1>0, <2>1, <2>3, RepostStep, GotoStep
  <1>5. CASE recvFailed(w)
    <2>1. /\ pc[w] = "dispatch" /\ hand[w].io.operation = "SIG_RECV"
          /\ Done(w) \/ Goto(w, "close")
          /\ UNCHANGED <<object, socketContextMap, closeFlag, count, pending, port>>
      BY <1>5 DEF recvFailed, Handles, At, contexts
    <2>2. LabelOK("close", hand[w])
      BY <2>1 DEF LabelOK
    <2> QED BY <1>0, <2>1, <2>2, GotoStep, DoneStep
  <1>6. CASE doSend(w)
    <2>1. /\ pc[w] = "dispatch" /\ hand[w].io.operation = "SIG_SEND" /\ Goto(w, "sendCallback")
          /\ UNCHANGED <<object, socketContextMap, closeFlag, count, pending, port>>
      BY <1>6 DEF doSend, Handles, At, contexts
    <2>2. LabelOK("sendCallback", hand[w])
      BY <2>1 DEF LabelOK
    <2> QED BY <1>0, <2>1, <2>2, GotoStep
  <1>7. CASE releaseSend(w)
    BY <1>7, DoneStep DEF releaseSend, At
  <1>8. CASE doSendRest(w)
    <2>1. /\ pc[w] = "dispatch" /\ hand[w].io.operation = "SIG_SEND"
          /\ UNCHANGED <<object, socketContextMap, closeFlag, count, port>>
          /\ \/ pending' = pending \cup {hand[w].io} /\ Done(w)
             \/ Goto(w, "close") /\ UNCHANGED pending
      BY <1>8 DEF doSendRest, Handles, At, contexts
    <2>2. hand[w].io.operation # CLOSE /\ LabelOK("close", hand[w])
      BY <2>1 DEF LabelOK, CLOSE
    <2> QED BY <1>0, <2>1, <2>2, RepostStep, GotoStep
  <1>9. CASE sendError(w)
    <2>1. /\ pc[w] = "dispatch" /\ hand[w].io.operation = "SIG_SEND" /\ Goto(w, "errorCallback")
          /\ UNCHANGED <<object, socketContextMap, closeFlag, count, pending, port>>
      BY <1>9 DEF sendError, Handles, At, contexts
    <2>2. LabelOK("errorCallback", hand[w])
      BY <2>1 DEF LabelOK
    <2> QED BY <1>0, <2>1, <2>2, GotoStep
  <1>10. CASE errorCallbackReturns(w)
    <2>1. /\ pc[w] = "errorCallback" /\ Goto(w, "close")
          /\ UNCHANGED <<object, socketContextMap, closeFlag, count, pending, port>>
      BY <1>10 DEF errorCallbackReturns, At, contexts
    <2>2. LabelOK("close", hand[w])
      BY <2>1, Held DEF LabelOK
    <2> QED BY <1>0, <2>1, <2>2, GotoStep
  <1>11. CASE UseAfterFree(w)
    BY <1>11 DEF UseAfterFree, contexts, CoreInv, CoreNext
  <1>12. CASE sendEmpty(w)
    <2>1. /\ pc[w] = "dispatch" /\ hand[w].io.operation = "SIG_SEND"
          /\ Done(w) \/ Goto(w, "close")
          /\ UNCHANGED <<object, socketContextMap, closeFlag, count, pending, port>>
      BY <1>12 DEF sendEmpty, Handles, At, contexts
    <2>2. LabelOK("close", hand[w])
      BY <2>1 DEF LabelOK
    <2> QED BY <1>0, <2>1, <2>2, GotoStep, DoneStep
  <1> QED BY <1>1, <1>2, <1>3, <1>4, <1>5, <1>6, <1>7, <1>8, <1>9, <1>10, <1>11, <1>12,
             StepDoAccept, StepInsert, StepPostClose, StepDoClose DEF Handler

\* The variables that the ownership argument does not look at.
RestType ==
    /\ IOCPContextMap \in [SocketContexts -> SUBSET Nat]
    /\ gone \subseteq Conns
    /\ sends \in Nat /\ closes \in Nat /\ acceptFails \in Nat
    /\ posting \subseteq [by : Workers, io : IOs, taken : BOOLEAN]
    /\ fault \in BOOLEAN

IInv == CoreInv /\ SendingOK /\ RestType

LEMMA CoreStep ==
  ASSUME CoreInv, SendingOK, [Next]_vars
  PROVE  CoreInv'
  <1>1. CoreNext
    <2>1. CASE UNCHANGED vars
      BY <2>1 DEF vars, contexts, CoreInv, CoreNext
    <2>2. CASE initIOCP \/ Kernel
      BY <2>2, StepInitIOCP, StepKernel
    <2>3. CASE \E c \in Conns : PeerLeaves(c)
      BY <2>3 DEF PeerLeaves, contexts, CoreInv, CoreNext
    <2>4. ASSUME NEW w \in Workers,
                 \/ GetQueuedCompletionStatus(w) \/ Handler(w)
                 \/ sendChecks(w) \/ sendData(w) \/ postSendReturns(w) \/ callbackCloses(w)
          PROVE  CoreNext
      BY <2>4, StepTake, StepHandler, StepSendChecks, StepSendData, StepSendReturns,
         StepCallbackCloses
    <2> QED BY <2>1, <2>2, <2>3, <2>4 DEF Next
  <1> QED BY <1>1 DEF CoreInv, CoreNext

LEMMA RequestTyped ==
  ASSUME CoreInv, RestType, NEW c, RequestClose(c)
  PROVE  IOCPContextMap' \in [SocketContexts -> SUBSET Nat]
  <1>1. CASE c \in socketContextMap /\ ~closeFlag[c]
    <2>1. c \in SocketContexts /\ count[c] \in Nat
      BY <1>1 DEF CoreInv, Core, CoreType, SocketContexts
    <2>2. IOCPContextMap' = [IOCPContextMap EXCEPT ![c] = IOCPContextMap[c] \cup {count[c] + 1}]
      BY <1>1 DEF RequestClose, newKey
    <2> QED BY <2>1, <2>2 DEF RestType
  <1>2. CASE ~(c \in socketContextMap /\ ~closeFlag[c])
    BY <1>2 DEF RequestClose, RestType
  <1> QED BY <1>1, <1>2

\* A worker does not move while it is in sendData, so it is still in its callback after.
LEMMA SendingStep ==
  ASSUME CoreInv, SendingOK, [Next]_vars
  PROVE  SendingOK'
  <1>0. pc \in [Workers -> Labels]
    BY DEF CoreInv, Core, CoreType
  <1>1. ASSUME NEW w \in Workers, w \notin sending, NEW l, pc' = [pc EXCEPT ![w] = l],
               sending' = sending
        PROVE  SendingOK'
    BY <1>0, <1>1 DEF SendingOK
  <1>2. ASSUME pc' = pc, sending' = sending PROVE SendingOK'
    BY <1>2 DEF SendingOK
  <1>3. CASE UNCHANGED vars
    BY <1>2, <1>3 DEF vars, calls
  <1>4. CASE initIOCP
    BY <1>2, <1>4 DEF initIOCP
  <1>5. CASE Kernel
    BY <1>2, <1>5 DEF Kernel, AcceptCompletes, DataArrives, StreamEnds, SendEnds, Aborted, calls
  <1>6. CASE \E c \in Conns : PeerLeaves(c)
    BY <1>2, <1>6 DEF PeerLeaves, calls
  <1>7. ASSUME NEW w \in Workers, GetQueuedCompletionStatus(w) PROVE SendingOK'
    <2>1. pc[w] = "idle" /\ pc' = [pc EXCEPT ![w] = "dispatch"] /\ sending' = sending
      BY <1>7 DEF GetQueuedCompletionStatus, calls
    <2>2. w \notin sending
      BY <2>1 DEF SendingOK
    <2> QED BY <1>1, <2>1, <2>2
  <1>8. ASSUME NEW w \in Workers, sendChecks(w) PROVE SendingOK'
    <2>1. /\ pc[w] \in {"recvCallback", "sendCallback", "errorCallback"}
          /\ sending' = sending \cup {w} /\ pc' = pc
      BY <1>8 DEF sendChecks, InCallback, At
    <2> QED BY <2>1 DEF SendingOK
  <1>9. ASSUME NEW w \in Workers, sendData(w) PROVE SendingOK'
    BY <1>9 DEF sendData, SendingOK
  <1>10. ASSUME NEW w \in Workers, callbackCloses(w) \/ postSendReturns(w) PROVE SendingOK'
    BY <1>2, <1>10 DEF callbackCloses, postSendReturns
  <1>11. ASSUME NEW w \in Workers, Handler(w) PROVE SendingOK'
    <2>1. CASE UseAfterFree(w)
      BY <1>2, <2>1 DEF UseAfterFree, calls
    <2>2. CASE emptyAccept(w) \/ doRecv(w) \/ doSend(w) \/ sendError(w)
               \/ doAccept(w) \/ recvFailed(w) \/ sendEmpty(w) \/ doSendRest(w)
               \/ doCloseConnection(w)
      <3>1. w \notin sending /\ sending' = sending /\ \E l : pc' = [pc EXCEPT ![w] = l]
        BY <2>2 DEF emptyAccept, doRecv, doSend, sendError, doAccept, recvFailed, sendEmpty,
                    doSendRest, doCloseConnection, Handles, At, Goto, Done, calls
      <3> QED BY <1>1, <3>1
    <2>3. CASE insertContext(w) \/ postAccept(w) \/ postRecv(w) \/ releaseSend(w)
               \/ errorCallbackReturns(w) \/ postCloseConnection(w)
      <3>1. w \notin sending /\ sending' = sending /\ \E l : pc' = [pc EXCEPT ![w] = l]
        BY <2>3 DEF insertContext, postAccept, postRecv, releaseSend, errorCallbackReturns,
                    postCloseConnection, At, Goto, Done, calls
      <3> QED BY <1>1, <3>1
    <2> QED BY <1>11, <2>1, <2>2, <2>3 DEF Handler
  <1> QED BY <1>3, <1>4, <1>5, <1>6, <1>7, <1>8, <1>9, <1>10, <1>11 DEF Next

LEMMA RestStep ==
  ASSUME CoreInv, SendingOK, RestType, [Next]_vars
  PROVE  RestType'
  <1>0. /\ Listen \in SocketContexts /\ Conns \subseteq SocketContexts
        /\ \A s \in SocketContexts : count[s] \in Nat
    BY DEF CoreInv, Core, CoreType, SocketContexts
  <1> USE <1>0 DEF RestType
  <1>1. CASE UNCHANGED vars
    BY <1>1 DEF vars, contexts, calls
  <1>2. CASE initIOCP
    <2>1. IOCPContextMap' \in [SocketContexts -> SUBSET Nat]
      BY <1>2 DEF initIOCP, newKey
    <2> QED BY <1>2, <2>1 DEF initIOCP
  <1>3. CASE Kernel
    BY <1>3 DEF Kernel, AcceptCompletes, DataArrives, StreamEnds, SendEnds, Aborted, contexts, calls
  <1>4. CASE \E c \in Conns : PeerLeaves(c)
    BY <1>4 DEF PeerLeaves, contexts, calls
  <1>5. ASSUME NEW w \in Workers, GetQueuedCompletionStatus(w) PROVE RestType'
    BY <1>5 DEF GetQueuedCompletionStatus, contexts, calls
  <1>6. ASSUME NEW w \in Workers, sendData(w) PROVE RestType'
    <2>1. hand[w].io.sc \in SocketContexts
      BY <1>6, SendingUse DEF sendData
    <2>2. IOCPContextMap' \in [SocketContexts -> SUBSET Nat]
      BY <1>6, <2>1 DEF sendData, IO, newKey
    <2>3. IO(hand[w].io.sc, newKey(hand[w].io.sc), "SIG_SEND") \in IOs
      BY <2>1 DEF IO, IOs, Signals, newKey
    <2>4. posting' \subseteq [by : Workers, io : IOs, taken : BOOLEAN]
      <3>1. \E b \in BOOLEAN : posting' = posting \cup
              {PostSend(w, IO(hand[w].io.sc, newKey(hand[w].io.sc), "SIG_SEND"), b)}
        BY <1>6 DEF sendData
      <3> QED BY <2>3, <3>1 DEF PostSend
    <2> QED BY <1>6, <2>2, <2>4 DEF sendData
  <1>7. ASSUME NEW w \in Workers, callbackCloses(w) \/ sendChecks(w) PROVE RestType'
    BY <1>7, RequestTyped DEF callbackCloses, sendChecks, contexts
  <1>8. ASSUME NEW w \in Workers, Handler(w) PROVE RestType'
    <2>1. CASE emptyAccept(w) \/ doRecv(w) \/ postRecv(w) \/ recvFailed(w) \/ sendEmpty(w)
               \/ doSend(w) \/ sendError(w) \/ errorCallbackReturns(w)
      BY <2>1 DEF emptyAccept, doRecv, postRecv, recvFailed, sendEmpty, doSend, sendError,
                  errorCallbackReturns, contexts, calls
    <2>2. CASE doAccept(w)
      <3>1. hand[w].peer \in SocketContexts
        BY <2>2, Held DEF doAccept, Handles, At, PeerIff
      <3> QED BY <2>2, <3>1 DEF doAccept, calls
    <2>3. CASE insertContext(w)
      BY <2>3 DEF insertContext, calls
    <2>4. CASE postAccept(w)
      BY <2>4 DEF postAccept, removeIOCPContext
    <2>5. CASE releaseSend(w)
      BY <2>5 DEF releaseSend, removeIOCPContext, calls
    <2>6. CASE doSendRest(w)
      <3>1. hand[w].io \in IOs
        BY <2>6 DEF doSendRest, Handles, At, CoreInv, Core, CoreType, Packets
      <3>2. \E b \in BOOLEAN : posting' = posting \cup {PostSend(w, hand[w].io, b)}
        BY <2>6 DEF doSendRest
      <3>3. posting' \subseteq [by : Workers, io : IOs, taken : BOOLEAN]
        BY <3>1, <3>2 DEF PostSend
      <3> QED BY <2>6, <3>3 DEF doSendRest, contexts
    <2>7. CASE postCloseConnection(w)
      BY <2>7, RequestTyped DEF postCloseConnection, calls
    <2>8. CASE doCloseConnection(w)
      BY <2>8, StepDoClose DEF doCloseConnection, calls
    <2>9. CASE UseAfterFree(w)
      BY <2>9 DEF UseAfterFree, contexts, calls
    <2> QED BY <1>8, <2>1, <2>2, <2>3, <2>4, <2>5, <2>6, <2>7, <2>8, <2>9 DEF Handler
  <1>9. ASSUME NEW w \in Workers, postSendReturns(w) PROVE RestType'
    <2>1. PICK p \in posting : /\ posting' = posting \ {p}
                              /\ IOCPContextMap' = IF p.taken THEN IOCPContextMap
                                   ELSE removeIOCPContext(p.io.sc, contextIndex(p.io))
      BY <1>9 DEF postSendReturns
    <2>2. IOCPContextMap' \in [SocketContexts -> SUBSET Nat]
      BY <2>1 DEF removeIOCPContext
    <2> QED BY <1>9, <2>1, <2>2 DEF postSendReturns
  <1> QED BY <1>1, <1>2, <1>3, <1>4, <1>5, <1>6, <1>7, <1>8, <1>9 DEF Next

\* The invariant of the ownership argument holds in every reachable state, for every number of
\* workers, connections and standby accepts and every bound on the callbacks' calls.
LEMMA Inductive == Spec => []IInv
  <1>1. Init => IInv
    <2> SUFFICES ASSUME Init PROVE SendingOK /\ RestType
      BY InitCore DEF IInv
    <2> QED BY DEF Init, SendingOK, RestType
  <1>2. IInv /\ [Next]_vars => IInv'
    BY CoreStep, SendingStep, RestStep DEF IInv
  <1> QED BY <1>1, <1>2, PTL DEF Spec

\* What is in flight, in the module's words and in those of the argument.
LEMMA FlightPlace ==
  ASSUME CoreInv, NEW x
  PROVE  x \in InFlight <=> InPlace(x, pending, port, pc, hand)
  <1>1. DOMAIN port = 1 .. Len(port)
    BY DEF CoreInv, Core, CoreType
  <1> QED BY <1>1 DEF InFlight, Busy, InPlace

\* Every variable keeps its type.
THEOREM TypeCorrect == Spec => []TypeOK
  <1>1. IInv => TypeOK
    BY DEF IInv, CoreInv, Core, CoreType, SendingOK, RestType, TypeOK
  <1> QED BY <1>1, Inductive, PTL

\* No operation is given to the kernel twice, queued twice or handled by two workers.
THEOREM OperationsSolelyOwned == Spec => []SoleOwner
  <1>1. IInv => SoleOwner
    <2> SUFFICES ASSUME CoreInv PROVE SoleOwner
      BY DEF IInv
    <2>1. DOMAIN port = 1 .. Len(port)
      BY DEF CoreInv, Core, CoreType
    <2>2. Sole(pending, port, pc, hand)
      BY DEF CoreInv, Core
    <2> QED BY <2>1, <2>2 DEF SoleOwner, Sole, Busy
  <1> QED BY <1>1, Inductive, PTL

\* A connection is closed once, and what doCloseConnection deletes is there.
THEOREM ConnectionsClosedOnce == Spec => []CloseOnce
  <1>1. IInv => CloseOnce
    <2> SUFFICES ASSUME CoreInv, NEW x \in InFlight, x.operation = CLOSE
                 PROVE  /\ object[x.sc] = "alive" /\ closeFlag[x.sc] /\ x.sc \in socketContextMap
                        /\ \A y \in InFlight : y.sc = x.sc /\ y.operation = x.operation => y = x
      BY DEF IInv, CloseOnce, CLOSE
    <2>1. InPlace(x, pending, port, pc, hand)
      BY FlightPlace
    <2>2. OperationOK(x, object, socketContextMap, closeFlag, count)
      BY <2>1 DEF CoreInv, Core, FlightOK
    <2>3. \A y \in InFlight : y.sc = x.sc /\ y.operation = x.operation => y = x
      BY <2>1, FlightPlace DEF CoreInv, Core, CloseUnique
    <2> QED BY <2>2, <2>3 DEF OperationOK
  <1> QED BY <1>1, Inductive, PTL

-------------------------------------------------------------------------------
(* The stages of a connection. *)

\* The refinement mapping, over the values it depends on.
Stage(ob, mp, fl) == [c \in Conns |->
    IF ob[c] = "none" THEN "none"
    ELSE IF ob[c] = "freed" THEN "released"
    ELSE IF c \notin mp THEN "open"
    ELSE IF fl[c] THEN "closing" ELSE "registered"]

\* Only connection c changes.
Only(c, ob, mp, fl, o2, m2, f2) == \A d \in Conns : d # c =>
    o2[d] = ob[d] /\ (d \in m2 <=> d \in mp) /\ f2[d] = fl[d]

OnlyNext(c) == Only(c, object, socketContextMap, closeFlag,
                    object', socketContextMap', closeFlag')

StageNow  == Stage(object, socketContextMap, closeFlag)
StageThen == Stage(object', socketContextMap', closeFlag')

\* A change to one connection changes one stage.
LEMMA StageMove ==
  ASSUME NEW ob, NEW mp, NEW fl, NEW o2, NEW m2, NEW f2, NEW c \in Conns,
         Only(c, ob, mp, fl, o2, m2, f2)
  PROVE  Stage(o2, m2, f2) = [Stage(ob, mp, fl) EXCEPT ![c] = Stage(o2, m2, f2)[c]]
  <1>1. \A d \in Conns : d # c => Stage(o2, m2, f2)[d] = Stage(ob, mp, fl)[d]
    BY DEF Stage, Only
  <1>2. /\ Stage(o2, m2, f2) = [d \in Conns |-> Stage(o2, m2, f2)[d]]
        /\ Stage(ob, mp, fl) = [d \in Conns |-> Stage(ob, mp, fl)[d]]
    BY DEF Stage
  <1> QED BY <1>1, <1>2

LifeMove(c, from, to) ==
    /\ c \in Conns
    /\ StageNow[c] = from /\ StageThen = [StageNow EXCEPT ![c] = to]

LifeStep ==
    \/ StageThen = StageNow
    \/ \E c \in Conns : \/ LifeMove(c, "none", "open") \/ LifeMove(c, "open", "released")
                        \/ LifeMove(c, "open", "registered")
                        \/ LifeMove(c, "registered", "closing")
                        \/ LifeMove(c, "closing", "released")

LEMMA LifeSame ==
  ASSUME UNCHANGED <<object, socketContextMap, closeFlag>>
  PROVE  LifeStep
  BY DEF LifeStep, StageNow, StageThen

LEMMA LifeAccept ==
  ASSUME CoreInv, NEW io \in pending, AcceptCompletes(io)
  PROVE  LifeStep
  <1>1. CASE UNCHANGED object
    BY <1>1, LifeSame DEF AcceptCompletes
  <1>2. CASE \E c \in Conns : object[c] = "none" /\ object' = [object EXCEPT ![c] = "arrived"]
    <2>1. PICK c \in Conns : object[c] = "none" /\ object' = [object EXCEPT ![c] = "arrived"]
      BY <1>2
    <2>2. object'[c] = "arrived" /\ c \notin socketContextMap
          /\ \A d \in Conns : d # c => object'[d] = object[d]
      BY <2>1 DEF CoreInv, Core, CoreType, RegisteredOK
    <2>3. socketContextMap' = socketContextMap /\ closeFlag' = closeFlag
      BY DEF AcceptCompletes
    <2>4. StageThen = [StageNow EXCEPT ![c] = StageThen[c]]
      <3>1. OnlyNext(c)
        BY <2>2, <2>3 DEF OnlyNext, Only
      <3>2. c \in Conns
        OBVIOUS
      <3> QED BY ONLY <3>1, <3>2, StageMove DEF OnlyNext, StageNow, StageThen
    <2>5. StageNow[c] = "none" /\ StageThen[c] = "open"
      BY <2>1, <2>2, <2>3 DEF StageNow, StageThen, Stage
    <2> QED BY <2>4, <2>5 DEF LifeStep, LifeMove
  <1> QED BY <1>1, <1>2 DEF AcceptCompletes

LEMMA LifeDoAccept ==
  ASSUME CoreInv, NEW w \in Workers, doAccept(w)
  PROVE  LifeStep
  <1> DEFINE c == hand[w].peer
  <1>1. /\ pc[w] = "dispatch" /\ hand[w].io.operation = "SIG_ACCEPT" /\ hand[w].result = "data"
        /\ socketContextMap' = socketContextMap /\ closeFlag' = closeFlag
        /\ \/ object' = [object EXCEPT ![c] = "alive"]
           \/ object' = [object EXCEPT ![c] = "freed"]
    BY DEF doAccept, Handles, At
  <1>2. c \in Conns
    BY <1>1, Held DEF PeerIff
  <1>3. object[c] = "arrived"
    BY <1>1, <1>2 DEF CoreInv, Core, PeersOK
  <1> HIDE DEF c
  <1>4. /\ c \notin socketContextMap /\ object'[c] \in {"alive", "freed"}
        /\ \A d \in Conns : d # c => object'[d] = object[d]
    BY <1>1, <1>2, <1>3 DEF CoreInv, Core, CoreType, RegisteredOK
  <1>5. StageThen = [StageNow EXCEPT ![c] = StageThen[c]]
    <2>1. OnlyNext(c)
      BY <1>1, <1>2, <1>4 DEF OnlyNext, Only
    <2> QED BY <1>2, <2>1, StageMove DEF OnlyNext, StageNow, StageThen
  <1>6. StageNow[c] = "open" /\ StageThen[c] \in {"open", "released"}
    BY <1>1, <1>2, <1>3, <1>4 DEF StageNow, StageThen, Stage
  <1>7. StageNow = [d \in Conns |-> StageNow[d]]
    BY DEF StageNow, Stage
  <1>8. CASE StageThen[c] = "open"
    <2>1. StageThen = StageNow
      BY <1>5, <1>6, <1>7, <1>8
    <2> QED BY <2>1 DEF LifeStep
  <1>9. CASE StageThen[c] = "released"
    BY <1>2, <1>5, <1>6, <1>9 DEF LifeStep, LifeMove
  <1> QED BY <1>6, <1>8, <1>9

LEMMA LifeInsert ==
  ASSUME CoreInv, NEW w \in Workers, insertContext(w)
  PROVE  LifeStep
  <1> DEFINE c == hand[w].peer
  <1>1. /\ pc[w] = "insert" /\ socketContextMap' = socketContextMap \cup {c}
        /\ object' = object /\ closeFlag' = closeFlag
    BY DEF insertContext, At
  <1>2. object[c] = "alive"
    BY <1>1 DEF insertContext, At, Usable
  <1>3. c \in Conns
    BY <1>1, Held DEF LabelOK
  <1> HIDE DEF c
  <1>4. CASE c \in socketContextMap
    <2>1. socketContextMap' = socketContextMap
      BY <1>1, <1>4
    <2> QED BY <1>1, <2>1, LifeSame
  <1>5. CASE c \notin socketContextMap
    <2>1. closeFlag[c] = FALSE
      BY <1>2, <1>3, <1>5 DEF CoreInv, Core, CoreType, RegisteredOK
    <2>2. StageThen = [StageNow EXCEPT ![c] = StageThen[c]]
      <3>1. OnlyNext(c)
        BY <1>1, <1>3 DEF OnlyNext, Only
      <3> QED BY <1>3, <3>1, StageMove DEF OnlyNext, StageNow, StageThen
    <2>3. StageNow[c] = "open"
      BY <1>2, <1>3, <1>5 DEF StageNow, Stage
    <2>4. StageThen[c] = "registered"
      <3>1. object'[c] = "alive" /\ c \in socketContextMap' /\ closeFlag'[c] = FALSE
        BY <1>1, <1>2, <2>1
      <3> QED BY <1>3, <3>1 DEF StageThen, Stage
    <2> QED BY <1>3, <2>2, <2>3, <2>4 DEF LifeStep, LifeMove
  <1> QED BY <1>4, <1>5

LEMMA LifeRequest ==
  ASSUME CoreInv, NEW c, RequestClose(c), UNCHANGED <<object, socketContextMap>>
  PROVE  LifeStep
  <1>1. CASE ~(c \in socketContextMap /\ ~closeFlag[c])
    BY <1>1, LifeSame DEF RequestClose
  <1>2. CASE c \in socketContextMap /\ ~closeFlag[c]
    <2>1. /\ c \in Conns /\ object[c] = "alive" /\ closeFlag[c] = FALSE
      BY <1>2 DEF CoreInv, Core, CoreType, RegisteredOK
    <2>2. closeFlag' = [closeFlag EXCEPT ![c] = TRUE]
      BY <1>2 DEF RequestClose
    <2>3. closeFlag'[c] = TRUE /\ \A d \in Conns : d # c => closeFlag'[d] = closeFlag[d]
      BY <2>1, <2>2 DEF CoreInv, Core, CoreType
    <2>4. StageThen = [StageNow EXCEPT ![c] = StageThen[c]]
      <3>1. OnlyNext(c)
        BY <2>1, <2>3 DEF OnlyNext, Only
      <3> QED BY <2>1, <3>1, StageMove DEF OnlyNext, StageNow, StageThen
    <2>5. StageNow[c] = "registered"
      BY <1>2, <2>1 DEF StageNow, Stage
    <2>6. StageThen[c] = "closing"
      BY <1>2, <2>1, <2>3 DEF StageThen, Stage
    <2> QED BY <2>1, <2>4, <2>5, <2>6 DEF LifeStep, LifeMove
  <1> QED BY <1>1, <1>2

LEMMA LifeRelease ==
  ASSUME CoreInv, NEW w \in Workers, doCloseConnection(w)
  PROVE  LifeStep
  <1> DEFINE c == hand[w].io.sc
  <1>1. c \in socketContextMap /\ object[c] = "alive" /\ closeFlag[c] = TRUE /\ c \in Conns
    BY StepDoClose
  <1>2. /\ object' = [object EXCEPT ![c] = "freed"] /\ socketContextMap' = socketContextMap \ {c}
        /\ closeFlag' = closeFlag
    BY <1>1 DEF doCloseConnection
  <1> HIDE DEF c
  <1>3. object'[c] = "freed" /\ \A d \in Conns : d # c => object'[d] = object[d]
    BY <1>1, <1>2 DEF CoreInv, Core, CoreType
  <1>4. StageThen = [StageNow EXCEPT ![c] = StageThen[c]]
    <2>1. OnlyNext(c)
      BY <1>1, <1>2, <1>3 DEF OnlyNext, Only
    <2> QED BY <1>1, <2>1, StageMove DEF OnlyNext, StageNow, StageThen
  <1>5. StageNow[c] = "closing"
    BY <1>1 DEF StageNow, Stage
  <1>6. StageThen[c] = "released"
    BY <1>1, <1>3 DEF StageThen, Stage
  <1> QED BY <1>1, <1>4, <1>5, <1>6 DEF LifeStep, LifeMove

LEMMA LifeNext ==
  ASSUME CoreInv, [Next]_vars
  PROVE  LifeStep
  <1>1. CASE UNCHANGED vars
    BY <1>1, LifeSame DEF vars, contexts
  <1>2. CASE initIOCP
    BY <1>2, LifeSame DEF initIOCP
  <1>3. CASE Kernel
    BY <1>3, LifeAccept, LifeSame DEF Kernel, DataArrives, StreamEnds, SendEnds, Aborted, contexts
  <1>4. CASE \E c \in Conns : PeerLeaves(c)
    BY <1>4, LifeSame DEF PeerLeaves, contexts
  <1>5. ASSUME NEW w \in Workers, GetQueuedCompletionStatus(w) \/ sendChecks(w) \/ sendData(w)
                                  \/ postSendReturns(w)
        PROVE  LifeStep
    BY <1>5, LifeSame DEF GetQueuedCompletionStatus, sendChecks, sendData, postSendReturns, contexts
  <1>6. ASSUME NEW w \in Workers, callbackCloses(w) \/ postCloseConnection(w) PROVE LifeStep
    BY <1>6, LifeRequest DEF callbackCloses, postCloseConnection
  <1>7. ASSUME NEW w \in Workers, \/ emptyAccept(w) \/ doRecv(w) \/ postRecv(w)
                                  \/ recvFailed(w) \/ sendEmpty(w)
                                  \/ doSend(w) \/ sendError(w) \/ errorCallbackReturns(w)
                                  \/ UseAfterFree(w)
        PROVE  LifeStep
    BY <1>7, LifeSame DEF emptyAccept, doRecv, postRecv, recvFailed, sendEmpty, doSend, sendError,
                          errorCallbackReturns, UseAfterFree, contexts
  <1>8. ASSUME NEW w \in Workers, postAccept(w) \/ releaseSend(w) \/ doSendRest(w) PROVE LifeStep
    BY <1>8, LifeSame DEF postAccept, releaseSend, doSendRest, contexts
  <1> QED BY <1>1, <1>2, <1>3, <1>4, <1>5, <1>6, <1>7, <1>8, LifeDoAccept, LifeInsert, LifeRelease
          DEF Next, Handler

\* Every connection goes through the stages of ConnectionLife in order, whatever workers,
\* completions and callbacks do.
THEOREM ConnectionsFollowLife == Spec => ImplementsLife
  <1>1. Init => Life!Init
    <2> SUFFICES ASSUME Init PROVE stage = [c \in Conns |-> "none"]
      BY DEF Life!Init
    <2>1. \A c \in Conns : object[c] = "none"
      BY DEF Init
    <2> QED BY <2>1 DEF stage
  <1>2. IInv /\ [Next]_vars => [Life!Next]_stage
    <2> SUFFICES ASSUME CoreInv, [Next]_vars PROVE [Life!Next]_stage
      BY DEF IInv
    <2>1. LifeStep
      BY LifeNext
    <2>2. stage = StageNow /\ stage' = StageThen
      BY DEF stage, StageNow, StageThen, Stage
    <2> QED BY <2>1, <2>2 DEF LifeStep, LifeMove, Life!Next, Life!Move, Life!Arrive, Life!Drop,
                              Life!Register, Life!Close, Life!Release
  <1> QED BY <1>1, <1>2, Inductive, PTL DEF Spec, ImplementsLife, Life!Spec

-------------------------------------------------------------------------------
(* What a step does to the operations in flight. *)

Now(x)  == InPlace(x, pending, port, pc, hand)
Then(x) == InPlace(x, pending', port', pc', hand')

SameFlight == \A x : Then(x) <=> Now(x)
Drops(w) == \A x : Then(x) <=> Now(x) /\ x # hand[w].io
Gains(io) == \A x : Then(x) <=> Now(x) \/ x = io

LEMMA FlightUnchanged ==
  ASSUME UNCHANGED <<pending, port, pc, hand>>
  PROVE  SameFlight
  BY DEF SameFlight, Now, Then

LEMMA FlightGoto ==
  ASSUME CoreInv, NEW w \in Workers, pc[w] # "idle", NEW l \in Labels, l # "idle", Goto(w, l),
         UNCHANGED <<pending, port>>
  PROVE  SameFlight
  <1>1. /\ pc' = [pc EXCEPT ![w] = l] /\ hand' = hand /\ pending' = pending /\ port' = port
    BY DEF Goto
  <1>2. pc \in [Workers -> Labels] /\ Sole(pending, port, pc, hand)
    BY DEF CoreInv, Core, CoreType
  <1>3. \A x : InPlace(x, pending, port, pc', hand) <=> InPlace(x, pending, port, pc, hand)
    BY <1>1, <1>2, MoveGoto
  <1> QED BY <1>1, <1>3 DEF SameFlight, Now, Then

LEMMA FlightDone ==
  ASSUME CoreInv, NEW w \in Workers, pc[w] # "idle", Done(w), UNCHANGED <<pending, port>>
  PROVE  Drops(w)
  <1>1. /\ pc' = [pc EXCEPT ![w] = "idle"] /\ hand' = [hand EXCEPT ![w] = NoPacket]
        /\ pending' = pending /\ port' = port
    BY DEF Done
  <1>2. /\ pc \in [Workers -> Labels] /\ hand \in [Workers -> Packets \cup {NoPacket}]
        /\ Sole(pending, port, pc, hand)
    BY DEF CoreInv, Core, CoreType
  <1>3. /\ \A v \in Workers : pc'[v] = IF v = w THEN "idle" ELSE pc[v]
        /\ \A v \in Workers : v # w => hand'[v] = hand[v]
    BY <1>1, <1>2
  <1>4. ASSUME NEW x PROVE Then(x) <=> Now(x) /\ x # hand[w].io
    BY <1>1, <1>2, <1>3 DEF InPlace, Sole, Now, Then
  <1> QED BY <1>4 DEF Drops

LEMMA FlightRepost ==
  ASSUME CoreInv, NEW w \in Workers, pc[w] # "idle", Done(w),
         pending' = pending \cup {hand[w].io}, UNCHANGED port
  PROVE  SameFlight
  <1>1. /\ pc' = [pc EXCEPT ![w] = "idle"] /\ hand' = [hand EXCEPT ![w] = NoPacket]
        /\ port' = port
    BY DEF Done
  <1>2. /\ pc \in [Workers -> Labels] /\ hand \in [Workers -> Packets \cup {NoPacket}]
        /\ Sole(pending, port, pc, hand)
    BY DEF CoreInv, Core, CoreType
  <1>3. \A x : InPlace(x, pending \cup {hand[w].io}, port, pc', hand')
                 <=> InPlace(x, pending, port, pc, hand)
    BY <1>1, <1>2, MoveRepost
  <1> QED BY <1>1, <1>3 DEF SameFlight, Now, Then

LEMMA FlightComplete ==
  ASSUME CoreInv, NEW io \in pending, NEW r \in {"data", "part", "zero", "error"},
         NEW c \in Conns \cup {NoConn}, Complete(io, r, c), UNCHANGED <<pc, hand>>
  PROVE  SameFlight
  <1> DEFINE p == Packet(io, r, c)
  <1>1. pending' = pending \ {io} /\ port' = Append(port, p) /\ pc' = pc /\ hand' = hand
    BY DEF Complete
  <1>2. io \in IOs /\ port \in Seq(Packets) /\ Sole(pending, port, pc, hand)
    BY DEF CoreInv, Core, CoreType
  <1>3. p \in Packets /\ p.io = io
    BY <1>2 DEF Packet, Packets
  <1> HIDE DEF p
  <1>4. \A x : InPlace(x, pending \ {io}, Append(port, p), pc, hand)
                 <=> InPlace(x, pending, port, pc, hand)
    BY <1>2, <1>3, MoveComplete
  <1> QED BY <1>1, <1>4 DEF SameFlight, Now, Then

LEMMA FlightTake ==
  ASSUME CoreInv, NEW w \in Workers, GetQueuedCompletionStatus(w)
  PROVE  SameFlight
  <1>1. /\ pending' = pending /\ port' = Tail(port)
        /\ pc' = [pc EXCEPT ![w] = "dispatch"] /\ hand' = [hand EXCEPT ![w] = Head(port)]
        /\ pc[w] = "idle" /\ port # << >>
    BY DEF GetQueuedCompletionStatus
  <1>2. /\ pc \in [Workers -> Labels] /\ hand \in [Workers -> Packets \cup {NoPacket}]
        /\ port \in Seq(Packets) /\ Sole(pending, port, pc, hand)
    BY DEF CoreInv, Core, CoreType
  <1>3. \A x : InPlace(x, pending, Tail(port), pc', hand') <=> InPlace(x, pending, port, pc, hand)
    BY <1>1, <1>2, MoveTake
  <1> QED BY <1>1, <1>3 DEF SameFlight, Now, Then

\* A close packet is put into the port.
LEMMA FlightRequest ==
  ASSUME CoreInv, NEW c \in socketContextMap, ~closeFlag[c], RequestClose(c)
  PROVE  /\ \A x : InPlace(x, pending, port', pc, hand) <=> Now(x) \/ x = IO(c, count[c] + 1, CLOSE)
         /\ Sole(pending, port', pc, hand)
         /\ closeFlag' = [closeFlag EXCEPT ![c] = TRUE]
         /\ count' = [count EXCEPT ![c] = @ + 1]
         /\ IOCPContextMap' = [IOCPContextMap EXCEPT ![c] = @ \cup {count[c] + 1}]
         /\ c \in Conns /\ c \in SocketContexts /\ count[c] \in Nat
  <1> DEFINE io == IO(c, count[c] + 1, CLOSE)
             p == Packet(io, "data", NoConn)
  <1>1. /\ closeFlag' = [closeFlag EXCEPT ![c] = TRUE]
        /\ count' = [count EXCEPT ![c] = @ + 1]
        /\ IOCPContextMap' = [IOCPContextMap EXCEPT ![c] = @ \cup {count[c] + 1}]
        /\ port' = Append(port, p)
    BY DEF RequestClose, newKey, CLOSE
  <1>2. /\ c \in Conns /\ c \in SocketContexts /\ count[c] \in Nat
        /\ port \in Seq(Packets) /\ Sole(pending, port, pc, hand)
    BY DEF CoreInv, Core, CoreType, SocketContexts
  <1>3. io \in IOs
    BY <1>2 DEF IO, IOs, Signals, CLOSE
  <1>4. ~InPlace(io, pending, port, pc, hand)
    BY <1>2, FreshKey DEF CoreInv
  <1>5. p \in Packets /\ p.io = io
    BY <1>3 DEF Packet, Packets
  <1> HIDE DEF io, p
  <1>6. ~InPlace(p.io, pending, port, pc, hand)
    BY <1>4, <1>5
  <1>7. /\ Sole(pending, Append(port, p), pc, hand)
        /\ \A x : InPlace(x, pending, Append(port, p), pc, hand)
                    <=> InPlace(x, pending, port, pc, hand) \/ x = p.io
    BY <1>2, <1>5, <1>6, MoveQueue
  <1>8. \A x : InPlace(x, pending, port', pc, hand) <=> Now(x) \/ x = io
    BY <1>1, <1>5, <1>7 DEF Now
  <1> QED BY <1>1, <1>2, <1>7, <1>8 DEF io

\* The shapes a step may have, seen from the operations in flight. Nothing is posted or dropped.
Moves == SameFlight /\ UNCHANGED <<closeFlag, count, IOCPContextMap, calls, fault>>

\* Worker w drops a receive or a send of a connection that is closing or not registered.
Ends(w) ==
    /\ pc[w] # "idle" /\ Drops(w) /\ hand[w].io.operation \in {"SIG_RECV", "SIG_SEND"}
    /\ hand[w].io.sc \in socketContextMap => closeFlag[hand[w].io.sc]
    /\ pc' = [pc EXCEPT ![w] = "idle"]
    /\ UNCHANGED <<socketContextMap, closeFlag, count, IOCPContextMap, calls, fault>>

\* It drops its operation and asks for the close of connection c instead.
Asks(w, c) ==
    /\ pc[w] # "idle" /\ hand[w].io.operation \in {"SIG_RECV", "SIG_SEND"}
    /\ c = hand[w].io.sc /\ c \in Conns /\ c \in socketContextMap /\ count[c] \in Nat
    /\ \A x : Then(x) <=> (Now(x) /\ x # hand[w].io) \/ x = IO(c, count[c] + 1, CLOSE)
    /\ closeFlag' = [closeFlag EXCEPT ![c] = TRUE]
    /\ count' = [count EXCEPT ![c] = @ + 1]
    /\ IOCPContextMap' = [IOCPContextMap EXCEPT ![c] = @ \cup {count[c] + 1}]
    /\ pc' = [pc EXCEPT ![w] = "idle"]
    /\ UNCHANGED <<socketContextMap, calls, fault>>

\* It deletes connection c.
Deletes(w, c) ==
    /\ pc[w] # "idle" /\ Drops(w) /\ hand[w].io.operation = CLOSE
    /\ c = hand[w].io.sc /\ c \in Conns
    /\ IOCPContextMap' = [IOCPContextMap EXCEPT ![c] = {}]
    /\ UNCHANGED <<closeFlag, count, calls, fault>>

\* It posts the receive of the new connection c.
Opens(w, c) ==
    /\ c \in Conns /\ count[c] = 0 /\ Gains(IO(c, 1, "SIG_RECV"))
    /\ count' = [count EXCEPT ![c] = 1]
    /\ IOCPContextMap' = [IOCPContextMap EXCEPT ![c] = {1}]
    /\ pc[w] = "dispatch" /\ c = hand[w].peer /\ object[c] = "arrived"
    /\ pc' = [pc EXCEPT ![w] = "insert"]
    /\ UNCHANGED <<hand, socketContextMap, closeFlag, calls, fault>>

\* Something that happens only because a callback sends or closes.
Called ==
    /\ \/ sends' > 0 \/ closes' > 0 \/ sending # {} \/ posting # {}
       \/ \E x : Now(x) /\ x.operation = "SIG_SEND"
    /\ sends' >= sends /\ closes' >= closes /\ UNCHANGED <<acceptFails, fault>>
    /\ \A x : Now(x) /\ x.operation # "SIG_SEND" => Then(x)
    /\ count'[Listen] = count[Listen]
    /\ \A c \in Conns : closeFlag[c] => closeFlag'[c]

\* An accept is refused.
Refused ==
    /\ acceptFails' > 0
    /\ \A x : Then(x) => Now(x)
    /\ \A x : Now(x) /\ x.operation # "SIG_ACCEPT" => Then(x)
    /\ UNCHANGED <<closeFlag, sends, closes, sending, posting, fault>>

\* A worker reads what has been deleted.
Faults(w) ==
    /\ SameFlight /\ (pc[w] # "idle" \/ Posting(w)) /\ ~Usable(w) /\ fault' = TRUE
    /\ UNCHANGED <<closeFlag, count, IOCPContextMap, calls>>

Posts ==
    /\ Gains(NewAccept)
    /\ count' = [count EXCEPT ![Listen] = @ + 1]
    /\ IOCPContextMap' = [IOCPContextMap EXCEPT ![Listen] = @ \cup {newKey(Listen)}]
    /\ UNCHANGED <<closeFlag, calls, fault>>

Shaped ==
    \/ Moves \/ Posts \/ Refused \/ Called
    \/ \E w \in Workers :
          Ends(w) \/ Faults(w) \/ \E c \in Conns : Asks(w, c) \/ Deletes(w, c) \/ Opens(w, c)

LEMMA ShapeInit ==
  ASSUME CoreInv, RestType, initIOCP
  PROVE  Posts \/ Refused
  <1>1. Listen \in SocketContexts /\ count[Listen] \in Nat
    BY DEF CoreInv, Core, CoreType, SocketContexts
  <1>2. UNCHANGED <<port, pc, hand, closeFlag, sends, closes, sending, posting, fault>>
    BY DEF initIOCP
  <1>3. CASE /\ IOCPContextMap' = [IOCPContextMap EXCEPT ![Listen] = @ \cup {newKey(Listen)}]
             /\ pending' = pending \cup {NewAccept}
             /\ UNCHANGED acceptFails
    <2>1. ~InPlace(NewAccept, pending, port, pc, hand)
      BY <1>1, FreshKey DEF CoreInv, NewAccept, newKey
    <2>2. Sole(pending, port, pc, hand)
      BY DEF CoreInv, Core
    <2>3. \A x : InPlace(x, pending \cup {NewAccept}, port, pc, hand)
                   <=> InPlace(x, pending, port, pc, hand) \/ x = NewAccept
      BY <2>1, <2>2, MovePost
    <2>4. Gains(NewAccept)
      BY <1>2, <1>3, <2>3 DEF Gains, Now, Then
    <2> QED BY <1>2, <1>3, <2>4 DEF Posts, initIOCP, calls
  <1>4. CASE acceptFails' = acceptFails + 1 /\ UNCHANGED pending
    <2>1. SameFlight
      BY <1>2, <1>4, FlightUnchanged
    <2>2. acceptFails' > 0
      BY <1>4 DEF RestType
    <2> QED BY <1>2, <2>1, <2>2 DEF Refused, SameFlight
  <1> QED BY <1>3, <1>4 DEF initIOCP

LEMMA ShapeKernel ==
  ASSUME CoreInv, Kernel
  PROVE  Moves
  <1>1. PICK io \in pending : AcceptCompletes(io) \/ DataArrives(io) \/ StreamEnds(io)
                              \/ SendEnds(io) \/ Aborted(io)
    BY DEF Kernel
  <1>2. \E r \in {"data", "part", "zero", "error"}, c \in Conns \cup {NoConn} : Complete(io, r, c)
    BY <1>1 DEF AcceptCompletes, DataArrives, StreamEnds, SendEnds, Aborted
  <1>3. UNCHANGED <<closeFlag, count, IOCPContextMap, calls, fault, pc, hand>>
    BY <1>1 DEF AcceptCompletes, DataArrives, StreamEnds, SendEnds, Aborted, contexts
  <1>4. SameFlight
    BY <1>2, <1>3, FlightComplete
  <1> QED BY <1>3, <1>4 DEF Moves

LEMMA ShapeGoto ==
  ASSUME CoreInv, NEW w \in Workers, pc[w] # "idle",
         NEW l \in {"postAccept", "recvCallback", "sendCallback", "errorCallback", "close"},
         Goto(w, l), UNCHANGED <<pending, port, closeFlag, count, IOCPContextMap, calls, fault>>
  PROVE  Moves
  <1>1. l \in Labels /\ l # "idle"
    BY DEF Labels
  <1>2. SameFlight
    BY <1>1, FlightGoto
  <1> QED BY <1>2 DEF Moves

LEMMA ShapeRepost ==
  ASSUME CoreInv, NEW w \in Workers, pc[w] # "idle", Done(w), pending' = pending \cup {hand[w].io},
         UNCHANGED <<port, closeFlag, count, IOCPContextMap, calls, fault>>
  PROVE  Moves
  BY FlightRepost DEF Moves

LEMMA ShapeDoAccept ==
  ASSUME CoreInv, NEW w \in Workers, doAccept(w)
  PROVE  Moves \/ \E c \in Conns : Opens(w, c)
  <1> DEFINE c == hand[w].peer
             io == IO(c, 1, "SIG_RECV")
  <1>1. /\ pc[w] = "dispatch" /\ hand[w].io.operation = "SIG_ACCEPT" /\ hand[w].result = "data"
        /\ UNCHANGED <<socketContextMap, closeFlag, port, calls, fault>>
    BY DEF doAccept, Handles, At
  <1>2. c \in Conns
    BY <1>1, Held DEF PeerIff
  <1>3. object[c] = "arrived"
    BY <1>1, <1>2 DEF CoreInv, Core, PeersOK
  <1>4. count[c] = 0 /\ c \in SocketContexts
    BY <1>2, <1>3 DEF CoreInv, Core, RegisteredOK, SocketContexts
  <1>5. CASE Goto(w, "postAccept") /\ UNCHANGED <<count, IOCPContextMap, pending>>
    BY <1>1, <1>5, ShapeGoto
  <1>6. CASE /\ count' = [count EXCEPT ![c] = 1]
             /\ IOCPContextMap' = [IOCPContextMap EXCEPT ![c] = {1}]
             /\ pending' = pending \cup {io}
             /\ Goto(w, "insert")
    <2>1. ~InPlace(io, pending, port, pc, hand)
      <3>1. ~InPlace(IO(c, count[c] + 1, "SIG_RECV"), pending, port, pc, hand)
        BY <1>4, FreshKey DEF CoreInv
      <3>2. count[c] + 1 = 1
        BY <1>4
      <3> QED BY <3>1, <3>2
    <2>2. Sole(pending, port, pc, hand) /\ pc \in [Workers -> Labels]
      BY DEF CoreInv, Core, CoreType
    <2> HIDE DEF io
    <2>3. /\ \A x : InPlace(x, pending \cup {io}, port, pc, hand)
                   <=> InPlace(x, pending, port, pc, hand) \/ x = io
          /\ Sole(pending \cup {io}, port, pc, hand)
      BY <2>1, <2>2, MovePost
    <2>4. pc' = [pc EXCEPT ![w] = "insert"] /\ hand' = hand /\ "insert" \in Labels
      BY <1>6 DEF Goto, Labels
    <2>5. \A x : InPlace(x, pending \cup {io}, port, pc', hand)
                   <=> InPlace(x, pending \cup {io}, port, pc, hand)
      BY <1>1, <2>2, <2>3, <2>4, MoveGoto
    <2>6. Gains(io)
      BY <1>1, <1>6, <2>3, <2>4, <2>5 DEF Gains, Now, Then
    <2> QED BY <1>1, <1>2, <1>3, <1>4, <1>6, <2>4, <2>6 DEF Opens, io
  <1> QED BY <1>5, <1>6 DEF doAccept

LEMMA ShapePostClose ==
  ASSUME CoreInv, NEW w \in Workers, postCloseConnection(w)
  PROVE  Ends(w) \/ \E c \in Conns : Asks(w, c)
  <1> DEFINE c == hand[w].io.sc
  <1>1. /\ pc[w] = "close" /\ RequestClose(c) /\ Done(w)
        /\ UNCHANGED <<socketContextMap, pending, calls, fault>>
    BY DEF postCloseConnection, At
  <1>2. hand[w].io.operation \in {"SIG_RECV", "SIG_SEND"}
    BY <1>1, Held DEF LabelOK
  <1>3. pc' = [pc EXCEPT ![w] = "idle"] /\ hand' = [hand EXCEPT ![w] = NoPacket]
    BY <1>1 DEF Done
  <1>4. CASE c \in socketContextMap /\ ~closeFlag[c]
    <2> DEFINE new == IO(c, count[c] + 1, CLOSE)
    <2>1. /\ \A x : InPlace(x, pending, port', pc, hand) <=> Now(x) \/ x = new
          /\ closeFlag' = [closeFlag EXCEPT ![c] = TRUE]
          /\ count' = [count EXCEPT ![c] = @ + 1]
          /\ IOCPContextMap' = [IOCPContextMap EXCEPT ![c] = @ \cup {count[c] + 1}]
          /\ c \in Conns /\ count[c] \in Nat
      BY <1>1, <1>4, FlightRequest
    <2>2. Sole(pending, port', pc, hand)
      BY <1>1, <1>4, FlightRequest
    <2>3. new.operation = CLOSE /\ hand[w].io # new
      BY <1>2 DEF IO, CLOSE
    <2>4. /\ pc \in [Workers -> Labels] /\ hand \in [Workers -> Packets \cup {NoPacket}]
      BY DEF CoreInv, Core, CoreType
    <2>5. /\ \A v \in Workers : pc'[v] = IF v = w THEN "idle" ELSE pc[v]
          /\ \A v \in Workers : v # w => hand'[v] = hand[v]
      BY <1>3, <2>4
    <2> HIDE DEF new, c
    <2>6. ASSUME NEW x
          PROVE  Then(x) <=> InPlace(x, pending, port', pc, hand) /\ x # hand[w].io
      BY <1>1, <2>2, <2>5 DEF InPlace, Sole, Then
    <2>7. \A x : Then(x) <=> (Now(x) /\ x # hand[w].io) \/ x = new
      BY <2>1, <2>3, <2>6
    <2> QED BY <1>1, <1>2, <1>3, <1>4, <2>1, <2>7 DEF Asks, new, c
  <1>5. CASE ~(c \in socketContextMap /\ ~closeFlag[c])
    <2>1. UNCHANGED <<closeFlag, count, IOCPContextMap, port>>
      BY <1>1, <1>5 DEF RequestClose
    <2>2. Drops(w)
      BY <1>1, <2>1, FlightDone
    <2> QED BY <1>1, <1>2, <1>3, <1>5, <2>1, <2>2 DEF Ends
  <1> QED BY <1>4, <1>5

LEMMA ShapeDoClose ==
  ASSUME CoreInv, NEW w \in Workers, doCloseConnection(w)
  PROVE  \E c \in Conns : Deletes(w, c)
  <1> DEFINE c == hand[w].io.sc
  <1>1. /\ pc[w] # "idle" /\ hand[w].io.operation = CLOSE /\ Done(w)
        /\ UNCHANGED <<closeFlag, count, pending, port, calls, fault>>
    BY DEF doCloseConnection, Handles, At, CLOSE
  <1>2. c \in Conns /\ c \in socketContextMap
    BY StepDoClose
  <1>3. IOCPContextMap' = [IOCPContextMap EXCEPT ![c] = {}]
    BY <1>2 DEF doCloseConnection
  <1>4. Drops(w)
    BY <1>1, FlightDone
  <1> QED BY <1>1, <1>2, <1>3, <1>4 DEF Deletes

LEMMA ShapeSendData ==
  ASSUME CoreInv, SendingOK, RestType, NEW w \in Workers, sendData(w)
  PROVE  Called
  <1> DEFINE c == hand[w].io.sc
  <1>1. c \in Conns /\ c # Listen /\ Listen \in SocketContexts
    BY SendingUse, NamesAssumption DEF sendData, SocketContexts
  <1>2. /\ w \in sending /\ count' = [count EXCEPT ![c] = @ + 1]
        /\ pending \subseteq pending'
        /\ UNCHANGED <<closeFlag, port, pc, hand, sends, closes, acceptFails, fault>>
    BY DEF sendData
  <1>3. \A x : Now(x) => Then(x)
    BY <1>2 DEF Now, Then, InPlace
  <1>4. count'[Listen] = count[Listen]
    BY <1>1, <1>2 DEF CoreInv, Core, CoreType
  <1> QED BY <1>2, <1>3, <1>4 DEF Called, RestType

LEMMA ShapeCallbackCloses ==
  ASSUME CoreInv, RestType, NEW w \in Workers, callbackCloses(w)
  PROVE  Called
  <1> DEFINE c == hand[w].io.sc
  <1>1. /\ RequestClose(c) /\ closes' = closes + 1
        /\ UNCHANGED <<pending, pc, hand, sends, acceptFails, fault>>
    BY DEF callbackCloses
  <1>2. closes' > 0 /\ closes' >= closes /\ sends' >= sends
    BY <1>1 DEF RestType
  <1>3. CASE c \in socketContextMap /\ ~closeFlag[c]
    <2>1. /\ \A x : InPlace(x, pending, port', pc, hand) <=> Now(x) \/ x = IO(c, count[c] + 1, CLOSE)
          /\ closeFlag' = [closeFlag EXCEPT ![c] = TRUE]
          /\ count' = [count EXCEPT ![c] = @ + 1]
          /\ c \in Conns
      BY <1>1, <1>3, FlightRequest
    <2>2. \A x : Now(x) => Then(x)
      BY <1>1, <2>1 DEF Then
    <2>3. count'[Listen] = count[Listen] /\ \A d \in Conns : closeFlag[d] => closeFlag'[d]
      BY <2>1, NamesAssumption DEF CoreInv, Core, CoreType, SocketContexts
    <2> QED BY <1>1, <1>2, <2>2, <2>3 DEF Called
  <1>4. CASE ~(c \in socketContextMap /\ ~closeFlag[c])
    <2>1. UNCHANGED <<closeFlag, count, port>>
      BY <1>1, <1>4 DEF RequestClose
    <2>2. SameFlight
      BY <1>1, <2>1, FlightUnchanged
    <2> QED BY <1>1, <1>2, <2>1, <2>2 DEF Called, SameFlight
  <1> QED BY <1>3, <1>4

LEMMA ShapeSendChecks ==
  ASSUME CoreInv, RestType, NEW w \in Workers, sendChecks(w)
  PROVE  Called
  <1>1. /\ sends' = sends + 1
        /\ UNCHANGED <<closeFlag, count, pending, port, pc, hand, closes, acceptFails, fault>>
    BY DEF sendChecks, contexts
  <1>2. SameFlight
    BY <1>1, FlightUnchanged
  <1>3. sends' > 0 /\ sends' >= sends /\ closes' >= closes
    BY <1>1 DEF RestType
  <1> QED BY <1>1, <1>2, <1>3 DEF Called, SameFlight

\* Steps of a worker that handles a send.
LEMMA ShapeSendHandled ==
  ASSUME CoreInv, RestType, NEW w \in Workers, pc[w] # "idle", hand[w].io.operation = "SIG_SEND",
         Drops(w) \/ SameFlight, UNCHANGED <<closeFlag, count, sends, closes, acceptFails, fault>>
  PROVE  Called
  <1>1. Now(hand[w].io)
    BY DEF Now, InPlace
  <1>2. \A x : Now(x) /\ x.operation # "SIG_SEND" => Then(x)
    BY DEF Drops, SameFlight
  <1>3. sends' >= sends /\ closes' >= closes
    BY DEF RestType
  <1> QED BY <1>1, <1>2, <1>3 DEF Called

LEMMA ShapeHandler ==
  ASSUME CoreInv, RestType, NEW w \in Workers, Handler(w)
  PROVE  Shaped
  <1>1. CASE emptyAccept(w)
    <2>1. /\ pc[w] # "idle" /\ Goto(w, "postAccept")
          /\ UNCHANGED <<pending, port, closeFlag, count, IOCPContextMap, calls, fault>>
      BY <1>1 DEF emptyAccept, Handles, At, contexts
    <2> QED BY <2>1, ShapeGoto DEF Shaped
  <1>2. CASE insertContext(w)
    <2>1. /\ pc[w] # "idle" /\ Goto(w, "postAccept")
          /\ UNCHANGED <<pending, port, closeFlag, count, IOCPContextMap, calls, fault>>
      BY <1>2 DEF insertContext, At
    <2> QED BY <2>1, ShapeGoto DEF Shaped
  <1>3. CASE doRecv(w)
    <2>1. /\ pc[w] # "idle" /\ Goto(w, "recvCallback")
          /\ UNCHANGED <<pending, port, closeFlag, count, IOCPContextMap, calls, fault>>
      BY <1>3 DEF doRecv, Handles, At, contexts
    <2> QED BY <2>1, ShapeGoto DEF Shaped
  <1>4. CASE doSend(w)
    <2>1. /\ pc[w] # "idle" /\ Goto(w, "sendCallback")
          /\ UNCHANGED <<pending, port, closeFlag, count, IOCPContextMap, calls, fault>>
      BY <1>4 DEF doSend, Handles, At, contexts
    <2> QED BY <2>1, ShapeGoto DEF Shaped
  <1>5. CASE sendError(w)
    <2>1. /\ pc[w] # "idle" /\ Goto(w, "errorCallback")
          /\ UNCHANGED <<pending, port, closeFlag, count, IOCPContextMap, calls, fault>>
      BY <1>5 DEF sendError, Handles, At, contexts
    <2> QED BY <2>1, ShapeGoto DEF Shaped
  <1>6. CASE errorCallbackReturns(w)
    <2>1. /\ pc[w] # "idle" /\ Goto(w, "close")
          /\ UNCHANGED <<pending, port, closeFlag, count, IOCPContextMap, calls, fault>>
      BY <1>6 DEF errorCallbackReturns, At, contexts
    <2> QED BY <2>1, ShapeGoto DEF Shaped
  <1>7. CASE postRecv(w)
    <2>1. /\ pc[w] # "idle"
          /\ \/ pending' = pending \cup {hand[w].io} /\ Done(w)
             \/ Goto(w, "close") /\ UNCHANGED pending
          /\ UNCHANGED <<port, closeFlag, count, IOCPContextMap, calls, fault>>
      BY <1>7 DEF postRecv, At, contexts
    <2> QED BY <2>1, ShapeGoto, ShapeRepost DEF Shaped
  <1>8. CASE postAccept(w)
    <2>1. /\ pc[w] = "postAccept" /\ Done(w)
          /\ UNCHANGED <<closeFlag, count, port, sends, closes, sending, posting, fault>>
      BY <1>8 DEF postAccept, At
    <2>2. CASE pending' = pending \cup {hand[w].io} /\ UNCHANGED <<IOCPContextMap, acceptFails>>
      BY <2>1, <2>2, ShapeRepost DEF Shaped, calls
    <2>3. CASE acceptFails' = acceptFails + 1 /\ UNCHANGED pending
      <3>1. Drops(w)
        BY <2>1, <2>3, FlightDone
      <3>2. hand[w].io.operation = "SIG_ACCEPT"
        BY <2>1, Held DEF LabelOK
      <3>3. acceptFails' > 0
        BY <2>3 DEF RestType
      <3> QED BY <2>1, <3>1, <3>2, <3>3 DEF Refused, Drops, Shaped
    <2> QED BY <1>8, <2>2, <2>3 DEF postAccept
  <1>9. CASE recvFailed(w)
    <2>1. /\ pc[w] # "idle" /\ hand[w].io.operation = "SIG_RECV"
          /\ UNCHANGED <<socketContextMap, pending, port, closeFlag, count, IOCPContextMap, calls, fault>>
      BY <1>9 DEF recvFailed, Handles, At, contexts
    <2>2. CASE Goto(w, "close")
      BY <2>1, <2>2, ShapeGoto DEF Shaped
    <2>3. CASE Done(w) /\ closeFlag[hand[w].io.sc]
      <3>1. Drops(w)
        BY <2>1, <2>3, FlightDone
      <3> QED BY <2>1, <2>3, <3>1 DEF Ends, Shaped, Done
    <2> QED BY <1>9, <2>2, <2>3 DEF recvFailed
  <1>10. CASE sendEmpty(w)
    <2>1. /\ pc[w] # "idle" /\ hand[w].io.operation = "SIG_SEND"
          /\ UNCHANGED <<pending, port, closeFlag, count, IOCPContextMap, calls, fault>>
      BY <1>10 DEF sendEmpty, Handles, At, contexts
    <2>2. CASE Goto(w, "close")
      BY <2>1, <2>2, ShapeGoto DEF Shaped
    <2>3. CASE Done(w)
      BY <2>1, <2>3, FlightDone, ShapeSendHandled DEF Shaped, calls
    <2> QED BY <1>10, <2>2, <2>3 DEF sendEmpty
  <1>11. CASE releaseSend(w)
    <2>1. /\ pc[w] = "sendCallback" /\ Done(w)
          /\ UNCHANGED <<pending, port, closeFlag, count, calls, fault>>
      BY <1>11 DEF releaseSend, At
    <2>2. hand[w].io.operation = "SIG_SEND"
      BY <2>1, Held DEF LabelOK
    <2> QED BY <2>1, <2>2, FlightDone, ShapeSendHandled DEF Shaped, calls
  <1>12. CASE doSendRest(w)
    <2>1. /\ pc[w] # "idle" /\ hand[w].io.operation = "SIG_SEND"
          /\ UNCHANGED <<port, closeFlag, count, sends, closes, acceptFails, fault>>
          /\ \/ pending' = pending \cup {hand[w].io} /\ Done(w)
             \/ Goto(w, "close") /\ UNCHANGED pending
      BY <1>12 DEF doSendRest, Handles, At, contexts
    <2>2. "close" \in Labels
      BY DEF Labels
    <2>3. SameFlight
      BY <2>1, <2>2, FlightRepost, FlightGoto
    <2> QED BY <2>1, <2>3, ShapeSendHandled DEF Shaped
  <1>13. CASE UseAfterFree(w)
    <2>1. /\ (pc[w] # "idle" \/ Posting(w)) /\ ~Usable(w) /\ fault' = TRUE
          /\ UNCHANGED <<pending, port, pc, hand, closeFlag, count, IOCPContextMap, calls>>
      BY <1>13 DEF UseAfterFree, contexts
    <2> QED BY <2>1, FlightUnchanged DEF Faults, Shaped
  <1> QED BY <1>1, <1>2, <1>3, <1>4, <1>5, <1>6, <1>7, <1>8, <1>9, <1>10, <1>11, <1>12, <1>13,
             ShapeDoAccept, ShapePostClose, ShapeDoClose DEF Handler, Shaped

\* Every step has one of the shapes.
LEMMA ShapeOfStep ==
  ASSUME IInv, [Next]_vars
  PROVE  Shaped
  <1> USE DEF IInv
  <1>1. CASE UNCHANGED vars
    <2>1. SameFlight
      BY <1>1, FlightUnchanged DEF vars
    <2> QED BY <1>1, <2>1 DEF vars, contexts, Moves, Shaped
  <1>2. CASE initIOCP \/ Kernel
    BY <1>2, ShapeInit, ShapeKernel DEF Shaped
  <1>3. ASSUME NEW c \in Conns, PeerLeaves(c) PROVE Shaped
    <2>1. SameFlight
      BY <1>3, FlightUnchanged DEF PeerLeaves
    <2> QED BY <1>3, <2>1 DEF PeerLeaves, contexts, Moves, Shaped
  <1>4. ASSUME NEW w \in Workers, GetQueuedCompletionStatus(w) PROVE Shaped
    <2>1. SameFlight
      BY <1>4, FlightTake
    <2> QED BY <1>4, <2>1 DEF GetQueuedCompletionStatus, contexts, Moves, Shaped
  <1>5. ASSUME NEW w \in Workers, Handler(w) \/ sendChecks(w) \/ sendData(w) \/ callbackCloses(w)
        PROVE  Shaped
    BY <1>5, ShapeHandler, ShapeSendChecks, ShapeSendData, ShapeCallbackCloses DEF Shaped
  <1>6. ASSUME NEW w \in Workers, postSendReturns(w) PROVE Shaped
    <2>1. posting # {} /\ UNCHANGED <<closeFlag, count, sends, closes, acceptFails, fault>>
      BY <1>6 DEF postSendReturns
    <2>2. SameFlight
      BY <1>6, FlightUnchanged DEF postSendReturns
    <2>3. sends' >= sends /\ closes' >= closes
      BY <2>1 DEF RestType
    <2> QED BY <2>1, <2>2, <2>3 DEF Called, SameFlight, Shaped
  <1> QED BY <1>1, <1>2, <1>3, <1>4, <1>5, <1>6 DEF Next

-------------------------------------------------------------------------------
(* A server whose callbacks neither send nor close. *)

Silent == sends = 0 /\ closes = 0

\* No send is in flight then, and of a connection only one operation is.
OnlyOne == Silent =>
    /\ sending = {} /\ posting = {}
    /\ \A x : Now(x) => x.operation # "SIG_SEND"
    /\ \A x, y : Now(x) /\ Now(y) /\ x.sc = y.sc /\ x.sc # Listen => x = y

\* Every accept that was posted is in flight, unless one was refused.
AcceptsKept == acceptFails = 0 => \A k \in 1 .. count[Listen] : Now(IO(Listen, k, "SIG_ACCEPT"))

\* What is in flight has not been deleted, and no worker has read what has.
NoneFreed == Silent /\ acceptFails = 0 =>
    /\ \A x : Now(x) => x.key \in IOCPContextMap[x.sc]
    /\ ~fault

\* The connection that a worker is about to register is there, and nobody else registers it.
InsertOK ==
    /\ \A w \in Workers : pc[w] = "insert" =>
          object[hand[w].peer] = "alive" /\ hand[w].peer \notin socketContextMap
    /\ \A v, w \in Workers : pc[v] = "insert" /\ pc[w] = "insert" /\ hand[v].peer = hand[w].peer => v = w

LEMMA CountTyped ==
  ASSUME IInv
  PROVE  /\ \A s \in SocketContexts : count[s] \in Nat
         /\ count \in [SocketContexts -> Nat] /\ Listen \in SocketContexts /\ Conns \subseteq SocketContexts
         /\ Listen \notin Conns
         /\ IOCPContextMap \in [SocketContexts -> SUBSET Nat]
         /\ sends \in Nat /\ closes \in Nat /\ acceptFails \in Nat
  BY NamesAssumption DEF IInv, RestType, CoreInv, Core, CoreType, SocketContexts

LEMMA NowPrimed == \A x : Now(x)' <=> Then(x)
  BY DEF Now, Then

\* What is in flight is an operation of some context, and its key has been given out.
LEMMA NowKnown ==
  ASSUME IInv, NEW x, Now(x)
  PROVE  /\ x \in IOs /\ x.sc \in SocketContexts /\ x.key \in 1 .. count[x.sc]
         /\ x.operation = "SIG_ACCEPT" <=> x.sc = Listen
  <1>1. x \in IOs
    BY FlightTyped DEF IInv, CoreInv, Core, Now
  <1>2. OperationOK(x, object, socketContextMap, closeFlag, count)
    BY DEF IInv, CoreInv, Core, FlightOK, Now
  <1> QED BY <1>1, <1>2 DEF OperationOK, IOs

LEMMA OnlyOneStep ==
  ASSUME IInv, OnlyOne, [Next]_vars
  PROVE  OnlyOne'
  <1> SUFFICES ASSUME sends' = 0, closes' = 0
               PROVE  /\ sending' = {} /\ posting' = {}
                      /\ \A x : Then(x) => x.operation # "SIG_SEND"
                      /\ \A x, y : Then(x) /\ Then(y) /\ x.sc = y.sc /\ x.sc # Listen => x = y
    BY NowPrimed DEF OnlyOne, Silent
  <1>0. Shaped
    BY ShapeOfStep
  <1>1. sends = 0 /\ closes = 0
    BY <1>0, CountTyped DEF Shaped, Moves, Posts, Refused, Called, Ends, Faults, Asks, Deletes, Opens, calls
  <1>2. /\ sending = {} /\ posting = {}
        /\ \A x : Now(x) => x.operation # "SIG_SEND"
        /\ \A x, y : Now(x) /\ Now(y) /\ x.sc = y.sc /\ x.sc # Listen => x = y
    BY <1>1 DEF OnlyOne, Silent
  <1>3. CASE Moves
    BY <1>2, <1>3 DEF Moves, SameFlight, calls
  <1>4. CASE Posts
    <2>1. NewAccept.sc = Listen /\ NewAccept.operation # "SIG_SEND"
      BY DEF NewAccept, IO
    <2> QED BY <1>2, <1>4, <2>1 DEF Posts, Gains, calls
  <1>5. CASE Refused
    BY <1>2, <1>5 DEF Refused
  <1>6. CASE Called
    BY <1>2, <1>6 DEF Called
  <1>7. ASSUME NEW w \in Workers, Ends(w) PROVE sending' = {} /\ posting' = {} /\ \A x : Then(x) => Now(x)
    BY <1>2, <1>7 DEF Ends, Drops, calls
  <1>8. ASSUME NEW w \in Workers, Faults(w) PROVE sending' = {} /\ posting' = {} /\ \A x : Then(x) => Now(x)
    BY <1>2, <1>8 DEF Faults, SameFlight, calls
  <1>9. ASSUME NEW w \in Workers, NEW c \in Conns, Deletes(w, c)
        PROVE  sending' = {} /\ posting' = {} /\ \A x : Then(x) => Now(x)
    BY <1>2, <1>9 DEF Deletes, Drops, calls
  <1>10. ASSUME NEW w \in Workers, NEW c \in Conns, Asks(w, c)
         PROVE  /\ sending' = {} /\ posting' = {} /\ \A x : Then(x) => x.operation # "SIG_SEND"
                /\ \A x, y : Then(x) /\ Then(y) /\ x.sc = y.sc /\ x.sc # Listen => x = y
    <2> DEFINE new == IO(c, count[c] + 1, CLOSE)
    <2>1. new.sc = c /\ new.operation # "SIG_SEND"
      BY DEF IO, CLOSE
    <2>2. Now(hand[w].io) /\ hand[w].io.sc = c /\ c # Listen
      BY <1>10, CountTyped DEF Asks, Now, InPlace
    <2>3. sending' = {} /\ posting' = {} /\ \A x : Then(x) <=> (Now(x) /\ x # hand[w].io) \/ x = new
      BY <1>2, <1>10 DEF Asks, calls
    <2> HIDE DEF new
    <2>4. \A x : Now(x) /\ x.sc = c => x = hand[w].io
      BY <1>2, <2>2
    <2> QED BY <1>2, <2>1, <2>2, <2>3, <2>4
  <1>11. ASSUME NEW w \in Workers, NEW c \in Conns, Opens(w, c)
         PROVE  /\ sending' = {} /\ posting' = {} /\ \A x : Then(x) => x.operation # "SIG_SEND"
                /\ \A x, y : Then(x) /\ Then(y) /\ x.sc = y.sc /\ x.sc # Listen => x = y
    <2> DEFINE new == IO(c, 1, "SIG_RECV")
    <2>1. new.sc = c /\ new.operation # "SIG_SEND"
      BY DEF IO
    <2>2. sending' = {} /\ posting' = {} /\ count[c] = 0 /\ \A x : Then(x) <=> Now(x) \/ x = new
      BY <1>2, <1>11 DEF Opens, Gains, calls
    <2> HIDE DEF new
    <2>3. \A x : Now(x) => x.sc # c
      BY <2>2, NowKnown
    <2> QED BY <1>2, <2>1, <2>2, <2>3
  <1> QED BY <1>0, <1>2, <1>3, <1>4, <1>5, <1>6, <1>7, <1>8, <1>9, <1>10, <1>11 DEF Shaped

LEMMA AcceptsKeptStep ==
  ASSUME IInv, AcceptsKept, [Next]_vars
  PROVE  AcceptsKept'
  <1> SUFFICES ASSUME acceptFails' = 0, NEW k \in 1 .. count'[Listen]
               PROVE  Then(IO(Listen, k, "SIG_ACCEPT"))
    BY NowPrimed DEF AcceptsKept
  <1> DEFINE a == IO(Listen, k, "SIG_ACCEPT")
  <1>0. Shaped
    BY ShapeOfStep
  <1>1. acceptFails = 0
    BY <1>0, CountTyped DEF Shaped, Moves, Posts, Refused, Called, Ends, Faults, Asks, Deletes, Opens, calls
  <1>2. a.operation = "SIG_ACCEPT" /\ a.sc = Listen /\ a.key = k
    BY DEF IO
  <1>3. k \in 1 .. count[Listen] => Now(a)
    BY <1>1 DEF AcceptsKept
  <1> HIDE DEF a
  <1>4. CASE Posts
    <2>1. count'[Listen] = count[Listen] + 1 /\ count[Listen] \in Nat
      BY <1>4, CountTyped DEF Posts
    <2>2. CASE k = count[Listen] + 1
      <3>1. a = NewAccept
        BY <2>2 DEF a, NewAccept, newKey
      <3> QED BY <1>4, <3>1 DEF Posts, Gains, a
    <2>3. CASE k \in 1 .. count[Listen]
      BY <1>3, <1>4, <2>3 DEF Posts, Gains, a
    <2> QED BY <2>1, <2>2, <2>3
  <1>5. CASE Moves
    BY <1>3, <1>5 DEF Moves, SameFlight, a
  <1>6. CASE Refused
    BY <1>6 DEF Refused
  <1>7. CASE Called
    BY <1>2, <1>3, <1>7 DEF Called, a
  <1>8. ASSUME NEW w \in Workers, Ends(w) PROVE Then(a)
    BY <1>2, <1>3, <1>8 DEF Ends, Drops
  <1>9. ASSUME NEW w \in Workers, Faults(w) PROVE Then(a)
    BY <1>3, <1>9 DEF Faults, SameFlight
  <1>10. ASSUME NEW w \in Workers, NEW c \in Conns, Deletes(w, c) PROVE Then(a)
    BY <1>2, <1>3, <1>10 DEF Deletes, Drops, CLOSE
  <1>11. ASSUME NEW w \in Workers, NEW c \in Conns, Asks(w, c) PROVE Then(a)
    <2>1. count'[Listen] = count[Listen]
      BY <1>11, CountTyped DEF Asks
    <2> QED BY <1>2, <1>3, <1>11, <2>1 DEF Asks
  <1>12. ASSUME NEW w \in Workers, NEW c \in Conns, Opens(w, c) PROVE Then(a)
    <2>1. count'[Listen] = count[Listen]
      BY <1>12, CountTyped DEF Opens
    <2> QED BY <1>3, <1>12, <2>1 DEF Opens, Gains
  <1> QED BY <1>0, <1>4, <1>5, <1>6, <1>7, <1>8, <1>9, <1>10, <1>11, <1>12 DEF Shaped, a

LEMMA NoneFreedStep ==
  ASSUME IInv, OnlyOne, InsertOK, NoneFreed, [Next]_vars
  PROVE  NoneFreed'
  <1> SUFFICES ASSUME sends' = 0, closes' = 0, acceptFails' = 0
               PROVE  (\A x : Then(x) => x.key \in IOCPContextMap'[x.sc]) /\ ~fault'
    BY NowPrimed DEF NoneFreed, Silent
  <1>0. Shaped
    BY ShapeOfStep
  <1>1. sends = 0 /\ closes = 0 /\ acceptFails = 0
    BY <1>0, CountTyped DEF Shaped, Moves, Posts, Refused, Called, Ends, Faults, Asks, Deletes, Opens, calls
  <1>2. /\ sending = {} /\ posting = {} /\ ~fault
        /\ \A x : Now(x) => x.key \in IOCPContextMap[x.sc] /\ x.operation # "SIG_SEND"
        /\ \A x, y : Now(x) /\ Now(y) /\ x.sc = y.sc /\ x.sc # Listen => x = y
    BY <1>1 DEF OnlyOne, NoneFreed, Silent
  <1>3. CASE Moves
    BY <1>2, <1>3 DEF Moves, SameFlight
  <1>4. CASE Posts
    <2>1. NewAccept.sc = Listen /\ NewAccept.key = newKey(Listen)
      BY DEF NewAccept, IO
    <2>2. \A s \in SocketContexts : IOCPContextMap[s] \subseteq IOCPContextMap'[s]
      BY <1>4, CountTyped DEF Posts
    <2>3. NewAccept.key \in IOCPContextMap'[Listen]
      BY <1>4, <2>1, CountTyped DEF Posts
    <2> QED BY <1>2, <1>4, <2>1, <2>2, <2>3, NowKnown DEF Posts, Gains
  <1>5. CASE Refused
    BY <1>5 DEF Refused
  <1>6. CASE Called
    BY <1>2, <1>6 DEF Called
  <1>7. ASSUME NEW w \in Workers, Ends(w)
        PROVE  (\A x : Then(x) => x.key \in IOCPContextMap'[x.sc]) /\ ~fault'
    BY <1>2, <1>7 DEF Ends, Drops
  <1>8. ASSUME NEW w \in Workers, Faults(w) PROVE FALSE
    <2>0. ~Posting(w)
      BY <1>2 DEF Posting
    <2>1. Now(hand[w].io) /\ pc[w] # "idle"
      BY <1>8, <2>0 DEF Faults, Now, InPlace
    <2>2. Allocated(hand[w].io)
      BY <1>2, <2>1 DEF Allocated
    <2>3. pc[w] = "insert" => object[hand[w].peer] = "alive"
      BY DEF InsertOK
    <2>4. Usable(w)
      BY <1>2, <2>0, <2>2, <2>3 DEF Usable
    <2> QED BY <1>8, <2>4 DEF Faults
  <1>9. ASSUME NEW w \in Workers, NEW c \in Conns, Deletes(w, c)
        PROVE  (\A x : Then(x) => x.key \in IOCPContextMap'[x.sc]) /\ ~fault'
    <2>1. Now(hand[w].io) /\ hand[w].io.sc = c /\ c # Listen
      BY <1>9, CountTyped DEF Deletes, Now, InPlace
    <2>2. \A x : Then(x) => Now(x) /\ x.sc # c
      BY <1>2, <1>9, <2>1 DEF Deletes, Drops
    <2>3. \A s \in SocketContexts : s # c => IOCPContextMap'[s] = IOCPContextMap[s]
      BY <1>9, CountTyped DEF Deletes
    <2> QED BY <1>2, <1>9, <2>2, <2>3, NowKnown DEF Deletes
  <1>10. ASSUME NEW w \in Workers, NEW c \in Conns, Asks(w, c)
         PROVE  (\A x : Then(x) => x.key \in IOCPContextMap'[x.sc]) /\ ~fault'
    <2> DEFINE new == IO(c, count[c] + 1, CLOSE)
    <2>1. new.sc = c /\ new.key = count[c] + 1
      BY DEF IO
    <2>2. \A x : Then(x) => Now(x) \/ x = new
      BY <1>10 DEF Asks
    <2>3. \A s \in SocketContexts : IOCPContextMap[s] \subseteq IOCPContextMap'[s]
      BY <1>10, CountTyped DEF Asks
    <2>4. new.key \in IOCPContextMap'[c]
      BY <1>10, <2>1, CountTyped DEF Asks
    <2> HIDE DEF new
    <2> QED BY <1>2, <1>10, <2>1, <2>2, <2>3, <2>4, NowKnown DEF Asks
  <1>11. ASSUME NEW w \in Workers, NEW c \in Conns, Opens(w, c)
         PROVE  (\A x : Then(x) => x.key \in IOCPContextMap'[x.sc]) /\ ~fault'
    <2> DEFINE new == IO(c, 1, "SIG_RECV")
    <2>1. new.sc = c /\ new.key = 1
      BY DEF IO
    <2>2. count[c] = 0 /\ \A x : Then(x) <=> Now(x) \/ x = new
      BY <1>11 DEF Opens, Gains
    <2> HIDE DEF new
    <2>3. \A x : Now(x) => x.sc # c
      BY <2>2, NowKnown
    <2>4. /\ \A s \in SocketContexts : s # c => IOCPContextMap'[s] = IOCPContextMap[s]
          /\ IOCPContextMap'[c] = {1}
      BY <1>11, CountTyped DEF Opens
    <2> QED BY <1>2, <1>11, <2>1, <2>2, <2>3, <2>4, NowKnown DEF Opens
  <1> QED BY <1>0, <1>3, <1>4, <1>5, <1>6, <1>7, <1>8, <1>9, <1>10, <1>11 DEF Shaped

\* Steps that neither bring a worker to "insert" nor touch what is about to be registered.
LEMMA InsertShrinks ==
  ASSUME InsertOK,
         \A v \in Workers : pc'[v] = "insert" => /\ pc[v] = "insert" /\ hand'[v] = hand[v]
                                                 /\ object'[hand[v].peer] = object[hand[v].peer],
         socketContextMap' \subseteq socketContextMap
  PROVE  InsertOK'
  BY DEF InsertOK

LEMMA InsertLeft ==
  ASSUME CoreInv, InsertOK, NEW w \in Workers, Goto(w, "postAccept") \/ Goto(w, "recvCallback")
           \/ Goto(w, "sendCallback") \/ Goto(w, "errorCallback") \/ Goto(w, "close") \/ Done(w),
         UNCHANGED <<object, socketContextMap>>
  PROVE  InsertOK'
  <1>1. pc \in [Workers -> Labels] /\ hand \in [Workers -> Packets \cup {NoPacket}]
    BY DEF CoreInv, Core, CoreType
  <1>2. \A v \in Workers : pc'[v] = "insert" => pc[v] = "insert" /\ hand'[v] = hand[v]
    BY <1>1 DEF Goto, Done
  <1> QED BY <1>2, InsertShrinks

LEMMA InsertOKHandler ==
  ASSUME CoreInv, InsertOK, NEW w \in Workers, Handler(w)
  PROVE  InsertOK'
  <1>0. /\ pc \in [Workers -> Labels] /\ hand \in [Workers -> Packets \cup {NoPacket}]
        /\ object \in [Conns -> {"none", "arrived", "alive", "freed"}]
    BY DEF CoreInv, Core, CoreType
  <1>1. CASE emptyAccept(w) \/ doRecv(w) \/ doSend(w) \/ sendError(w) \/ recvFailed(w) \/ sendEmpty(w)
    BY <1>1, InsertLeft DEF emptyAccept, doRecv, doSend, sendError, recvFailed, sendEmpty, contexts
  <1>2. CASE postAccept(w) \/ postRecv(w) \/ releaseSend(w) \/ doSendRest(w)
    BY <1>2, InsertLeft DEF postAccept, postRecv, releaseSend, doSendRest, contexts
  <1>3. CASE errorCallbackReturns(w) \/ postCloseConnection(w)
    BY <1>3, InsertLeft DEF errorCallbackReturns, postCloseConnection, contexts
  <1>4. CASE UseAfterFree(w)
    BY <1>4, InsertShrinks DEF UseAfterFree, contexts
  <1>5. CASE doAccept(w)
    <2> DEFINE c == hand[w].peer
    <2>1. /\ pc[w] = "dispatch" /\ hand[w].io.operation = "SIG_ACCEPT" /\ hand[w].result = "data"
          /\ socketContextMap' = socketContextMap /\ hand' = hand
          /\ \/ pc' = [pc EXCEPT ![w] = "insert"] /\ object' = [object EXCEPT ![c] = "alive"]
             \/ pc' = [pc EXCEPT ![w] = "postAccept"] /\ object' = [object EXCEPT ![c] = "freed"]
      BY <1>5 DEF doAccept, Handles, At, Goto
    <2>2. c \in Conns
      BY <2>1, Held DEF PeerIff
    <2>3. object[c] = "arrived"
      BY <2>1, <2>2 DEF CoreInv, Core, PeersOK
    <2>4. c \notin socketContextMap
      BY <2>2, <2>3 DEF CoreInv, Core, RegisteredOK
    <2>5. \A v \in Workers : v # w => pc'[v] = pc[v]
      BY <1>0, <2>1
    <2>6. \A d \in Conns : d # c => object'[d] = object[d]
      BY <1>0, <2>1
    <2>7. ASSUME NEW v \in Workers, v # w, pc'[v] = "insert"
          PROVE  /\ pc[v] = "insert" /\ hand[v].peer # c /\ object'[hand[v].peer] = "alive"
                 /\ hand[v].peer \notin socketContextMap
      <3>1. pc[v] = "insert" /\ object[hand[v].peer] = "alive" /\ hand[v].peer \notin socketContextMap
        BY <2>5, <2>7 DEF InsertOK
      <3>2. hand[v].peer \in Conns
        BY <3>1, Held DEF LabelOK
      <3> QED BY <2>3, <2>6, <3>1, <3>2
    <2>8. pc'[w] = "insert" => object'[c] = "alive"
      BY <1>0, <2>1, <2>2
    <2> QED BY <2>1, <2>4, <2>7, <2>8 DEF InsertOK
  <1>6. CASE insertContext(w)
    <2>1. /\ pc[w] = "insert" /\ pc' = [pc EXCEPT ![w] = "postAccept"] /\ hand' = hand
          /\ object' = object /\ socketContextMap' = socketContextMap \cup {hand[w].peer}
      BY <1>6 DEF insertContext, At, Goto
    <2>2. \A v \in Workers : pc'[v] = "insert" => v # w /\ pc[v] = "insert"
      BY <1>0, <2>1
    <2> QED BY <2>1, <2>2 DEF InsertOK
  <1>7. CASE doCloseConnection(w)
    <2> DEFINE c == hand[w].io.sc
    <2>1. c \in Conns /\ c \in socketContextMap
      BY <1>7, StepDoClose
    <2>2. /\ object' = [object EXCEPT ![c] = "freed"] /\ socketContextMap' = socketContextMap \ {c}
          /\ pc' = [pc EXCEPT ![w] = "idle"] /\ hand' = [hand EXCEPT ![w] = NoPacket]
      BY <1>7, <2>1 DEF doCloseConnection, Done
    <2>3. \A v \in Workers : pc'[v] = "insert" => pc[v] = "insert" /\ hand'[v] = hand[v]
      BY <1>0, <2>2
    <2>4. ASSUME NEW v \in Workers, pc[v] = "insert"
          PROVE  object'[hand[v].peer] = object[hand[v].peer]
      <3>1. hand[v].peer # c
        BY <2>1, <2>4 DEF InsertOK
      <3>2. hand[v].peer \in Conns
        BY <2>4, Held DEF LabelOK
      <3> QED BY <1>0, <2>2, <3>1, <3>2
    <2> QED BY <2>2, <2>3, <2>4, InsertShrinks
  <1> QED BY <1>1, <1>2, <1>3, <1>4, <1>5, <1>6, <1>7 DEF Handler

LEMMA InsertOKStep ==
  ASSUME CoreInv, InsertOK, [Next]_vars
  PROVE  InsertOK'
  <1>0. /\ pc \in [Workers -> Labels] /\ hand \in [Workers -> Packets \cup {NoPacket}]
        /\ object \in [Conns -> {"none", "arrived", "alive", "freed"}]
    BY DEF CoreInv, Core, CoreType
  <1>1. ASSUME UNCHANGED <<object, socketContextMap, pc, hand>> PROVE InsertOK'
    BY <1>1, InsertShrinks
  <1>2. CASE UNCHANGED vars
    BY <1>1, <1>2 DEF vars, contexts
  <1>3. CASE initIOCP
    BY <1>1, <1>3 DEF initIOCP
  <1>4. ASSUME NEW io \in pending, AcceptCompletes(io) PROVE InsertOK'
    <2>1. UNCHANGED <<socketContextMap, pc, hand>>
      BY <1>4 DEF AcceptCompletes
    <2>2. object' = object \/ \E c \in Conns : object[c] = "none" /\ object' = [object EXCEPT ![c] = "arrived"]
      BY <1>4 DEF AcceptCompletes
    <2>3. \A v \in Workers : pc[v] = "insert" => object'[hand[v].peer] = object[hand[v].peer]
      <3> SUFFICES ASSUME NEW v \in Workers, pc[v] = "insert", object' # object
                   PROVE  object'[hand[v].peer] = object[hand[v].peer]
        OBVIOUS
      <3>1. PICK c \in Conns : object[c] = "none" /\ object' = [object EXCEPT ![c] = "arrived"]
        BY <2>2
      <3>2. hand[v].peer \in Conns /\ object[hand[v].peer] = "alive"
        BY Held DEF LabelOK, InsertOK
      <3> QED BY <1>0, <3>1, <3>2
    <2> QED BY <2>1, <2>3, InsertShrinks
  <1>5. CASE Kernel
    BY <1>1, <1>4, <1>5 DEF Kernel, DataArrives, StreamEnds, SendEnds, Aborted, contexts
  <1>6. CASE \E c \in Conns : PeerLeaves(c)
    BY <1>1, <1>6 DEF PeerLeaves, contexts
  <1>7. ASSUME NEW w \in Workers, GetQueuedCompletionStatus(w) PROVE InsertOK'
    <2>1. \A v \in Workers : pc'[v] = "insert" => pc[v] = "insert" /\ hand'[v] = hand[v]
      BY <1>0, <1>7 DEF GetQueuedCompletionStatus
    <2>2. UNCHANGED <<object, socketContextMap>>
      BY <1>7 DEF GetQueuedCompletionStatus, contexts
    <2> QED BY <2>1, <2>2, InsertShrinks
  <1>8. ASSUME NEW w \in Workers, \/ sendChecks(w) \/ sendData(w) \/ postSendReturns(w)
                                  \/ callbackCloses(w)
        PROVE  InsertOK'
    BY <1>1, <1>8 DEF sendChecks, sendData, postSendReturns, callbackCloses, contexts
  <1> QED BY <1>2, <1>3, <1>5, <1>6, <1>7, <1>8, InsertOKHandler DEF Next

SilentInv == OnlyOne /\ AcceptsKept /\ InsertOK /\ NoneFreed

LEMMA SilentInductive == Spec => [](IInv /\ SilentInv)
  <1>1. Init => SilentInv
    <2> SUFFICES ASSUME Init PROVE SilentInv
      OBVIOUS
    <2>1. Len(port) = 0 /\ 1 .. Len(port) = {} /\ pending = {} /\ \A w \in Workers : pc[w] = "idle"
      BY DEF Init
    <2>2. \A x : ~Now(x)
      BY <2>1 DEF Now, InPlace
    <2>3. count[Listen] = 0 /\ sending = {} /\ posting = {} /\ ~fault
      BY DEF Init, SocketContexts
    <2>4. AcceptsKept
      <3>1. 1 .. count[Listen] = {}
        BY <2>3
      <3> QED BY <3>1 DEF AcceptsKept
    <2> QED BY <2>1, <2>2, <2>3, <2>4 DEF SilentInv, OnlyOne, InsertOK, NoneFreed
  <1>2. IInv /\ SilentInv /\ [Next]_vars => SilentInv'
    BY OnlyOneStep, AcceptsKeptStep, InsertOKStep, NoneFreedStep DEF SilentInv, IInv
  <1> QED BY <1>1, <1>2, Inductive, PTL DEF Spec

\* While callbacks neither send nor close, one worker at most has an operation of a connection,
\* so that the bytes of a connection are handled by one worker at a time and in order.
THEOREM OneOperationEach == Spec => []OneOperation
  <1>1. IInv /\ SilentInv => OneOperation
    BY FlightPlace DEF IInv, SilentInv, OnlyOne, Silent, OneOperation, Now
  <1> QED BY <1>1, SilentInductive, PTL

\* No standby accept is lost by doAccept or by the branches for errors: after any number of
\* clients there are as many as initIOCP posted, unless the kernel refuses one.
THEOREM AcceptsNeverLost == Spec => []StandbyKept
  <1>1. IInv /\ SilentInv => StandbyKept
    BY FlightPlace DEF IInv, SilentInv, AcceptsKept, StandbyKept, Now
  <1> QED BY <1>1, SilentInductive, PTL

\* A worker reads a deleted context only after a callback has sent or closed or the kernel has
\* refused an accept, however many workers and connections there are.
THEOREM FaultsNeedACause == Spec => []FaultHasCause
  <1>1. IInv /\ SilentInv => FaultHasCause
    BY CountTyped DEF SilentInv, NoneFreed, Silent, FaultHasCause
  <1> QED BY <1>1, SilentInductive, PTL

-------------------------------------------------------------------------------
(* A server with one worker. *)

FirstRecv(c) == IO(c, 1, "SIG_RECV")

\* A registered connection has its receive in flight or is closing, and one that is about to
\* be registered has its receive in flight: no other worker can have dropped it.
Watched ==
    /\ \A c \in socketContextMap : closeFlag[c] \/ Now(FirstRecv(c))
    /\ \A w \in Workers : pc[w] = "insert" => Now(FirstRecv(hand[w].peer))

\* Who is at "insert" came there from doAccept, and only what is at "insert" is registered.
LEMMA Registers ==
  ASSUME CoreInv, [Next]_vars
  PROVE  /\ \A v \in Workers : pc'[v] = "insert" =>
              hand'[v] = hand[v] /\ (pc[v] = "insert" \/ doAccept(v))
         /\ \A c \in socketContextMap' :
              c \in socketContextMap \/ \E w \in Workers : pc[w] = "insert" /\ hand[w].peer = c
  <1> DEFINE Goal == /\ \A v \in Workers : pc'[v] = "insert" =>
                          hand'[v] = hand[v] /\ (pc[v] = "insert" \/ doAccept(v))
                     /\ \A c \in socketContextMap' :
                          c \in socketContextMap
                          \/ \E w \in Workers : pc[w] = "insert" /\ hand[w].peer = c
  <1>0. /\ pc \in [Workers -> Labels] /\ hand \in [Workers -> Packets \cup {NoPacket}]
    BY DEF CoreInv, Core, CoreType
  <1>1. ASSUME UNCHANGED <<socketContextMap, pc, hand>> PROVE Goal
    BY <1>1
  <1>2. ASSUME NEW w \in Workers, Goto(w, "postAccept") \/ Goto(w, "recvCallback")
                 \/ Goto(w, "sendCallback") \/ Goto(w, "errorCallback") \/ Goto(w, "close") \/ Done(w),
               socketContextMap' \subseteq socketContextMap
        PROVE  Goal
    <2>1. \A v \in Workers : pc'[v] = "insert" => pc[v] = "insert" /\ hand'[v] = hand[v]
      BY <1>0, <1>2 DEF Goto, Done
    <2> QED BY <1>2, <2>1
  <1>3. CASE UNCHANGED vars
    BY <1>1, <1>3 DEF vars, contexts
  <1>4. CASE initIOCP
    BY <1>1, <1>4 DEF initIOCP
  <1>5. CASE Kernel
    BY <1>1, <1>5 DEF Kernel, AcceptCompletes, DataArrives, StreamEnds, SendEnds, Aborted, contexts
  <1>6. CASE \E c \in Conns : PeerLeaves(c)
    BY <1>1, <1>6 DEF PeerLeaves, contexts
  <1>7. ASSUME NEW w \in Workers, GetQueuedCompletionStatus(w) PROVE Goal
    <2>1. \A v \in Workers : pc'[v] = "insert" => pc[v] = "insert" /\ hand'[v] = hand[v]
      BY <1>0, <1>7 DEF GetQueuedCompletionStatus
    <2> QED BY <1>7, <2>1 DEF GetQueuedCompletionStatus, contexts
  <1>8. ASSUME NEW w \in Workers, \/ sendChecks(w) \/ sendData(w) \/ postSendReturns(w)
                                  \/ callbackCloses(w)
        PROVE  Goal
    BY <1>1, <1>8 DEF sendChecks, sendData, postSendReturns, callbackCloses, contexts
  <1>9. ASSUME NEW w \in Workers, Handler(w) PROVE Goal
    <2>1. CASE emptyAccept(w) \/ doRecv(w) \/ doSend(w) \/ sendError(w) \/ recvFailed(w) \/ sendEmpty(w)
      BY <1>2, <2>1 DEF emptyAccept, doRecv, doSend, sendError, recvFailed, sendEmpty, contexts
    <2>2. CASE postAccept(w) \/ postRecv(w) \/ releaseSend(w) \/ doSendRest(w)
      BY <1>2, <2>2 DEF postAccept, postRecv, releaseSend, doSendRest, contexts
    <2>3. CASE errorCallbackReturns(w) \/ postCloseConnection(w) \/ doCloseConnection(w)
      BY <1>2, <2>3 DEF errorCallbackReturns, postCloseConnection, doCloseConnection, contexts
    <2>4. CASE UseAfterFree(w)
      BY <1>1, <2>4 DEF UseAfterFree, contexts
    <2>5. CASE doAccept(w)
      <3>1. \A v \in Workers : v # w => pc'[v] = pc[v]
        BY <1>0, <2>5 DEF doAccept, Goto
      <3> QED BY <2>5, <3>1 DEF doAccept, Goto
    <2>6. CASE insertContext(w)
      <3>1. pc[w] = "insert" /\ pc' = [pc EXCEPT ![w] = "postAccept"] /\ hand' = hand
            /\ socketContextMap' = socketContextMap \cup {hand[w].peer}
        BY <2>6 DEF insertContext, At, Goto
      <3>2. \A v \in Workers : pc'[v] = "insert" => pc[v] = "insert"
        BY <1>0, <3>1
      <3> QED BY <3>1, <3>2
    <2> QED BY <1>9, <2>1, <2>2, <2>3, <2>4, <2>5, <2>6 DEF Handler
  <1> QED BY <1>3, <1>4, <1>5, <1>6, <1>7, <1>8, <1>9 DEF Next

\* The receive of a connection leaves the flight only when its worker is done with it, and the
\* connection is closing then or not registered.
LEMMA RecvLeaves ==
  ASSUME IInv, [Next]_vars, NEW c \in Conns, Now(FirstRecv(c))
  PROVE  \/ Then(FirstRecv(c))
         \/ \E w \in Workers :
              pc'[w] = "idle" /\ (c \notin socketContextMap' \/ closeFlag'[c])
  <1> DEFINE r == FirstRecv(c)
  <1>0. Shaped
    BY ShapeOfStep
  <1>1. r.sc = c /\ r.operation = "SIG_RECV"
    BY DEF FirstRecv, IO
  <1>2. pc \in [Workers -> Labels] /\ closeFlag \in [Conns -> BOOLEAN]
    BY DEF IInv, CoreInv, Core, CoreType
  <1> HIDE DEF r
  <1>3. CASE Moves \/ Posts \/ Refused \/ Called
    BY <1>1, <1>3 DEF Moves, Posts, Refused, Called, SameFlight, Gains, r
  <1>4. ASSUME NEW w \in Workers, Ends(w), r = hand[w].io
        PROVE  pc'[w] = "idle" /\ (c \notin socketContextMap' \/ closeFlag'[c])
    BY <1>1, <1>2, <1>4 DEF Ends
  <1>5. ASSUME NEW w \in Workers, Ends(w), r # hand[w].io PROVE Then(r)
    BY <1>5 DEF Ends, Drops, r
  <1>6. ASSUME NEW w \in Workers, NEW d \in Conns, Asks(w, d), r = hand[w].io
        PROVE  pc'[w] = "idle" /\ closeFlag'[c]
    BY <1>1, <1>2, <1>6 DEF Asks
  <1>7. ASSUME NEW w \in Workers, NEW d \in Conns, Asks(w, d), r # hand[w].io PROVE Then(r)
    BY <1>7 DEF Asks, r
  <1>8. ASSUME NEW w \in Workers, Faults(w) PROVE Then(r)
    BY <1>8 DEF Faults, SameFlight, r
  <1>9. ASSUME NEW w \in Workers, NEW d \in Conns, Deletes(w, d) PROVE Then(r)
    <2>1. r # hand[w].io
      BY <1>1, <1>9 DEF Deletes, CLOSE
    <2> QED BY <1>9, <2>1 DEF Deletes, Drops, r
  <1>10. ASSUME NEW w \in Workers, NEW d \in Conns, Opens(w, d) PROVE Then(r)
    BY <1>10 DEF Opens, Gains, r
  <1> QED BY <1>0, <1>3, <1>4, <1>5, <1>6, <1>7, <1>8, <1>9, <1>10 DEF Shaped, r

\* A connection that is closing stays so.
LEMMA FlagStays ==
  ASSUME IInv, [Next]_vars, NEW c \in Conns, closeFlag[c]
  PROVE  closeFlag'[c]
  <1>1. Shaped
    BY ShapeOfStep
  <1>2. closeFlag \in [Conns -> BOOLEAN]
    BY DEF IInv, CoreInv, Core, CoreType
  <1> QED BY <1>1, <1>2 DEF Shaped, Moves, Posts, Refused, Called, Ends, Faults, Asks, Deletes, Opens

LEMMA WatchedStep ==
  ASSUME \A v, w \in Workers : v = w, IInv, Watched, [Next]_vars
  PROVE  Watched'
  <1>0. /\ \A v \in Workers : pc'[v] = "insert" =>
              hand'[v] = hand[v] /\ (pc[v] = "insert" \/ doAccept(v))
        /\ \A c \in socketContextMap' :
              c \in socketContextMap \/ \E w \in Workers : pc[w] = "insert" /\ hand[w].peer = c
    BY Registers DEF IInv
  <1>1. ASSUME NEW c \in socketContextMap' PROVE closeFlag'[c] \/ Then(FirstRecv(c))
    <2>1. c \in socketContextMap \/ \E w \in Workers : pc[w] = "insert" /\ hand[w].peer = c
      BY <1>0, <1>1
    <2>2. c \in Conns
      BY <2>1, Held DEF LabelOK, IInv, CoreInv, Core, CoreType
    <2>3. closeFlag[c] \/ Now(FirstRecv(c))
      BY <2>1 DEF Watched
    <2> QED BY <1>1, <2>2, <2>3, FlagStays, RecvLeaves
  <1>2. ASSUME NEW w \in Workers, pc'[w] = "insert" PROVE Then(FirstRecv(hand'[w].peer))
    <2>1. CASE pc[w] = "insert"
      <3>1. hand[w].peer \in Conns
        BY <2>1, Held DEF LabelOK, IInv
      <3>2. Now(FirstRecv(hand[w].peer))
        BY <2>1 DEF Watched
      <3>3. \A v \in Workers : pc'[v] # "idle"
        BY <1>2
      <3> QED BY <1>0, <1>2, <3>1, <3>2, <3>3, RecvLeaves
    <2>2. CASE doAccept(w)
      <3>1. pc \in [Workers -> Labels]
        BY DEF IInv, CoreInv, Core, CoreType
      <3>2. FirstRecv(hand[w].peer) \in pending'
        BY <1>2, <2>2, <3>1 DEF doAccept, Goto, FirstRecv
      <3> QED BY <1>0, <1>2, <3>2 DEF Then, InPlace
    <2> QED BY <1>0, <1>2, <2>1, <2>2
  <1> QED BY <1>1, <1>2 DEF Watched, Now, Then, FirstRecv, IO

\* With one worker no connection is forgotten: between the posting of its receive and its
\* registration nobody else can see the receive fail. With two workers it can happen.
THEOREM OneWorkerAttends ==
  ASSUME \A v, w \in Workers : v = w
  PROVE  Spec => []Attended
  <1>1. Init => Watched
    BY DEF Init, Watched
  <1>2. IInv /\ Watched /\ [Next]_vars => Watched'
    BY WatchedStep
  <1>3. IInv /\ Watched => Attended
    BY FlightPlace DEF IInv, Watched, Attended, FirstRecv, Now
  <1> QED BY <1>1, <1>2, <1>3, Inductive, PTL DEF Spec
===============================================================================
