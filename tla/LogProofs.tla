------------------------------ MODULE LogProofs ------------------------------
(***************************************************************************)
(* LogModule for every set of threads, every buffer size and any number of *)
(* records: a flush misses nothing although it reads index without the     *)
(* lock, and the log implements the journal of LogJournal.tla. All of it   *)
(* rests on IInv, which says what the buffer and the file have in common   *)
(* at each point of a flush: nothing before the buffer is written, all of  *)
(* the buffer between the writing and the reset. FlushWrites is part of    *)
(* it, since a long record must not overtake what its thread has in the    *)
(* buffer; FlushStores needs to know which step has not called fflush yet. *)
(***************************************************************************)
EXTENDS LogModule, SequenceTheorems, TLAPS

-------------------------------------------------------------------------------
(* Sequences of records. *)

\* The records of one thread are in the order in which it wrote them.
InOrder(s) == \A i, j \in 1..Len(s) : i < j /\ s[i].by = s[j].by => s[i].no < s[j].no

\* No record of q was written by its thread before one of s.
Precedes(s, q) == \A r \in Range(s), x \in Range(q) : r.by = x.by => r.no < x.no

LEMMA InRange ==
  ASSUME NEW S, NEW q \in Seq(S)
  PROVE  /\ \A x : x \in Range(q) <=> \E i \in 1..Len(q) : q[i] = x
         /\ \A i \in 1..Len(q) : q[i] \in Range(q) /\ q[i] \in S
         /\ \A x \in Range(q) : x \in S
  <1>1. Range(q) = {q[i] : i \in 1..Len(q)} /\ Range(q) \in SUBSET S
    BY RangeEquality, RangeOfSeq
  <1> QED BY <1>1

LEMMA AppendRange ==
  ASSUME NEW S, NEW q \in Seq(S), NEW e \in S
  PROVE  /\ Append(q, e) \in Seq(S) /\ Range(Append(q, e)) = Range(q) \cup {e}
         /\ Len(Append(q, e)) = Len(q) + 1 /\ Len(q) \in Nat
         /\ Append(q, e)[Len(q) + 1] = e
         /\ \A i \in 1..Len(q) : Append(q, e)[i] = q[i]
  <1> DEFINE n == Len(q)
             a == Append(q, e)
  <1>1. a \in Seq(S) /\ Len(a) = n + 1 /\ n \in Nat /\ a[n + 1] = e /\ \A i \in 1..n : a[i] = q[i]
    BY AppendProperties, LenProperties
  <1> HIDE DEF n, a
  <1>2. 1..(n + 1) = (1..n) \cup {n + 1}
    BY <1>1
  <1>3. Range(a) = {a[i] : i \in 1..(n + 1)} /\ Range(q) = {q[i] : i \in 1..n}
    BY <1>1, RangeEquality DEF n
  <1>4. Range(a) = Range(q) \cup {e}
    BY <1>1, <1>2, <1>3
  <1> QED BY <1>1, <1>4 DEF a, n

LEMMA ConcatRange ==
  ASSUME NEW S, NEW p \in Seq(S), NEW q \in Seq(S)
  PROVE  /\ p \o q \in Seq(S) /\ Range(p \o q) = Range(p) \cup Range(q)
         /\ Len(p \o q) = Len(p) + Len(q) /\ Len(p) \in Nat /\ Len(q) \in Nat
         /\ \A i \in 1..Len(p) : (p \o q)[i] = p[i]
         /\ \A i \in 1..Len(q) : (p \o q)[Len(p) + i] = q[i]
  <1> DEFINE n == Len(p)
             m == Len(q)
             a == p \o q
  <1>1. a \in Seq(S) /\ Len(a) = n + m /\ n \in Nat /\ m \in Nat
    BY ConcatProperties, LenProperties
  <1>2. \A i \in 1..(n + m) : a[i] = IF i <= n THEN p[i] ELSE q[i - n]
    BY ConcatProperties
  <1>3. Range(a) = Range(p) \cup Range(q)
    BY RangeConcatenation
  <1> HIDE DEF n, m, a
  <1>4. \A i \in 1..n : a[i] = p[i]
    BY <1>1, <1>2
  <1>5. \A i \in 1..m : a[n + i] = q[i]
    BY <1>1, <1>2
  <1> QED BY <1>1, <1>3, <1>4, <1>5 DEF a, n, m

LEMMA OrderAppend ==
  ASSUME NEW q \in Seq(Records), NEW e \in Records, InOrder(q),
         \A r \in Range(q) : r.by = e.by => r.no < e.no
  PROVE  InOrder(Append(q, e))
  <1> DEFINE n == Len(q)
             a == Append(q, e)
  <1>1. /\ Len(a) = n + 1 /\ n \in Nat /\ a[n + 1] = e /\ \A i \in 1..n : a[i] = q[i]
    BY AppendRange
  <1> HIDE DEF a, n
  <1> SUFFICES ASSUME NEW i \in 1..(n + 1), NEW j \in 1..(n + 1), i < j, a[i].by = a[j].by
               PROVE  a[i].no < a[j].no
    BY <1>1 DEF InOrder, a
  <1>2. i \in 1..n /\ (j \in 1..n \/ j = n + 1)
    BY <1>1
  <1>3. CASE j \in 1..n
    BY <1>1, <1>2, <1>3 DEF InOrder, n
  <1>4. CASE j = n + 1
    <2>1. a[i] = q[i] /\ q[i] \in Range(q) /\ a[j] = e
      BY <1>1, <1>2, <1>4, InRange DEF n
    <2> QED BY <2>1
  <1> QED BY <1>2, <1>3, <1>4

LEMMA OrderConcat ==
  ASSUME NEW p \in Seq(Records), NEW q \in Seq(Records), InOrder(p), InOrder(q), Precedes(p, q)
  PROVE  InOrder(p \o q)
  <1> DEFINE n == Len(p)
             m == Len(q)
             a == p \o q
  <1>1. /\ Len(a) = n + m /\ n \in Nat /\ m \in Nat
        /\ \A i \in 1..n : a[i] = p[i] /\ p[i] \in Range(p)
        /\ \A i \in 1..m : a[n + i] = q[i] /\ q[i] \in Range(q)
    BY ConcatRange, InRange
  <1> HIDE DEF n, m, a
  <1> SUFFICES ASSUME NEW i \in 1..(n + m), NEW j \in 1..(n + m), i < j, a[i].by = a[j].by
               PROVE  a[i].no < a[j].no
    BY <1>1 DEF InOrder, a
  <1>2. i \in 1..n \/ (i - n \in 1..m /\ i = n + (i - n))
    BY <1>1
  <1>3. j \in 1..n \/ (j - n \in 1..m /\ j = n + (j - n))
    BY <1>1
  <1>4. CASE j \in 1..n
    <2>1. i \in 1..n
      BY <1>1, <1>4
    <2> QED BY <1>1, <1>4, <2>1 DEF InOrder, n
  <1>5. CASE i \in 1..n /\ j - n \in 1..m
    <2>1. a[i] \in Range(p)
      BY <1>1, <1>5
    <2>2. a[j] = q[j - n] /\ a[j] \in Range(q)
      BY <1>1, <1>3, <1>5
    <2> QED BY <2>1, <2>2 DEF Precedes
  <1>6. CASE i - n \in 1..m /\ j - n \in 1..m
    <2>1. a[i] = q[i - n] /\ a[j] = q[j - n] /\ i - n < j - n
      BY <1>1, <1>2, <1>3, <1>6
    <2> QED BY <1>6, <2>1 DEF InOrder, m
  <1> QED BY <1>2, <1>3, <1>4, <1>5, <1>6
-------------------------------------------------------------------------------
(* The inductive invariant. *)

Labels ==
    {"idle", "enter", "format", "spill reset", "spill temp", "spill sync", "test", "flush enter",
     "flush write", "flush sync", "flush reset", "flushed", "print"}

Types ==
    /\ buffer \in Seq(Records) /\ file \in Seq(Records) /\ accepted \in SUBSET Records
    /\ index \in Nat /\ synced \in Nat
    /\ owner \in Threads \cup {NoThread}
    /\ pc \in [Threads -> Labels]
    /\ rec \in [Threads -> Records \cup {NoRecord}]
    /\ wrote \in [Threads -> Nat]

InLock ==
    {"format", "spill reset", "spill temp", "spill sync", "flush write", "flush sync", "flush reset"}

\* The labels between EnterCriticalSection and LeaveCriticalSection are those of the owner.
LockOK == \A t \in Threads : pc[t] \in InLock <=> owner = t

\* The buffer is in the file and still in the buffer.
Flushing == \E t \in Threads : pc[t] \in {"spill reset", "flush sync", "flush reset"}

\* A thread has reset index and not called fflush yet.
Spilling == \E t \in Threads : pc[t] \in {"spill temp", "spill sync"}

\* What was written out last has not been given to fflush.
Unsynced == \E t \in Threads : pc[t] \in {"spill reset", "flush sync"}

BufferOK ==
    /\ index > 0 <=> buffer # << >>
    /\ Flushing => Range(buffer) \subseteq Range(file)
    /\ ~Flushing => Precedes(file, buffer)
    /\ Spilling => buffer = << >>

OrderOK == InOrder(file) /\ InOrder(buffer)

AcceptedOK == accepted = Range(file) \cup Range(buffer)

\* The thread's record has not been accepted or refused yet.
Pending(t) ==
    \/ pc[t] \in {"enter", "format", "spill reset", "spill temp", "print"}
    \/ /\ pc[t] \in {"test", "flush enter", "flush write", "flush sync", "flush reset"}
       /\ rec[t].long = TRUE

RecOK ==
    \A t \in Threads :
        /\ Pending(t) =>
            /\ rec[t] \in Records /\ rec[t].by = t /\ rec[t].no = wrote[t]
            /\ \A r \in accepted : r.by = t => r.no < wrote[t]
        /\ \A r \in accepted : r.by = t => r.no <= wrote[t]
        /\ pc[t] = "print" => rec[t].long = TRUE

SyncOK ==
    /\ synced <= Len(file)
    /\ \A r \in Range(file) :
        r.long = TRUE \/ r \in Stored \/ (r \in Range(buffer) /\ Unsynced) \/ Spilling

\* FlushStores with the two parts named above.
StoresOK ==
    \A t \in Threads : pc[t] = "flushed" =>
        (\A r \in accepted : r.by = t => r.long = TRUE \/ r \in Stored) \/ Spilling

IInv ==
    /\ Types /\ LockOK /\ BufferOK /\ OrderOK /\ AcceptedOK /\ RecOK /\ SyncOK
    /\ FlushWrites /\ StoresOK

LEMMA RecordFields ==
  ASSUME NEW r \in Records
  PROVE  /\ r.by \in Threads /\ r.no \in Nat /\ r.long \in BOOLEAN /\ r.size \in Nat
         /\ r # NoRecord
  <1>1. r.by \in Threads /\ r.no \in 1..MaxRecords /\ r.long \in BOOLEAN /\ r.size \in Sizes \cup {limit}
    BY DEF Records
  <1>2. NoRecord.by = NoThread
    BY DEF NoRecord
  <1>3. limit \in Nat /\ \A n \in Sizes : n \in 1..(limit - 1)
    BY LogAssumption
  <1>4. r.no \in Nat
    BY <1>1, LogAssumption
  <1>5. r.size \in Nat
    BY <1>1, <1>3
  <1>6. r # NoRecord
    BY <1>1, <1>2, LogAssumption
  <1> QED BY <1>1, <1>4, <1>5, <1>6

LEMMA EmptyRange == Range(<< >>) = {}
  BY DEF Range

-------------------------------------------------------------------------------
(* The steps, by what they do to the buffer and the file. *)

\* Neither changes.
Quiet(t) ==
    \/ writeLong(t) \/ \E size \in Sizes \cup {limit} : writeShort(t, size)
    \/ Enters(t) \/ refuse(t) \/ callFlush(t) \/ flushTest(t) \/ flushReturns(t)

\* The buffer is written to the file.
Copies(t) == spillBuffer(t) \/ flushWrite(t)

\* The buffer is emptied.
Clears(t) == spillReset(t) \/ flushReset(t)

\* A record goes to the file past the buffer.
Passes(t) == spillTemp(t) \/ vfprintf(t)

\* fflush.
Syncs(t) == spillSync(t) \/ flushSync(t)

LEMMA StepCases ==
  ASSUME Next
  PROVE  destroy \/ \E t \in Threads : Quiet(t) \/ append(t) \/ Copies(t) \/ Clears(t) \/ Passes(t) \/ Syncs(t)
  BY DEF Next, Runs, Quiet, Copies, Clears, Passes, Syncs

LEMMA TypesStep == Types /\ RecOK /\ [Next]_vars => Types'
  <1> SUFFICES ASSUME Types, RecOK, [Next]_vars PROVE Types'
    OBVIOUS
  <1> USE DEF Types
  <1>1. CASE UNCHANGED vars
    BY <1>1 DEF vars
  <1>2. ASSUME NEW t \in Threads, Quiet(t) PROVE Types'
    <2>1. ASSUME NEW long \in BOOLEAN, NEW size \in Sizes \cup {limit}, NEW l \in Labels,
                 Begin(t, long, size, l)
          PROVE  Types'
      <3>1. [by |-> t, no |-> wrote[t] + 1, long |-> long, size |-> size] \in Records
        BY <2>1, LogAssumption DEF Begin, Records
      <3>2. /\ pc' = [pc EXCEPT ![t] = l]
            /\ rec' = [rec EXCEPT ![t] = [by |-> t, no |-> wrote[t] + 1, long |-> long, size |-> size]]
            /\ wrote' = [wrote EXCEPT ![t] = wrote[t] + 1]
            /\ UNCHANGED <<buffer, index, file, synced, owner, accepted>>
        BY <2>1 DEF Begin, Goto
      <3>3. rec' \in [Threads -> Records \cup {NoRecord}] /\ pc' \in [Threads -> Labels] /\ wrote' \in [Threads -> Nat]
        BY <2>1, <3>1, <3>2
      <3> QED BY <3>2, <3>3
    <2>2. CASE writeLong(t) \/ \E size \in Sizes \cup {limit} : writeShort(t, size)
      <3>1. "test" \in Labels /\ "enter" \in Labels /\ TRUE \in BOOLEAN /\ FALSE \in BOOLEAN
        BY DEF Labels
      <3> QED BY <2>1, <2>2, <3>1 DEF writeLong, writeShort
    <2>3. CASE Enters(t)
      BY <2>3 DEF Enters, EnterCriticalSection, Goto, Labels
    <2>4. CASE refuse(t) \/ flushReturns(t) \/ callFlush(t)
      BY <2>4 DEF refuse, LeaveCriticalSection, Goto, flushReturns, callFlush, Labels
    <2>5. CASE flushTest(t)
      <3>1. (IF index > 0 THEN "flush enter" ELSE Done(t)) \in Labels
        BY DEF Done, Labels
      <3> QED BY <2>5, <3>1 DEF flushTest, Goto
    <2> QED BY <1>2, <2>2, <2>3, <2>4, <2>5 DEF Quiet
  <1>3. ASSUME NEW t \in Threads, append(t) PROVE Types'
    <2>1. rec[t] \in Records /\ rec[t].size \in Nat
      BY <1>3, RecordFields DEF append, RecOK, Pending, At
    <2>2. Append(buffer, rec[t]) \in Seq(Records)
      BY <2>1, AppendRange
    <2>3. index' \in Nat /\ buffer' \in Seq(Records) /\ accepted' \in SUBSET Records
      BY <1>3, <2>1, <2>2 DEF append, Accepted
    <2>4. pc' \in [Threads -> Labels] /\ owner' \in Threads \cup {NoThread}
      BY <1>3 DEF append, LeaveCriticalSection, Goto, Labels
    <2> QED BY <1>3, <2>3, <2>4 DEF append
  <1>4. ASSUME NEW t \in Threads, Copies(t) PROVE Types'
    <2>1. file \o buffer \in Seq(Records)
      BY ConcatRange
    <2> QED BY <1>4, <2>1 DEF Copies, spillBuffer, flushWrite, Goto, Labels
  <1>5. ASSUME NEW t \in Threads, Clears(t) PROVE Types'
    <2>1. << >> \in Seq(Records) /\ Done(t) \in Labels
      BY EmptySeq DEF Done, Labels
    <2>2. pc' \in [Threads -> Labels] /\ owner' \in Threads \cup {NoThread}
      BY <1>5, <2>1 DEF Clears, spillReset, flushReset, Goto, Labels
    <2>3. index' = 0 /\ buffer' = << >>
      BY <1>5 DEF Clears, spillReset, flushReset
    <2>4. index' \in Nat /\ buffer' \in Seq(Records)
      BY <2>1, <2>3
    <2> QED BY <1>5, <2>2, <2>4 DEF Clears, spillReset, flushReset
  <1>6. ASSUME NEW t \in Threads, Passes(t) PROVE Types'
    <2>1. rec[t] \in Records
      BY <1>6 DEF Passes, spillTemp, vfprintf, RecOK, Pending, At
    <2>2. Append(file, rec[t]) \in Seq(Records)
      BY <2>1, AppendRange
    <2> QED BY <1>6, <2>1, <2>2 DEF Passes, spillTemp, vfprintf, Accepted, Goto, Labels
  <1>7. ASSUME NEW t \in Threads, Syncs(t) PROVE Types'
    <2>1. Len(file) \in Nat
      BY LenProperties
    <2> QED BY <1>7, <2>1 DEF Syncs, spillSync, flushSync, LeaveCriticalSection, Goto, Labels
  <1>8. CASE destroy
    <2>1. file \o buffer \in Seq(Records) /\ Len(file \o buffer) \in Nat /\ << >> \in Seq(Records)
      BY ConcatRange, LenProperties, EmptySeq
    <2> QED BY <1>8, <2>1 DEF destroy
  <1> QED BY <1>1, <1>2, <1>3, <1>4, <1>5, <1>6, <1>7, <1>8, StepCases

LEMMA LockStep == Types /\ LockOK /\ [Next]_vars => LockOK'
  <1> SUFFICES ASSUME Types, LockOK, [Next]_vars PROVE LockOK'
    OBVIOUS
  <1>0. /\ pc \in [Threads -> Labels] /\ owner \in Threads \cup {NoThread}
        /\ NoThread \notin Threads /\ \A u \in Threads : pc[u] \in InLock <=> owner = u
    BY LogAssumption DEF Types, LockOK
  <1>1. CASE UNCHANGED vars
    BY <1>1 DEF vars, LockOK
  \* A step of a thread takes the lock, gives it back or neither.
  <1>2. ASSUME NEW t \in Threads, NEW l, pc' = [pc EXCEPT ![t] = l],
               \/ owner = NoThread /\ owner' = t /\ l \in InLock
               \/ pc[t] \in InLock /\ owner' = NoThread /\ l \notin InLock
               \/ owner' = owner /\ (pc[t] \in InLock <=> l \in InLock)
        PROVE  LockOK'
    <2> SUFFICES ASSUME NEW u \in Threads PROVE pc'[u] \in InLock <=> owner' = u
      BY DEF LockOK
    <2>1. pc'[u] = IF u = t THEN l ELSE pc[u]
      BY <1>0, <1>2
    <2> QED BY <1>0, <1>2, <2>1
  <1>3. ASSUME NEW t \in Threads, Quiet(t) PROVE LockOK'
    <2>1. CASE writeLong(t) \/ (\E size \in Sizes \cup {limit} : writeShort(t, size)) \/ flushReturns(t) \/ callFlush(t)
      BY <1>2, <2>1 DEF writeLong, writeShort, Begin, flushReturns, callFlush, Goto, At, InLock
    <2>2. CASE Enters(t) \/ refuse(t)
      BY <1>2, <2>2 DEF Enters, EnterCriticalSection, refuse, LeaveCriticalSection, Goto, At, InLock
    <2>3. CASE flushTest(t)
      <3>1. (IF index > 0 THEN "flush enter" ELSE Done(t)) \notin InLock
        BY DEF Done, InLock
      <3>2. pc[t] \notin InLock
        BY <2>3 DEF flushTest, At, InLock
      <3> QED BY <1>2, <2>3, <3>1, <3>2 DEF flushTest, Goto
    <2> QED BY <1>3, <2>1, <2>2, <2>3 DEF Quiet
  <1>4. ASSUME NEW t \in Threads, append(t) \/ Copies(t) \/ Passes(t) \/ Syncs(t) PROVE LockOK'
    <2>1. CASE append(t) \/ Syncs(t)
      BY <1>2, <2>1 DEF append, Syncs, spillSync, flushSync, LeaveCriticalSection, Goto, At, InLock
    <2>2. CASE Copies(t) \/ Passes(t)
      BY <1>2, <2>2 DEF Copies, spillBuffer, flushWrite, Passes, spillTemp, vfprintf, Goto, At, InLock
    <2> QED BY <1>4, <2>1, <2>2
  <1>5. ASSUME NEW t \in Threads, Clears(t) PROVE LockOK'
    <2>1. Done(t) \notin InLock
      BY DEF Done, InLock
    <2> QED BY <1>2, <1>5, <2>1 DEF Clears, spillReset, flushReset, Goto, At, InLock
  <1>6. CASE destroy
    BY <1>6 DEF destroy, LockOK
  <1> QED BY <1>1, <1>3, <1>4, <1>5, <1>6, StepCases

-------------------------------------------------------------------------------
(* What a step of one thread does to the labels. *)

Special == {"spill reset", "spill temp", "spill sync", "flush sync", "flush reset"}

LEMMA Moved ==
  ASSUME Types, NEW t \in Threads, NEW l, pc' = [pc EXCEPT ![t] = l]
  PROVE  \A u \in Threads : pc'[u] = IF u = t THEN l ELSE pc[u]
  BY DEF Types

\* Other threads are outside the lock, so its owner alone decides about the marks.
LEMMA Alone ==
  ASSUME LockOK, NEW t \in Threads, pc[t] \in InLock
  PROVE  /\ \A u \in Threads : u # t => pc[u] \notin InLock
         /\ Flushing <=> pc[t] \in {"spill reset", "flush sync", "flush reset"}
         /\ Spilling <=> pc[t] \in {"spill temp", "spill sync"}
         /\ Unsynced <=> pc[t] \in {"spill reset", "flush sync"}
  <1>1. \A u \in Threads : u # t => pc[u] \notin InLock
    BY DEF LockOK
  <1> QED BY <1>1 DEF Flushing, Spilling, Unsynced, InLock

LEMMA AloneNext ==
  ASSUME Types, LockOK, NEW t \in Threads, NEW l, pc' = [pc EXCEPT ![t] = l], pc[t] \in InLock
  PROVE  /\ Flushing' <=> l \in {"spill reset", "flush sync", "flush reset"}
         /\ Spilling' <=> l \in {"spill temp", "spill sync"}
         /\ Unsynced' <=> l \in {"spill reset", "flush sync"}
  <1>1. \A u \in Threads : u # t => pc[u] \notin InLock
    BY Alone
  <1>2. \A u \in Threads : pc'[u] = IF u = t THEN l ELSE pc[u]
    BY Moved
  <1> QED BY <1>1, <1>2 DEF Flushing, Spilling, Unsynced, InLock

\* A step between labels that mark nothing keeps the marks.
LEMMA SameMarks ==
  ASSUME Types, NEW t \in Threads, NEW l, pc' = [pc EXCEPT ![t] = l], pc[t] \notin Special, l \notin Special
  PROVE  (Flushing' <=> Flushing) /\ (Spilling' <=> Spilling) /\ (Unsynced' <=> Unsynced)
  <1>1. \A u \in Threads : pc'[u] = IF u = t THEN l ELSE pc[u]
    BY Moved
  <1> QED BY <1>1 DEF Flushing, Spilling, Unsynced, Special

\* A thread's record when nothing is accepted, and when its record is.
LEMMA RecSame ==
  ASSUME Types, RecOK, NEW t \in Threads, NEW l, pc' = [pc EXCEPT ![t] = l],
         UNCHANGED <<rec, wrote, accepted>>,
         Pending(t)' => Pending(t), l = "print" => rec[t].long = TRUE
  PROVE  RecOK'
  <1>1. \A u \in Threads : pc'[u] = IF u = t THEN l ELSE pc[u]
    BY Moved
  <1>2. rec' = rec /\ wrote' = wrote /\ accepted' = accepted
    OBVIOUS
  <1>3. \A u \in Threads : Pending(u)' => Pending(u)
    BY <1>1, <1>2 DEF Pending
  <1> QED BY <1>1, <1>2, <1>3 DEF RecOK

LEMMA AtMostItself == \A n \in Nat : n <= n
  OBVIOUS

LEMMA RecAccepted ==
  ASSUME Types, RecOK, NEW t \in Threads, NEW l, pc' = [pc EXCEPT ![t] = l],
         UNCHANGED <<rec, wrote>>, Accepted(t), Pending(t), l \in {"idle", "spill sync"}
  PROVE  RecOK'
  <1>1. \A u \in Threads : pc'[u] = IF u = t THEN l ELSE pc[u]
    BY Moved
  <1>2. rec' = rec /\ wrote' = wrote /\ accepted' = accepted \cup {rec[t]}
    BY DEF Accepted
  <1>3. rec[t] \in Records /\ rec[t].by = t /\ rec[t].no = wrote[t] /\ wrote[t] \in Nat
    BY DEF RecOK, Types
  <1>4. \A u \in Threads : Pending(u)' => Pending(u) /\ u # t
    BY <1>1, <1>2 DEF Pending
  <1> SUFFICES ASSUME NEW u \in Threads
               PROVE  /\ Pending(u)' =>
                          /\ rec'[u] \in Records /\ rec'[u].by = u /\ rec'[u].no = wrote'[u]
                          /\ \A r \in accepted' : r.by = u => r.no < wrote'[u]
                      /\ \A r \in accepted' : r.by = u => r.no <= wrote'[u]
                      /\ pc'[u] = "print" => rec'[u].long = TRUE
    BY Zenon DEF RecOK
  <1>5. /\ Pending(u) =>
              /\ rec[u] \in Records /\ rec[u].by = u /\ rec[u].no = wrote[u]
              /\ \A r \in accepted : r.by = u => r.no < wrote[u]
        /\ \A r \in accepted : r.by = u => r.no <= wrote[u]
        /\ pc[u] = "print" => rec[u].long = TRUE
    BY DEF RecOK
  <1>6. \A r \in accepted' : r.by = u => r.no <= wrote'[u]
    <2> SUFFICES ASSUME NEW r \in accepted', r.by = u PROVE r.no <= wrote[u]
      BY <1>2
    <2>1. CASE r \in accepted
      BY <1>5, <2>1
    <2>2. CASE r = rec[t]
      <3>1. u = t /\ r.no = wrote[t]
        BY <1>3, <2>2
      <3>2. r.no = wrote[u] /\ wrote[u] \in Nat
        BY <1>3, <3>1
      <3> QED BY <3>2, AtMostItself
    <2> QED BY <1>2, <2>1, <2>2
  <1>7. CASE u = t
    <2>1. ~Pending(u)' /\ pc'[u] # "print"
      BY <1>1, <1>4, <1>7
    <2> QED BY <1>6, <2>1
  <1>8. CASE u # t
    <2>1. \A r \in accepted' : r.by = u => r \in accepted
      BY <1>2, <1>3, <1>8
    <2>2. pc'[u] = pc[u] /\ rec'[u] = rec[u] /\ wrote'[u] = wrote[u] /\ (Pending(u)' => Pending(u))
      BY <1>1, <1>2, <1>4, <1>8
    <2> QED BY <1>5, <1>6, <2>1, <2>2
  <1> QED BY <1>7, <1>8

\* The file only grows, so what is stored stays stored.
LEMMA StoredGrows ==
  ASSUME synced \in Nat, synced' \in Nat, synced <= synced',
         \A i \in 1..synced : file'[i] = file[i]
  PROVE  Stored \subseteq Stored'
  BY DEF Stored

LEMMA AllStored ==
  ASSUME NEW f \in Seq(Records)
  PROVE  Range(f) = {f[i] : i \in 1..Len(f)}
  BY InRange

-------------------------------------------------------------------------------
(* The steps that leave the buffer and the file alone. *)

\* The parts of the invariant besides Types and LockOK.
Store == BufferOK /\ OrderOK /\ AcceptedOK /\ SyncOK

LEMMA StoreSame ==
  ASSUME Store, UNCHANGED <<buffer, index, file, synced, accepted>>,
         Flushing' <=> Flushing, Spilling' <=> Spilling, Unsynced' <=> Unsynced
  PROVE  Store'
  <1>1. buffer' = buffer /\ index' = index /\ file' = file /\ synced' = synced /\ accepted' = accepted
    OBVIOUS
  <1>2. BufferOK'
    BY <1>1 DEF Store, BufferOK, Precedes
  <1>3. OrderOK' /\ AcceptedOK'
    BY <1>1 DEF Store, OrderOK, InOrder, AcceptedOK
  <1>4. Stored' = Stored
    BY <1>1 DEF Stored
  <1>5. SyncOK'
    BY <1>1, <1>4 DEF Store, SyncOK
  <1> QED BY <1>2, <1>3, <1>5 DEF Store

\* A thread that finds index = 0 finds all that was accepted in the file.
LEMMA EmptyBuffer ==
  ASSUME Types, Store, index = 0
  PROVE  /\ buffer = << >> /\ accepted = Range(file)
         /\ \A r \in accepted : r.long = TRUE \/ r \in Stored \/ Spilling
  <1>1. buffer = << >>
    BY DEF Store, BufferOK
  <1>2. Range(buffer) = {}
    BY <1>1, EmptyRange
  <1>3. accepted = Range(file)
    BY <1>2 DEF Store, AcceptedOK
  <1> QED BY <1>1, <1>2, <1>3 DEF Store, SyncOK

LEMMA QuietStep ==
  ASSUME IInv, NEW t \in Threads, Quiet(t)
  PROVE  Store' /\ RecOK' /\ FlushWrites' /\ StoresOK'
  <1>0. Types /\ Store /\ RecOK /\ FlushWrites /\ StoresOK
    BY DEF IInv, Store
  <1>1. UNCHANGED <<buffer, index, file, synced, accepted>>
    BY DEF Quiet, writeLong, writeShort, Begin, Enters, EnterCriticalSection, refuse, callFlush,
           flushTest, flushReturns
  <1>2. PICK l : /\ pc' = [pc EXCEPT ![t] = l] /\ l \notin Special /\ pc[t] \notin Special
                 /\ l \in {"flushed", "print"} => pc[t] = "test" /\ index = 0
    <2>1. CASE writeLong(t) \/ (\E size \in Sizes \cup {limit} : writeShort(t, size)) \/ callFlush(t)
      <3>1. pc[t] = "idle" /\ (pc' = [pc EXCEPT ![t] = "test"] \/ pc' = [pc EXCEPT ![t] = "enter"])
        BY <2>1 DEF writeLong, writeShort, Begin, callFlush, Goto, At
      <3> QED BY <3>1 DEF Special
    <2>2. CASE Enters(t)
      <3>1. \/ pc[t] = "enter" /\ pc' = [pc EXCEPT ![t] = "format"]
            \/ pc[t] = "flush enter" /\ pc' = [pc EXCEPT ![t] = "flush write"]
        BY <2>2 DEF Enters, EnterCriticalSection, Goto, At
      <3> QED BY <3>1 DEF Special
    <2>3. CASE refuse(t) \/ flushReturns(t)
      <3>1. pc[t] \in {"format", "flushed"} /\ pc' = [pc EXCEPT ![t] = "idle"]
        BY <2>3 DEF refuse, flushReturns, LeaveCriticalSection, Goto, At
      <3>2. "idle" \notin Special /\ pc[t] \notin Special /\ "idle" \notin {"flushed", "print"}
        BY <3>1 DEF Special
      <3> QED BY <3>1, <3>2
    <2>4. CASE flushTest(t)
      <3> DEFINE k == IF index > 0 THEN "flush enter" ELSE Done(t)
      <3>1. k \notin Special /\ (k \in {"flushed", "print"} => index = 0)
        BY <1>0 DEF Done, Special, Types
      <3>2. pc' = [pc EXCEPT ![t] = k] /\ pc[t] = "test"
        BY <2>4 DEF flushTest, Goto, At
      <3> HIDE DEF k
      <3> QED BY <3>1, <3>2 DEF Special
    <2> QED BY <2>1, <2>2, <2>3, <2>4 DEF Quiet
  <1>3. \A u \in Threads : pc'[u] = IF u = t THEN l ELSE pc[u]
    BY <1>0, <1>2, Moved
  <1>4. (Flushing' <=> Flushing) /\ (Spilling' <=> Spilling) /\ (Unsynced' <=> Unsynced)
    BY <1>0, <1>2, SameMarks
  <1>5. Store'
    BY <1>0, <1>1, <1>4, StoreSame
  <1>6. file' = file /\ accepted' = accepted /\ Stored' = Stored
    BY <1>1 DEF Stored
  <1>7. l \in {"flushed", "print"} => /\ accepted = Range(file)
                                      /\ \A r \in accepted : r.long = TRUE \/ r \in Stored \/ Spilling
    BY <1>0, <1>2, EmptyBuffer
  <1>8. FlushWrites'
    BY <1>0, <1>3, <1>6, <1>7 DEF FlushWrites
  <1>9. StoresOK'
    BY <1>0, <1>3, <1>4, <1>6, <1>7 DEF StoresOK
  <1>10. RecOK'
    <2>1. ASSUME NEW long \in BOOLEAN, NEW size \in Sizes \cup {limit}, NEW k \in {"enter", "test"}, Begin(t, long, size, k)
          PROVE  RecOK'
      <3>1. [by |-> t, no |-> wrote[t] + 1, long |-> long, size |-> size] \in Records
        BY <1>0, <2>1, LogAssumption DEF Begin, Records, Types
      <3>2. /\ rec' = [rec EXCEPT ![t] = [by |-> t, no |-> wrote[t] + 1, long |-> long, size |-> size]]
            /\ wrote' = [wrote EXCEPT ![t] = wrote[t] + 1] /\ pc' = [pc EXCEPT ![t] = k]
        BY <2>1 DEF Begin, Goto
      <3>3. /\ \A u \in Threads : u # t => rec'[u] = rec[u] /\ wrote'[u] = wrote[u] /\ pc'[u] = pc[u]
            /\ rec'[t] \in Records /\ rec'[t].by = t /\ rec'[t].no = wrote[t] + 1
            /\ wrote'[t] = wrote[t] + 1 /\ wrote[t] \in Nat /\ pc'[t] = k
        BY <1>0, <3>1, <3>2 DEF Types
      <3>4. \A r \in accepted : r.by = t => r.no < wrote[t] + 1
        <4> SUFFICES ASSUME NEW r \in accepted, r.by = t PROVE r.no < wrote[t] + 1
          OBVIOUS
        <4>1. r.no \in Nat /\ r.no <= wrote[t]
          BY <1>0, RecordFields DEF RecOK, Types
        <4> QED BY <3>3, <4>1
      <3>5. \A r \in accepted : r.by = t => r.no <= wrote[t] + 1
        <4> SUFFICES ASSUME NEW r \in accepted, r.by = t PROVE r.no <= wrote[t] + 1
          OBVIOUS
        <4>1. r.no \in Nat /\ r.no < wrote[t] + 1
          BY <1>0, <3>4, RecordFields DEF Types
        <4> QED BY <3>3, <4>1
      <3> SUFFICES ASSUME NEW u \in Threads
                   PROVE  /\ Pending(u)' =>
                              /\ rec'[u] \in Records /\ rec'[u].by = u /\ rec'[u].no = wrote'[u]
                              /\ \A r \in accepted' : r.by = u => r.no < wrote'[u]
                          /\ \A r \in accepted' : r.by = u => r.no <= wrote'[u]
                          /\ pc'[u] = "print" => rec'[u].long = TRUE
        BY Zenon DEF RecOK
      <3>6. CASE u = t
        BY <1>6, <2>1, <3>3, <3>4, <3>5, <3>6
      <3>7. CASE u # t
        <4>1. Pending(u)' => Pending(u)
          BY <3>3, <3>7 DEF Pending
        <4> QED BY <1>0, <1>6, <3>3, <3>7, <4>1 DEF RecOK
      <3> QED BY <3>6, <3>7
    <2>2. CASE writeLong(t) \/ \E size \in Sizes \cup {limit} : writeShort(t, size)
      <3>1. TRUE \in BOOLEAN /\ FALSE \in BOOLEAN /\ "enter" \in {"enter", "test"} /\ "test" \in {"enter", "test"}
        OBVIOUS
      <3> QED BY <2>1, <2>2, <3>1 DEF writeLong, writeShort
    <2>3. CASE callFlush(t)
      <3>1. /\ rec' = [rec EXCEPT ![t] = NoRecord] /\ wrote' = wrote /\ pc' = [pc EXCEPT ![t] = "test"]
        BY <2>3 DEF callFlush, Goto
      <3>2. /\ \A u \in Threads : u # t => rec'[u] = rec[u] /\ pc'[u] = pc[u]
            /\ rec'[t] = NoRecord /\ pc'[t] = "test"
        BY <1>0, <3>1 DEF Types
      <3>3. \A u \in Threads : Pending(u)' => Pending(u) /\ u # t
        <4>1. rec'[t].long # TRUE
          BY <3>2 DEF NoRecord
        <4> QED BY <3>2, <4>1 DEF Pending
      <3> QED BY <1>0, <1>6, <3>1, <3>2, <3>3 DEF RecOK
    <2>4. CASE Enters(t) \/ refuse(t) \/ flushReturns(t)
      <3>1. UNCHANGED <<rec, wrote, accepted>>
        BY <2>4 DEF Enters, EnterCriticalSection, refuse, flushReturns
      <3>2. (Pending(t)' => Pending(t)) /\ l # "print"
        <4>1. /\ pc'[t] = l /\ rec' = rec
          BY <1>3, <3>1
        <4>2. \/ l = "idle"
              \/ pc[t] = "enter" /\ l = "format"
              \/ pc[t] = "flush enter" /\ l = "flush write"
          <5>1. \/ pc' = [pc EXCEPT ![t] = "idle"]
                \/ pc[t] = "enter" /\ pc' = [pc EXCEPT ![t] = "format"]
                \/ pc[t] = "flush enter" /\ pc' = [pc EXCEPT ![t] = "flush write"]
            BY <2>4 DEF Enters, EnterCriticalSection, refuse, flushReturns, LeaveCriticalSection, Goto, At
          <5> QED BY <1>0, <4>1, <5>1 DEF Types
        <4> QED BY <4>1, <4>2 DEF Pending
      <3> QED BY <1>0, <1>2, <3>1, <3>2, RecSame
    <2>5. CASE flushTest(t)
      <3>1. UNCHANGED <<rec, wrote, accepted>> /\ pc[t] = "test"
        BY <2>5 DEF flushTest, At
      <3>2. l = "flush enter" \/ (l = "print" /\ rec[t].long = TRUE) \/ l = "flushed"
        <4>1. pc' = [pc EXCEPT ![t] = "flush enter"] \/ pc' = [pc EXCEPT ![t] = Done(t)]
          BY <2>5 DEF flushTest, Goto
        <4>2. l = "flush enter" \/ l = Done(t)
          BY <1>0, <1>3, <4>1 DEF Types
        <4>3. rec[t].long \in BOOLEAN
          <5>1. rec[t] \in Records \/ rec[t] = NoRecord
            BY <1>0 DEF Types
          <5>2. NoRecord.long \in BOOLEAN
            BY DEF NoRecord
          <5> QED BY <5>1, <5>2, RecordFields
        <4> QED BY <4>2, <4>3 DEF Done
      <3>3. Pending(t)' => Pending(t)
        BY <1>3, <3>1, <3>2 DEF Pending
      <3> QED BY <1>0, <1>2, <3>1, <3>2, <3>3, RecSame
    <2> QED BY <2>2, <2>3, <2>4, <2>5 DEF Quiet
  <1> QED BY <1>5, <1>8, <1>9, <1>10

-------------------------------------------------------------------------------
(* The steps that change the buffer or the file. *)

\* A step of one thread that is not the end of a flush, when the file and what is stored grow.
LEMMA WritesKept ==
  ASSUME Types, FlushWrites, NEW t \in Threads, NEW l, pc' = [pc EXCEPT ![t] = l],
         l \notin {"flushed", "print"},
         Range(file) \subseteq Range(file'), \A r \in accepted' : r \in accepted \/ r.by = t
  PROVE  FlushWrites'
  <1>1. \A u \in Threads : pc'[u] = IF u = t THEN l ELSE pc[u]
    BY ONLY Types, pc' = [pc EXCEPT ![t] = l], t \in Threads, Moved
  <1> SUFFICES ASSUME NEW u \in Threads, pc'[u] \in {"flushed", "print"}, NEW r \in accepted', r.by = u
               PROVE  r \in Range(file')
    BY DEF FlushWrites
  <1>2. u # t /\ pc[u] \in {"flushed", "print"} /\ r \in accepted
    BY <1>1
  <1> QED BY <1>2 DEF FlushWrites

LEMMA StoresKept ==
  ASSUME Types, StoresOK, NEW t \in Threads, NEW l, pc' = [pc EXCEPT ![t] = l],
         l \notin {"flushed", "print"},
         Stored \subseteq Stored', Spilling => Spilling', \A r \in accepted' : r \in accepted \/ r.by = t
  PROVE  StoresOK'
  <1>1. \A u \in Threads : pc'[u] = IF u = t THEN l ELSE pc[u]
    BY ONLY Types, pc' = [pc EXCEPT ![t] = l], t \in Threads, Moved
  <1> QED BY <1>1 DEF StoresOK

LEMMA AppendStep ==
  ASSUME IInv, NEW t \in Threads, append(t)
  PROVE  Store' /\ RecOK' /\ FlushWrites' /\ StoresOK'
  <1>0. Types /\ LockOK /\ BufferOK /\ OrderOK /\ AcceptedOK /\ RecOK /\ SyncOK /\ FlushWrites /\ StoresOK
    BY DEF IInv
  <1>1. /\ pc[t] = "format" /\ rec[t].size < limit /\ pc' = [pc EXCEPT ![t] = "idle"]
        /\ buffer' = Append(buffer, rec[t]) /\ index' = index + rec[t].size
        /\ accepted' = accepted \cup {rec[t]}
        /\ file' = file /\ synced' = synced /\ rec' = rec /\ wrote' = wrote
    BY DEF append, LeaveCriticalSection, Goto, At, Accepted
  <1>2. pc[t] \in InLock
    BY <1>1 DEF InLock
  <1>3. ~Flushing /\ ~Spilling /\ ~Unsynced /\ ~Flushing' /\ ~Spilling' /\ ~Unsynced'
    <2>1. ~Flushing /\ ~Spilling /\ ~Unsynced
      BY <1>0, <1>1, <1>2, Alone
    <2>2. PICK l : l = "idle" /\ pc' = [pc EXCEPT ![t] = l]
      BY <1>1
    <2>3. /\ Flushing' <=> l \in {"spill reset", "flush sync", "flush reset"}
          /\ Spilling' <=> l \in {"spill temp", "spill sync"}
          /\ Unsynced' <=> l \in {"spill reset", "flush sync"}
      BY <1>0, <1>2, <2>2, AloneNext
    <2> QED BY <2>1, <2>2, <2>3
  <1>4. /\ Pending(t) /\ rec[t] \in Records /\ rec[t].by = t
        /\ \A r \in accepted : r.by = t => r.no < rec[t].no
    BY <1>0, <1>1 DEF Pending, RecOK
  <1>5. buffer \in Seq(Records) /\ file \in Seq(Records) /\ index \in Nat
    BY <1>0 DEF Types
  <1>6. Range(buffer') = Range(buffer) \cup {rec[t]} /\ Len(buffer') = Len(buffer) + 1 /\ Len(buffer) \in Nat
    BY <1>1, <1>4, <1>5, AppendRange
  <1>7. accepted = Range(file) \cup Range(buffer)
    BY <1>0 DEF AcceptedOK
  <1>8. index' > 0 /\ buffer' # << >>
    <2>1. rec[t].size \in Nat \ {0}
      <3>1. rec[t].size \in Sizes \cup {limit} /\ limit \in Nat /\ \A n \in Sizes : n \in 1..(limit - 1)
        BY <1>4, LogAssumption DEF Records
      <3>2. rec[t].size \in Sizes
        BY <1>1, <3>1
      <3> QED BY <3>1, <3>2
    <2>2. index' > 0
      BY <1>1, <1>5, <2>1
    <2>3. Len(buffer') > 0
      BY <1>6
    <2>4. Len(<< >>) = 0
      OBVIOUS
    <2>5. buffer' # << >>
      BY <2>3, <2>4
    <2> QED BY <2>2, <2>5
  <1>9. Precedes(file', buffer')
    <2> SUFFICES ASSUME NEW r \in Range(file), NEW x \in Range(buffer'), r.by = x.by PROVE r.no < x.no
      BY <1>1 DEF Precedes
    <2>1. CASE x \in Range(buffer)
      BY <1>0, <1>3, <2>1 DEF BufferOK, Precedes
    <2>2. CASE x = rec[t]
      BY <1>4, <1>7, <2>2
    <2> QED BY <1>6, <2>1, <2>2
  <1>10. BufferOK'
    BY <1>3, <1>8, <1>9 DEF BufferOK
  <1>11. InOrder(Append(buffer, rec[t]))
    BY <1>0, <1>4, <1>5, <1>7, OrderAppend DEF OrderOK
  <1>12. OrderOK'
    BY <1>0, <1>1, <1>11 DEF OrderOK, InOrder
  <1>13. AcceptedOK'
    BY <1>1, <1>6, <1>7 DEF AcceptedOK
  <1>14. Stored' = Stored
    BY <1>1 DEF Stored
  <1>15. SyncOK'
    BY <1>0, <1>1, <1>3, <1>14 DEF SyncOK
  <1>16. RecOK'
    BY <1>0, <1>1, <1>4, RecAccepted DEF Accepted
  <1>17. FlushWrites' /\ StoresOK'
    BY <1>0, <1>1, <1>3, <1>4, <1>14, WritesKept, StoresKept
  <1> QED BY <1>10, <1>12, <1>13, <1>15, <1>16, <1>17 DEF Store

LEMMA CopiesStep ==
  ASSUME IInv, NEW t \in Threads, Copies(t)
  PROVE  Store' /\ RecOK' /\ FlushWrites' /\ StoresOK'
  <1>0. Types /\ LockOK /\ BufferOK /\ OrderOK /\ AcceptedOK /\ RecOK /\ SyncOK /\ FlushWrites /\ StoresOK
    BY DEF IInv
  <1>1. PICK l : /\ pc' = [pc EXCEPT ![t] = l]
                 /\ (pc[t] = "format" /\ l = "spill reset") \/ (pc[t] = "flush write" /\ l = "flush sync")
    BY DEF Copies, spillBuffer, flushWrite, Goto, At
  <1>2. /\ file' = file \o buffer /\ buffer' = buffer /\ index' = index /\ synced' = synced
        /\ rec' = rec /\ wrote' = wrote /\ accepted' = accepted
    BY DEF Copies, spillBuffer, flushWrite
  <1>3. pc[t] \in InLock
    BY <1>1 DEF InLock
  <1>4. ~Flushing /\ ~Spilling /\ ~Unsynced
    BY <1>0, <1>1, <1>3, Alone
  <1>5. Flushing' /\ ~Spilling' /\ Unsynced'
    BY <1>0, <1>1, <1>3, AloneNext
  <1>6. buffer \in Seq(Records) /\ file \in Seq(Records) /\ synced \in Nat
    BY <1>0 DEF Types
  <1>7. /\ Range(file') = Range(file) \cup Range(buffer)
        /\ Len(file') = Len(file) + Len(buffer) /\ Len(file) \in Nat /\ Len(buffer) \in Nat
        /\ \A i \in 1..Len(file) : file'[i] = file[i]
    BY <1>2, <1>6, ConcatRange
  <1>8. BufferOK'
    BY <1>0, <1>2, <1>5, <1>7 DEF BufferOK
  <1>9. InOrder(file \o buffer)
    BY <1>0, <1>4, <1>6, OrderConcat DEF OrderOK, BufferOK
  <1>10. OrderOK' /\ AcceptedOK'
    BY <1>0, <1>2, <1>7, <1>9 DEF OrderOK, AcceptedOK
  <1>11. synced <= Len(file)
    BY <1>0 DEF SyncOK
  <1>12. Stored \subseteq Stored'
    BY <1>2, <1>6, <1>7, <1>11, StoredGrows
  <1>13. SyncOK'
    <2>1. synced' <= Len(file')
      BY <1>2, <1>6, <1>7, <1>11
    <2>2. ASSUME NEW r \in Range(file') PROVE r.long = TRUE \/ r \in Stored' \/ r \in Range(buffer')
      BY <1>0, <1>2, <1>4, <1>7, <1>12 DEF SyncOK
    <2> QED BY <1>5, <2>1, <2>2 DEF SyncOK
  <1>14. RecOK'
    <2>1. pc'[t] = l
      BY <1>0, <1>1, Moved
    <2>2. Pending(t)' => Pending(t)
      BY <1>1, <1>2, <2>1 DEF Pending
    <2> QED BY <1>0, <1>1, <1>2, <2>2, RecSame
  <1>15. FlushWrites' /\ StoresOK'
    BY <1>0, <1>1, <1>2, <1>4, <1>7, <1>12, WritesKept, StoresKept
  <1> QED BY <1>8, <1>10, <1>13, <1>14, <1>15 DEF Store

LEMMA ClearsStep ==
  ASSUME IInv, NEW t \in Threads, Clears(t)
  PROVE  Store' /\ RecOK' /\ FlushWrites' /\ StoresOK'
  <1>0. Types /\ LockOK /\ BufferOK /\ OrderOK /\ AcceptedOK /\ RecOK /\ SyncOK /\ FlushWrites /\ StoresOK
    BY DEF IInv
  <1>1. PICK l : /\ pc' = [pc EXCEPT ![t] = l]
                 /\ \/ pc[t] = "spill reset" /\ l = "spill temp"
                    \/ pc[t] = "flush reset" /\ (l = "flushed" \/ (l = "print" /\ rec[t].long = TRUE))
    <2>1. CASE spillReset(t)
      BY <2>1 DEF spillReset, Goto, At
    <2>2. CASE flushReset(t)
      <3>1. rec[t].long \in BOOLEAN
        <4>1. rec[t] \in Records \/ rec[t] = NoRecord
          BY <1>0 DEF Types
        <4>2. NoRecord.long \in BOOLEAN
          BY DEF NoRecord
        <4> QED BY <4>1, <4>2, RecordFields
      <3>2. pc' = [pc EXCEPT ![t] = Done(t)] /\ pc[t] = "flush reset"
        BY <2>2 DEF flushReset, Goto, At
      <3>3. Done(t) = "flushed" \/ (Done(t) = "print" /\ rec[t].long = TRUE)
        BY <3>1 DEF Done
      <3> QED BY <3>2, <3>3
    <2> QED BY <2>1, <2>2 DEF Clears
  <1>2. /\ buffer' = << >> /\ index' = 0 /\ file' = file /\ synced' = synced
        /\ rec' = rec /\ wrote' = wrote /\ accepted' = accepted
    BY DEF Clears, spillReset, flushReset
  <1>3. pc[t] \in InLock
    BY <1>1 DEF InLock
  <1>4. Flushing /\ ~Spilling /\ (pc[t] = "flush reset" => ~Unsynced)
    BY <1>0, <1>1, <1>3, Alone
  <1>5. ~Flushing' /\ (pc[t] = "spill reset" => Spilling')
    BY <1>0, <1>1, <1>3, AloneNext
  <1>6. Range(buffer') = {}
    BY <1>2, EmptyRange
  <1>7. accepted = Range(file)
    BY <1>0, <1>4 DEF AcceptedOK, BufferOK
  <1>8. Stored' = Stored
    BY <1>2 DEF Stored
  <1>9. BufferOK'
    <2>1. ~(index' > 0)
      BY <1>2
    <2>2. Precedes(file', buffer')
      BY <1>6 DEF Precedes
    <2> QED BY <1>2, <1>5, <2>1, <2>2 DEF BufferOK
  <1>10. OrderOK'
    <2>1. Len(<< >>) = 0
      OBVIOUS
    <2>2. InOrder(buffer')
      BY <1>2, <2>1 DEF InOrder
    <2> QED BY <1>0, <1>2, <2>2 DEF OrderOK
  <1>11. AcceptedOK'
    BY <1>2, <1>6, <1>7 DEF AcceptedOK
  <1>12. pc[t] = "flush reset" => \A r \in Range(file) : r.long = TRUE \/ r \in Stored
    BY <1>0, <1>4 DEF SyncOK
  <1>13. SyncOK'
    BY <1>0, <1>1, <1>2, <1>5, <1>8, <1>12 DEF SyncOK
  <1>14. \A u \in Threads : pc'[u] = IF u = t THEN l ELSE pc[u]
    BY <1>0, <1>1, Moved
  <1>15. RecOK'
    <2>1. Pending(t)' => Pending(t)
      BY <1>1, <1>2, <1>14 DEF Pending
    <2> QED BY <1>0, <1>1, <1>2, <2>1, RecSame
  <1>16. FlushWrites'
    BY <1>2, <1>7 DEF FlushWrites
  <1>17. StoresOK'
    <2>1. CASE pc[t] = "spill reset"
      BY <1>5, <2>1 DEF StoresOK
    <2>2. CASE pc[t] = "flush reset"
      BY <1>2, <1>7, <1>8, <1>12, <2>2 DEF StoresOK
    <2> QED BY <1>1, <2>1, <2>2
  <1> QED BY <1>9, <1>10, <1>11, <1>13, <1>15, <1>16, <1>17 DEF Store

LEMMA PassesStep ==
  ASSUME IInv, NEW t \in Threads, Passes(t)
  PROVE  Store' /\ RecOK' /\ FlushWrites' /\ StoresOK'
  <1>0. Types /\ LockOK /\ BufferOK /\ OrderOK /\ AcceptedOK /\ RecOK /\ SyncOK /\ FlushWrites /\ StoresOK
    BY DEF IInv
  <1>1. PICK l : /\ pc' = [pc EXCEPT ![t] = l]
                 /\ (pc[t] = "spill temp" /\ l = "spill sync") \/ (pc[t] = "print" /\ l = "idle")
    BY DEF Passes, spillTemp, vfprintf, Goto, At
  <1>2. /\ file' = Append(file, rec[t]) /\ buffer' = buffer /\ index' = index /\ synced' = synced
        /\ rec' = rec /\ wrote' = wrote /\ accepted' = accepted \cup {rec[t]}
    BY DEF Passes, spillTemp, vfprintf, Accepted
  <1>3. (Flushing' <=> Flushing) /\ (Spilling' <=> Spilling) /\ (Unsynced' <=> Unsynced)
    <2>1. CASE pc[t] = "spill temp"
      <3>1. pc[t] \in InLock /\ l = "spill sync"
        BY <1>1, <2>1 DEF InLock
      <3>2. ~Flushing /\ Spilling /\ ~Unsynced
        BY <1>0, <2>1, <3>1, Alone
      <3>3. ~Flushing' /\ Spilling' /\ ~Unsynced'
        BY <1>0, <1>1, <3>1, AloneNext
      <3> QED BY <3>2, <3>3
    <2>2. CASE pc[t] = "print"
      <3>1. pc[t] \notin Special /\ l \notin Special
        BY <1>1, <2>2 DEF Special
      <3> QED BY <1>0, <1>1, <3>1, SameMarks
    <2> QED BY <1>1, <2>1, <2>2
  <1>4. /\ Pending(t) /\ rec[t] \in Records /\ rec[t].by = t
        /\ \A r \in accepted : r.by = t => r.no < rec[t].no
        /\ pc[t] = "print" => rec[t].long = TRUE
    BY <1>0, <1>1 DEF Pending, RecOK
  <1>5. buffer \in Seq(Records) /\ file \in Seq(Records) /\ synced \in Nat
    BY <1>0 DEF Types
  <1>6. /\ Range(file') = Range(file) \cup {rec[t]}
        /\ Len(file') = Len(file) + 1 /\ Len(file) \in Nat
        /\ \A i \in 1..Len(file) : file'[i] = file[i]
    BY <1>2, <1>4, <1>5, AppendRange
  <1>7. accepted = Range(file) \cup Range(buffer)
    BY <1>0 DEF AcceptedOK
  \* Nothing of the thread is left in the buffer that a later write would put behind its record.
  <1>8. ~Flushing => \A x \in Range(buffer) : x.by # t
    <2>1. CASE pc[t] = "spill temp"
      <3>1. buffer = << >>
        BY <1>0, <2>1 DEF BufferOK, Spilling
      <3> QED BY <3>1, EmptyRange
    <2>2. CASE pc[t] = "print"
      <3> SUFFICES ASSUME ~Flushing, NEW x \in Range(buffer), x.by = t PROVE FALSE
        OBVIOUS
      <3>1. x \in Range(file)
        BY <1>0, <1>7, <2>2 DEF FlushWrites
      <3>2. x.no < x.no
        BY <1>0, <3>1 DEF BufferOK, Precedes
      <3>3. x.no \in Nat
        BY <1>5, InRange, RecordFields
      <3> QED BY <3>2, <3>3
    <2> QED BY <1>1, <2>1, <2>2
  <1>9. BufferOK'
    <2>1. ~Flushing => Precedes(file', buffer)
      <3> SUFFICES ASSUME ~Flushing, NEW r \in Range(file'), NEW x \in Range(buffer), r.by = x.by
                   PROVE  r.no < x.no
        BY DEF Precedes
      <3>1. r \in Range(file)
        BY <1>4, <1>6, <1>8
      <3> QED BY <1>0, <3>1 DEF BufferOK, Precedes
    <2> QED BY <1>0, <1>2, <1>3, <1>6, <2>1 DEF BufferOK
  <1>10. InOrder(Append(file, rec[t]))
    BY <1>0, <1>4, <1>5, <1>7, OrderAppend DEF OrderOK
  <1>11. OrderOK' /\ AcceptedOK'
    <2>1. OrderOK'
      BY <1>0, <1>2, <1>10 DEF OrderOK
    <2>2. AcceptedOK'
      BY <1>2, <1>6, <1>7 DEF AcceptedOK
    <2> QED BY <2>1, <2>2
  <1>12. synced <= Len(file)
    BY <1>0 DEF SyncOK
  <1>13. Stored \subseteq Stored'
    BY <1>2, <1>5, <1>6, <1>12, StoredGrows
  <1>14. SyncOK'
    <2>1. synced' <= Len(file')
      BY <1>2, <1>5, <1>6, <1>12
    <2>2. pc[t] = "spill temp" => Spilling
      BY DEF Spilling
    <2>3. ASSUME NEW r \in Range(file')
          PROVE  r.long = TRUE \/ r \in Stored' \/ (r \in Range(buffer') /\ Unsynced') \/ Spilling'
      <3>1. CASE r \in Range(file)
        BY <1>0, <1>2, <1>3, <1>13, <3>1 DEF SyncOK
      <3>2. CASE r = rec[t]
        BY <1>1, <1>3, <1>4, <2>2, <3>2
      <3> QED BY <1>6, <3>1, <3>2
    <2> QED BY <2>1, <2>3 DEF SyncOK
  <1>15. RecOK'
    BY <1>0, <1>1, <1>2, <1>4, RecAccepted DEF Accepted
  <1>16. FlushWrites' /\ StoresOK'
    <2>1. l \notin {"flushed", "print"} /\ \A r \in accepted' : r \in accepted \/ r.by = t
      BY <1>1, <1>2, <1>4
    <2> QED BY <1>0, <1>1, <1>3, <1>6, <1>13, <2>1, WritesKept, StoresKept
  <1> QED BY <1>9, <1>11, <1>14, <1>15, <1>16 DEF Store

LEMMA SyncsStep ==
  ASSUME IInv, NEW t \in Threads, Syncs(t)
  PROVE  Store' /\ RecOK' /\ FlushWrites' /\ StoresOK'
  <1>0. Types /\ LockOK /\ BufferOK /\ OrderOK /\ AcceptedOK /\ RecOK /\ SyncOK /\ FlushWrites /\ StoresOK
    BY DEF IInv
  <1>1. PICK l : /\ pc' = [pc EXCEPT ![t] = l]
                 /\ (pc[t] = "spill sync" /\ l = "idle") \/ (pc[t] = "flush sync" /\ l = "flush reset")
    BY DEF Syncs, spillSync, flushSync, LeaveCriticalSection, Goto, At
  <1>2. /\ file' = file /\ buffer' = buffer /\ index' = index /\ synced' = Len(file)
        /\ rec' = rec /\ wrote' = wrote /\ accepted' = accepted
    BY DEF Syncs, spillSync, flushSync
  <1>3. pc[t] \in InLock
    BY <1>1 DEF InLock
  <1>4. (Flushing' <=> Flushing) /\ ~Spilling'
    <2>1. Flushing <=> pc[t] = "flush sync"
      BY <1>0, <1>1, <1>3, Alone
    <2>2. (Flushing' <=> l = "flush reset") /\ ~Spilling'
      BY <1>0, <1>1, <1>3, AloneNext
    <2> QED BY <1>1, <2>1, <2>2
  <1>5. file \in Seq(Records) /\ Len(file) \in Nat
    BY <1>0, LenProperties DEF Types
  <1>6. Stored' = Range(file)
    BY <1>2, <1>5, AllStored DEF Stored
  <1>7. BufferOK'
    BY <1>0, <1>2, <1>4 DEF BufferOK
  <1>8. OrderOK' /\ AcceptedOK'
    BY <1>0, <1>2 DEF OrderOK, AcceptedOK
  <1>9. SyncOK'
    <2>1. synced' <= Len(file')
      BY <1>2, <1>5
    <2>2. \A r \in Range(file') : r \in Stored'
      BY <1>2, <1>6
    <2> QED BY <2>1, <2>2 DEF SyncOK
  <1>10. \A u \in Threads : pc'[u] = IF u = t THEN l ELSE pc[u]
    BY <1>0, <1>1, Moved
  <1>11. RecOK'
    <2>1. Pending(t)' => Pending(t)
      BY <1>1, <1>2, <1>10 DEF Pending
    <2> QED BY <1>0, <1>1, <1>2, <2>1, RecSame
  <1>12. FlushWrites'
    BY <1>0, <1>1, <1>2, WritesKept
  <1>13. StoresOK'
    BY <1>2, <1>6, <1>12 DEF FlushWrites, StoresOK
  <1> QED BY <1>7, <1>8, <1>9, <1>11, <1>12, <1>13 DEF Store

LEMMA DestroyStep ==
  ASSUME IInv, destroy
  PROVE  Store' /\ RecOK' /\ FlushWrites' /\ StoresOK'
  <1>0. Types /\ BufferOK /\ OrderOK /\ AcceptedOK /\ RecOK
    BY DEF IInv
  <1>1. /\ file' = file \o buffer /\ synced' = Len(file') /\ buffer' = << >> /\ index' = 0
        /\ pc' = pc /\ rec' = rec /\ wrote' = wrote /\ accepted' = accepted
        /\ \A t \in Threads : pc[t] = "idle"
    BY DEF destroy, At
  <1>2. ~Flushing /\ ~Flushing' /\ ~Spilling'
    BY <1>1 DEF Flushing, Spilling
  <1>3. buffer \in Seq(Records) /\ file \in Seq(Records)
    BY <1>0 DEF Types
  <1>4. /\ file' \in Seq(Records) /\ Range(file') = Range(file) \cup Range(buffer) /\ Len(file') \in Nat
    BY <1>1, <1>3, ConcatRange, LenProperties
  <1>5. Range(buffer') = {}
    BY <1>1, EmptyRange
  <1>6. BufferOK'
    <2>1. ~(index' > 0)
      BY <1>1
    <2>2. Precedes(file', buffer')
      BY <1>5 DEF Precedes
    <2> QED BY <1>1, <1>2, <2>1, <2>2 DEF BufferOK
  <1>7. OrderOK'
    <2>1. Len(<< >>) = 0
      OBVIOUS
    <2>2. InOrder(buffer')
      BY <1>1, <2>1 DEF InOrder
    <2>3. InOrder(file \o buffer)
      BY <1>0, <1>2, <1>3, OrderConcat DEF OrderOK, BufferOK
    <2> QED BY <1>1, <2>2, <2>3 DEF OrderOK
  <1>8. AcceptedOK'
    BY <1>0, <1>1, <1>4, <1>5 DEF AcceptedOK
  <1>9. SyncOK'
    <2>1. synced' <= Len(file')
      BY <1>1, <1>4
    <2>2. Stored' = Range(file')
      BY <1>1, <1>4, AllStored DEF Stored
    <2> QED BY <2>1, <2>2 DEF SyncOK
  <1>10. RecOK'
    BY <1>0, <1>1 DEF RecOK, Pending
  <1>11. FlushWrites' /\ StoresOK'
    BY <1>1 DEF FlushWrites, StoresOK
  <1> QED BY <1>6, <1>7, <1>8, <1>9, <1>10, <1>11 DEF Store

-------------------------------------------------------------------------------
(* The invariant, and what it implies. *)

LEMMA IInvInit == Init => IInv
  <1> SUFFICES ASSUME Init PROVE IInv
    OBVIOUS
  <1>1. \A t \in Threads : pc[t] = "idle" /\ pc[t] \notin InLock
    BY DEF Init, InLock
  <1>2. Range(<< >>) = {} /\ << >> \in Seq(Records) /\ Len(<< >>) = 0
    BY EmptyRange, EmptySeq
  <1>3. Types
    <2>1. pc \in [Threads -> Labels] /\ rec \in [Threads -> Records \cup {NoRecord}] /\ wrote \in [Threads -> Nat]
      BY DEF Init, Labels
    <2>2. buffer \in Seq(Records) /\ file \in Seq(Records) /\ accepted \in SUBSET Records
      BY <1>2 DEF Init
    <2>3. index \in Nat /\ synced \in Nat /\ owner \in Threads \cup {NoThread}
      BY DEF Init
    <2> QED BY <2>1, <2>2, <2>3 DEF Types
  <1>4. LockOK
    BY <1>1, LogAssumption DEF Init, LockOK
  <1>5. BufferOK /\ OrderOK /\ AcceptedOK
    <2>1. buffer = << >> /\ file = << >> /\ accepted = {} /\ index = 0
      BY DEF Init
    <2>2. ~Flushing /\ ~Spilling
      BY <1>1 DEF Flushing, Spilling
    <2>5. ~(index > 0)
      BY <2>1
    <2>3. Precedes(file, buffer)
      BY <1>2, <2>1 DEF Precedes
    <2>4. InOrder(file) /\ InOrder(buffer)
      BY <1>2, <2>1 DEF InOrder
    <2> QED BY <1>2, <2>1, <2>2, <2>3, <2>4, <2>5 DEF BufferOK, OrderOK, AcceptedOK
  <1>6. RecOK
    BY <1>1 DEF Init, RecOK, Pending
  <1>7. SyncOK
    BY <1>2 DEF Init, SyncOK
  <1>8. FlushWrites /\ StoresOK
    BY <1>1 DEF FlushWrites, StoresOK
  <1> QED BY <1>3, <1>4, <1>5, <1>6, <1>7, <1>8 DEF IInv

LEMMA IInvStep == IInv /\ [Next]_vars => IInv'
  <1> SUFFICES ASSUME IInv, [Next]_vars PROVE IInv'
    OBVIOUS
  <1>1. Types' /\ LockOK'
    BY TypesStep, LockStep DEF IInv
  <1>2. Store' /\ RecOK' /\ FlushWrites' /\ StoresOK'
    <2>1. CASE UNCHANGED vars
      <3>1. UNCHANGED <<buffer, index, file, synced, accepted>> /\ pc' = pc /\ rec' = rec /\ wrote' = wrote
        BY <2>1 DEF vars
      <3>2. (Flushing' <=> Flushing) /\ (Spilling' <=> Spilling) /\ (Unsynced' <=> Unsynced) /\ Stored' = Stored
        BY <3>1 DEF Flushing, Spilling, Unsynced, Stored
      <3>3. Store'
        BY <3>1, <3>2, StoreSame DEF IInv, Store
      <3>4. RecOK' /\ FlushWrites' /\ StoresOK'
        BY <3>1, <3>2 DEF IInv, RecOK, Pending, FlushWrites, StoresOK
      <3> QED BY <3>3, <3>4
    <2>2. CASE Next
      BY <2>2, StepCases, QuietStep, AppendStep, CopiesStep, ClearsStep, PassesStep, SyncsStep, DestroyStep
    <2> QED BY <2>1, <2>2
  <1> QED BY <1>1, <1>2 DEF IInv, Store

\* When flush has returned, and before vfprintf writes a long record, all that the thread has
\* written is in the file, for any number of threads: the test of index outside the lock is safe.
THEOREM FlushWritesAll == Spec => []FlushWrites
  <1>1. IInv => FlushWrites
    BY DEF IInv
  <1> QED BY IInvInit, IInvStep, <1>1, PTL DEF Spec

\* And it is stored, but for long records, unless a thread is between the reset and the fflush of
\* the full buffer: a flush in that window finds index = 0 and returns too early.
THEOREM FlushStoresAll == Spec => []FlushStores
  <1>1. IInv => FlushStores
    <2> SUFFICES ASSUME IInv PROVE FlushStores
      OBVIOUS
    <2>1. StoresOK /\ accepted \subseteq Records
      BY DEF IInv, Types
    <2>2. \A r \in accepted : r.long = TRUE => r.long
      OBVIOUS
    <2> QED BY <2>1, <2>2 DEF StoresOK, FlushStores, Spilling
  <1> QED BY IInvInit, IInvStep, <1>1, PTL DEF Spec

-------------------------------------------------------------------------------
(* The log implements the journal. *)

owed == accepted \ Range(file)

JournalStep == [Journal!Next]_<<owed, file>>

\* A record that a thread is about to have accepted is the latest of its records.
LEMMA PendingLatest ==
  ASSUME IInv, NEW t \in Threads, Pending(t)
  PROVE  /\ rec[t] \in Records /\ rec[t].by = t /\ rec[t] \notin accepted
         /\ \A s \in accepted : s.by = t => s.no < rec[t].no
         /\ Journal!Latest(rec[t])
  <1>1. /\ rec[t] \in Records /\ rec[t].by = t
        /\ \A s \in accepted : s.by = t => s.no < rec[t].no
    BY DEF IInv, RecOK
  <1>2. rec[t].no \in Nat
    BY <1>1, RecordFields
  <1>3. rec[t] \notin accepted
    BY <1>1, <1>2
  <1>4. \A i \in 1..Len(file) : file[i] \in accepted
    BY InRange DEF IInv, Types, AcceptedOK
  <1>5. Journal!Latest(rec[t])
    BY <1>1, <1>4 DEF Journal!Latest, Journal!Earlier
  <1> QED BY <1>1, <1>3, <1>5

LEMMA NotEarlier ==
  ASSUME NEW r, NEW x, r.no \in Nat, x.no \in Nat, r.by = x.by => r.no < x.no
  PROVE  x # r /\ ~Journal!Earlier(x, r)
  <1>1. x # r
    <2> SUFFICES ASSUME x = r PROVE FALSE
      OBVIOUS
    <2>1. r.no < r.no
      OBVIOUS
    <2> QED BY <2>1
  <1> QED BY <1>1 DEF Journal!Earlier

LEMMA AppendAccepts ==
  ASSUME IInv, NEW t \in Threads, append(t)
  PROVE  JournalStep
  <1>1. /\ Pending(t) /\ accepted' = accepted \cup {rec[t]} /\ file' = file
    BY DEF append, Accepted, Pending, At
  <1>2. rec[t] \in Records /\ rec[t] \notin accepted /\ Journal!Latest(rec[t])
    BY <1>1, PendingLatest
  <1>3. Range(file) \subseteq accepted
    BY DEF IInv, AcceptedOK
  <1>4. owed' = owed \cup {rec[t]}
    BY <1>1, <1>2, <1>3 DEF owed
  <1>5. Journal!Accept(rec[t])
    BY <1>1, <1>2, <1>4 DEF Journal!Accept, owed
  <1> QED BY <1>2, <1>5 DEF JournalStep, Journal!Next

LEMMA PassesAcceptsOut ==
  ASSUME IInv, NEW t \in Threads, Passes(t)
  PROVE  JournalStep
  <1>1. /\ pc[t] \in {"spill temp", "print"}
        /\ accepted' = accepted \cup {rec[t]} /\ file' = Append(file, rec[t])
    BY DEF Passes, spillTemp, vfprintf, Accepted, At
  <1>2. Pending(t)
    BY <1>1 DEF Pending
  <1>3. rec[t] \in Records /\ rec[t].by = t /\ rec[t] \notin accepted /\ Journal!Latest(rec[t])
    BY <1>2, PendingLatest
  <1>4. file \in Seq(Records) /\ accepted = Range(file) \cup Range(buffer)
    BY DEF IInv, Types, AcceptedOK
  <1>5. Range(file') = Range(file) \cup {rec[t]}
    <2>1. Range(Append(file, rec[t])) = Range(file) \cup {rec[t]}
      BY <1>3, <1>4, AppendRange
    <2> QED BY <1>1, <2>1
  <1>6. owed' = owed
    BY <1>1, <1>3, <1>5 DEF owed
  <1>7. \A s \in owed : s.by # rec[t].by
    <2>1. CASE pc[t] = "spill temp"
      <3>1. buffer = << >>
        BY <2>1 DEF IInv, BufferOK, Spilling
      <3>2. owed = {}
        BY <1>4, <3>1, EmptyRange DEF owed
      <3> QED BY <3>2
    <2>2. CASE pc[t] = "print"
      BY <1>3, <2>2 DEF IInv, FlushWrites, owed
    <2> QED BY <1>1, <2>1, <2>2
  <1>8. Journal!AcceptOut(rec[t])
    BY <1>1, <1>3, <1>6, <1>7 DEF Journal!AcceptOut, owed
  <1> QED BY <1>3, <1>8 DEF JournalStep, Journal!Next

\* The buffer reaches the file whole, in order and for the first time.
LEMMA BufferOut ==
  ASSUME IInv, ~Flushing, file' = file \o buffer, accepted' = accepted
  PROVE  JournalStep
  <1>1. /\ file \in Seq(Records) /\ buffer \in Seq(Records) /\ accepted = Range(file) \cup Range(buffer)
        /\ Precedes(file, buffer) /\ InOrder(file) /\ InOrder(buffer)
    BY DEF IInv, Types, AcceptedOK, BufferOK, OrderOK
  <1> DEFINE n == Len(file)
             m == Len(buffer)
  <1>2. /\ file' \in Seq(Records) /\ Range(file') = Range(file) \cup Range(buffer)
        /\ Len(file') = n + m /\ n \in Nat /\ m \in Nat
        /\ \A i \in 1..n : file'[i] = file[i]
        /\ \A i \in 1..m : file'[n + i] = buffer[i]
    BY <1>1, ConcatRange
  <1>3. InOrder(file')
    BY <1>1, OrderConcat
  <1>4. /\ \A x : x \in Range(buffer) <=> \E i \in 1..m : buffer[i] = x
    BY <1>1, InRange
  <1>5. \A x \in Range(buffer) : x \in Records /\ x.no \in Nat
    BY <1>1, InRange, RecordFields
  <1> HIDE DEF n, m
  <1>6. Journal!Added = (n + 1) .. (n + m)
    BY <1>2 DEF Journal!Added, n
  <1>7. \A i \in Journal!Added : i - n \in 1..m /\ file'[i] = buffer[i - n] /\ i \in 1..Len(file') /\ file'[i] \in Range(buffer)
    <2> SUFFICES ASSUME NEW i \in (n + 1) .. (n + m)
                 PROVE  i - n \in 1..m /\ file'[i] = buffer[i - n] /\ i \in 1..Len(file') /\ file'[i] \in Range(buffer)
      BY <1>6
    <2>1. i - n \in 1..m /\ i = n + (i - n) /\ i \in 1..Len(file')
      BY <1>2
    <2>2. file'[i] = buffer[i - n]
      BY <1>2, <2>1
    <2> QED BY <1>4, <2>1, <2>2
  <1>8. {file'[i] : i \in Journal!Added} = Range(buffer)
    <2>1. ASSUME NEW x \in Range(buffer) PROVE x \in {file'[i] : i \in Journal!Added}
      <3>1. PICK i \in 1..m : buffer[i] = x
        BY <1>4
      <3>2. n + i \in Journal!Added /\ file'[n + i] = x
        BY <1>2, <1>6, <3>1
      <3> QED BY <3>2
    <2> QED BY <1>7, <2>1
  <1>9. owed = Range(buffer) /\ owed' = {}
    <2>1. \A x \in Range(buffer) : x \notin Range(file)
      <3> SUFFICES ASSUME NEW x \in Range(buffer), x \in Range(file) PROVE FALSE
        OBVIOUS
      <3>1. x.no < x.no
        BY <1>1 DEF Precedes
      <3> QED BY <1>5, <3>1
    <2> QED BY <1>1, <1>2, <2>1 DEF owed
  <1>10. ASSUME NEW i \in Journal!Added, NEW j \in Journal!Added, j > i
         PROVE  file'[j] # file'[i] /\ ~Journal!Earlier(file'[j], file'[i])
    <2>1. i \in 1..Len(file') /\ j \in 1..Len(file') /\ i < j
      BY <1>2, <1>6, <1>7, <1>10
    <2>2. file'[i].by = file'[j].by => file'[i].no < file'[j].no
      BY <1>3, <2>1 DEF InOrder
    <2>3. file'[i].no \in Nat /\ file'[j].no \in Nat
      BY <1>5, <1>7
    <2> QED BY <2>2, <2>3, NotEarlier
  <1>11. Len(file') >= Len(file) /\ \A i \in 1..Len(file) : file'[i] = file[i]
    BY <1>2 DEF n
  <1>12. Journal!WriteOut
    <2>1. owed' = owed \ {file'[i] : i \in Journal!Added}
      BY <1>8, <1>9
    <2>2. \A i \in Journal!Added : file'[i] \in owed /\ \A s \in owed' : ~Journal!Earlier(s, file'[i])
      BY <1>7, <1>9
    <2> QED BY <1>10, <1>11, <2>1, <2>2 DEF Journal!WriteOut, owed
  <1> QED BY <1>12 DEF JournalStep, Journal!Next

LEMMA RefinesStep == IInv /\ [Next]_vars => JournalStep
  <1> SUFFICES ASSUME IInv, [Next]_vars PROVE JournalStep
    OBVIOUS
  <1>1. ASSUME UNCHANGED <<file, accepted>> PROVE JournalStep
    BY <1>1 DEF JournalStep, owed
  <1>2. CASE UNCHANGED vars
    BY <1>1, <1>2 DEF vars
  <1>3. ASSUME NEW t \in Threads, Quiet(t) \/ Clears(t) \/ Syncs(t) PROVE JournalStep
    <2>1. CASE Quiet(t)
      BY <1>1, <2>1 DEF Quiet, writeLong, writeShort, Begin, Enters, EnterCriticalSection, refuse,
                        callFlush, flushTest, flushReturns
    <2>2. CASE Clears(t) \/ Syncs(t)
      BY <1>1, <2>2 DEF Clears, spillReset, flushReset, Syncs, spillSync, flushSync
    <2> QED BY <1>3, <2>1, <2>2
  <1>4. ASSUME NEW t \in Threads, Copies(t) PROVE JournalStep
    <2>1. /\ pc[t] \in {"format", "flush write"} /\ file' = file \o buffer /\ accepted' = accepted
      BY <1>4 DEF Copies, spillBuffer, flushWrite, At
    <2>2. pc[t] \in InLock
      BY <2>1 DEF InLock
    <2>3. ~Flushing
      BY <2>1, <2>2, Alone DEF IInv
    <2> QED BY <2>1, <2>3, BufferOut
  <1>5. CASE destroy
    <2>1. ~Flushing /\ file' = file \o buffer /\ accepted' = accepted
      BY <1>5 DEF destroy, Flushing, At
    <2> QED BY <2>1, BufferOut
  <1> QED BY <1>2, <1>3, <1>4, <1>5, StepCases, AppendAccepts, PassesAcceptsOut

\* Every record that the log accepts reaches the file once, and the records of a thread in the
\* order of its calls, for any number of threads and every buffer size, although long records go
\* past the buffer and the lock: LogModule implements LogJournal.
THEOREM LogImplementsJournal == Spec => ImplementsJournal
  <1>1. Init => Journal!Init
    <2> SUFFICES ASSUME Init PROVE Journal!Init
      OBVIOUS
    <2>1. accepted = {} /\ file = << >>
      BY DEF Init
    <2> QED BY <2>1 DEF Journal!Init
  <1>2. IInv /\ [Next]_vars => [Journal!Next]_<<accepted \ Range(file), file>>
    BY RefinesStep DEF JournalStep, owed
  <1> QED BY IInvInit, IInvStep, <1>1, <1>2, PTL DEF Spec, ImplementsJournal, Journal!Spec

===============================================================================
