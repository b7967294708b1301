------------------------------ MODULE LogModule ------------------------------
(***************************************************************************)
(* The buffered log file: svrutil::LogModule of src/Server8/svrutil.h, in  *)
(* its file mode (with "console" nothing is buffered). write and print     *)
(* differ in the time stamp only.                                          *)
(*                                                                         *)
(* A record that fits is formatted into tempBuffer and moved to buffer     *)
(* under the lock, or, when the buffer is full, written to the file behind *)
(* what the buffer holds. A record whose format string is as long as the   *)
(* buffer is written to the file directly, without the lock, after a       *)
(* flush; flush reads index before it takes the lock. Each call of the C   *)
(* library on the file is a step, since the library locks the file for     *)
(* the length of a call, and so is each assignment to index, since it is   *)
(* read without the lock. vsprintf_s fails when the expanded text does not *)
(* fit: it returns -1 if the handler for invalid parameters returns, and   *)
(* otherwise the process ends.                                             *)
(*                                                                         *)
(* refuseKeepsLock, vfprintfEarly, flushTestTries and flushNoSync are      *)
(* faulty variants of the definitions that follow them, used by no action. *)
(***************************************************************************)
EXTENDS Integers, Sequences, Functions

CONSTANTS Threads, NoThread,
          limit,      \* size of buffer and of tempBuffer
          Sizes,      \* lengths of the records that fit
          MaxRecords  \* bound: records a thread writes

ASSUME LogAssumption ==
    /\ limit \in Nat \ {0} /\ Sizes \subseteq 1..(limit - 1) /\ MaxRecords \in Nat
    /\ NoThread \notin Threads

VARIABLES buffer, index,  \* the records in the buffer, and their bytes
          file, synced,   \* the records given to the C library, and how many are stored
          owner,          \* who holds the lock
          pc, rec,        \* per thread: where it is, the record it writes
          wrote,          \* per thread, how many records it has begun
          accepted,       \* the records that were not refused: an observer only
          closed          \* the destructor has run

vars == <<buffer, index, file, synced, owner, pc, rec, wrote, accepted, closed>>

Records == [by : Threads, no : 1..MaxRecords, long : BOOLEAN, size : Sizes \cup {limit}]
NoRecord == [by |-> NoThread, no |-> 0, long |-> FALSE, size |-> 0]

At(t, label) == pc[t] = label
Goto(t, label) == pc' = [pc EXCEPT ![t] = label]

Init ==
    /\ buffer = << >> /\ index = 0 /\ file = << >> /\ synced = 0
    /\ owner = NoThread
    /\ pc = [t \in Threads |-> "idle"]
    /\ rec = [t \in Threads |-> NoRecord]
    /\ wrote = [t \in Threads |-> 0]
    /\ accepted = {}
    /\ closed = FALSE

-------------------------------------------------------------------------------
(* write and print. *)

Begin(t, long, size, label) ==
    /\ ~closed /\ At(t, "idle") /\ wrote[t] < MaxRecords
    /\ wrote' = [wrote EXCEPT ![t] = @ + 1]
    /\ rec' = [rec EXCEPT ![t] = [by |-> t, no |-> wrote[t] + 1, long |-> long, size |-> size]]
    /\ Goto(t, label)
    /\ UNCHANGED <<buffer, index, file, synced, owner, accepted, closed>>

\* The format string is shorter than the buffer; the text has size bytes, or too many.
writeShort(t, size) == Begin(t, FALSE, size, "enter")

\* It is not: flush, then vfprintf.
writeLong(t) == Begin(t, TRUE, limit, "test")

EnterCriticalSection(t, from, to) ==
    /\ At(t, from) /\ owner = NoThread
    /\ owner' = t
    /\ Goto(t, to)
    /\ UNCHANGED <<buffer, index, file, synced, rec, wrote, accepted, closed>>

LeaveCriticalSection(t) == owner' = NoThread /\ Goto(t, "idle")
Accepted(t) == accepted' = accepted \cup {rec[t]}

refuseKeepsLock(t) ==
    /\ At(t, "format") /\ rec[t].size >= limit
    /\ Goto(t, "idle")
    /\ UNCHANGED <<owner, buffer, index, file, synced, rec, wrote, accepted, closed>>

\* vsprintf_s returns -1.
refuse(t) ==
    /\ At(t, "format") /\ rec[t].size >= limit
    /\ LeaveCriticalSection(t)
    /\ UNCHANGED <<buffer, index, file, synced, rec, wrote, accepted, closed>>

\* There is room in the buffer, so memcpy_s cannot fail.
append(t) ==
    /\ At(t, "format") /\ rec[t].size < limit /\ index + rec[t].size < limit
    /\ buffer' = Append(buffer, rec[t]) /\ index' = index + rec[t].size
    /\ Accepted(t)
    /\ LeaveCriticalSection(t)
    /\ UNCHANGED <<file, synced, rec, wrote, closed>>

\* There is none: fwrite the buffer,
spillBuffer(t) ==
    /\ At(t, "format") /\ rec[t].size < limit /\ index + rec[t].size >= limit
    /\ file' = file \o buffer
    /\ Goto(t, "spill reset")
    /\ UNCHANGED <<buffer, index, synced, owner, rec, wrote, accepted, closed>>

\* index = 0,
spillReset(t) ==
    /\ At(t, "spill reset")
    /\ buffer' = << >> /\ index' = 0
    /\ Goto(t, "spill temp")
    /\ UNCHANGED <<file, synced, owner, rec, wrote, accepted, closed>>

\* fwrite tempBuffer,
spillTemp(t) ==
    /\ At(t, "spill temp")
    /\ file' = Append(file, rec[t])
    /\ Accepted(t)
    /\ Goto(t, "spill sync")
    /\ UNCHANGED <<buffer, index, synced, owner, rec, wrote, closed>>

\* and fflush.
spillSync(t) ==
    /\ At(t, "spill sync")
    /\ synced' = Len(file)
    /\ LeaveCriticalSection(t)
    /\ UNCHANGED <<buffer, index, file, rec, wrote, accepted, closed>>

vfprintfEarly(t) ==
    /\ At(t, "print") \/ (At(t, "test") /\ rec[t].long)
    /\ file' = Append(file, rec[t])
    /\ Accepted(t)
    /\ Goto(t, "idle")
    /\ UNCHANGED <<buffer, index, synced, owner, rec, wrote, closed>>

\* A long record, without the lock and without fflush.
vfprintf(t) ==
    /\ At(t, "print")
    /\ file' = Append(file, rec[t])
    /\ Accepted(t)
    /\ Goto(t, "idle")
    /\ UNCHANGED <<buffer, index, synced, owner, rec, wrote, closed>>

-------------------------------------------------------------------------------
(* flush, called by itself or for a long record. *)

callFlush(t) ==
    /\ ~closed /\ At(t, "idle")
    /\ rec' = [rec EXCEPT ![t] = NoRecord]
    /\ Goto(t, "test")
    /\ UNCHANGED <<buffer, index, file, synced, owner, wrote, accepted, closed>>

Done(t) == IF rec[t].long THEN "print" ELSE "flushed"

flushTestTries(t) ==
    /\ At(t, "test")
    /\ Goto(t, IF index > 0 /\ owner = NoThread THEN "flush enter" ELSE Done(t))
    /\ UNCHANGED <<buffer, index, file, synced, owner, rec, wrote, accepted, closed>>

\* index > 0 is read without the lock.
flushTest(t) ==
    /\ At(t, "test")
    /\ Goto(t, IF index > 0 THEN "flush enter" ELSE Done(t))
    /\ UNCHANGED <<buffer, index, file, synced, owner, rec, wrote, accepted, closed>>

flushWrite(t) ==
    /\ At(t, "flush write")
    /\ file' = file \o buffer
    /\ Goto(t, "flush sync")
    /\ UNCHANGED <<buffer, index, synced, owner, rec, wrote, accepted, closed>>

flushNoSync(t) ==
    /\ At(t, "flush sync")
    /\ Goto(t, "flush reset")
    /\ UNCHANGED <<buffer, index, file, synced, owner, rec, wrote, accepted, closed>>

flushSync(t) ==
    /\ At(t, "flush sync")
    /\ synced' = Len(file)
    /\ Goto(t, "flush reset")
    /\ UNCHANGED <<buffer, index, file, owner, rec, wrote, accepted, closed>>

flushReset(t) ==
    /\ At(t, "flush reset")
    /\ buffer' = << >> /\ index' = 0
    /\ owner' = NoThread
    /\ Goto(t, Done(t))
    /\ UNCHANGED <<file, synced, rec, wrote, accepted, closed>>

flushReturns(t) ==
    /\ At(t, "flushed")
    /\ Goto(t, "idle")
    /\ UNCHANGED <<buffer, index, file, synced, owner, rec, wrote, accepted, closed>>

\* The destructor flushes and closes the file. No thread uses the log any more.
destroy ==
    /\ ~closed /\ \A t \in Threads : At(t, "idle")
    /\ file' = file \o buffer /\ synced' = Len(file')
    /\ buffer' = << >> /\ index' = 0
    /\ closed' = TRUE
    /\ UNCHANGED <<owner, pc, rec, wrote, accepted>>

\* The steps of a thread that no other thread can hold up.
Runs(t) ==
    \/ refuse(t) \/ append(t) \/ spillBuffer(t) \/ spillReset(t) \/ spillTemp(t) \/ spillSync(t)
    \/ flushTest(t) \/ flushWrite(t) \/ flushSync(t) \/ flushReset(t) \/ flushReturns(t)
    \/ vfprintf(t)

Enters(t) ==
    EnterCriticalSection(t, "enter", "format") \/ EnterCriticalSection(t, "flush enter", "flush write")

Next ==
    \/ \E t \in Threads :
        \/ \E size \in Sizes \cup {limit} : writeShort(t, size)
        \/ writeLong(t) \/ callFlush(t) \/ Enters(t) \/ Runs(t)
    \/ destroy

Spec == Init /\ [][Next]_vars

\* Threads are scheduled; who gets the lock next is left open.
FairSpec == Spec /\ \A t \in Threads : WF_vars(Runs(t))

-------------------------------------------------------------------------------
(* Properties. *)

Journal == INSTANCE LogJournal WITH owed <- accepted \ Range(file)

\* Every accepted record gets into the file once, and a thread's records in order, although
\* a long record goes past the buffer and flush looks at the buffer without the lock.
ImplementsJournal == Journal!Spec

\* When a flush has returned, and before a long record is written, all the thread has written
\* is in the file: reading index without the lock misses nothing.
FlushWrites ==
    \A t \in Threads : pc[t] \in {"flushed", "print"} =>
        \A r \in accepted : r.by = t => r \in Range(file)

Stored == {file[i] : i \in 1..synced}

\* It is stored too, except for long records, which nobody flushes, and unless a thread with
\* a full buffer has reset index and not called fflush yet.
FlushStores ==
    \A t \in Threads : pc[t] = "flushed" =>
        \/ \A r \in accepted : r.by = t => r.long \/ r \in Stored
        \/ \E u \in Threads : pc[u] \in {"spill temp", "spill sync"}

\* Whoever takes the lock gives it back, on the paths that return early too.
LockReleased == \A t \in Threads : owner = t ~> owner # t
==============================================================================
