------------------------------ MODULE LogJournal ------------------------------
(***************************************************************************)
(* What a log promises the threads that write to it: every record it has   *)
(* accepted reaches the file once, and the records of one thread in the    *)
(* order in which the thread wrote them. Records of different threads may  *)
(* overtake each other, and several may reach the file in one step.        *)
(* LogModule.tla implements this module.                                   *)
(***************************************************************************)
EXTENDS Naturals, Sequences

CONSTANTS Records  \* r.by wrote r as its record number r.no

VARIABLES owed,    \* the accepted records that are not in the file yet
          file

Init == owed = {} /\ file = << >>

Earlier(r, s) == r.by = s.by /\ r.no < s.no

\* The thread that wrote r has written all its other records before.
Latest(r) ==
    /\ \A s \in owed : s.by = r.by => Earlier(s, r)
    /\ \A i \in 1..Len(file) : file[i].by = r.by => Earlier(file[i], r)

Accept(r) ==
    /\ Latest(r)
    /\ owed' = owed \cup {r}
    /\ UNCHANGED file

\* The positions in the file that a step adds.
Added == Len(file) + 1 .. Len(file')

WriteOut ==
    /\ Len(file') >= Len(file) /\ \A i \in 1..Len(file) : file'[i] = file[i]
    /\ owed' = owed \ {file'[i] : i \in Added}
    /\ \A i \in Added :
        /\ file'[i] \in owed
        /\ \A s \in owed' : ~Earlier(s, file'[i])
        /\ \A j \in Added : j > i => file'[j] # file'[i] /\ ~Earlier(file'[j], file'[i])

\* A record may be accepted and written in one step.
AcceptOut(r) ==
    /\ Latest(r) /\ \A s \in owed : s.by # r.by
    /\ file' = Append(file, r)
    /\ UNCHANGED owed

Next == WriteOut \/ \E r \in Records : Accept(r) \/ AcceptOut(r)

Spec == Init /\ [][Next]_<<owed, file>>
===============================================================================
