------------------------- MODULE DefaultCallbackProofs -------------------------
(***************************************************************************)
(* The properties of DefaultCallback for every number of workers. As long  *)
(* as nobody has been crowded, at most one worker is in its default branch *)
(* and its label determines the pointer and the heap; when none is, the    *)
(* pointer is NULL or the program's callback and no default exists.        *)
(***************************************************************************)
EXTENDS DefaultCallback, TLAPS

\* At most one worker is in the default branch.
Alone == \A v, w \in Workers : pc[v] \in Branch /\ pc[w] \in Branch => v = w

\* What the label of the worker in the branch says.
AtLabel == \A w \in Workers :
    /\ pc[w] = "create" => pCallback = NULL /\ heap = {User}
    /\ pc[w] \in {"callNew", "runningNew", "delete"} =>
          pCallback > User /\ heap = {User, pCallback} /\ ~given
    /\ pc[w] = "callNew" => seen[w] = pCallback
    /\ pc[w] = "clear" => pCallback > User /\ heap = {User} /\ ~given
    /\ pc[w] = "create" => ~given
    /\ pc[w] = "call" => pCallback = User /\ seen[w] = User /\ heap = {User}

\* With nobody in the branch.
Quiet == (\A w \in Workers : pc[w] \notin Branch) =>
    /\ pCallback \in {NULL, User} /\ heap = {User}
    /\ given => pCallback = User

Calm == ~crowded => Alone /\ AtLabel /\ Quiet /\ ~fault

IInv == TypeOK /\ Calm

LEMMA TypeStep ==
  ASSUME TypeOK, [Next]_vars
  PROVE  TypeOK'
  <1> USE DEF TypeOK, NULL, User, Labels, Branch, Goto, Uses
  <1>1. CASE UNCHANGED vars
    BY <1>1 DEF vars
  <1>2. CASE setCallback
    BY <1>2 DEF setCallback
  <1>3. ASSUME NEW w \in Workers, test(w) PROVE TypeOK'
    BY <1>3 DEF test
  <1>4. ASSUME NEW w \in Workers, create(w) PROVE TypeOK'
    BY <1>4 DEF create
  <1>5. ASSUME NEW w \in Workers, call(w) PROVE TypeOK'
    BY <1>5 DEF call
  <1>6. ASSUME NEW w \in Workers, return(w) PROVE TypeOK'
    BY <1>6 DEF return
  <1>7. ASSUME NEW w \in Workers, delete(w) PROVE TypeOK'
    BY <1>7 DEF delete
  <1>8. ASSUME NEW w \in Workers, clear(w) PROVE TypeOK'
    BY <1>8 DEF clear
  <1> QED BY <1>1, <1>2, <1>3, <1>4, <1>5, <1>6, <1>7, <1>8 DEF Next

\* A step after which nobody has been crowded was taken with nobody else in the branch.
LEMMA CalmStep ==
  ASSUME IInv, [Next]_vars
  PROVE  Calm'
  <1> SUFFICES ASSUME ~crowded' PROVE (Alone /\ AtLabel /\ Quiet /\ ~fault)'
    BY DEF Calm
  <1> USE DEF NULL, User, Branch
  <1>1. CASE UNCHANGED vars
    BY <1>1 DEF vars, IInv, Calm, Alone, AtLabel, Quiet
  <1>2. CASE setCallback
    <2>1. /\ ~crowded /\ \A v \in Workers : pc[v] \notin Branch
          /\ UNCHANGED <<heap, pc, seen, fault>> /\ pCallback' = User
      BY <1>2 DEF setCallback, Uses
    <2> QED BY <2>1 DEF IInv, Calm, Alone, AtLabel, Quiet
  <1>3. ASSUME NEW w \in Workers, test(w) \/ create(w) \/ call(w) \/ delete(w) \/ clear(w)
        PROVE  (Alone /\ AtLabel /\ Quiet /\ ~fault)'
    <2>1. ~crowded /\ \A v \in Workers \ {w} : pc[v] \notin Branch
      BY <1>3 DEF test, create, call, delete, clear, Uses
    <2>2. /\ Alone /\ AtLabel /\ Quiet /\ ~fault /\ pc \in [Workers -> Labels]
          /\ seen \in [Workers -> 0 .. made] /\ made \in Nat /\ pCallback \in 0 .. made
          /\ heap \subseteq 1 .. made
      BY <2>1 DEF IInv, Calm, TypeOK
    <2>3. CASE test(w)
      <3>1. /\ pc[w] = "idle" /\ heap' = heap /\ pCallback' = pCallback /\ fault' = fault
            /\ given' = given
            /\ pc' = [pc EXCEPT ![w] = IF pCallback # NULL THEN "call" ELSE "create"]
            /\ seen' = [seen EXCEPT ![w] = pCallback]
        BY <2>3 DEF test, Goto
      <3>2. \A v \in Workers : pc[v] \notin Branch
        BY <2>1, <3>1
      <3> QED BY <2>2, <3>1, <3>2 DEF Alone, AtLabel, Quiet
    <2>4. CASE create(w)
      <3>1. /\ pc[w] = "create" /\ heap' = heap \cup {made + 1} /\ pCallback' = made + 1
            /\ pc' = [pc EXCEPT ![w] = "callNew"] /\ seen' = [seen EXCEPT ![w] = made + 1]
            /\ given' = given /\ fault' = fault
        BY <2>4 DEF create, Goto
      <3>2. heap = {User} /\ pCallback = NULL /\ made >= 1 /\ ~given
        BY <2>2, <3>1 DEF AtLabel
      <3>3. \A v \in Workers : v # w => pc[v] \notin Branch \cup {"call"} /\ pc'[v] = pc[v]
        BY <2>1, <2>2, <3>1, <3>2 DEF AtLabel
      <3> QED BY <2>2, <3>1, <3>2, <3>3 DEF Alone, AtLabel, Quiet
    <2>5. CASE call(w)
      <3>1. /\ pc[w] \in {"call", "callNew"} /\ heap' = heap /\ pCallback' = pCallback
            /\ pc' = [pc EXCEPT ![w] = IF pc[w] = "call" THEN "running" ELSE "runningNew"]
            /\ seen' = seen /\ given' = given
            /\ \E p \in {pCallback, seen[w]} : fault' = (p \notin heap)
        BY <2>5 DEF call, Goto
      <3>2. pCallback \in heap /\ seen[w] = pCallback
        BY <2>2, <3>1 DEF AtLabel
      <3>3. ~fault'
        BY <3>1, <3>2
      <3> QED BY <2>1, <2>2, <3>1, <3>3 DEF Alone, AtLabel, Quiet
    <2>6. CASE delete(w)
      <3>1. /\ pc[w] = "delete" /\ heap' = heap \ {pCallback} /\ pCallback' = pCallback
            /\ fault' = (pCallback # NULL /\ pCallback \notin heap)
            /\ pc' = [pc EXCEPT ![w] = "clear"] /\ seen' = seen /\ given' = given
        BY <2>6 DEF delete, Goto
      <3>2. pCallback > User /\ heap = {User, pCallback} /\ ~given
        BY <2>2, <3>1 DEF AtLabel
      <3>3. pCallback \in heap /\ User # pCallback
        BY <2>2, <3>2
      <3>5. ~fault'
        BY <3>1, <3>3
      <3>6. heap' = {User}
        BY <3>1, <3>2, <3>3
      <3>4. \A v \in Workers : v # w => pc[v] \notin Branch \cup {"call"} /\ pc'[v] = pc[v]
        BY <2>1, <2>2, <3>1, <3>2 DEF AtLabel
      <3> QED BY <2>2, <3>1, <3>2, <3>4, <3>5, <3>6 DEF Alone, AtLabel, Quiet
    <2>7. CASE clear(w)
      <3>1. /\ pc[w] = "clear" /\ heap' = heap /\ pCallback' = NULL /\ fault' = fault
            /\ pc' = [pc EXCEPT ![w] = "idle"] /\ seen' = seen /\ given' = given
        BY <2>7 DEF clear, Goto
      <3>2. pCallback > User /\ heap = {User} /\ ~given
        BY <2>2, <3>1 DEF AtLabel
      <3>3. \A v \in Workers : v # w => pc[v] \notin Branch \cup {"call"} /\ pc'[v] = pc[v]
        BY <2>1, <2>2, <3>1, <3>2 DEF AtLabel
      <3> QED BY <2>2, <3>1, <3>2, <3>3 DEF Alone, AtLabel, Quiet
    <2> QED BY <1>3, <2>3, <2>4, <2>5, <2>6, <2>7
  <1>4. ASSUME NEW w \in Workers, return(w) PROVE (Alone /\ AtLabel /\ Quiet /\ ~fault)'
    <2>1. /\ pc[w] \in {"running", "runningNew"}
          /\ UNCHANGED <<pCallback, heap, seen, given, fault, crowded>>
          /\ pc' = [pc EXCEPT ![w] = IF pc[w] = "running" THEN "idle" ELSE "delete"]
      BY <1>4 DEF return, Goto
    <2>2. pc \in [Workers -> Labels] /\ Alone /\ AtLabel /\ Quiet /\ ~fault
      BY <2>1 DEF IInv, TypeOK, Calm
    <2> QED BY <2>1, <2>2 DEF Alone, AtLabel, Quiet
  <1> QED BY <1>1, <1>2, <1>3, <1>4 DEF Next

LEMMA Invariance == Spec => []IInv
  <1>1. Init => IInv
    <2> SUFFICES ASSUME Init PROVE IInv
      OBVIOUS
    <2>1. TypeOK
      <3>1. made = 1 /\ pCallback = 0 /\ heap = {1}
        BY DEF Init, NULL, User
      <3>2. made \in Nat \ {0} /\ pCallback \in 0 .. made /\ heap \subseteq 1 .. made
        BY <3>1
      <3>3. seen \in [Workers -> 0 .. made]
        BY <3>1 DEF Init, NULL
      <3>4. pc \in [Workers -> Labels]
        BY DEF Init, Labels
      <3>5. given \in BOOLEAN /\ fault \in BOOLEAN /\ crowded \in BOOLEAN
        BY DEF Init
      <3> QED BY <3>2, <3>3, <3>4, <3>5 DEF TypeOK
    <2>2. \A w \in Workers : pc[w] = "idle"
      BY DEF Init
    <2>3. Alone /\ AtLabel
      BY <2>2 DEF Alone, AtLabel, Branch
    <2>4. Quiet /\ ~fault
      BY DEF Init, Quiet
    <2> QED BY <2>1, <2>3, <2>4 DEF IInv, Calm
  <1>2. IInv /\ [Next]_vars => IInv'
    BY TypeStep, CalmStep DEF IInv
  <1> QED BY <1>1, <1>2, PTL DEF Spec

\* For every number of workers, nothing deleted is called or deleted again unless somebody uses
\* the pointer while another worker is in its default branch.
THEOREM SafeUnlessCrowded == Spec => []FaultNeedsCrowd
  <1>1. IInv => FaultNeedsCrowd
    BY DEF IInv, Calm, FaultNeedsCrowd
  <1> QED BY <1>1, Invariance, PTL

\* For every number of workers, a callback the program has set stays set, without an overlap.
THEOREM SetCallbackKept == Spec => []SetKept
  <1>1. ASSUME IInv, given, ~crowded PROVE pCallback = User
    <2>1. CASE \A w \in Workers : pc[w] \notin Branch
      BY <1>1, <2>1 DEF IInv, Calm, Quiet
    <2>2. ASSUME NEW w \in Workers, pc[w] \in Branch PROVE FALSE
      BY <1>1, <2>2 DEF IInv, Calm, AtLabel, Branch
    <2> QED BY <2>1, <2>2
  <1>2. IInv => SetKept
    BY <1>1 DEF SetKept
  <1> QED BY <1>2, Invariance, PTL

\* For every number of workers, no default object is leaked without an overlap.
THEOREM DefaultsReleased == Spec => []DefaultsDeleted
  <1>1. ASSUME IInv, ~crowded
        PROVE  /\ User \in heap
               /\ \A o \in heap \ {User} :
                     pCallback = o /\ \E w \in Workers : pc[w] \in {"callNew", "runningNew", "delete"}
    <2>1. CASE \A w \in Workers : pc[w] \notin Branch
      BY <1>1, <2>1 DEF IInv, Calm, Quiet
    <2>2. ASSUME NEW w \in Workers, pc[w] \in Branch
          PROVE  heap = {User} \/ (pc[w] \in {"callNew", "runningNew", "delete"} /\ heap = {User, pCallback})
      BY <1>1, <2>2 DEF IInv, Calm, AtLabel, Branch
    <2> QED BY <2>1, <2>2
  <1>2. IInv => DefaultsDeleted
    BY <1>1 DEF DefaultsDeleted
  <1> QED BY <1>2, Invariance, PTL
===============================================================================
