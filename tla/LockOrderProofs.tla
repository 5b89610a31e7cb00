-------------------------- MODULE LockOrderProofs ---------------------------
(***************************************************************************)
(* Calls that take their locks in order cannot deadlock, however many      *)
(* threads run them, and calls that keep the lock of the pool around their *)
(* batches never meet the batch of another thread, provided that the calls *)
(* without it have the lock of the chain.                                  *)
(*                                                                         *)
(* The inductive invariant says that what a thread holds is what its       *)
(* program has taken up to the step it has reached, that a lock has one    *)
(* owner, and that the open batch is one its thread started.               *)
(*                                                                         *)
(* The calls of CoreLocks are such calls: each of them is a run in which   *)
(* every step keeps the discipline, put together from the runs of the      *)
(* operations it nests.                                                    *)
(***************************************************************************)
EXTENDS CoreLocks, FiniteSetTheorems, SequenceTheorems, WellFoundedInduction, TLAPS

\* What a thread holds is what its program has taken so far.
HeldIsDepth ==
    \A t \in Threads :
        /\ call[t] = NoCall => owns[t] = << >> /\ \A l \in Locks : held[t][l] = 0
        /\ call[t] # NoCall =>
              /\ pc[t] \in 1 .. (Len(Program[call[t]]) + 1)
              /\ \A l \in Locks : held[t][l] = Depth(call[t], pc[t], l)
              /\ Len(owns[t]) = Open(call[t], pc[t])

\* A lock has one owner at a time.
Exclusive ==
    \A l \in Locks : \A t, u \in Threads : held[t][l] > 0 /\ held[u][l] > 0 => t = u

\* The thread whose batch is open has started it, once, and not stopped it.
WriterOwns ==
    /\ \A t \in Threads : \A k \in DOMAIN owns[t] :
          owns[t][k] => writer = t /\ \A m \in DOMAIN owns[t] : owns[t][m] => m = k
    /\ writer # NoThread => \E k \in DOMAIN owns[writer] : owns[writer][k]

Inv == TypeOK /\ HeldIsDepth /\ Exclusive /\ WriterOwns

-----------------------------------------------------------------------------
\* Count grows by one with each step that is counted.
LEMMA CountSteps ==
    ASSUME NEW c \in Calls, NEW S
    PROVE  /\ Count(c, 1, S) = 0
           /\ \A i \in 1 .. Len(Program[c]) :
                 /\ Count(c, i, S) \in Nat
                 /\ Count(c, i + 1, S)
                      = Count(c, i, S) + IF Program[c][i] \in S THEN 1 ELSE 0
           /\ \A i \in 1 .. (Len(Program[c]) + 1) : Count(c, i, S) \in Nat
<1> DEFINE Set(i) == {j \in 1 .. (i - 1) : Program[c][j] \in S}
<1>0. Program[c] \in Seq(Steps) /\ Len(Program[c]) \in Nat
  BY LockAssumption
<1>1. \A i \in 1 .. (Len(Program[c]) + 1) : IsFiniteSet(Set(i)) /\ Cardinality(Set(i)) \in Nat
  <2> TAKE i \in 1 .. (Len(Program[c]) + 1)
  <2>1. i \in Int /\ 1 \in Int /\ i - 1 \in Int
    BY <1>0
  <2>2. IsFiniteSet(1 .. (i - 1))
    BY <2>1, FS_Interval
  <2>3. Set(i) \in SUBSET (1 .. (i - 1))
    OBVIOUS
  <2>4. IsFiniteSet(Set(i))
    BY <2>2, <2>3, FS_Subset
  <2> QED
    BY <2>4, FS_CardinalityType
<1>2. Count(c, 1, S) = 0
  <2>1. Set(1) = {}
    OBVIOUS
  <2> QED
    BY <2>1, FS_EmptySet DEF Count
<1>3. ASSUME NEW i \in 1 .. Len(Program[c])
      PROVE  Count(c, i + 1, S) = Count(c, i, S) + IF Program[c][i] \in S THEN 1 ELSE 0
  <2>1. i \in 1 .. (Len(Program[c]) + 1) /\ (i + 1) - 1 = i /\ i \notin 1 .. (i - 1)
        /\ 1 .. i = (1 .. (i - 1)) \cup {i}
    BY <1>0
  <2>2. IsFiniteSet(Set(i)) /\ Cardinality(Set(i)) \in Nat /\ i \notin Set(i)
    BY <1>1, <2>1
  <2>3. CASE Program[c][i] \in S
    <3>1. Set(i + 1) = Set(i) \cup {i}
      BY <2>1, <2>3
    <3>2. Cardinality(Set(i) \cup {i}) = Cardinality(Set(i)) + 1
      BY <2>2, FS_AddElement, Zenon
    <3>3. Count(c, i + 1, S) = Cardinality(Set(i + 1)) /\ Count(c, i, S) = Cardinality(Set(i))
      BY DEF Count
    <3> HIDE DEF Set
    <3> QED
      BY <3>1, <3>2, <3>3, <2>3, Zenon
  <2>4. CASE Program[c][i] \notin S
    <3>1. Set(i + 1) = Set(i)
      BY <2>1, <2>4
    <3>2. Count(c, i + 1, S) = Cardinality(Set(i + 1)) /\ Count(c, i, S) = Cardinality(Set(i))
      BY DEF Count
    <3> HIDE DEF Set
    <3> QED
      BY <3>1, <3>2, <2>2, <2>4
  <2> QED
    BY <2>3, <2>4
<1>4. \A i \in 1 .. (Len(Program[c]) + 1) : Count(c, i, S) \in Nat
  BY <1>1, Zenon DEF Count
<1> QED
  BY <1>0, <1>2, <1>3, <1>4

\* What one step of a program does to the depth of a lock and of the batches.
LEMMA DepthSteps ==
    ASSUME NEW c \in Calls
    PROVE  /\ \A l \in Locks : Depth(c, 1, l) = 0
           /\ Open(c, 1) = 0
           /\ \A i \in 1 .. (Len(Program[c]) + 1) :
                 Open(c, i) \in Int /\ \A l \in Locks : Depth(c, i, l) \in Int
           /\ \A i \in 1 .. Len(Program[c]) :
                 /\ \A l \in Locks : Depth(c, i + 1, l) = Depth(c, i, l)
                       + (IF Program[c][i] = Take(l) THEN 1 ELSE 0)
                       - (IF Program[c][i] = Drop(l) THEN 1 ELSE 0)
                 /\ Open(c, i + 1) = Open(c, i)
                       + (IF Program[c][i] \in {Start, Wait} THEN 1 ELSE 0)
                       - (IF Program[c][i] = Stop THEN 1 ELSE 0)
<1>0. Len(Program[c]) \in Nat
  BY LockAssumption
<1>1. \A l \in Locks : Depth(c, 1, l) = 0
  BY CountSteps DEF Depth
<1>2. Open(c, 1) = 0
  BY CountSteps DEF Open
<1>3. ASSUME NEW i \in 1 .. (Len(Program[c]) + 1)
      PROVE  Open(c, i) \in Int /\ \A l \in Locks : Depth(c, i, l) \in Int
  <2>1. \A S : Count(c, i, S) \in Nat
    BY CountSteps, Zenon
  <2> QED
    BY <2>1 DEF Open, Depth
<1>4. ASSUME NEW i \in 1 .. Len(Program[c]), NEW l \in Locks
      PROVE  Depth(c, i + 1, l) = Depth(c, i, l)
                       + (IF Program[c][i] = Take(l) THEN 1 ELSE 0)
                       - (IF Program[c][i] = Drop(l) THEN 1 ELSE 0)
  <2>1. /\ Count(c, i, {Take(l)}) \in Nat
        /\ Count(c, i + 1, {Take(l)})
              = Count(c, i, {Take(l)}) + IF Program[c][i] \in {Take(l)} THEN 1 ELSE 0
    BY CountSteps
  <2>2. /\ Count(c, i, {Drop(l)}) \in Nat
        /\ Count(c, i + 1, {Drop(l)})
              = Count(c, i, {Drop(l)}) + IF Program[c][i] \in {Drop(l)} THEN 1 ELSE 0
    BY CountSteps
  <2> QED
    BY <2>1, <2>2 DEF Depth
<1>5. ASSUME NEW i \in 1 .. Len(Program[c])
      PROVE  Open(c, i + 1) = Open(c, i)
                       + (IF Program[c][i] \in {Start, Wait} THEN 1 ELSE 0)
                       - (IF Program[c][i] = Stop THEN 1 ELSE 0)
  <2>1. /\ Count(c, i, {Start, Wait}) \in Nat
        /\ Count(c, i + 1, {Start, Wait})
              = Count(c, i, {Start, Wait}) + IF Program[c][i] \in {Start, Wait} THEN 1 ELSE 0
    BY CountSteps, Zenon
  <2>2. /\ Count(c, i, {Stop}) \in Nat
        /\ Count(c, i + 1, {Stop})
              = Count(c, i, {Stop}) + IF Program[c][i] \in {Stop} THEN 1 ELSE 0
    BY CountSteps, Zenon
  <2> QED
    BY <2>1, <2>2 DEF Open
<1> QED
  BY <1>1, <1>2, <1>3, <1>4, <1>5

LEMMA DepthNext ==
    ASSUME NEW c \in Calls, NEW i \in 1 .. Len(Program[c]), NEW l \in Locks
    PROVE  Depth(c, i + 1, l) = Depth(c, i, l) + (IF Program[c][i] = Take(l) THEN 1 ELSE 0)
                                               - (IF Program[c][i] = Drop(l) THEN 1 ELSE 0)
BY DepthSteps

LEMMA OpenNext ==
    ASSUME NEW c \in Calls, NEW i \in 1 .. Len(Program[c])
    PROVE  Open(c, i + 1) = Open(c, i) + (IF Program[c][i] \in {Start, Wait} THEN 1 ELSE 0)
                                       - (IF Program[c][i] = Stop THEN 1 ELSE 0)
BY DepthSteps

\* The step a thread has reached.
LEMMA StepReached ==
    ASSUME Inv, NEW t \in Threads, Running(t)
    PROVE  /\ call[t] \in Calls
           /\ pc[t] \in 1 .. Len(Program[call[t]])
           /\ Step(t) \in Steps
           /\ Step(t).lock \in Locks
           /\ Step(t).op = "take" => Step(t) = Take(Step(t).lock)
           /\ Step(t).op = "drop" => Step(t) = Drop(Step(t).lock)
           /\ Step(t).op = "start" => Step(t) = Start
           /\ Step(t).op = "wait" => Step(t) = Wait
           /\ Step(t).op = "stop" => Step(t) = Stop
<1>1. call[t] \in Calls
  BY DEF Inv, TypeOK, Running
<1>2. Program[call[t]] \in Seq(Steps) /\ Len(Program[call[t]]) \in Nat
  BY <1>1, LockAssumption
<1>3. pc[t] \in 1 .. Len(Program[call[t]])
  BY <1>1, <1>2 DEF Inv, HeldIsDepth, Running
<1>4. Step(t) \in Steps
  BY <1>2, <1>3, ElementOfSeq DEF Step
<1>5. ASSUME NEW s \in Steps
      PROVE  /\ s.lock \in Locks
             /\ s.op = "take" => s = Take(s.lock)
             /\ s.op = "drop" => s = Drop(s.lock)
             /\ s.op = "start" => s = Start
             /\ s.op = "wait" => s = Wait
             /\ s.op = "stop" => s = Stop
  BY DEF Steps, Take, Drop, Start, Wait, Stop, Locks, chain
<1> QED
  BY <1>1, <1>3, <1>4, <1>5

\* The steps of different kinds, and of different locks, are different.
LEMMA StepsDiffer ==
    /\ \A l, m \in Locks : /\ Take(l) # Drop(m) /\ Take(l) \notin {Start, Wait, Stop}
                           /\ Drop(l) \notin {Start, Wait, Stop}
                           /\ Take(l) = Take(m) => l = m
                           /\ Drop(l) = Drop(m) => l = m
    /\ Stop \notin {Start, Wait}
BY DEF Take, Drop, Start, Wait, Stop

\* At the start no thread is in a call, holds a lock or has a batch open.
LEMMA InitInv == Init => Inv
<1> SUFFICES ASSUME Init PROVE Inv
  OBVIOUS
<1>1. << >> \in Seq(BOOLEAN) /\ DOMAIN << >> = {}
  OBVIOUS
<1>2. TypeOK
  BY <1>1 DEF Init, TypeOK
<1>3. HeldIsDepth
  BY DEF Init, HeldIsDepth
<1>4. Exclusive
  BY DEF Init, Exclusive
<1>5. WriterOwns
  BY <1>1 DEF Init, WriterOwns
<1> QED
  BY <1>2, <1>3, <1>4, <1>5 DEF Inv

\* What the steps of a thread leave to show of HeldIsDepth.
LEMMA HeldIsDepthStep ==
    ASSUME Inv, NEW t \in Threads, Running(t), Advance(t),
           NEW owned, owns' = [owns EXCEPT ![t] = owned],
           NEW depth, held' = [held EXCEPT ![t] = depth],
           \A l \in Locks : depth[l] = Depth(call[t], pc[t] + 1, l),
           Len(owned) = Open(call[t], pc[t] + 1)
    PROVE  HeldIsDepth'
<1> SUFFICES ASSUME NEW u \in Threads
             PROVE  /\ call'[u] = NoCall =>
                          owns'[u] = << >> /\ \A l \in Locks : held'[u][l] = 0
                    /\ call'[u] # NoCall =>
                          /\ pc'[u] \in 1 .. (Len(Program[call'[u]]) + 1)
                          /\ \A l \in Locks : held'[u][l] = Depth(call'[u], pc'[u], l)
                          /\ Len(owns'[u]) = Open(call'[u], pc'[u])
  BY Zenon DEF HeldIsDepth, Depth, Open, Count
<1>1. call' = call /\ pc' = [pc EXCEPT ![t] = @ + 1]
  BY DEF Advance
<1>2. CASE u = t
  <2>1. call[t] \in Calls /\ pc[t] \in 1 .. Len(Program[call[t]])
    BY StepReached
  <2>2. Len(Program[call[t]]) \in Nat /\ call[t] # NoCall
    BY <2>1, LockAssumption
  <2>3. pc'[t] = pc[t] + 1 /\ held'[t] = depth /\ owns'[t] = owned
    BY <1>1 DEF Inv, TypeOK
  <2> QED
    BY <1>1, <1>2, <2>1, <2>2, <2>3
<1>3. CASE u # t
  <2>1. pc'[u] = pc[u] /\ held'[u] = held[u] /\ owns'[u] = owns[u]
    BY <1>1, <1>3 DEF Inv, TypeOK
  <2> QED
    BY <1>1, <2>1 DEF Inv, HeldIsDepth
<1> QED
  BY <1>2, <1>3

\* Entering a recursive lock (lock() of the pool or of Blockchain) adds one to the
\* depth of the thread, and only a thread alone on the lock gets in.
LEMMA TakePreserves ==
    ASSUME Inv, NEW t \in Threads, TakeLock(t)
    PROVE  Inv'
<1> DEFINE l == Step(t).lock
           depth == [held[t] EXCEPT ![l] = @ + 1]
<1>0. Running(t) /\ IsFree(l, t) /\ Advance(t) /\ held' = [held EXCEPT ![t][l] = @ + 1]
      /\ UNCHANGED <<writer, owns>>
  BY Zenon DEF TakeLock
<1>1. /\ call[t] \in Calls /\ pc[t] \in 1 .. Len(Program[call[t]])
      /\ l \in Locks /\ Program[call[t]][pc[t]] = Take(l)
  BY <1>0, StepReached, Zenon DEF TakeLock, Step
<1>2. held' = [held EXCEPT ![t] = depth] /\ owns' = [owns EXCEPT ![t] = owns[t]]
  BY <1>0 DEF Inv, TypeOK
<1>3. depth \in [Locks -> Nat] /\ \A m \in Locks : depth[m] = held[t][m] + IF m = l THEN 1 ELSE 0
  BY <1>1 DEF Inv, TypeOK
<1>4. TypeOK'
  BY <1>0, <1>2, <1>3 DEF Inv, TypeOK, Advance
<1>5. HeldIsDepth'
  <2>1. /\ \A m \in Locks : held[t][m] = Depth(call[t], pc[t], m)
        /\ Len(owns[t]) = Open(call[t], pc[t])
    BY <1>0 DEF Inv, HeldIsDepth, Running
  <2>2. /\ \A m \in Locks : held[t][m] \in Nat
        /\ Open(call[t], pc[t]) \in Int
    BY <1>1, DepthSteps DEF Inv, TypeOK
  <2>3. \A m \in Locks : depth[m] = Depth(call[t], pc[t] + 1, m)
    <3> TAKE m \in Locks
    <3>1. Depth(call[t], pc[t] + 1, m) = Depth(call[t], pc[t], m)
                       + (IF Take(l) = Take(m) THEN 1 ELSE 0)
                       - (IF Take(l) = Drop(m) THEN 1 ELSE 0)
      BY <1>1, DepthNext
    <3>2. Take(l) # Drop(m) /\ (Take(l) = Take(m) <=> l = m)
      BY <1>1, StepsDiffer
    <3> HIDE DEF depth, l
    <3> QED
      BY <1>3, <2>1, <2>2, <3>1, <3>2
  <2>4. Len(owns[t]) = Open(call[t], pc[t] + 1)
    <3>1. Open(call[t], pc[t] + 1) = Open(call[t], pc[t])
                       + (IF Take(l) \in {Start, Wait} THEN 1 ELSE 0)
                       - (IF Take(l) = Stop THEN 1 ELSE 0)
      BY <1>1, OpenNext, Zenon
    <3>2. Take(l) \notin {Start, Wait, Stop}
      BY <1>1, StepsDiffer
    <3> QED
      BY <2>1, <2>2, <3>1, <3>2
  <2> QED
    BY <1>0, <1>2, <2>3, <2>4, HeldIsDepthStep, Zenon
<1>6. Exclusive'
  <2> SUFFICES ASSUME NEW m \in Locks, NEW u \in Threads, NEW v \in Threads,
                      held'[u][m] > 0, held'[v][m] > 0
               PROVE  u = v
    BY DEF Exclusive
  <2>1. \A w \in Threads : held'[w] = IF w = t THEN depth ELSE held[w]
    BY <1>2 DEF Inv, TypeOK
  <2>2. \A w \in Threads \ {t} : held[w][l] = 0
    BY <1>0 DEF IsFree
  <2>3. \A w \in Threads : held[w] \in [Locks -> Nat]
    BY DEF Inv, TypeOK
  <2> HIDE DEF depth, l
  <2>4. CASE m = l
    BY <2>1, <2>2, <2>4
  <2>5. CASE m # l
    <3>1. \A w \in Threads : held'[w][m] = held[w][m]
      BY <1>3, <2>1, <2>3, <2>5
    <3> QED
      BY <3>1 DEF Inv, Exclusive
  <2> QED
    BY <2>4, <2>5
<1>7. WriterOwns'
  BY <1>0 DEF Inv, WriterOwns
<1> QED
  BY <1>4, <1>5, <1>6, <1>7 DEF Inv

\* Leaving a lock gives it up only when the thread leaves its outermost entry.
LEMMA DropPreserves ==
    ASSUME Inv, NEW t \in Threads, DropLock(t)
    PROVE  Inv'
<1> DEFINE l == Step(t).lock
           depth == [held[t] EXCEPT ![l] = @ - 1]
<1>0. Running(t) /\ Advance(t) /\ held' = [held EXCEPT ![t][l] = @ - 1]
      /\ UNCHANGED <<writer, owns>>
  BY Zenon DEF DropLock
<1>1. /\ call[t] \in Calls /\ pc[t] \in 1 .. Len(Program[call[t]])
      /\ l \in Locks /\ Program[call[t]][pc[t]] = Drop(l)
      /\ Program[call[t]][pc[t]].op = "drop"
  BY <1>0, StepReached, Zenon DEF DropLock, Step
<1>2. held' = [held EXCEPT ![t] = depth] /\ owns' = [owns EXCEPT ![t] = owns[t]]
  BY <1>0 DEF Inv, TypeOK
<1>a. /\ \A m \in Locks : held[t][m] = Depth(call[t], pc[t], m)
      /\ Len(owns[t]) = Open(call[t], pc[t])
  BY <1>0, Zenon DEF Inv, HeldIsDepth, Running
<1>b. held[t][l] > 0
  <2>1. pc[t] \in DOMAIN Program[call[t]]
    BY <1>1, LockAssumption
  <2>2. Depth(call[t], pc[t], Program[call[t]][pc[t]].lock) > 0
    BY <1>1, <2>1, LockAssumption
  <2> QED
    BY <1>1, <1>a, <2>2 DEF Step
<1>3. /\ held[t] \in [Locks -> Nat] /\ depth \in [Locks -> Nat]
      /\ \A m \in Locks : depth[m] = held[t][m] - IF m = l THEN 1 ELSE 0
  <2>1. held[t] \in [Locks -> Nat]
    BY DEF Inv, TypeOK
  <2> HIDE DEF l
  <2> QED
    BY <1>1, <1>b, <2>1
<1>4. TypeOK'
  BY <1>0, <1>2, <1>3 DEF Inv, TypeOK, Advance
<1>5. HeldIsDepth'
  <2>2. /\ \A m \in Locks : held[t][m] \in Nat
        /\ Open(call[t], pc[t]) \in Int
    BY <1>1, DepthSteps DEF Inv, TypeOK
  <2>3. \A m \in Locks : depth[m] = Depth(call[t], pc[t] + 1, m)
    <3> TAKE m \in Locks
    <3>1. Depth(call[t], pc[t] + 1, m) = Depth(call[t], pc[t], m)
                       + (IF Drop(l) = Take(m) THEN 1 ELSE 0)
                       - (IF Drop(l) = Drop(m) THEN 1 ELSE 0)
      BY <1>1, DepthNext, SMTT(20), Zenon
    <3>2. Take(m) # Drop(l) /\ (Drop(l) = Drop(m) <=> l = m)
      BY <1>1, StepsDiffer
    <3> HIDE DEF depth, l
    <3> QED
      BY <1>3, <1>a, <2>2, <3>1, <3>2
  <2>4. Len(owns[t]) = Open(call[t], pc[t] + 1)
    <3>1. Open(call[t], pc[t] + 1) = Open(call[t], pc[t])
                       + (IF Drop(l) \in {Start, Wait} THEN 1 ELSE 0)
                       - (IF Drop(l) = Stop THEN 1 ELSE 0)
      BY <1>1, OpenNext, Zenon
    <3>2. Drop(l) \notin {Start, Wait, Stop}
      BY <1>1, StepsDiffer
    <3> QED
      BY <1>a, <2>2, <3>1, <3>2
  <2> QED
    BY <1>0, <1>2, <2>3, <2>4, HeldIsDepthStep, Zenon
<1>6. Exclusive'
  <2> SUFFICES ASSUME NEW m \in Locks, NEW u \in Threads, NEW v \in Threads,
                      held'[u][m] > 0, held'[v][m] > 0
               PROVE  u = v
    BY DEF Exclusive
  <2>1. \A w \in Threads : held'[w] = IF w = t THEN depth ELSE held[w]
    BY <1>2 DEF Inv, TypeOK
  <2>2. \A w \in Threads : held[w] \in [Locks -> Nat]
    BY DEF Inv, TypeOK
  <2> HIDE DEF depth, l
  <2>3. \A w \in Threads : held'[w][m] > 0 => held[w][m] > 0
    BY <1>3, <2>1, <2>2
  <2> QED
    BY <2>3 DEF Inv, Exclusive
<1>7. WriterOwns'
  BY <1>0 DEF Inv, WriterOwns
<1> QED
  BY <1>4, <1>5, <1>6, <1>7 DEF Inv

\* batch_start makes the thread the writer of the database.
LEMMA StartPreserves ==
    ASSUME Inv, NEW t \in Threads, StartBatch(t)
    PROVE  Inv'
<1> DEFINE owned == Append(owns[t], writer = NoThread)
<1>0. /\ Running(t) /\ Advance(t) /\ UNCHANGED held
      /\ owns' = [owns EXCEPT ![t] = owned]
      /\ writer' = IF writer = NoThread THEN t ELSE writer
  BY Zenon DEF StartBatch
<1>1. /\ call[t] \in Calls /\ pc[t] \in 1 .. Len(Program[call[t]])
      /\ Program[call[t]][pc[t]] \in {Start, Wait}
  BY <1>0, StepReached, Zenon DEF StartBatch, Step
<1>2. held' = [held EXCEPT ![t] = held[t]]
  BY <1>0 DEF Inv, TypeOK
<1>3. /\ owns[t] \in Seq(BOOLEAN) /\ owned \in Seq(BOOLEAN) /\ Len(owned) = Len(owns[t]) + 1
      /\ Len(owns[t]) \in Nat
      /\ DOMAIN owns[t] = 1 .. Len(owns[t]) /\ DOMAIN owned = 1 .. (Len(owns[t]) + 1)
      /\ \A k \in 1 .. Len(owns[t]) : owned[k] = owns[t][k]
      /\ owned[Len(owns[t]) + 1] = (writer = NoThread)
  <2>1. owns[t] \in Seq(BOOLEAN) /\ (writer = NoThread) \in BOOLEAN
    BY DEF Inv, TypeOK
  <2> QED
    BY <2>1, AppendProperties
<1>4. TypeOK'
  <2>1. owns' \in [Threads -> Seq(BOOLEAN)]
    BY <1>0, <1>3 DEF Inv, TypeOK
  <2>2. pc' \in [Threads -> Nat] /\ call' = call
    BY <1>0 DEF Inv, TypeOK, Advance
  <2> QED
    BY <1>0, <2>1, <2>2 DEF Inv, TypeOK
<1>5. HeldIsDepth'
  <2>1. /\ \A m \in Locks : held[t][m] = Depth(call[t], pc[t], m)
        /\ Len(owns[t]) = Open(call[t], pc[t])
    BY <1>0 DEF Inv, HeldIsDepth, Running
  <2>2. /\ \A m \in Locks : Depth(call[t], pc[t], m) \in Int
        /\ Open(call[t], pc[t]) \in Int
    BY <1>1, DepthSteps
  <2>3. \A m \in Locks : held[t][m] = Depth(call[t], pc[t] + 1, m)
    <3> TAKE m \in Locks
    <3>1. Depth(call[t], pc[t] + 1, m) = Depth(call[t], pc[t], m)
                       + (IF Program[call[t]][pc[t]] = Take(m) THEN 1 ELSE 0)
                       - (IF Program[call[t]][pc[t]] = Drop(m) THEN 1 ELSE 0)
      BY <1>1, DepthNext
    <3>2. Program[call[t]][pc[t]] # Take(m) /\ Program[call[t]][pc[t]] # Drop(m)
      BY <1>1, StepsDiffer
    <3> QED
      BY <2>1, <2>2, <3>1, <3>2
  <2>4. Len(owned) = Open(call[t], pc[t] + 1)
    <3>1. Open(call[t], pc[t] + 1) = Open(call[t], pc[t])
                       + (IF Program[call[t]][pc[t]] \in {Start, Wait} THEN 1 ELSE 0)
                       - (IF Program[call[t]][pc[t]] = Stop THEN 1 ELSE 0)
      BY <1>1, OpenNext
    <3>2. Program[call[t]][pc[t]] # Stop
      BY <1>1, StepsDiffer
    <3> HIDE DEF owned
    <3> QED
      BY <1>1, <1>3, <2>1, <2>2, <3>1, <3>2
  <2> HIDE DEF owned
  <2> QED
    BY <1>0, <1>2, <2>3, <2>4, HeldIsDepthStep, Zenon
<1>6. Exclusive'
  BY <1>0 DEF Inv, Exclusive
<1>7. WriterOwns'
  <2>0. /\ \A u \in Threads : owns'[u] = IF u = t THEN owned ELSE owns[u]
        /\ writer \in Threads \cup {NoThread} /\ NoThread \notin Threads
    BY <1>0, LockAssumption DEF Inv, TypeOK
  <2>1. /\ \A u \in Threads : \A k \in DOMAIN owns[u] :
             owns[u][k] => writer = u /\ \A m \in DOMAIN owns[u] : owns[u][m] => m = k
        /\ writer # NoThread => \E k \in DOMAIN owns[writer] : owns[writer][k]
    BY DEF Inv, WriterOwns
  <2> HIDE DEF owned
  <2>2. CASE writer = NoThread
    <3>1. writer' = t
      BY <1>0, <2>2
    <3>2. \A u \in Threads : \A k \in DOMAIN owns[u] : ~owns[u][k]
      BY <2>0, <2>1, <2>2
    <3>3. \A k \in DOMAIN owned : owned[k] <=> k = Len(owns[t]) + 1
      BY <1>3, <2>2, <3>2
    <3>4. Len(owns[t]) + 1 \in DOMAIN owned
      BY <1>3
    <3> QED
      BY <2>0, <3>1, <3>2, <3>3, <3>4 DEF WriterOwns
  <2>3. CASE writer # NoThread
    <3>1. writer' = writer /\ ~owned[Len(owns[t]) + 1]
      BY <1>0, <1>3, <2>3
    <3>2. \A k \in DOMAIN owned : owned[k] => k \in DOMAIN owns[t] /\ owns[t][k]
      BY <1>3, <3>1
    <3>3. \A k \in DOMAIN owns[t] : k \in DOMAIN owned /\ owned[k] = owns[t][k]
      BY <1>3
    <3>4. \A u \in Threads : \A k \in DOMAIN owns'[u] :
             owns'[u][k] => writer = u /\ \A m \in DOMAIN owns'[u] : owns'[u][m] => m = k
      BY <2>0, <2>1, <3>2
    <3>5. \E k \in DOMAIN owns'[writer] : owns'[writer][k]
      BY <2>0, <2>1, <2>3, <3>3
    <3> QED
      BY <3>1, <3>4, <3>5 DEF WriterOwns
  <2> QED
    BY <2>2, <2>3
<1> QED
  BY <1>4, <1>5, <1>6, <1>7 DEF Inv

\* batch_stop and batch_abort free the database for the next writer.
LEMMA StopPreserves ==
    ASSUME Inv, NEW t \in Threads, StopBatch(t)
    PROVE  Inv'
<1> DEFINE n == Len(owns[t])
           owned == SubSeq(owns[t], 1, n - 1)
<1>0. /\ Running(t) /\ Advance(t) /\ UNCHANGED held
      /\ owns' = [owns EXCEPT ![t] = owned]
      /\ writer' = IF owns[t][n] THEN NoThread ELSE writer
  BY Zenon DEF StopBatch
<1>1. /\ call[t] \in Calls /\ pc[t] \in 1 .. Len(Program[call[t]])
      /\ Program[call[t]][pc[t]] = Stop /\ Program[call[t]][pc[t]].op = "stop"
  BY <1>0, StepReached DEF StopBatch, Step
<1>2. held' = [held EXCEPT ![t] = held[t]]
  BY <1>0 DEF Inv, TypeOK
<1>a. /\ \A m \in Locks : held[t][m] = Depth(call[t], pc[t], m)
      /\ n = Open(call[t], pc[t])
  BY <1>0 DEF Inv, HeldIsDepth, Running
<1>b. owns[t] \in Seq(BOOLEAN) /\ n \in Nat /\ n > 0
  <2>1. pc[t] \in DOMAIN Program[call[t]]
    BY <1>1, LockAssumption
  <2>2. Open(call[t], pc[t]) > 0
    BY <1>1, <2>1, LockAssumption
  <2> QED
    BY <1>a, <2>2 DEF Inv, TypeOK
<1>3. /\ owned \in Seq(BOOLEAN) /\ Len(owned) = n - 1
      /\ DOMAIN owns[t] = 1 .. n /\ DOMAIN owned = 1 .. (n - 1)
      /\ \A k \in 1 .. (n - 1) : owned[k] = owns[t][k]
  <2>1. 1 \in 1 .. (n + 1) /\ n - 1 \in (1 - 1) .. n /\ 1 - 1 = 0
    BY <1>b
  <2> QED
    BY <1>b, <2>1, SubSeqProperties
<1>4. TypeOK'
  <2>1. owns' \in [Threads -> Seq(BOOLEAN)]
    BY <1>0, <1>3 DEF Inv, TypeOK
  <2>2. pc' \in [Threads -> Nat] /\ call' = call
    BY <1>0 DEF Inv, TypeOK, Advance
  <2> QED
    BY <1>0, <2>1, <2>2 DEF Inv, TypeOK
<1>5. HeldIsDepth'
  <2>2. /\ \A m \in Locks : Depth(call[t], pc[t], m) \in Int
        /\ Open(call[t], pc[t]) \in Int
    BY <1>1, DepthSteps
  <2>3. \A m \in Locks : held[t][m] = Depth(call[t], pc[t] + 1, m)
    <3> TAKE m \in Locks
    <3>1. Depth(call[t], pc[t] + 1, m) = Depth(call[t], pc[t], m)
                       + (IF Stop = Take(m) THEN 1 ELSE 0)
                       - (IF Stop = Drop(m) THEN 1 ELSE 0)
      BY <1>1, DepthNext
    <3>2. Stop # Take(m) /\ Stop # Drop(m)
      BY <1>1, StepsDiffer
    <3> QED
      BY <1>a, <2>2, <3>1, <3>2
  <2>4. Len(owned) = Open(call[t], pc[t] + 1)
    <3>1. Open(call[t], pc[t] + 1) = Open(call[t], pc[t])
                       + (IF Stop \in {Start, Wait} THEN 1 ELSE 0)
                       - (IF Stop = Stop THEN 1 ELSE 0)
      BY <1>1, OpenNext
    <3> HIDE DEF owned, n
    <3> QED
      BY <1>a, <1>3, <2>2, <3>1, StepsDiffer
  <2> QED
    BY <1>0, <1>2, <2>3, <2>4, HeldIsDepthStep, Zenon
<1>6. Exclusive'
  BY <1>0 DEF Inv, Exclusive
<1>7. WriterOwns'
  <2>0. /\ \A u \in Threads : owns'[u] = IF u = t THEN owned ELSE owns[u]
        /\ writer \in Threads \cup {NoThread} /\ NoThread \notin Threads
    BY <1>0, LockAssumption DEF Inv, TypeOK
  <2>1. /\ \A u \in Threads : \A k \in DOMAIN owns[u] :
             owns[u][k] => writer = u /\ \A m \in DOMAIN owns[u] : owns[u][m] => m = k
        /\ writer # NoThread => \E k \in DOMAIN owns[writer] : owns[writer][k]
    BY DEF Inv, WriterOwns
  <2> HIDE DEF owned, n
  <2>2. CASE owns[t][n]
    <3>1. writer' = NoThread /\ writer = t /\ n \in DOMAIN owns[t]
      BY <1>0, <1>3, <1>b, <2>1, <2>2
    <3>2. \A k \in DOMAIN owned : ~owned[k]
      BY <1>3, <1>b, <2>1, <2>2, <3>1
    <3>3. \A u \in Threads : \A k \in DOMAIN owns'[u] : ~owns'[u][k]
      BY <2>0, <2>1, <3>1, <3>2
    <3> QED
      BY <3>1, <3>3 DEF WriterOwns
  <2>3. CASE ~owns[t][n]
    <3>1. writer' = writer
      BY <1>0, <2>3
    <3>2. \A k \in DOMAIN owned : k \in DOMAIN owns[t] /\ owned[k] = owns[t][k]
      BY <1>3, <1>b
    <3>3. \A k \in DOMAIN owns[t] : owns[t][k] => k \in DOMAIN owned /\ owned[k]
      BY <1>3, <1>b, <2>3
    <3>4. \A u \in Threads : \A k \in DOMAIN owns'[u] :
             owns'[u][k] => writer = u /\ \A m \in DOMAIN owns'[u] : owns'[u][m] => m = k
      BY <2>0, <2>1, <3>2
    <3>5. writer # NoThread => \E k \in DOMAIN owns'[writer] : owns'[writer][k]
      BY <2>0, <2>1, <3>3
    <3> QED
      BY <3>1, <3>4, <3>5 DEF WriterOwns
  <2> QED
    BY <2>2, <2>3
<1> QED
  BY <1>4, <1>5, <1>6, <1>7 DEF Inv

\* A thread that begins a call holds nothing yet.
LEMMA BeginPreserves ==
    ASSUME Inv, NEW t \in Threads, NEW c \in Calls, Begin(t, c)
    PROVE  Inv'
<1>0. /\ call[t] = NoCall /\ call' = [call EXCEPT ![t] = c]
      /\ pc' = [pc EXCEPT ![t] = 1] /\ UNCHANGED <<held, writer, owns>>
  BY DEF Begin
<1>1. TypeOK'
  BY <1>0 DEF Inv, TypeOK
<1>2. HeldIsDepth'
  <2> SUFFICES ASSUME NEW u \in Threads
               PROVE  /\ call'[u] = NoCall =>
                            owns'[u] = << >> /\ \A l \in Locks : held'[u][l] = 0
                      /\ call'[u] # NoCall =>
                            /\ pc'[u] \in 1 .. (Len(Program[call'[u]]) + 1)
                            /\ \A l \in Locks : held'[u][l] = Depth(call'[u], pc'[u], l)
                            /\ Len(owns'[u]) = Open(call'[u], pc'[u])
    BY Zenon DEF HeldIsDepth, Depth, Open, Count
  <2>1. CASE u = t
    <3>1. call'[u] = c /\ pc'[u] = 1 /\ c # NoCall
      BY <1>0, <2>1, LockAssumption DEF Inv, TypeOK
    <3>2. Len(Program[c]) \in Nat
      BY LockAssumption
    <3>3. owns'[u] = << >> /\ \A l \in Locks : held'[u][l] = 0
      BY <1>0, <2>1 DEF Inv, HeldIsDepth
    <3> QED
      BY <3>1, <3>2, <3>3, DepthSteps
  <2>2. CASE u # t
    <3>1. call'[u] = call[u] /\ pc'[u] = pc[u]
      BY <1>0, <2>2 DEF Inv, TypeOK
    <3> QED
      BY <1>0, <3>1 DEF Inv, HeldIsDepth
  <2> QED
    BY <2>1, <2>2
<1>3. Exclusive' /\ WriterOwns'
  BY <1>0 DEF Inv, Exclusive, WriterOwns
<1> QED
  BY <1>1, <1>2, <1>3 DEF Inv

\* A thread that returns has left every lock and closed its batch.
LEMMA ReturnPreserves ==
    ASSUME Inv, NEW t \in Threads, Return(t)
    PROVE  Inv'
<1>0. /\ call[t] # NoCall /\ ~Running(t) /\ call' = [call EXCEPT ![t] = NoCall]
      /\ UNCHANGED <<pc, held, writer, owns>>
  BY DEF Return
<1>1. TypeOK'
  BY <1>0 DEF Inv, TypeOK
<1>2. owns[t] = << >> /\ \A l \in Locks : held[t][l] = 0
  <2>1. call[t] \in Calls
    BY <1>0 DEF Inv, TypeOK
  <2>2. Len(Program[call[t]]) \in Nat
    BY <2>1, LockAssumption
  <2>3. pc[t] \in 1 .. (Len(Program[call[t]]) + 1) /\ ~(pc[t] <= Len(Program[call[t]]))
    BY <1>0 DEF Inv, HeldIsDepth, Running
  <2>4. pc[t] = Len(Program[call[t]]) + 1
    BY <2>2, <2>3
  <2>5. Len(owns[t]) = 0 /\ \A l \in Locks : held[t][l] = 0
    BY <1>0, <2>1, <2>4, LockAssumption DEF Inv, HeldIsDepth
  <2>6. owns[t] \in Seq(BOOLEAN)
    BY Zenon DEF Inv, TypeOK
  <2> QED
    BY <2>5, <2>6, EmptySeq
<1>3. HeldIsDepth'
  <2> SUFFICES ASSUME NEW u \in Threads
               PROVE  /\ call'[u] = NoCall =>
                            owns'[u] = << >> /\ \A l \in Locks : held'[u][l] = 0
                      /\ call'[u] # NoCall =>
                            /\ pc'[u] \in 1 .. (Len(Program[call'[u]]) + 1)
                            /\ \A l \in Locks : held'[u][l] = Depth(call'[u], pc'[u], l)
                            /\ Len(owns'[u]) = Open(call'[u], pc'[u])
    BY Zenon DEF HeldIsDepth, Depth, Open, Count
  <2>1. CASE u = t
    <3>1. call'[u] = NoCall
      BY <1>0, <2>1 DEF Inv, TypeOK
    <3> QED
      BY <1>0, <1>2, <2>1, <3>1
  <2>2. CASE u # t
    <3>1. call'[u] = call[u] /\ pc'[u] = pc[u]
      BY <1>0, <2>2 DEF Inv, TypeOK
    <3> QED
      BY <1>0, <3>1 DEF Inv, HeldIsDepth
  <2> QED
    BY <2>1, <2>2, Zenon
<1>4. Exclusive' /\ WriterOwns'
  BY <1>0 DEF Inv, Exclusive, WriterOwns
<1> QED
  BY <1>1, <1>3, <1>4 DEF Inv

\* Every step of every thread preserves the inductive invariant.
LEMMA NextInv == Inv /\ [Next]_vars => Inv'
<1> SUFFICES ASSUME Inv, [Next]_vars PROVE Inv'
  OBVIOUS
<1>1. ASSUME NEW t \in Threads, NEW c \in Calls, Begin(t, c) PROVE Inv'
  BY <1>1, BeginPreserves
<1>2. ASSUME NEW t \in Threads, TakeLock(t) PROVE Inv'
  BY <1>2, TakePreserves
<1>3. ASSUME NEW t \in Threads, DropLock(t) PROVE Inv'
  BY <1>3, DropPreserves
<1>4. ASSUME NEW t \in Threads, StartBatch(t) PROVE Inv'
  BY <1>4, StartPreserves
<1>5. ASSUME NEW t \in Threads, StopBatch(t) PROVE Inv'
  BY <1>5, StopPreserves
<1>6. ASSUME NEW t \in Threads, Return(t) PROVE Inv'
  BY <1>6, ReturnPreserves
<1>7. CASE UNCHANGED vars
  <2>0. UNCHANGED <<call, pc, held, writer, owns>>
    BY <1>7 DEF vars
  <2>1. TypeOK'
    BY <2>0, Zenon DEF Inv, TypeOK
  <2>2. HeldIsDepth'
    <3>1. HeldIsDepth
      BY DEF Inv
    <3> QED
      BY <2>0, <3>1, ZenonT(30) DEF HeldIsDepth, Depth, Open, Count
  <2>3. Exclusive' /\ WriterOwns'
    BY <2>0 DEF Inv, Exclusive, WriterOwns
  <2> QED
    BY <2>1, <2>2, <2>3 DEF Inv
<1> QED
  BY <1>1, <1>2, <1>3, <1>4, <1>5, <1>6, <1>7, Zenon DEF Next

-----------------------------------------------------------------------------
\* A thread that waits for a lock holds earlier ones only, and the owner of that
\* lock is another thread inside a call.
LEMMA WaitsUpwards ==
    ASSUME Inv, Disciplined, NEW t \in Threads, Blocked(t)
    PROVE  \E u \in Threads :
              /\ held[u][Step(t).lock] > 0 /\ call[u] # NoCall
              /\ \A l \in Locks : held[t][l] > 0 => l < Step(t).lock
<1> DEFINE m == Step(t).lock
<1>1. /\ Running(t) /\ call[t] \in Calls /\ pc[t] \in 1 .. Len(Program[call[t]])
      /\ m \in Locks /\ Program[call[t]][pc[t]].op = "take" /\ m = Program[call[t]][pc[t]].lock
  BY StepReached, Zenon DEF Blocked, Step
<1>2. PICK u \in Threads \ {t} : held[u][m] # 0
  BY DEF Blocked, IsFree
<1>3. \A w \in Threads : held[w] \in [Locks -> Nat]
  BY DEF Inv, TypeOK
<1> HIDE DEF m
<1>4. held[u][m] > 0
  <2>1. held[u][m] \in Nat
    BY <1>1, <1>2, <1>3, Zenon
  <2> QED
    BY <1>2, <2>1
<1>5. call[u] # NoCall
  BY <1>1, <1>2 DEF Inv, HeldIsDepth
<1>6. held[t][m] = 0
  <2>1. ~(held[t][m] > 0)
    BY <1>1, <1>2, <1>4 DEF Inv, Exclusive
  <2> QED
    <3>1. held[t][m] \in Nat
      BY <1>1, <1>3, Zenon
    <3> QED
      BY <2>1, <3>1
<1>7. \A l \in Locks : held[t][l] = Depth(call[t], pc[t], l)
  BY <1>1 DEF Inv, HeldIsDepth, Running
<1>8. pc[t] \in DOMAIN Program[call[t]]
  BY <1>1, LockAssumption
<1>9. \A l \in Locks : l > m => held[t][l] = 0
  BY <1>1, <1>6, <1>7, <1>8 DEF Disciplined
<1>10. \A l \in Locks : held[t][l] > 0 => l < m
  <2>1. \A l \in Locks : held[t][l] > 0 => ~(l > m) /\ l # m
    BY <1>3, <1>6, <1>9
  <2>2. \A l \in Locks : l \in Nat
    BY DEF Locks, incoming, pool, chain
  <2> QED
    BY <1>1, <2>1, <2>2
<1> QED
  BY <1>2, <1>4, <1>5, <1>10 DEF m

\* Whatever the number of threads: if every call takes its locks in the order of
\* the comment in prepare_handle_incoming_blocks, no threads wait in a circle.
THEOREM OrderPreventsDeadlock == ASSUME Disciplined PROVE Spec => []NoDeadlock
<1>1. Inv => NoDeadlock
  <2> SUFFICES ASSUME Inv, NEW t \in Threads, call[t] # NoCall,
                      \A u \in Threads : call[u] # NoCall => Blocked(u)
               PROVE  FALSE
    BY DEF NoDeadlock
  <2>1. \A u \in Threads : Blocked(u) => Step(u).lock \in Locks
    BY StepReached DEF Blocked
  <2>2. \A u \in Threads : Blocked(u) =>
           \E v \in Threads :
              /\ held[v][Step(u).lock] > 0 /\ Blocked(v)
              /\ \A l \in Locks : held[u][l] > 0 => l < Step(u).lock
    BY WaitsUpwards
  <2>3. PICK u \in Threads : held[u][Step(t).lock] > 0 /\ Blocked(u)
    BY <2>2
  <2>4. PICK v \in Threads : held[v][Step(u).lock] > 0 /\ Blocked(v)
                             /\ Step(t).lock < Step(u).lock
    BY <2>1, <2>2, <2>3
  <2>5. PICK w \in Threads : held[w][Step(v).lock] > 0 /\ Blocked(w)
                             /\ Step(u).lock < Step(v).lock
    BY <2>1, <2>2, <2>3, <2>4
  <2>6. Step(v).lock < Step(w).lock
    BY <2>1, <2>2, <2>4, <2>5
  <2>7. \A l \in Locks : l \in 1 .. 3
    BY DEF Locks, incoming, pool, chain
  <2>8. Step(t).lock \in 1 .. 3 /\ Step(u).lock \in 1 .. 3 /\ Step(v).lock \in 1 .. 3
        /\ Step(w).lock \in 1 .. 3
    BY <2>1, <2>3, <2>4, <2>5, <2>7, Zenon
  <2> QED
    BY <2>4, <2>5, <2>6, <2>8
<1> QED
  BY <1>1, InitInv, NextInv, PTL DEF Spec

\* In states of the invariant a thread has the locks that its program has taken, so
\* it takes them in the order in which the program does.
LEMMA TakesInOrder == ASSUME Inv, Disciplined PROVE LocksInOrder
<1> SUFFICES ASSUME NEW t \in Threads, Running(t), Step(t).op = "take",
                    held[t][Step(t).lock] = 0,
                    NEW l \in Locks, l > Step(t).lock
             PROVE  held[t][l] = 0
  BY DEF LocksInOrder
<1>1. call[t] \in Calls /\ pc[t] \in 1 .. Len(Program[call[t]]) /\ Step(t).lock \in Locks
  BY StepReached
<1>2. pc[t] \in DOMAIN Program[call[t]]
  BY <1>1, LockAssumption
<1>3. \A m \in Locks : held[t][m] = Depth(call[t], pc[t], m)
  BY Zenon DEF Inv, HeldIsDepth, Running
<1>4. Program[call[t]][pc[t]].op = "take" /\ Step(t).lock = Program[call[t]][pc[t]].lock
  BY Zenon DEF Step
<1>5. Depth(call[t], pc[t], Program[call[t]][pc[t]].lock) = 0
  BY <1>1, <1>3, <1>4, Zenon
<1>6. \A m \in Locks : m > Program[call[t]][pc[t]].lock => Depth(call[t], pc[t], m) = 0
  BY <1>1, <1>2, <1>4, <1>5 DEF Disciplined
<1> QED
  BY <1>3, <1>4, <1>6

\* Whatever the number of threads: calls that obey the comment in
\* prepare_handle_incoming_blocks one by one never make a thread take the lock of
\* the pool while it has only that of the chain.
THEOREM DisciplineKeepsOrder == ASSUME Disciplined PROVE Spec => []LocksInOrder
<1>1. Inv => LocksInOrder
  BY TakesInOrder
<1> QED
  BY <1>1, InitInv, NextInv, PTL DEF Spec

\* A call that holds the lock of the pool somewhere takes it.
LEMMA HeldIsTaken ==
    ASSUME NEW c \in Calls, NEW i \in 1 .. (Len(Program[c]) + 1), Depth(c, i, pool) > 0
    PROVE  BatchLock(c) = pool
<1> SUFFICES ASSUME \A j \in DOMAIN Program[c] : Program[c][j] # Take(pool)
             PROVE  FALSE
  BY Zenon DEF BatchLock
<1> DEFINE S == {j \in 1 .. (i - 1) : Program[c][j] \in {Take(pool)}}
<1>0. Len(Program[c]) \in Nat /\ DOMAIN Program[c] = 1 .. Len(Program[c])
  BY LockAssumption
<1>1. 1 .. (i - 1) \subseteq DOMAIN Program[c]
  BY <1>0
<1>2. S = {}
  BY <1>1
<1>3. Count(c, i, {Take(pool)}) = 0
  BY <1>2, FS_EmptySet, Zenon DEF Count
<1>4. Count(c, i, {Drop(pool)}) \in Nat
  BY CountSteps, Zenon
<1> QED
  BY <1>3, <1>4 DEF Depth

LEMMA BatchLockIs == \A c : BatchLock(c) \in Locks
BY DEF BatchLock, Locks

\* A thread whose calls hold their locks around their batches has them whenever it
\* starts one or has one to stop.
LEMMA BatchHasLocks == ASSUME Inv, BatchesUnderLocks PROVE PoolLockAroundBatch
<1> SUFFICES ASSUME NEW t \in Threads
             PROVE  /\ Running(t) /\ Step(t).op \in {"start", "wait"} =>
                          held[t][BatchLock(call[t])] > 0 /\ held[t][chain] > 0
                    /\ owns[t] # << >> => held[t][BatchLock(call[t])] > 0
  BY Zenon DEF PoolLockAroundBatch
<1>0. BatchLock(call[t]) \in Locks /\ chain \in Locks
  BY BatchLockIs DEF Locks
<1>1. ASSUME Running(t), Step(t).op \in {"start", "wait"}
      PROVE  held[t][BatchLock(call[t])] > 0 /\ held[t][chain] > 0
  <2>1. call[t] \in Calls /\ pc[t] \in 1 .. Len(Program[call[t]])
    BY <1>1, StepReached
  <2>2. pc[t] \in DOMAIN Program[call[t]] /\ pc[t] \in 1 .. (Len(Program[call[t]]) + 1)
    BY <2>1, LockAssumption
  <2>3. Depth(call[t], pc[t], BatchLock(call[t])) > 0 /\ Depth(call[t], pc[t], chain) > 0
    BY <1>1, <2>1, <2>2, Zenon DEF BatchesUnderLocks, Step
  <2>4. \A l \in Locks : held[t][l] = Depth(call[t], pc[t], l)
    BY <1>1, Zenon DEF Inv, HeldIsDepth, Running
  <2> QED
    BY <1>0, <2>3, <2>4, Zenon
<1>2. ASSUME owns[t] # << >> PROVE held[t][BatchLock(call[t])] > 0
  <2>1. owns[t] \in Seq(BOOLEAN) /\ Len(owns[t]) \in Nat
    BY DEF Inv, TypeOK
  <2>2. Len(owns[t]) > 0
    BY <1>2, <2>1
  <2>3. call[t] \in Calls /\ call[t] # NoCall
    BY <1>2 DEF Inv, HeldIsDepth, TypeOK
  <2>4. /\ pc[t] \in 1 .. (Len(Program[call[t]]) + 1)
        /\ held[t][BatchLock(call[t])] = Depth(call[t], pc[t], BatchLock(call[t]))
        /\ Open(call[t], pc[t]) > 0
    BY <1>0, <2>2, <2>3, Zenon DEF Inv, HeldIsDepth
  <2>5. Depth(call[t], pc[t], BatchLock(call[t])) > 0
    BY <2>3, <2>4, Zenon DEF BatchesUnderLocks
  <2> QED
    BY <2>4, <2>5, Zenon
<1> QED
  BY <1>1, <1>2

\* Whatever the number of threads and however their calls are nested: calls that
\* keep the lock of the pool around their batches one by one, as locked_txn.h takes
\* for granted, never leave a thread with a batch and without that lock; those that
\* do not use the pool, as check_against_checkpoints, have the lock of the chain.
THEOREM PoolLockCoversBatch == ASSUME BatchesUnderLocks PROVE Spec => []PoolLockAroundBatch
<1>1. Inv => PoolLockAroundBatch
  BY BatchHasLocks
<1> QED
  BY <1>1, InitInv, NextInv, PTL DEF Spec

\* Whatever the number of threads: if every call holds the lock of the pool around
\* its batches and that of the chain where it starts them, or keeps the lock of the
\* chain around them, no LockedTXN and no prepare_handle_incoming_blocks finds the
\* batch of another thread.
THEOREM PoolLockGuardsBatch == ASSUME BatchesUnderLocks PROVE Spec => []BatchIsOurs
<1>1. Inv => BatchIsOurs
  <2> SUFFICES ASSUME Inv, NEW t \in Threads, Running(t), Step(t).op \in {"start", "wait"},
                      BatchLock(call[t]) = pool, writer # NoThread
               PROVE  writer = t
    BY DEF BatchIsOurs
  <2>1. writer \in Threads
    BY DEF Inv, TypeOK
  <2>2. \E k \in DOMAIN owns[writer] : owns[writer][k]
    BY DEF Inv, WriterOwns
  <2>3. owns[writer] # << >>
    BY <2>2
  <2>4. PoolLockAroundBatch
    BY BatchHasLocks
  <2>5. held[t][pool] > 0 /\ held[t][chain] > 0 /\ held[writer][BatchLock(call[writer])] > 0
    BY <2>1, <2>3, <2>4 DEF PoolLockAroundBatch
  <2>6. BatchLock(call[writer]) \in {pool, chain} /\ pool \in Locks /\ chain \in Locks
    BY DEF BatchLock, Locks
  <2> QED
    BY <2>1, <2>5, <2>6 DEF Inv, Exclusive
<1> QED
  BY <1>1, InitInv, NextInv, PTL DEF Spec
-----------------------------------------------------------------------------
(* The calls of the core keep the discipline.  A run of a piece of a call  *)
(* goes from what is held before it to what is held after it; runs are put *)
(* together as the calls are.                                              *)

\* How often the locks incoming, pool and chain are held, and the open batches.
Holdings == Nat \X Nat \X Nat \X Nat
open == 4

\* A step as the discipline allows it, from the holdings a to the holdings b.
Moves(x, a, b) ==
    /\ b[open] > 0 => b[pool] > 0
    /\ \/ \E l \in Locks :
             /\ x = Take(l) /\ b[l] = a[l] + 1 /\ \A k \in 1 .. 4 : k # l => b[k] = a[k]
             /\ a[l] = 0 => \A m \in Locks : m > l => a[m] = 0
       \/ \E l \in Locks :
             x = Drop(l) /\ b[l] = a[l] - 1 /\ \A k \in 1 .. 4 : k # l => b[k] = a[k]
       \/ /\ x \in {Start, Wait} /\ a[pool] > 0 /\ a[chain] > 0
          /\ b[open] = a[open] + 1 /\ \A l \in Locks : b[l] = a[l]
       \/ x = Stop /\ b[open] = a[open] - 1 /\ \A l \in Locks : b[l] = a[l]

Trace(s, a, b, r) ==
    /\ r \in [1 .. Len(s) + 1 -> Holdings] /\ r[1] = a /\ r[Len(s) + 1] = b
    /\ \A k \in 1 .. Len(s) : Moves(s[k], r[k], r[k + 1])

Runs(s, a, b) == s \in Seq(Steps) /\ \E r : Trace(s, a, b, r)

LEMMA RunsNothing ==
    ASSUME NEW a \in Holdings
    PROVE  Runs(<< >>, a, a)
<1> DEFINE r == [k \in 1 .. 1 |-> a]
<1>1. Len(<< >>) = 0 /\ << >> \in Seq(Steps)
  OBVIOUS
<1>2. Trace(<< >>, a, a, r)
  BY <1>1 DEF Trace
<1> QED
  BY <1>1, <1>2 DEF Runs

LEMMA RunsStep ==
    ASSUME NEW a \in Holdings, NEW b \in Holdings, NEW x \in Steps, Moves(x, a, b)
    PROVE  Runs(<<x>>, a, b)
<1> DEFINE r == [k \in 1 .. 2 |-> IF k = 1 THEN a ELSE b]
           s == <<x>>
<1>1. Len(s) = 1 /\ s \in Seq(Steps) /\ s[1] = x
  OBVIOUS
<1>2. r \in [1 .. 2 -> Holdings] /\ r[1] = a /\ r[2] = b
  OBVIOUS
<1> HIDE DEF s, r
<1>3. Trace(s, a, b, r)
  BY <1>1, <1>2 DEF Trace
<1>4. Runs(s, a, b)
  BY <1>1, <1>3 DEF Runs
<1> QED
  BY <1>4 DEF s

LEMMA RunsBoth ==
    ASSUME NEW s, NEW t, NEW a, NEW b, NEW c, Runs(s, a, b), Runs(t, b, c)
    PROVE  Runs(s \o t, a, c)
<1>1. PICK p : Trace(s, a, b, p)
  BY DEF Runs
<1>2. PICK q : Trace(t, b, c, q)
  BY DEF Runs
<1> DEFINE m == Len(s)
           n == Len(t)
           u == s \o t
           r == [k \in 1 .. m + n + 1 |-> IF k <= m + 1 THEN p[k] ELSE q[k - m]]
<1>3. s \in Seq(Steps) /\ t \in Seq(Steps) /\ m \in Nat /\ n \in Nat
  BY DEF Runs
<1>4. /\ u \in Seq(Steps) /\ Len(u) = m + n
      /\ \A k \in 1 .. m + n : u[k] = IF k <= m THEN s[k] ELSE t[k - m]
  BY <1>3, ConcatProperties
<1>5. /\ p \in [1 .. m + 1 -> Holdings] /\ p[1] = a /\ p[m + 1] = b
      /\ \A k \in 1 .. m : Moves(s[k], p[k], p[k + 1])
  BY <1>1 DEF Trace
<1>6. /\ q \in [1 .. n + 1 -> Holdings] /\ q[1] = b /\ q[n + 1] = c
      /\ \A k \in 1 .. n : Moves(t[k], q[k], q[k + 1])
  BY <1>2 DEF Trace
<1> HIDE DEF m, n, u
<1>7. \A k \in 1 .. m + n + 1 : k > m + 1 => k - m \in 1 .. n + 1
  BY <1>3
<1>8. \A k \in 1 .. m + n + 1 : ~(k > m + 1) => k <= m + 1 /\ k \in 1 .. m + 1
  BY <1>3
<1>9. r \in [1 .. m + n + 1 -> Holdings]
  BY <1>3, <1>5, <1>6, <1>7, <1>8
<1>10. r[1] = a
  BY <1>3, <1>5
<1>11. \A k \in 0 .. n : r[m + k + 1] = q[k + 1]
  <2> SUFFICES ASSUME NEW k \in 0 .. n PROVE r[m + k + 1] = q[k + 1]
    BY Zenon
  <2>1. m + k + 1 \in 1 .. m + n + 1 /\ (m + k + 1) - m = k + 1
    BY <1>3
  <2>2. CASE k = 0
    <3>1. m + k + 1 = m + 1 /\ k + 1 = 1 /\ m + 1 \in 1 .. m + n + 1 /\ m + 1 <= m + 1
      BY <1>3, <2>2
    <3>2. r[m + 1] = p[m + 1]
      BY <3>1
    <3> QED
      BY <1>5, <1>6, <3>1, <3>2
  <2>3. CASE k # 0
    <3>1. ~(m + k + 1 <= m + 1)
      BY <1>3, <2>3
    <3>2. r[m + k + 1] = q[(m + k + 1) - m]
      BY <2>1, <3>1
    <3> QED
      BY <2>1, <3>2
  <2> QED
    BY <2>2, <2>3
<1>12. \A k \in 1 .. m + 1 : r[k] = p[k]
  BY <1>3
<1> HIDE DEF r
<1>13. r[m + n + 1] = c
  <2>1. n \in 0 .. n
    BY <1>3
  <2>2. r[m + n + 1] = q[n + 1]
    BY <1>11, <2>1
  <2> QED
    BY <1>6, <2>2
<1>14. ASSUME NEW k \in 1 .. m + n
       PROVE  Moves(u[k], r[k], r[k + 1])
  <2>1. CASE k <= m
    <3>1. k \in 1 .. m /\ k \in 1 .. m + 1 /\ k + 1 \in 1 .. m + 1
      BY <1>3, <2>1
    <3> QED
      BY <1>4, <1>5, <1>12, <2>1, <3>1
  <2>2. CASE ~(k <= m)
    <3> DEFINE j == k - m
               h == j - 1
    <3>1. j \in 1 .. n /\ h \in 0 .. n /\ j \in 0 .. n /\ m + j + 1 = k + 1 /\ m + h + 1 = k /\ h + 1 = j
      BY <1>3, <2>2
    <3>2. u[k] = t[j]
      BY <1>4, <2>2
    <3> HIDE DEF j, h
    <3>3. r[k] = q[j] /\ r[k + 1] = q[j + 1]
      <4>1. r[m + h + 1] = q[h + 1] /\ r[m + j + 1] = q[j + 1]
        BY <1>11, <3>1
      <4> QED
        BY <3>1, <4>1
    <3> QED
      BY <1>6, <3>1, <3>2, <3>3
  <2> QED
    BY <2>1, <2>2
<1>15. Trace(u, a, c, r)
  BY <1>4, <1>9, <1>10, <1>13, <1>14 DEF Trace
<1>16. Runs(u, a, c)
  BY <1>4, <1>15 DEF Runs
<1> QED
  BY <1>16 DEF u

LEMMA RunsTwo ==
    ASSUME NEW a \in Holdings, NEW b \in Holdings, NEW c \in Holdings, NEW x \in Steps, NEW y \in Steps,
           Moves(x, a, b), Moves(y, b, c)
    PROVE  Runs(<<x, y>>, a, c)
<1>1. Runs(<<x>>, a, b) /\ Runs(<<y>>, b, c)
  BY RunsStep
<1>2. <<x>> \o <<y>> = <<x, y>>
  <2> DEFINE s == <<x>>
             t == <<y>>
             u == s \o t
             v == <<x, y>>
  <2>1. /\ s \in Seq(Steps) /\ t \in Seq(Steps) /\ Len(s) = 1 /\ Len(t) = 1 /\ s[1] = x /\ t[1] = y
        /\ v \in Seq(Steps) /\ Len(v) = 2 /\ v[1] = x /\ v[2] = y
    OBVIOUS
  <2> HIDE DEF s, t, v
  <2>2. u \in Seq(Steps) /\ Len(u) = Len(s) + Len(t)
    BY <2>1, ConcatProperties, Zenon
  <2>3. \A k \in 1 .. Len(s) + Len(t) : u[k] = IF k <= Len(s) THEN s[k] ELSE t[k - Len(s)]
    BY <2>1, ConcatProperties, Zenon
  <2> HIDE DEF u
  <2>4. Len(u) = 2 /\ u[1] = x /\ u[2] = y
    BY <2>1, <2>2, <2>3
  <2>5. \A k \in 1 .. 2 : u[k] = v[k]
    BY <2>1, <2>4
  <2>6. u = v
    BY <2>1, <2>2, <2>4, <2>5, SeqEqual
  <2> QED
    BY <2>6 DEF s, t, u, v
<1>3. Runs(<<x>> \o <<y>>, a, c)
  BY <1>1, RunsBoth
<1> QED
  BY <1>2, <1>3, Zenon

\* The steps, one by one.
LEMMA TakeMoves ==
    ASSUME NEW i \in Nat, NEW p \in Nat, NEW c \in Nat, NEW o \in Nat
    PROVE  /\ (i = 0 => p = 0 /\ c = 0) /\ (o > 0 => p > 0)
                 => Moves(Take(incoming), <<i, p, c, o>>, <<i + 1, p, c, o>>)
           /\ (p = 0 => c = 0) => Moves(Take(pool), <<i, p, c, o>>, <<i, p + 1, c, o>>)
           /\ (o > 0 => p > 0) => Moves(Take(chain), <<i, p, c, o>>, <<i, p, c + 1, o>>)
<1> DEFINE a == <<i, p, c, o>>
<1>0. Locks = {1, 2, 3} /\ incoming = 1 /\ pool = 2 /\ chain = 3 /\ open = 4
  BY DEF Locks, incoming, pool, chain, open
<1>1. \A k \in 1 .. 4 : k = 1 \/ k = 2 \/ k = 3 \/ k = 4
  OBVIOUS
<1>2. ASSUME i = 0 => p = 0 /\ c = 0, o > 0 => p > 0
      PROVE  Moves(Take(incoming), a, <<i + 1, p, c, o>>)
  <2> DEFINE b == <<i + 1, p, c, o>>
  <2>1. a[1] = i /\ a[2] = p /\ a[3] = c /\ b[1] = i + 1 /\ b[2] = p /\ b[4] = o
    OBVIOUS
  <2>2. \A k \in 1 .. 4 : k # 1 => b[k] = a[k]
    BY <1>1
  <2> HIDE DEF a, b
  <2>3. Moves(Take(1), a, b)
    BY <1>0, <1>2, <2>1, <2>2 DEF Moves
  <2> QED
    BY <1>0, <2>3 DEF a, b
<1>3. ASSUME p = 0 => c = 0
      PROVE  Moves(Take(pool), a, <<i, p + 1, c, o>>)
  <2> DEFINE b == <<i, p + 1, c, o>>
  <2>1. a[1] = i /\ a[2] = p /\ a[3] = c /\ b[2] = p + 1 /\ b[2] > 0
    OBVIOUS
  <2>2. \A k \in 1 .. 4 : k # 2 => b[k] = a[k]
    BY <1>1
  <2> HIDE DEF a, b
  <2>3. Moves(Take(2), a, b)
    BY <1>0, <1>3, <2>1, <2>2 DEF Moves
  <2> QED
    BY <1>0, <2>3 DEF a, b
<1>4. ASSUME o > 0 => p > 0
      PROVE  Moves(Take(chain), a, <<i, p, c + 1, o>>)
  <2> DEFINE b == <<i, p, c + 1, o>>
  <2>1. a[1] = i /\ a[2] = p /\ a[3] = c /\ b[2] = p /\ b[3] = c + 1 /\ b[4] = o
    OBVIOUS
  <2>2. \A k \in 1 .. 4 : k # 3 => b[k] = a[k]
    BY <1>1
  <2> HIDE DEF a, b
  <2>3. Moves(Take(3), a, b)
    BY <1>0, <1>4, <2>1, <2>2 DEF Moves
  <2> QED
    BY <1>0, <2>3 DEF a, b
<1> QED
  BY <1>2, <1>3, <1>4

LEMMA DropMoves ==
    ASSUME NEW i \in Nat, NEW p \in Nat, NEW c \in Nat, NEW o \in Nat, o > 0 => p > 0
    PROVE  /\ Moves(Drop(incoming), <<i + 1, p, c, o>>, <<i, p, c, o>>)
           /\ Moves(Drop(pool), <<i, p + 1, c, o>>, <<i, p, c, o>>)
           /\ Moves(Drop(chain), <<i, p, c + 1, o>>, <<i, p, c, o>>)
<1> DEFINE b == <<i, p, c, o>>
<1>0. Locks = {1, 2, 3} /\ incoming = 1 /\ pool = 2 /\ chain = 3 /\ open = 4
  BY DEF Locks, incoming, pool, chain, open
<1>1. \A k \in 1 .. 4 : k = 1 \/ k = 2 \/ k = 3 \/ k = 4
  OBVIOUS
<1>2. b[open] > 0 => b[pool] > 0
  BY <1>0
<1>3. Moves(Drop(incoming), <<i + 1, p, c, o>>, b)
  <2> DEFINE a == <<i + 1, p, c, o>>
  <2>1. b[1] = a[1] - 1 /\ \A k \in 1 .. 4 : k # 1 => b[k] = a[k]
    BY <1>1
  <2> HIDE DEF a, b
  <2>2. Moves(Drop(1), a, b)
    BY <1>0, <1>2, <2>1 DEF Moves
  <2> QED
    BY <1>0, <2>2 DEF a, b
<1>4. Moves(Drop(pool), <<i, p + 1, c, o>>, b)
  <2> DEFINE a == <<i, p + 1, c, o>>
  <2>1. b[2] = a[2] - 1 /\ \A k \in 1 .. 4 : k # 2 => b[k] = a[k]
    BY <1>1
  <2> HIDE DEF a, b
  <2>2. Moves(Drop(2), a, b)
    BY <1>0, <1>2, <2>1 DEF Moves
  <2> QED
    BY <1>0, <2>2 DEF a, b
<1>5. Moves(Drop(chain), <<i, p, c + 1, o>>, b)
  <2> DEFINE a == <<i, p, c + 1, o>>
  <2>1. b[3] = a[3] - 1 /\ \A k \in 1 .. 4 : k # 3 => b[k] = a[k]
    BY <1>1
  <2> HIDE DEF a, b
  <2>2. Moves(Drop(3), a, b)
    BY <1>0, <1>2, <2>1 DEF Moves
  <2> QED
    BY <1>0, <2>2 DEF a, b
<1> QED
  BY <1>3, <1>4, <1>5

LEMMA BatchMoves ==
    ASSUME NEW i \in Nat, NEW p \in Nat, NEW c \in Nat, NEW o \in Nat, p > 0, c > 0
    PROVE  /\ Moves(Start, <<i, p, c, o>>, <<i, p, c, o + 1>>)
           /\ Moves(Wait, <<i, p, c, o>>, <<i, p, c, o + 1>>)
           /\ Moves(Stop, <<i, p, c, o + 1>>, <<i, p, c, o>>)
<1> DEFINE a == <<i, p, c, o>>
           b == <<i, p, c, o + 1>>
<1>0. Locks = {1, 2, 3} /\ pool = 2 /\ chain = 3 /\ open = 4
  BY DEF Locks, incoming, pool, chain, open
<1>1. /\ a[pool] = p /\ a[chain] = c /\ b[pool] = p /\ b[open] = a[open] + 1 /\ a[open] = b[open] - 1
      /\ \A l \in Locks : a[l] = b[l]
  BY <1>0
<1> HIDE DEF a, b
<1>2. Moves(Start, a, b) /\ Moves(Wait, a, b) /\ Moves(Stop, b, a)
  BY <1>1 DEF Moves
<1> QED
  BY <1>2 DEF a, b

LEMMA HoldingsAre ==
    ASSUME NEW i \in Nat, NEW p \in Nat, NEW c \in Nat, NEW o \in Nat
    PROVE  <<i, p, c, o>> \in Holdings
BY DEF Holdings

LEMMA StepsAre ==
    /\ \A l \in {incoming, pool, chain} : Take(l) \in Steps /\ Drop(l) \in Steps
    /\ Start \in Steps /\ Wait \in Steps /\ Stop \in Steps
BY DEF Steps, Locks

\* The two locks around what a call does under them.
LEMMA UnderBothRuns ==
    ASSUME NEW i \in Nat, NEW p \in Nat, NEW c \in Nat, NEW o \in Nat, p = 0 => c = 0, o > 0 => p > 0,
           NEW body, Runs(body, <<i, p + 1, c + 1, o>>, <<i, p + 1, c + 1, o>>)
    PROVE  Runs(UnderBoth(body), <<i, p, c, o>>, <<i, p, c, o>>)
<1> DEFINE a == <<i, p, c, o>>
           b == <<i, p + 1, c, o>>
           d == <<i, p + 1, c + 1, o>>
           before == <<Take(pool), Take(chain)>>
           after == <<Drop(chain), Drop(pool)>>
<1>1. p + 1 \in Nat /\ c + 1 \in Nat /\ (o > 0 => p + 1 > 0)
  OBVIOUS
<1>2. a \in Holdings /\ b \in Holdings /\ d \in Holdings
  BY <1>1, HoldingsAre
<1>3. Moves(Take(pool), a, b) /\ Moves(Drop(pool), b, a)
  BY TakeMoves, DropMoves, Zenon
<1>4. Moves(Take(chain), b, d) /\ Moves(Drop(chain), d, b)
  BY <1>1, TakeMoves, DropMoves, Zenon
<1> HIDE DEF a, b, d
<1>5. Runs(before, a, d) /\ Runs(after, d, a)
  BY <1>2, <1>3, <1>4, StepsAre, RunsTwo
<1>6. Runs(body, d, d)
  BY DEF d
<1> HIDE DEF before, after
<1>7. Runs(before \o body, a, d)
  BY <1>5, <1>6, RunsBoth
<1>8. Runs((before \o body) \o after, a, a)
  BY <1>5, <1>7, RunsBoth
<1> QED
  BY <1>8 DEF UnderBoth, before, after, a

\* A LockedTXN, and a batch around what a call does in it.
LEMMA LockedTXNRuns ==
    ASSUME NEW i \in Nat, NEW p \in Nat, NEW c \in Nat, NEW o \in Nat, p > 0, c > 0
    PROVE  Runs(LockedTXN, <<i, p, c, o>>, <<i, p, c, o>>)
<1> DEFINE a == <<i, p, c, o>>
           b == <<i, p, c, o + 1>>
<1>1. a \in Holdings /\ b \in Holdings /\ Moves(Start, a, b) /\ Moves(Stop, b, a)
  BY HoldingsAre, BatchMoves
<1> HIDE DEF a, b
<1>2. Runs(<<Start, Stop>>, a, a)
  BY <1>1, StepsAre, RunsTwo
<1> QED
  BY <1>2 DEF LockedTXN, a

LEMMA PoolOperationRuns ==
    ASSUME NEW i \in Nat, NEW p \in Nat, NEW c \in Nat, NEW o \in Nat, p = 0 => c = 0, o > 0 => p > 0
    PROVE  Runs(pool_operation, <<i, p, c, o>>, <<i, p, c, o>>)
<1>1. p + 1 \in Nat /\ c + 1 \in Nat /\ p + 1 > 0 /\ c + 1 > 0
  OBVIOUS
<1>2. Runs(LockedTXN, <<i, p + 1, c + 1, o>>, <<i, p + 1, c + 1, o>>)
  BY <1>1, LockedTXNRuns
<1> QED
  BY <1>2, UnderBothRuns, Zenon DEF pool_operation

LEMMA PopBlockRuns ==
    ASSUME NEW i \in Nat, NEW p \in Nat, NEW c \in Nat, NEW o \in Nat, p > 0
    PROVE  Runs(pop_block_from_blockchain, <<i, p, c, o>>, <<i, p, c, o>>)
<1> DEFINE a == <<i, p, c, o>>
           b == <<i, p, c + 1, o>>
           d == <<i, p + 1, c + 1, o>>
           before == <<Take(chain)>>
           after == <<Drop(chain)>>
<1>1. p + 1 \in Nat /\ c + 1 \in Nat /\ p # 0
  OBVIOUS
<1>2. a \in Holdings /\ b \in Holdings /\ d \in Holdings
  BY <1>1, HoldingsAre
<1>3. Moves(Take(chain), a, b) /\ Moves(Drop(chain), b, a)
  BY TakeMoves, DropMoves, Zenon
<1>4. Moves(Take(pool), b, d) /\ Moves(Drop(pool), d, b)
  BY <1>1, TakeMoves, DropMoves, Zenon
<1>5. Runs(pool_operation, b, b)
  BY <1>1, PoolOperationRuns
<1> HIDE DEF a, b, d
<1>6. Runs(before, a, b) /\ Runs(after, b, a)
  BY <1>2, <1>3, StepsAre, RunsStep
<1>7. Runs(on_blockchain_dec, b, b)
  BY <1>2, <1>4, StepsAre, RunsTwo DEF on_blockchain_dec
<1> HIDE DEF before, after
<1>8. Runs(before \o pool_operation, a, b)
  BY <1>5, <1>6, RunsBoth
<1>9. Runs((before \o pool_operation) \o on_blockchain_dec, a, b)
  BY <1>7, <1>8, RunsBoth
<1>10. Runs(((before \o pool_operation) \o on_blockchain_dec) \o after, a, a)
  BY <1>6, <1>9, RunsBoth
<1> QED
  BY <1>10 DEF pop_block_from_blockchain, before, after, a

LEMMA HandleIncomingTxsRuns ==
    ASSUME NEW i \in Nat, NEW p \in Nat, NEW c \in Nat, NEW o \in Nat,
           i = 0 => p = 0 /\ c = 0, p = 0 => c = 0, o > 0 => p > 0
    PROVE  Runs(handle_incoming_txs, <<i, p, c, o>>, <<i, p, c, o>>)
<1> DEFINE a == <<i, p, c, o>>
           b == <<i + 1, p, c, o>>
           before == <<Take(incoming)>>
           after == <<Drop(incoming)>>
<1>1. i + 1 \in Nat
  OBVIOUS
<1>2. a \in Holdings /\ b \in Holdings
  BY <1>1, HoldingsAre
<1>3. Moves(Take(incoming), a, b) /\ Moves(Drop(incoming), b, a)
  BY TakeMoves, DropMoves, Zenon
<1>4. Runs(pool_operation, b, b)
  BY <1>1, PoolOperationRuns
<1> HIDE DEF a, b
<1>5. Runs(before, a, b) /\ Runs(after, b, a)
  BY <1>2, <1>3, StepsAre, RunsStep
<1> HIDE DEF before, after
<1>6. Runs(before \o pool_operation, a, b)
  BY <1>4, <1>5, RunsBoth
<1>7. Runs((before \o pool_operation) \o after, a, a)
  BY <1>5, <1>6, RunsBoth
<1> QED
  BY <1>7 DEF handle_incoming_txs, before, after, a

LEMMA CreateBlockTemplateRuns ==
    Runs(create_block_template, <<0, 0, 0, 0>>, <<0, 0, 0, 0>>)
<1>1. Runs(pool_operation, <<0, 0 + 1, 0 + 1, 0>>, <<0, 0 + 1, 0 + 1, 0>>)
  BY PoolOperationRuns
<1> QED
  BY <1>1, UnderBothRuns DEF create_block_template

LEMMA PopBlocksRuns ==
    Runs(pop_blocks, <<0, 0, 0, 0>>, <<0, 0, 0, 0>>)
<1> DEFINE a == <<0, 0 + 1, 0 + 1, 0>>
           b == <<0, 0 + 1, 0 + 1, 0 + 1>>
           before == <<Start>>
           after == <<Stop>>
<1>0. 0 + 1 \in Nat /\ 0 + 1 > 0
  OBVIOUS
<1>1. a \in Holdings /\ b \in Holdings /\ Moves(Start, a, b) /\ Moves(Stop, b, a)
  BY <1>0, HoldingsAre, BatchMoves
<1>2. Runs(pop_block_from_blockchain, b, b)
  BY <1>0, PopBlockRuns
<1> HIDE DEF a, b
<1>3. Runs(before, a, b) /\ Runs(after, b, a)
  BY <1>1, StepsAre, RunsStep
<1> HIDE DEF before, after
<1>4. Runs(before \o pop_block_from_blockchain, a, b)
  BY <1>2, <1>3, RunsBoth
<1> DEFINE body == (before \o pop_block_from_blockchain) \o after
<1>5. Runs(body, a, a)
  BY <1>3, <1>4, RunsBoth
<1> HIDE DEF body
<1>6. Runs(UnderBoth(body), <<0, 0, 0, 0>>, <<0, 0, 0, 0>>)
  BY <1>5, UnderBothRuns DEF a
<1> QED
  BY <1>6 DEF pop_blocks, body, before, after

LEMMA AddNewBlockRuns ==
    ASSUME NEW i \in Nat, NEW p \in Nat, NEW c \in Nat, NEW o \in Nat, p = 0 => c = 0, o > 0 => p > 0
    PROVE  Runs(add_new_block, <<i, p, c, o>>, <<i, p, c, o>>)
<1>1. p + 1 \in Nat /\ c + 1 \in Nat /\ p + 1 > 0 /\ p + 1 # 0
  OBVIOUS
<1> DEFINE d == <<i, p + 1, c + 1, o>>
           body == pool_operation \o pop_block_from_blockchain
<1>2. Runs(pool_operation, d, d)
  BY <1>1, PoolOperationRuns
<1>3. Runs(pop_block_from_blockchain, d, d)
  BY <1>1, PopBlockRuns
<1> HIDE DEF d
<1>4. Runs(body, d, d)
  BY <1>2, <1>3, RunsBoth
<1> HIDE DEF body
<1> QED
  BY <1>4, UnderBothRuns, Zenon DEF add_new_block, body, d

LEMMA RunsFour ==
    ASSUME NEW a \in Holdings, NEW b \in Holdings, NEW c \in Holdings, NEW d \in Holdings, NEW e \in Holdings,
           NEW w \in Steps, NEW x \in Steps, NEW y \in Steps, NEW z \in Steps,
           Moves(w, a, b), Moves(x, b, c), Moves(y, c, d), Moves(z, d, e)
    PROVE  Runs(<<w, x, y, z>>, a, e)
<1> DEFINE s == <<w, x, y, z>>
           r == <<a, b, c, d, e>>
<1>1. s \in Seq(Steps) /\ Len(s) = 4 /\ s[1] = w /\ s[2] = x /\ s[3] = y /\ s[4] = z
  OBVIOUS
<1>2. /\ r \in [1 .. 5 -> Holdings]
      /\ r[1] = a /\ r[2] = b /\ r[3] = c /\ r[4] = d /\ r[5] = e
  OBVIOUS
<1> HIDE DEF s, r
<1>3. ASSUME NEW k \in 1 .. 4 PROVE Moves(s[k], r[k], r[k + 1])
  <2>1. \/ (k = 1 /\ k + 1 = 2) \/ (k = 2 /\ k + 1 = 3) \/ (k = 3 /\ k + 1 = 4) \/ (k = 4 /\ k + 1 = 5)
    OBVIOUS
  <2> QED
    BY <1>1, <1>2, <2>1
<1>4. Trace(s, a, e, r)
  BY <1>1, <1>2, <1>3 DEF Trace
<1> QED
  BY <1>1, <1>4 DEF Runs, s

LEMMA RunsFive ==
    ASSUME NEW a \in Holdings, NEW b \in Holdings, NEW c \in Holdings, NEW d \in Holdings, NEW e \in Holdings,
           NEW f \in Holdings,
           NEW v \in Steps, NEW w \in Steps, NEW x \in Steps, NEW y \in Steps, NEW z \in Steps,
           Moves(v, a, b), Moves(w, b, c), Moves(x, c, d), Moves(y, d, e), Moves(z, e, f)
    PROVE  Runs(<<v, w, x, y, z>>, a, f)
<1> DEFINE s == <<v, w, x, y, z>>
           r == <<a, b, c, d, e, f>>
<1>1. s \in Seq(Steps) /\ Len(s) = 5 /\ s[1] = v /\ s[2] = w /\ s[3] = x /\ s[4] = y /\ s[5] = z
  OBVIOUS
<1>2. /\ r \in [1 .. 6 -> Holdings]
      /\ r[1] = a /\ r[2] = b /\ r[3] = c /\ r[4] = d /\ r[5] = e /\ r[6] = f
  OBVIOUS
<1> HIDE DEF s, r
<1>3. ASSUME NEW k \in 1 .. 5 PROVE Moves(s[k], r[k], r[k + 1])
  <2>1. \/ (k = 1 /\ k + 1 = 2) \/ (k = 2 /\ k + 1 = 3) \/ (k = 3 /\ k + 1 = 4) \/ (k = 4 /\ k + 1 = 5)
        \/ (k = 5 /\ k + 1 = 6)
    OBVIOUS
  <2> QED
    BY <1>1, <1>2, <2>1
<1>4. Trace(s, a, f, r)
  BY <1>1, <1>2, <1>3 DEF Trace
<1> QED
  BY <1>1, <1>4 DEF Runs, s

\* From prepare_handle_incoming_blocks to cleanup_handle_incoming_blocks the thread has
\* the first two locks and a batch.
LEMMA PrepareRuns ==
    Runs(prepare_handle_incoming_blocks, <<0, 0, 0, 0>>, <<1, 1, 0, 1>>)
<1> DEFINE a == <<0, 0, 0, 0>>
           b == <<0 + 1, 0, 0, 0>>
           c == <<1, 0 + 1, 0, 0>>
           d == <<1, 1, 0 + 1, 0>>
           e == <<1, 1, 1, 0 + 1>>
           f == <<1, 1, 0, 1>>
<1>1. b = <<1, 0, 0, 0>> /\ c = <<1, 1, 0, 0>> /\ d = <<1, 1, 1, 0>> /\ e = <<1, 1, 0 + 1, 1>>
  OBVIOUS
<1>2. Moves(Take(incoming), a, b)
  BY TakeMoves, Zenon
<1>3. Moves(Take(pool), <<1, 0, 0, 0>>, c)
  BY TakeMoves, Zenon
<1>4. Moves(Take(chain), <<1, 1, 0, 0>>, d)
  <2>1. 0 \in Nat /\ 1 \in Nat /\ (0 > 0 => 1 > 0)
    OBVIOUS
  <2> QED
    BY <2>1, TakeMoves, Zenon
<1>5. Moves(Wait, <<1, 1, 1, 0>>, e)
  BY BatchMoves
<1>6. Moves(Drop(chain), <<1, 1, 0 + 1, 1>>, f)
  BY DropMoves, Zenon
<1>7. /\ a \in Holdings /\ b \in Holdings /\ c \in Holdings /\ d \in Holdings /\ e \in Holdings
      /\ f \in Holdings
  BY HoldingsAre
<1>8. Moves(Take(pool), b, c) /\ Moves(Take(chain), c, d) /\ Moves(Wait, d, e) /\ Moves(Drop(chain), e, f)
  BY <1>1, <1>3, <1>4, <1>5, <1>6
<1> HIDE DEF a, b, c, d, e, f
<1>9. Runs(prepare_handle_incoming_blocks, a, f)
  BY <1>2, <1>7, <1>8, StepsAre, RunsFive, Zenon DEF prepare_handle_incoming_blocks
<1> QED
  BY <1>9 DEF a, f

LEMMA CleanupRuns ==
    Runs(cleanup_handle_incoming_blocks, <<1, 1, 0, 1>>, <<0, 0, 0, 0>>)
<1> DEFINE a == <<1, 1, 0, 1>>
           b == <<1, 1, 0 + 1, 1>>
           c == <<1, 1, 1, 0>>
           d == <<1, 0 + 1, 0, 0>>
           e == <<1, 0, 0, 0>>
           f == <<0, 0, 0, 0>>
           first == <<Take(chain), Stop, Drop(chain), Drop(pool)>>
           last == <<Drop(incoming)>>
<1>1. b = <<1, 1, 1, 0 + 1>> /\ c = <<1, 1, 0 + 1, 0>> /\ d = <<1, 1, 0, 0>> /\ e = <<0 + 1, 0, 0, 0>>
  OBVIOUS
<1>2. Moves(Take(chain), a, b)
  BY TakeMoves, Zenon
<1>3. Moves(Stop, <<1, 1, 1, 0 + 1>>, c)
  BY BatchMoves
<1>4. Moves(Drop(chain), <<1, 1, 0 + 1, 0>>, <<1, 1, 0, 0>>)
  <2>1. 0 \in Nat /\ 1 \in Nat /\ (0 > 0 => 1 > 0)
    OBVIOUS
  <2> QED
    BY <2>1, DropMoves, Zenon
<1>5. Moves(Drop(pool), d, e)
  BY DropMoves, Zenon
<1>6. Moves(Drop(incoming), <<0 + 1, 0, 0, 0>>, f)
  BY DropMoves, Zenon
<1>7. /\ a \in Holdings /\ b \in Holdings /\ c \in Holdings /\ d \in Holdings /\ e \in Holdings
      /\ f \in Holdings
  BY HoldingsAre
<1>8. Moves(Stop, b, c) /\ Moves(Drop(chain), c, d) /\ Moves(Drop(incoming), e, f)
  BY <1>1, <1>3, <1>4, <1>6
<1>9. Runs(update_blockchain_pruning, e, e)
  <2>1. <<1, 0 + 1, 0 + 1, 0>> \in Holdings
    BY HoldingsAre
  <2>2. Runs(<< >>, <<1, 0 + 1, 0 + 1, 0>>, <<1, 0 + 1, 0 + 1, 0>>)
    BY <2>1, RunsNothing
  <2> QED
    BY <2>2, UnderBothRuns DEF update_blockchain_pruning
<1> HIDE DEF a, b, c, d, e, f
<1>10. Runs(first, a, e)
  BY <1>2, <1>5, <1>7, <1>8, StepsAre, RunsFour, Zenon
<1>11. Runs(last, e, f)
  BY <1>7, <1>8, StepsAre, RunsStep
<1> HIDE DEF first, last
<1>12. Runs(first \o update_blockchain_pruning, a, e)
  BY <1>9, <1>10, RunsBoth
<1>13. Runs((first \o update_blockchain_pruning) \o last, a, f)
  BY <1>11, <1>12, RunsBoth
<1> QED
  BY <1>13 DEF cleanup_handle_incoming_blocks, first, last, a, f

LEMMA IncomingBlocksRuns ==
    Runs(incoming_blocks, <<0, 0, 0, 0>>, <<0, 0, 0, 0>>)
<1> DEFINE a == <<0, 0, 0, 0>>
           b == <<1, 1, 0, 1>>
<1>1. Runs(prepare_handle_incoming_blocks, a, b)
  BY PrepareRuns
<1>2. Runs(handle_incoming_txs, b, b)
  BY HandleIncomingTxsRuns
<1>3. Runs(add_new_block, b, b)
  BY AddNewBlockRuns
<1>4. Runs(cleanup_handle_incoming_blocks, b, a)
  BY CleanupRuns
<1> HIDE DEF a, b
<1>5. Runs(prepare_handle_incoming_blocks \o handle_incoming_txs, a, b)
  BY <1>1, <1>2, RunsBoth
<1>6. Runs((prepare_handle_incoming_blocks \o handle_incoming_txs) \o add_new_block, a, b)
  BY <1>3, <1>5, RunsBoth
<1>7. Runs(((prepare_handle_incoming_blocks \o handle_incoming_txs) \o add_new_block)
              \o cleanup_handle_incoming_blocks, a, a)
  BY <1>4, <1>6, RunsBoth, Zenon
<1> QED
  BY <1>7 DEF incoming_blocks, a

-----------------------------------------------------------------------------
\* A run counts what Depth and Open count.
Counts(x, a, b) ==
    /\ b[open] = a[open] + (IF x \in {Start, Wait} THEN 1 ELSE 0) - (IF x = Stop THEN 1 ELSE 0)
    /\ \A l \in Locks : b[l] = a[l] + (IF x = Take(l) THEN 1 ELSE 0) - (IF x = Drop(l) THEN 1 ELSE 0)

LEMMA MoveCounts ==
    ASSUME NEW x, NEW a \in Holdings, NEW b \in Holdings, Moves(x, a, b)
    PROVE  Counts(x, a, b)
<1>0. Locks = {1, 2, 3} /\ open = 4 /\ 4 \in 1 .. 4 /\ \A l \in Locks : l \in 1 .. 4 /\ l # 4
  BY DEF Locks, incoming, pool, chain, open
<1>1. a[4] \in Nat /\ b[4] \in Nat /\ \A l \in Locks : a[l] \in Nat /\ b[l] \in Nat
  BY <1>0 DEF Holdings
<1>2. ASSUME NEW m \in Locks, x = Take(m), b[m] = a[m] + 1, \A k \in 1 .. 4 : k # m => b[k] = a[k]
      PROVE  /\ b[4] = a[4] + (IF x \in {Start, Wait} THEN 1 ELSE 0) - (IF x = Stop THEN 1 ELSE 0)
             /\ \A l \in Locks : b[l] = a[l] + (IF x = Take(l) THEN 1 ELSE 0) - (IF x = Drop(l) THEN 1 ELSE 0)
  <2>1. x \notin {Start, Wait} /\ x # Stop /\ \A l \in Locks : x # Drop(l) /\ (x = Take(l) <=> l = m)
    BY <1>2, StepsDiffer
  <2>2. b[4] = a[4] /\ \A l \in Locks : l # m => b[l] = a[l]
    BY <1>0, <1>2
  <2> QED
    BY <1>1, <1>2, <2>1, <2>2
<1>3. ASSUME NEW m \in Locks, x = Drop(m), b[m] = a[m] - 1, \A k \in 1 .. 4 : k # m => b[k] = a[k]
      PROVE  /\ b[4] = a[4] + (IF x \in {Start, Wait} THEN 1 ELSE 0) - (IF x = Stop THEN 1 ELSE 0)
             /\ \A l \in Locks : b[l] = a[l] + (IF x = Take(l) THEN 1 ELSE 0) - (IF x = Drop(l) THEN 1 ELSE 0)
  <2>1. x \notin {Start, Wait} /\ x # Stop /\ \A l \in Locks : x # Take(l) /\ (x = Drop(l) <=> l = m)
    BY <1>3, StepsDiffer
  <2>2. b[4] = a[4] /\ \A l \in Locks : l # m => b[l] = a[l]
    BY <1>0, <1>3
  <2> QED
    BY <1>1, <1>3, <2>1, <2>2
<1>4. ASSUME x \in {Start, Wait, Stop}, \A l \in Locks : b[l] = a[l]
      PROVE  \A l \in Locks : b[l] = a[l] + (IF x = Take(l) THEN 1 ELSE 0) - (IF x = Drop(l) THEN 1 ELSE 0)
  <2>1. \A l \in Locks : x # Take(l) /\ x # Drop(l)
    BY <1>4, StepsDiffer
  <2> QED
    BY <1>1, <1>4, <2>1
<1>5. ASSUME x \in {Start, Wait}, b[4] = a[4] + 1
      PROVE  b[4] = a[4] + (IF x \in {Start, Wait} THEN 1 ELSE 0) - (IF x = Stop THEN 1 ELSE 0)
  BY <1>1, <1>5, StepsDiffer
<1>6. ASSUME x = Stop, b[4] = a[4] - 1
      PROVE  b[4] = a[4] + (IF x \in {Start, Wait} THEN 1 ELSE 0) - (IF x = Stop THEN 1 ELSE 0)
  BY <1>1, <1>6, StepsDiffer
<1> QED
  BY <1>0, <1>2, <1>3, <1>4, <1>5, <1>6, Zenon DEF Moves, Counts

LEMMA LeastOf ==
    ASSUME NEW B \in SUBSET Nat, B # {}
    PROVE  \E n \in B : \A k \in B : n <= k
<1>1. PICK n \in B : \A y \in B : ~(<<y, n>> \in OpToRel(<, Nat))
  BY NatLessThanWellFounded, WFMin, Zenon
<1>2. \A y \in B : ~(y < n)
  BY <1>1, Zenon DEF OpToRel
<1> QED
  BY <1>2

LEMMA TraceCounts ==
    ASSUME NEW c \in Calls, NEW r, Trace(Program[c], <<0, 0, 0, 0>>, <<0, 0, 0, 0>>, r)
    PROVE  \A i \in 1 .. Len(Program[c]) + 1 :
              Open(c, i) = r[i][open] /\ \A l \in Locks : Depth(c, i, l) = r[i][l]
<1> DEFINE n == Len(Program[c])
           Good(i) == Open(c, i) = r[i][open] /\ \A l \in Locks : Depth(c, i, l) = r[i][l]
           B == {i \in 1 .. n + 1 : ~Good(i)}
<1>0. n \in Nat
  BY LockAssumption
<1>1. /\ r \in [1 .. n + 1 -> Holdings] /\ r[1] = <<0, 0, 0, 0>>
      /\ \A k \in 1 .. n : Moves(Program[c][k], r[k], r[k + 1])
  BY Zenon DEF Trace
<1>2. Good(1)
  <2>1. Locks = {1, 2, 3} /\ open = 4
    BY DEF Locks, incoming, pool, chain, open
  <2>2. r[1][open] = 0 /\ \A l \in Locks : r[1][l] = 0
    BY <1>1, <2>1
  <2> QED
    BY <2>2, DepthSteps
<1> HIDE DEF n
<1> SUFFICES ASSUME B # {} PROVE FALSE
  BY DEF n
<1>3. PICK i \in B : \A j \in B : i <= j
  <2>1. B \in SUBSET Nat
    BY <1>0
  <2> HIDE DEF B
  <2> QED
    BY <2>1, LeastOf
<1>4. i \in 1 .. n + 1 /\ ~Good(i)
  OBVIOUS
<1> HIDE DEF Good
<1>5. i # 1
  BY <1>2, <1>4
<1> DEFINE j == i - 1
<1>6. j \in 1 .. n /\ j + 1 = i /\ j \in 1 .. n + 1 /\ ~(i <= j)
  BY <1>0, <1>4, <1>5
<1> HIDE DEF j
<1>7. Good(j)
  BY <1>3, <1>6
<1>8. r[j] \in Holdings /\ r[j + 1] \in Holdings /\ Moves(Program[c][j], r[j], r[j + 1])
  BY <1>1, <1>4, <1>6, Zenon
<1>9. /\ Open(c, j + 1) = Open(c, j) + (IF Program[c][j] \in {Start, Wait} THEN 1 ELSE 0)
                                     - (IF Program[c][j] = Stop THEN 1 ELSE 0)
      /\ \A l \in Locks : Depth(c, j + 1, l) = Depth(c, j, l) + (IF Program[c][j] = Take(l) THEN 1 ELSE 0)
                                                              - (IF Program[c][j] = Drop(l) THEN 1 ELSE 0)
  BY <1>6, DepthNext, OpenNext, Zenon DEF n
<1> DEFINE x == Program[c][j]
           a == r[j]
           b == r[j + 1]
<1>10. /\ b[open] = a[open] + (IF x \in {Start, Wait} THEN 1 ELSE 0) - (IF x = Stop THEN 1 ELSE 0)
       /\ \A l \in Locks : b[l] = a[l] + (IF x = Take(l) THEN 1 ELSE 0) - (IF x = Drop(l) THEN 1 ELSE 0)
  <2>1. a \in Holdings /\ b \in Holdings /\ Moves(x, a, b)
    BY <1>8
  <2> HIDE DEF x, a, b
  <2>2. Counts(x, a, b)
    BY <2>1, MoveCounts, Zenon
  <2> QED
    BY <2>2 DEF Counts
<1>11. Good(j + 1)
  BY <1>7, <1>9, <1>10 DEF Good
<1> QED
  BY <1>4, <1>6, <1>11

LEMMA RunIsDisciplined ==
    ASSUME NEW c \in Calls, Runs(Program[c], <<0, 0, 0, 0>>, <<0, 0, 0, 0>>)
    PROVE  /\ \A i \in DOMAIN Program[c] :
                 (Program[c][i].op = "take" /\ Depth(c, i, Program[c][i].lock) = 0) =>
                     \A l \in Locks : l > Program[c][i].lock => Depth(c, i, l) = 0
           /\ \A i \in 1 .. (Len(Program[c]) + 1) :
                 /\ Open(c, i) > 0 => Depth(c, i, BatchLock(c)) > 0
                 /\ i \in DOMAIN Program[c] /\ Program[c][i].op \in {"start", "wait"}
                       => Depth(c, i, BatchLock(c)) > 0 /\ Depth(c, i, chain) > 0
<1> DEFINE n == Len(Program[c])
<1>0. n \in Nat /\ DOMAIN Program[c] = 1 .. n /\ pool \in Locks /\ chain \in Locks
  BY LockAssumption, SMTT(30) DEF Locks
<1>1. PICK r : Trace(Program[c], <<0, 0, 0, 0>>, <<0, 0, 0, 0>>, r)
  BY DEF Runs
<1>2. \A i \in 1 .. n + 1 : Open(c, i) = r[i][open] /\ \A l \in Locks : Depth(c, i, l) = r[i][l]
  BY <1>1, TraceCounts
<1>3. \A k \in 1 .. n : Moves(Program[c][k], r[k], r[k + 1])
  BY <1>1 DEF Trace
<1>4. Open(c, 1) = 0
  BY DepthSteps
<1> HIDE DEF n
<1>5. \A k \in 1 .. n : k \in 1 .. n + 1
  BY <1>0
<1>6. ASSUME NEW i \in 1 .. n, Program[c][i].op = "take", Depth(c, i, Program[c][i].lock) = 0,
             NEW l \in Locks, l > Program[c][i].lock
      PROVE  Depth(c, i, l) = 0
  <2> DEFINE x == Program[c][i]
             a == r[i]
             b == r[i + 1]
  <2>1. Moves(x, a, b)
    BY <1>3
  <2> HIDE DEF x, a, b
  <2>2. x.op = "take"
    BY <1>6, Zenon DEF x
  <2>3. PICK m \in Locks : x = Take(m) /\ (a[m] = 0 => \A k \in Locks : k > m => a[k] = 0)
    BY <2>1, <2>2 DEF Moves, Drop, Start, Wait, Stop
  <2>4. x.lock = m
    BY <2>3 DEF Take
  <2>5. a[m] = 0
    BY <1>2, <1>5, <1>6, <2>4 DEF x, a
  <2>6. l > m
    BY <1>6, <2>4 DEF x
  <2>7. a[l] = 0
    BY <2>3, <2>5, <2>6
  <2> QED
    BY <1>2, <1>5, <2>7 DEF a
<1>7. ASSUME NEW i \in 1 .. n, Program[c][i].op \in {"start", "wait"}
      PROVE  Depth(c, i, BatchLock(c)) > 0 /\ Depth(c, i, chain) > 0
  <2> DEFINE x == Program[c][i]
             a == r[i]
             b == r[i + 1]
  <2>1. Moves(x, a, b)
    BY <1>3
  <2> HIDE DEF x, a, b
  <2>2. x.op \in {"start", "wait"}
    BY <1>7 DEF x
  <2>3. a[pool] > 0 /\ a[chain] > 0
    BY <2>1, <2>2 DEF Moves, Take, Drop, Stop
  <2>4. Depth(c, i, pool) > 0 /\ Depth(c, i, chain) > 0
    BY <1>0, <1>2, <1>5, <2>3 DEF a
  <2>5. BatchLock(c) = pool
    BY <1>5, <2>4, HeldIsTaken, Zenon DEF n
  <2> QED
    BY <2>4, <2>5, Zenon
<1>8. ASSUME NEW i \in 1 .. n + 1, Open(c, i) > 0
      PROVE  Depth(c, i, BatchLock(c)) > 0
  <2>1. i # 1
    BY <1>4, <1>8
  <2> DEFINE k == i - 1
  <2>2. k \in 1 .. n /\ k + 1 = i
    BY <1>0, <2>1, SMTT(20), Zenon
  <2> HIDE DEF k
  <2>3. r[i][open] > 0 => r[i][pool] > 0
    BY <1>3, <2>2 DEF Moves
  <2>4. Depth(c, i, pool) > 0
    BY <1>0, <1>2, <1>8, <2>3
  <2>5. BatchLock(c) = pool
    BY <2>4, HeldIsTaken, Zenon DEF n
  <2> QED
    BY <2>4, <2>5, Zenon
<1> QED
  BY <1>0, <1>6, <1>7, <1>8, Zenon DEF n

\* check_against_checkpoints keeps the lock of the chain around its batch.
LEMMA CheckIsDisciplined ==
    ASSUME NEW c \in Calls, Program[c] = check_against_checkpoints
    PROVE  /\ \A i \in DOMAIN Program[c] :
                 (Program[c][i].op = "take" /\ Depth(c, i, Program[c][i].lock) = 0) =>
                     \A l \in Locks : l > Program[c][i].lock => Depth(c, i, l) = 0
           /\ \A i \in 1 .. (Len(Program[c]) + 1) :
                 /\ Open(c, i) > 0 => Depth(c, i, BatchLock(c)) > 0
                 /\ i \in DOMAIN Program[c] /\ Program[c][i].op \in {"start", "wait"}
                       => Depth(c, i, BatchLock(c)) > 0 /\ Depth(c, i, chain) > 0
<1>0. Locks = {1, 2, 3} /\ pool = 2 /\ chain = 3 /\ chain \in Locks
  BY DEF Locks, incoming, pool, chain
<1>1. /\ Len(Program[c]) = 4 /\ DOMAIN Program[c] = 1 .. 4
      /\ Program[c][1] = Take(chain) /\ Program[c][2] = Start
      /\ Program[c][3] = Stop /\ Program[c][4] = Drop(chain)
  BY DEF check_against_checkpoints
<1>2. \A i \in 1 .. 4 : i = 1 \/ i = 2 \/ i = 3 \/ i = 4
  OBVIOUS
<1>3. BatchLock(c) = chain
  <2>1. \A i \in 1 .. 4 : Program[c][i] # Take(pool)
    BY <1>0, <1>1, <1>2 DEF Take, Drop, Start, Stop
  <2> QED
    BY <1>1, <2>1, Zenon DEF BatchLock
<1>4. Open(c, 1) = 0 /\ Depth(c, 1, chain) = 0
  BY <1>0, DepthSteps, Zenon
<1>5. 1 \in 1 .. 4 /\ 2 \in 1 .. 4 /\ 3 \in 1 .. 4 /\ 4 \in 1 .. 4
      /\ 1 + 1 = 2 /\ 2 + 1 = 3 /\ 3 + 1 = 4 /\ 4 + 1 = 5
  OBVIOUS
<1>6. Open(c, 2) = 0 /\ Depth(c, 2, chain) = 1
  <2>1. Open(c, 1 + 1) = Open(c, 1) + (IF Program[c][1] \in {Start, Wait} THEN 1 ELSE 0)
                                    - (IF Program[c][1] = Stop THEN 1 ELSE 0)
    BY <1>1, <1>5, OpenNext, Zenon
  <2>2. Depth(c, 1 + 1, chain) = Depth(c, 1, chain)
                                    + (IF Program[c][1] = Take(chain) THEN 1 ELSE 0)
                                    - (IF Program[c][1] = Drop(chain) THEN 1 ELSE 0)
    BY <1>0, <1>1, <1>5, DepthNext, Zenon
  <2> QED
    BY <1>0, <1>1, <1>4, <1>5, <2>1, <2>2, StepsDiffer
<1>7. Depth(c, 3, chain) = 1
  <2>2. Depth(c, 2 + 1, chain) = Depth(c, 2, chain)
                                    + (IF Program[c][2] = Take(chain) THEN 1 ELSE 0)
                                    - (IF Program[c][2] = Drop(chain) THEN 1 ELSE 0)
    BY <1>0, <1>1, <1>5, DepthNext, Zenon
  <2> QED
    BY <1>0, <1>1, <1>5, <1>6, <2>2, StepsDiffer
<1>8. Depth(c, 4, chain) = 1
  <2>2. Depth(c, 3 + 1, chain) = Depth(c, 3, chain)
                                    + (IF Program[c][3] = Take(chain) THEN 1 ELSE 0)
                                    - (IF Program[c][3] = Drop(chain) THEN 1 ELSE 0)
    BY <1>0, <1>1, <1>5, DepthNext, Zenon
  <2> QED
    BY <1>0, <1>1, <1>5, <1>7, <2>2, StepsDiffer
<1>9. Open(c, 5) = 0
  BY <1>1, <1>5, LockAssumption, Zenon
<1>10. \A i \in 1 .. (4 + 1) : Open(c, i) > 0 => Depth(c, i, chain) > 0
  <2>1. \A i \in 1 .. (4 + 1) : i = 1 \/ i = 2 \/ i = 3 \/ i = 4 \/ i = 5
    OBVIOUS
  <2> QED
    BY <1>4, <1>6, <1>7, <1>8, <1>9, <2>1
<1>11. \A i \in 1 .. 4 : Program[c][i].op \in {"start", "wait"} => i = 2
  BY <1>1, <1>2 DEF Take, Drop, Stop
<1>12. \A i \in 1 .. 4 : Program[c][i].op = "take" => Program[c][i].lock = chain
  BY <1>1, <1>2 DEF Take, Drop, Start, Stop
<1>13. \A l \in Locks : ~(l > chain)
  BY <1>0
<1>14. \A i \in DOMAIN Program[c] : Program[c][i].op \in {"start", "wait"} => Depth(c, i, chain) > 0
  BY <1>1, <1>6, <1>11
<1> QED
  BY <1>1, <1>3, <1>10, <1>12, <1>13, <1>14, Zenon

\* The calls of the network, the miner, RPC and the idle handlers take the locks in the
\* order of prepare_handle_incoming_blocks, and have the lock of the pool around every
\* batch, LockedTXN included; check_against_checkpoints has that of the chain.
LEMMA CoreIsDisciplined ==
    ASSUME Calls = DOMAIN CorePrograms, Program = CorePrograms
    PROVE  Disciplined /\ BatchesUnderLocks
<1>1. Calls = {"incoming_blocks", "handle_incoming_txs", "pool_operation", "create_block_template",
               "pop_blocks", "check_against_checkpoints"}
  BY DEF CorePrograms
<1>2. /\ Program["incoming_blocks"] = incoming_blocks
      /\ Program["handle_incoming_txs"] = handle_incoming_txs
      /\ Program["pool_operation"] = pool_operation
      /\ Program["create_block_template"] = create_block_template
      /\ Program["pop_blocks"] = pop_blocks
      /\ Program["check_against_checkpoints"] = check_against_checkpoints
  BY DEF CorePrograms
<1>3. Runs(handle_incoming_txs, <<0, 0, 0, 0>>, <<0, 0, 0, 0>>)
  BY HandleIncomingTxsRuns
<1>4. Runs(pool_operation, <<0, 0, 0, 0>>, <<0, 0, 0, 0>>)
  BY PoolOperationRuns
<1>5. \A c \in Calls : \/ Runs(Program[c], <<0, 0, 0, 0>>, <<0, 0, 0, 0>>)
                       \/ Program[c] = check_against_checkpoints
  BY <1>1, <1>2, <1>3, <1>4, IncomingBlocksRuns, CreateBlockTemplateRuns, PopBlocksRuns
<1> QED
  BY <1>5, RunIsDisciplined, CheckIsDisciplined, Zenon DEF Disciplined, BatchesUnderLocks

\* The calls of the core that CoreLocks writes down never deadlock, however many threads
\* run them and however their steps interleave: they do what the comments in add_new_block,
\* prepare_handle_incoming_blocks and locked_txn.h ask for, and check_against_checkpoints
\* is harmless as long as the chain passes every checkpoint.  When it has to roll back it
\* takes the lock of the pool under that of the chain: that call is not among them.
THEOREM CoreNeverDeadlocks ==
    ASSUME Calls = DOMAIN CorePrograms, Program = CorePrograms
    PROVE  Spec => [](NoDeadlock /\ LocksInOrder /\ PoolLockAroundBatch /\ BatchIsOurs)
<1>1. Disciplined /\ BatchesUnderLocks
  BY CoreIsDisciplined
<1>2. Spec => []NoDeadlock
  BY <1>1, OrderPreventsDeadlock
<1>3. Spec => []LocksInOrder
  BY <1>1, DisciplineKeepsOrder
<1>4. Spec => []PoolLockAroundBatch
  BY <1>1, PoolLockCoversBatch
<1>5. Spec => []BatchIsOurs
  BY <1>1, PoolLockGuardsBatch
<1> QED
  BY <1>2, <1>3, <1>4, <1>5, PTL

=============================================================================
