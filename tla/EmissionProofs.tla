--------------------------- MODULE EmissionProofs ---------------------------
(***************************************************************************)
(* The supply cap of Emission and the weight limits of BlockWeights, for   *)
(* every value of their constants.  The rolling median is assumed to be    *)
(* that of the values inserted last (MedianOfWindow).                      *)
(***************************************************************************)
EXTENDS BlockWeights, SequenceTheorems, WellFoundedInduction, TLAPS

\* A quotient by a positive number is a natural number not above a bound q
\* whenever the dividend is not above q times the divisor.
LEMMA DivBound ==
  ASSUME NEW x \in Nat, NEW y \in Nat \ {0}, NEW q \in Nat, x <= q * y
  PROVE  /\ x \div y \in Nat
         /\ x \div y <= q
  BY SMT

\* get_min_block_weight is positive, so the median the penalty divides by is.
LEMMA MedianPositive ==
  ASSUME NEW m \in Nat, NEW v \in Nat
  PROVE  EffectiveMedian(m, v) \in Nat \ {0}
  BY EmissionAssumption DEF EffectiveMedian, get_min_block_weight

\* The base reward of get_block_reward never exceeds what is left to emit.
LEMMA BaseRewardBound ==
  ASSUME NEW a \in Nat, a <= MONEY_SUPPLY, NEW h \in Nat
  PROVE  /\ BaseReward(a, h) \in Nat
         /\ a + BaseReward(a, h) <= MONEY_SUPPLY
  <1> DEFINE k == h \div HALVING_INTERVAL
             b == IF k >= MAX_HALVINGS THEN 0 ELSE INITIAL_REWARD \div 2^k
  <1>1. k \in Nat
    BY EmissionAssumption
  <1>2. b \in Nat
    <2>1. CASE k >= MAX_HALVINGS
      BY <2>1
    <2>2. CASE ~(k >= MAX_HALVINGS)
      <3>1. 2^k \in Nat \ {0}
        BY <1>1, <2>2, PowerAssumption, EmissionAssumption
      <3>2. INITIAL_REWARD \div 2^k \in Nat
        BY <3>1, EmissionAssumption
      <3> QED
        BY <2>2, <3>2
    <2> QED
      BY <2>1, <2>2
  <1>3. BaseReward(a, h) = IF h = 0 \/ a >= MONEY_SUPPLY THEN 0
                           ELSE IF a + b > MONEY_SUPPLY THEN MONEY_SUPPLY - a ELSE b
    BY DEF BaseReward
  <1> HIDE DEF b
  <1> QED
    BY <1>2, <1>3, EmissionAssumption

\* The penalty for a block heavier than the median only lowers the reward.
LEMMA PenaltyBound ==
  ASSUME NEW b \in Nat, NEW m \in Nat \ {0}, NEW w \in Nat, w <= 2 * m
  PROVE  /\ Penalized(b, m, w) \in Nat
         /\ Penalized(b, m, w) <= b
  <1> DEFINE k == (2 * m - w) * w
  <1>1. k \in Nat /\ k <= m * m
    <2>1. (m - w) * (m - w) >= 0
      BY SMT
    <2> QED
      BY <2>1, SMT
  <1> HIDE DEF k
  <1>2. b * k \in Nat /\ b * k <= (b * m) * m
    <2>1. b * k <= b * (m * m)
      BY <1>1, SMT
    <2>2. b * (m * m) = (b * m) * m
      BY SMT
    <2> QED
      BY <1>1, <2>1, <2>2, SMT
  <1>3. (b * k) \div m \in Nat /\ (b * k) \div m <= b * m
    <2>1. b * m \in Nat
      BY SMT
    <2> QED
      BY <1>2, <2>1, DivBound
  <1>4. ((b * k) \div m) \div m \in Nat /\ ((b * k) \div m) \div m <= b
    BY <1>3, DivBound
  <1> QED
    BY <1>4 DEF Penalized, k

\* Whatever the weight of an accepted block, get_block_reward pays at most the
\* coins that are left to emit.
LEMMA RewardBound ==
  ASSUME NEW a \in Nat, a <= MONEY_SUPPLY, NEW h \in Nat, NEW v \in Nat,
         NEW m \in Nat, NEW w \in Nat,
         get_block_reward(m, w, a, v, h).ok
  PROVE  /\ get_block_reward(m, w, a, v, h).reward \in Nat
         /\ a + get_block_reward(m, w, a, v, h).reward <= MONEY_SUPPLY
  <1> DEFINE b == BaseReward(a, h)
             e == EffectiveMedian(m, v)
  <1>1. b \in Nat /\ a + b <= MONEY_SUPPLY
    BY BaseRewardBound
  <1>2. e \in Nat \ {0}
    BY MedianPositive, Zenon
  <1>3. /\ w <= 2 * e
        /\ get_block_reward(m, w, a, v, h).reward = IF w <= e THEN b ELSE Penalized(b, e, w)
    BY Zenon DEF get_block_reward
  <1> HIDE DEF b, e
  <1>4. Penalized(b, e, w) \in Nat /\ Penalized(b, e, w) <= b
    BY <1>1, <1>2, <1>3, PenaltyBound, Zenon
  <1> QED
    BY <1>1, <1>3, <1>4, EmissionAssumption
-----------------------------------------------------------------------------
\* TypeOK and SupplyTracked together are inductive.
Inv == TypeOK /\ SupplyTracked

\* The counter of the top block is a natural number under the cap.
LEMMA AlreadyGeneratedBound ==
  ASSUME Inv
  PROVE  /\ Height \in Nat
         /\ AlreadyGenerated \in Nat
         /\ AlreadyGenerated <= MONEY_SUPPLY
  BY EmissionAssumption DEF Inv, TypeOK, SupplyTracked, AlreadyGenerated, Height

\* handle_block_to_main_chain keeps the counter exact: the coins it records
\* are the coins the miner transaction creates, and the cap is not reached
\* from below by truncation.
LEMMA AddBlockPreservesInv ==
  ASSUME Inv,
         NEW m \in Nat, NEW w \in Nat, NEW f \in Nat, NEW money \in Nat,
         AddBlock(m, w, f, money)
  PROVE  Inv'
  <1> DEFINE v == VersionAt(Height)
             a == AlreadyGenerated
             r == get_block_reward(m, w, a, v, Height)
             c == money - f
  <1>1. /\ Height \in Nat /\ Height < MAX_HEIGHT
        /\ a \in Nat /\ a <= MONEY_SUPPLY
    BY AlreadyGeneratedBound DEF AddBlock
  <1>2. v \in Nat /\ m \in Nat /\ w \in Nat /\ f \in Nat /\ money \in Nat
    BY <1>1, EmissionAssumption
  <1>3. /\ r.ok
        /\ validate_miner_transaction(v, r.reward, f, money)
        /\ generated' = Append(generated, Accumulate(a, c))
        /\ issued' = Append(issued, c)
    BY DEF AddBlock
  <1>4. r.reward \in Nat /\ a + r.reward <= MONEY_SUPPLY
    BY <1>1, <1>2, <1>3, RewardBound, Zenon
  <1> HIDE DEF r, v, a
  <1>5. c \in Nat /\ a + c <= MONEY_SUPPLY
    BY <1>1, <1>2, <1>3, <1>4, EmissionAssumption, SMTT(30) DEF validate_miner_transaction
  <1> HIDE DEF c
  <1>6. Accumulate(a, c) = a + c /\ a + c \in Nat
    BY <1>1, <1>5, EmissionAssumption DEF Accumulate
  <1>7. TypeOK'
    BY <1>3, <1>5, <1>6 DEF Inv, TypeOK
  <1>8. SupplyTracked'
    <2> SUFFICES ASSUME NEW h \in 1 .. Len(generated')
                 PROVE  /\ generated'[h] <= MONEY_SUPPLY
                        /\ generated'[h] = (IF h = 1 THEN 0 ELSE generated'[h - 1]) + issued'[h]
      BY DEF SupplyTracked
    <2>1. /\ Len(generated') = Len(generated) + 1
          /\ Len(issued) = Len(generated)
          /\ generated \in Seq(Nat) /\ issued \in Seq(Nat)
      BY <1>3 DEF Inv, TypeOK
    <2>2. CASE h <= Len(generated)
      <3>1. /\ generated'[h] = generated[h] /\ issued'[h] = issued[h]
            /\ h # 1 => generated'[h - 1] = generated[h - 1]
        BY <1>3, <1>6, <1>5, <2>1, <2>2, SMTT(30)
      <3> QED
        BY <2>1, <2>2, <3>1 DEF Inv, SupplyTracked
    <2>3. CASE h = Len(generated) + 1
      <3>1. /\ generated'[h] = a + c /\ issued'[h] = c
            /\ h # 1 => generated'[h - 1] = generated[h - 1]
        BY <1>3, <1>6, <1>5, <2>1, <2>3
      <3>2. a = IF h = 1 THEN 0 ELSE generated[h - 1]
        BY <2>1, <2>3 DEF a, AlreadyGenerated, Height
      <3> QED
        BY <1>1, <1>5, <3>1, <3>2
    <2> QED
      BY <2>1, <2>2, <2>3
  <1> QED
    BY <1>7, <1>8 DEF Inv

\* Popping the top block uncovers the counter of the block below.
LEMMA PopBlockPreservesInv ==
  ASSUME Inv, PopBlock
  PROVE  Inv'
  <1>1. /\ generated \in Seq(Nat) /\ issued \in Seq(Nat)
        /\ Len(issued) = Len(generated) /\ Len(generated) > 1
        /\ generated' = SubSeq(generated, 1, Len(generated) - 1)
        /\ issued' = SubSeq(issued, 1, Len(generated) - 1)
    BY DEF Inv, TypeOK, PopBlock, Height
  <1> DEFINE n == Len(generated) - 1
  <1>2. n \in Nat /\ n >= 1 /\ n <= Len(generated)
    BY <1>1
  <1>3. \A s \in Seq(Nat) : Len(s) = Len(generated) =>
           /\ SubSeq(s, 1, n) \in Seq(Nat) /\ Len(SubSeq(s, 1, n)) = n
           /\ \A h \in 1 .. n : SubSeq(s, 1, n)[h] = s[h]
    <2> SUFFICES ASSUME NEW s \in Seq(Nat), Len(s) = Len(generated)
                 PROVE  /\ SubSeq(s, 1, n) \in Seq(Nat) /\ Len(SubSeq(s, 1, n)) = n
                        /\ \A h \in 1 .. n : SubSeq(s, 1, n)[h] = s[h]
      OBVIOUS
    <2>1. \A h \in 1 .. n : s[h] \in Nat
      BY <1>2
    <2>2. /\ SubSeq(s, 1, n) \in Seq(Nat)
          /\ Len(SubSeq(s, 1, n)) = IF 1 <= n THEN n - 1 + 1 ELSE 0
          /\ \A h \in 1 .. n - 1 + 1 : SubSeq(s, 1, n)[h] = s[1 + h - 1]
      BY <1>2, <2>1, SubSeqProperties
    <2> QED
      BY <1>2, <2>2
  <1>4. /\ generated' \in Seq(Nat) /\ Len(generated') = n
        /\ issued' \in Seq(Nat) /\ Len(issued') = n
        /\ \A h \in 1 .. n : generated'[h] = generated[h] /\ issued'[h] = issued[h]
    BY <1>1, <1>3
  <1>5. SupplyTracked'
    <2> SUFFICES ASSUME NEW h \in 1 .. n
                 PROVE  /\ generated'[h] <= MONEY_SUPPLY
                        /\ generated'[h] = (IF h = 1 THEN 0 ELSE generated'[h - 1]) + issued'[h]
      BY <1>4 DEF SupplyTracked
    <2>1. h \in 1 .. Len(generated) /\ (h # 1 => h - 1 \in 1 .. n)
      BY <1>1, <1>2, SMTT(30)
    <2> QED
      BY <1>4, <2>1, Zenon DEF Inv, SupplyTracked
  <1> QED
    BY <1>4, <1>5 DEF Inv, TypeOK

\* The supply counter is exact and never above MONEY_SUPPLY, for every reward
\* schedule, every table of versions and every history of blocks and pops: the code
\* has no tail emission, whatever the comment at blockchain.cpp:4443 says.
THEOREM SupplyIsCapped == Spec => [](TypeOK /\ SupplyTracked)
  <1>1. Init => Inv
    BY DEF Init, Inv, TypeOK, SupplyTracked
  <1>2. Inv /\ [Next]_vars => Inv'
    <2> SUFFICES ASSUME Inv, [Next]_vars PROVE Inv'
      OBVIOUS
    <2>1. ASSUME NEW m \in Medians, NEW w \in Weights, NEW f \in Fees,
                 NEW money \in 0 .. (MONEY_SUPPLY + f), AddBlock(m, w, f, money)
          PROVE  Inv'
      <3>1. m \in Nat /\ w \in Nat /\ f \in Nat /\ money \in Nat
        BY EmissionAssumption
      <3> QED
        BY <2>1, <3>1, AddBlockPreservesInv
    <2>2. CASE PopBlock
      BY <2>2, PopBlockPreservesInv
    <2>3. CASE UNCHANGED vars
      BY <2>3 DEF vars, Inv, TypeOK, SupplyTracked
    <2> QED
      BY <2>1, <2>2, <2>3 DEF Next
  <1> QED
    BY <1>1, <1>2, PTL DEF Spec, Inv

-----------------------------------------------------------------------------
(* Sequences and their windows.                                            *)

LEMMA LeastOf ==
    ASSUME NEW B \in SUBSET Nat, B # {}
    PROVE  \E n \in B : \A k \in B : n <= k
<1>1. PICK n \in B : \A y \in B : ~(<<y, n>> \in OpToRel(<, Nat))
  BY NatLessThanWellFounded, WFMin, Zenon
<1>2. \A y \in B : ~(y < n)
  BY <1>1, Zenon DEF OpToRel
<1> QED
  BY <1>2

LEMMA SameSequence ==
    ASSUME NEW s \in Seq(Nat), NEW t \in Seq(Nat), Len(s) = Len(t), \A i \in 1 .. Len(s) : s[i] = t[i]
    PROVE  s = t
BY SeqEqual

LEMMA Prefix ==
    ASSUME NEW s \in Seq(Nat), NEW k \in 0 .. Len(s)
    PROVE  /\ SubSeq(s, 1, k) \in Seq(Nat) /\ Len(SubSeq(s, 1, k)) = k
           /\ \A i \in 1 .. k : SubSeq(s, 1, k)[i] = s[i]
<1>1. k \in Int /\ Len(s) \in Nat /\ \A i \in 1 .. k : s[i] \in Nat
  OBVIOUS
<1>2. /\ SubSeq(s, 1, k) \in Seq(Nat)
      /\ Len(SubSeq(s, 1, k)) = IF 1 <= k THEN k - 1 + 1 ELSE 0
      /\ \A i \in 1 .. k - 1 + 1 : SubSeq(s, 1, k)[i] = s[1 + i - 1]
  BY <1>1, SubSeqProperties
<1> QED
  BY <1>1, <1>2

LEMMA PrefixOfPrefix ==
    ASSUME NEW s \in Seq(Nat), NEW k \in 0 .. Len(s), NEW h \in 0 .. k
    PROVE  SubSeq(SubSeq(s, 1, k), 1, h) = SubSeq(s, 1, h)
<1>1. h \in 0 .. Len(s) /\ Len(s) \in Nat
  OBVIOUS
<1>2. /\ SubSeq(s, 1, k) \in Seq(Nat) /\ Len(SubSeq(s, 1, k)) = k
      /\ \A i \in 1 .. k : SubSeq(s, 1, k)[i] = s[i]
  BY Prefix
<1>3. /\ SubSeq(s, 1, h) \in Seq(Nat) /\ Len(SubSeq(s, 1, h)) = h
      /\ \A i \in 1 .. h : SubSeq(s, 1, h)[i] = s[i]
  BY <1>1, Prefix
<1> DEFINE t == SubSeq(s, 1, k)
<1> HIDE DEF t
<1>4. /\ SubSeq(t, 1, h) \in Seq(Nat) /\ Len(SubSeq(t, 1, h)) = h
      /\ \A i \in 1 .. h : SubSeq(t, 1, h)[i] = t[i]
  BY <1>2, Prefix DEF t
<1>5. \A i \in 1 .. h : SubSeq(t, 1, h)[i] = SubSeq(s, 1, h)[i]
  BY <1>2, <1>3, <1>4 DEF t
<1> DEFINE u == SubSeq(t, 1, h)
           v == SubSeq(s, 1, h)
<1>6. u \in Seq(Nat) /\ v \in Seq(Nat) /\ Len(u) = Len(v) /\ \A i \in 1 .. Len(u) : u[i] = v[i]
  BY <1>3, <1>4, <1>5
<1> HIDE DEF u, v
<1>7. u = v
  BY <1>6, SameSequence
<1> QED
  BY <1>7 DEF u, v, t

LEMMA Appended ==
    ASSUME NEW s \in Seq(Nat), NEW x \in Nat
    PROVE  /\ Append(s, x) \in Seq(Nat) /\ Len(Append(s, x)) = Len(s) + 1 /\ Len(s) \in Nat
           /\ \A i \in 1 .. Len(s) : Append(s, x)[i] = s[i]
           /\ Append(s, x)[Len(s) + 1] = x
           /\ SubSeq(Append(s, x), 1, Len(s)) = s
<1>1. /\ Append(s, x) \in Seq(Nat) /\ Len(Append(s, x)) = Len(s) + 1 /\ Len(s) \in Nat
      /\ \A i \in 1 .. Len(s) : Append(s, x)[i] = s[i]
      /\ Append(s, x)[Len(s) + 1] = x
  BY AppendProperties
<1> DEFINE t == Append(s, x)
           u == SubSeq(t, 1, Len(s))
<1> HIDE DEF t
<1>2. t \in Seq(Nat) /\ Len(s) \in 0 .. Len(t) /\ \A i \in 1 .. Len(s) : t[i] = s[i]
  BY <1>1 DEF t
<1>3. u \in Seq(Nat) /\ Len(u) = Len(s) /\ \A i \in 1 .. Len(s) : u[i] = t[i]
  BY <1>2, Prefix
<1> HIDE DEF u
<1>4. u = s
  BY <1>2, <1>3, SameSequence, Zenon
<1> QED
  BY <1>1, <1>4 DEF t, u

LEMMA MinMax ==
    ASSUME NEW a \in Int, NEW b \in Int
    PROVE  /\ AtMost(a, b) \in {a, b} /\ AtMost(a, b) <= a /\ AtMost(a, b) <= b
           /\ AtLeast(a, b) \in {a, b} /\ AtLeast(a, b) >= a /\ AtLeast(a, b) >= b
BY DEF AtMost, AtLeast

LEMMA TailBounds ==
    ASSUME NEW q \in Nat, NEW k \in Nat, k <= q, NEW m, m = q - k + 1
    PROVE  m \in 1 .. q + 1 /\ q \in m - 1 .. q
OBVIOUS

LEMMA WindowBounds ==
    ASSUME NEW q \in Nat, NEW n \in Nat
    PROVE  /\ AtMost(q, n) \in Nat /\ AtMost(q, n) <= q /\ AtMost(q, n) <= n
           /\ AtLeast(q - n + 1, 1) = q - AtMost(q, n) + 1
           /\ AtMost(q, n) = n \/ AtMost(q, n) = q
<1>1. CASE q > n
  BY <1>1 DEF AtMost, AtLeast
<1>2. CASE ~(q > n)
  BY <1>2 DEF AtMost, AtLeast
<1> QED
  BY <1>1, <1>2

\* get_last_n_blocks_weights and get_long_term_block_weights read the last n values,
\* or all if there are fewer.
LEMMA WindowAt ==
    ASSUME NEW s \in Seq(Nat), NEW n \in Nat, NEW q \in Nat, q = Len(s), NEW k \in Nat, k = AtMost(q, n)
    PROVE  /\ Last_n(s, n) \in Seq(Nat) /\ Len(Last_n(s, n)) = k
           /\ \A i \in 1 .. k : Last_n(s, n)[i] = s[q - k + i]
<1> DEFINE m == AtLeast(q - n + 1, 1)
<1>1. m = AtLeast(q - n + 1, 1) /\ Last_n(s, n) = SubSeq(s, m, q)
  BY DEF Last_n
<1> HIDE DEF m
<1>2. k <= q /\ m = q - k + 1
  <2>1. AtMost(q, n) <= q /\ AtLeast(q - n + 1, 1) = q - AtMost(q, n) + 1
    BY WindowBounds, Zenon
  <2> QED
    BY <1>1, <2>1, Zenon
<1>3. m \in Nat \ {0} /\ q - m + 1 = k /\ (m <= q <=> k > 0)
  BY <1>2
<1>4. \A i \in m .. q : s[i] \in Nat
  BY <1>3
<1>5. /\ SubSeq(s, m, q) \in Seq(Nat)
      /\ Len(SubSeq(s, m, q)) = IF m <= q THEN q - m + 1 ELSE 0
      /\ \A i \in 1 .. q - m + 1 : SubSeq(s, m, q)[i] = s[m + i - 1]
  <2>1. m \in 1 .. q + 1 /\ q \in m - 1 .. q
    BY <1>2, TailBounds, Zenon
  <2>2. m \in 1 .. Len(s) + 1 /\ q \in m - 1 .. Len(s)
    BY <2>1, Zenon
  <2> QED
    BY <2>2, <1>3, <1>4, SubSeqProperties
<1>7. \A i \in 1 .. k : m + i - 1 = q - k + i
  BY <1>2
<1> DEFINE t == SubSeq(s, m, q)
<1> HIDE DEF t
<1>8. \A i \in 1 .. k : t[i] = s[q - k + i]
  BY <1>5, <1>3, <1>7, Zenon DEF t
<1>9. Len(t) = k
  <2>1. Len(t) = IF m <= q THEN q - m + 1 ELSE 0
    BY <1>5 DEF t
  <2>2. (IF m <= q THEN q - m + 1 ELSE 0) = k
    BY <1>3
  <2> QED
    BY <2>1, <2>2, Zenon
<1>10. Last_n(s, n) = t /\ t \in Seq(Nat)
  BY <1>1, <1>5, Zenon DEF t
<1> QED
  BY <1>8, <1>9, <1>10, Zenon

LEMMA Window ==
    ASSUME NEW s \in Seq(Nat), NEW n \in Nat
    PROVE  /\ Last_n(s, n) \in Seq(Nat)
           /\ Len(Last_n(s, n)) = AtMost(Len(s), n)
           /\ \A i \in 1 .. AtMost(Len(s), n) :
                 Last_n(s, n)[i] = s[Len(s) - AtMost(Len(s), n) + i]
<1> DEFINE q == Len(s)
           k == AtMost(q, n)
<1>1. q = Len(s) /\ q \in Nat
  OBVIOUS
<1> HIDE DEF q
<1>2. k = AtMost(q, n) /\ k \in Nat
  BY <1>1, WindowBounds, Zenon
<1> HIDE DEF k
<1>3. /\ Last_n(s, n) \in Seq(Nat) /\ Len(Last_n(s, n)) = k
      /\ \A i \in 1 .. k : Last_n(s, n)[i] = s[q - k + i]
  BY <1>1, <1>2, WindowAt
<1> QED
  BY <1>3, Zenon DEF q, k

\* The window of what get_long_term_block_weight_median inserts is that of the chain.
LEMMA WindowOfWindow ==
    ASSUME NEW s \in Seq(Nat), NEW n \in Nat
    PROVE  Last_n(Last_n(s, AtMost(Len(s), n)), n) = Last_n(s, n)
<1> DEFINE q == Len(s)
           k == AtMost(q, n)
           t == Last_n(s, k)
           u == Last_n(t, n)
           v == Last_n(s, n)
<1>1. Len(s) \in Nat
  OBVIOUS
<1>2. k \in Nat /\ k = AtMost(q, k) /\ k = AtMost(k, n)
  BY <1>1 DEF AtMost
<1>3. v \in Seq(Nat) /\ Len(v) = k /\ \A i \in 1 .. k : v[i] = s[q - k + i]
  BY Window, Zenon
<1> HIDE DEF k
<1>4. t \in Seq(Nat) /\ Len(t) = k /\ \A i \in 1 .. k : t[i] = s[q - k + i]
  <2>1. t \in Seq(Nat) /\ Len(t) = AtMost(q, k) /\ \A i \in 1 .. AtMost(q, k) : t[i] = s[q - AtMost(q, k) + i]
    BY <1>2, Window, Zenon
  <2> QED
    BY <1>2, <2>1, Zenon
<1> HIDE DEF t, v
<1>5. u \in Seq(Nat) /\ Len(u) = k /\ \A i \in 1 .. k : u[i] = t[k - k + i]
  <2>1. /\ u \in Seq(Nat) /\ Len(u) = AtMost(Len(t), n)
        /\ \A i \in 1 .. AtMost(Len(t), n) : u[i] = t[Len(t) - AtMost(Len(t), n) + i]
    BY <1>4, Window, Zenon
  <2> QED
    BY <1>2, <1>4, <2>1, Zenon
<1> HIDE DEF u
<1>6. \A i \in 1 .. k : k - k + i = i
  BY <1>2
<1>7. \A i \in 1 .. k : u[i] = v[i]
  BY <1>3, <1>4, <1>5, <1>6, Zenon
<1>8. u = v
  BY <1>3, <1>5, <1>7, SameSequence
<1> QED
  BY <1>8 DEF u, v, t, k, q

LEMMA MovedBounds ==
    ASSUME NEW p \in Nat, NEW q \in Nat, NEW n \in Nat, AtMost(p, n) = AtMost(q, n)
    PROVE  /\ AtMost(p + 1, n) = AtMost(q + 1, n) /\ AtMost(p, n) \in Nat /\ AtMost(p + 1, n) \in Nat
           /\ AtMost(p, n) <= p /\ AtMost(p, n) <= q /\ AtMost(p + 1, n) <= p + 1 /\ AtMost(p + 1, n) <= q + 1
           /\ AtMost(p + 1, n) = AtMost(p, n) + 1 \/ AtMost(p + 1, n) = AtMost(p, n)
BY DEF AtMost

LEMMA WindowStep ==
    ASSUME NEW p \in Nat, NEW a \in Nat, NEW b \in Nat, a <= p, b = a + 1 \/ b = a,
           NEW i \in Int, i >= 1, i < b
    PROVE  /\ (a + 1) - b + i \in 1 .. a
           /\ (p + 1) - b + i = p - a + ((a + 1) - b + i)
           /\ p - a + ((a + 1) - b + i) \in 1 .. p
OBVIOUS

\* Inserting one more value moves equal windows on to equal windows.
LEMMA WindowMoves ==
    ASSUME NEW s \in Seq(Nat), NEW l \in Seq(Nat), NEW n \in Nat, NEW x \in Nat,
           Last_n(s, n) = Last_n(l, n)
    PROVE  Last_n(Append(s, x), n) = Last_n(Append(l, x), n)
<1> DEFINE p == Len(s)
           q == Len(l)
           a == AtMost(p, n)
           b == AtMost(p + 1, n)
           S == Append(s, x)
           L == Append(l, x)
           u == Last_n(S, n)
           v == Last_n(L, n)
<1>1. p \in Nat /\ q \in Nat
  OBVIOUS
<1>2. Len(Last_n(s, n)) = a /\ \A i \in 1 .. a : Last_n(s, n)[i] = s[p - a + i]
  BY Window, Zenon
<1>3. Len(Last_n(l, n)) = AtMost(q, n) /\ \A i \in 1 .. AtMost(q, n) : Last_n(l, n)[i] = l[q - AtMost(q, n) + i]
  BY Window, Zenon
<1>4. a = AtMost(q, n) /\ \A i \in 1 .. a : Last_n(l, n)[i] = l[q - a + i]
  BY <1>2, <1>3, Zenon
<1> HIDE DEF p, q
<1>5. \A i \in 1 .. a : s[p - a + i] = l[q - a + i]
  BY <1>2, <1>4
<1>6. /\ b = AtMost(q + 1, n) /\ a \in Nat /\ b \in Nat /\ a <= p /\ a <= q /\ b <= p + 1
      /\ b <= q + 1 /\ (b = a + 1 \/ b = a)
  <2>1. a = AtMost(p, n) /\ a = AtMost(q, n)
    BY <1>4, Zenon
  <2> QED
    BY <1>1, <2>1, MovedBounds
<1> HIDE DEF a
<1>7. /\ S \in Seq(Nat) /\ Len(S) = p + 1 /\ S[p + 1] = x
      /\ \A i \in 1 .. p : S[i] = s[i]
  BY <1>1, Appended DEF p
<1>8. /\ L \in Seq(Nat) /\ Len(L) = q + 1 /\ L[q + 1] = x
      /\ \A i \in 1 .. q : L[i] = l[i]
  BY <1>1, Appended DEF q
<1> HIDE DEF S, L
<1>9. u \in Seq(Nat) /\ Len(u) = b /\ \A i \in 1 .. b : u[i] = S[(p + 1) - b + i]
  <2>1. /\ u \in Seq(Nat) /\ Len(u) = AtMost(Len(S), n)
        /\ \A i \in 1 .. AtMost(Len(S), n) : u[i] = S[Len(S) - AtMost(Len(S), n) + i]
    BY <1>7, Window, Zenon
  <2> QED
    BY <1>7, <2>1, Zenon
<1>b. v \in Seq(Nat) /\ Len(v) = b /\ \A i \in 1 .. b : v[i] = L[(q + 1) - b + i]
  <2>1. /\ v \in Seq(Nat) /\ Len(v) = AtMost(Len(L), n)
        /\ \A i \in 1 .. AtMost(Len(L), n) : v[i] = L[Len(L) - AtMost(Len(L), n) + i]
    BY <1>8, Window, Zenon
  <2> QED
    BY <1>6, <1>8, <2>1, Zenon
<1> HIDE DEF u, v, b
<1>10. ASSUME NEW i \in 1 .. b
       PROVE  u[i] = v[i]
  <2>1. CASE i = b
    <3>1. (p + 1) - b + i = p + 1 /\ (q + 1) - b + i = q + 1
      BY <1>1, <1>6, <2>1
    <3> QED
      BY <1>7, <1>8, <1>9, <1>b, <3>1, Zenon
  <2>2. CASE i # b
    <3> DEFINE j == (a + 1) - b + i
    <3>0. /\ i \in Int /\ i >= 1 /\ i < b /\ a \in Nat /\ b \in Nat /\ a <= p /\ a <= q
          /\ (b = a + 1 \/ b = a)
      BY <1>6, <2>2
    <3>1. j \in 1 .. a /\ (p + 1) - b + i = p - a + j /\ p - a + j \in 1 .. p
      BY <1>1, <3>0, WindowStep
    <3>2. (q + 1) - b + i = q - a + j /\ q - a + j \in 1 .. q
      BY <1>1, <3>0, WindowStep
    <3> HIDE DEF j
    <3>3. u[i] = S[p - a + j] /\ v[i] = L[q - a + j]
      BY <1>9, <1>b, <3>1, <3>2, Zenon
    <3>4. S[p - a + j] = s[p - a + j] /\ L[q - a + j] = l[q - a + j]
      BY <1>7, <1>8, <3>1, <3>2, Zenon
    <3> QED
      BY <1>5, <3>1, <3>3, <3>4
  <2> QED
    BY <2>1, <2>2
<1>11. u = v
  BY <1>9, <1>b, <1>10, SameSequence
<1> QED
  BY <1>11 DEF u, v, S, L
-----------------------------------------------------------------------------
(* The rolling median filled with a sequence.                              *)

\* What rolling_median_t promises: its median is that of the last values inserted,
\* as many as its window holds, and its size is their number.  The two heaps of
\* RollingMedian are recursive; MCBlockWeights checks that they keep the promise, for
\* all sequences of a bounded length, and the theorems below assume it.
MedianOfWindow ==
    /\ \A s \in Seq(Nat) : MedianOf(s) \in Nat
    /\ \A s \in Seq(Nat) : /\ MedianRM(Filled(s)) = MedianOf(Last_n(s, LONG_TERM_WINDOW))
                           /\ Filled(s).sz = AtMost(Len(s), LONG_TERM_WINDOW)

\* g holds the rolling median after each of the first n values of s.
Fills(s, n, g) ==
    g = [k \in 0 .. n |-> IF k = 0 THEN ClearRM(LONG_TERM_WINDOW)
                          ELSE InsertRM(g[k - 1], s[k], LONG_TERM_WINDOW)]

LEMMA FillsExist ==
    ASSUME NEW s, NEW n \in Nat
    PROVE  \E g : Fills(s, n, g)
<1> DEFINE B == {k \in Nat : ~\E g : Fills(s, k, g)}
<1> SUFFICES ASSUME B # {} PROVE FALSE
  OBVIOUS
<1>1. PICK k \in B : \A m \in B : k <= m
  <2>1. B \in SUBSET Nat
    OBVIOUS
  <2> HIDE DEF B
  <2> QED
    BY <2>1, LeastOf
<1>3. CASE k = 0
  <2> DEFINE g == [j \in 0 .. 0 |-> ClearRM(LONG_TERM_WINDOW)]
  <2>1. g = [j \in 0 .. 0 |-> IF j = 0 THEN ClearRM(LONG_TERM_WINDOW)
                              ELSE InsertRM(g[j - 1], s[j], LONG_TERM_WINDOW)]
    OBVIOUS
  <2>2. Fills(s, 0, g)
    BY <2>1 DEF Fills
  <2> QED
    BY <1>1, <1>3, <2>2
<1>4. CASE k # 0
  <2>1. k \in Nat /\ k - 1 \in Nat /\ k - 1 \notin B
    BY <1>1, <1>4
  <2>2. PICK g : Fills(s, k - 1, g)
    BY <2>1
  <2> DEFINE h == [j \in 0 .. k |-> IF j = 0 THEN ClearRM(LONG_TERM_WINDOW)
                                    ELSE InsertRM(g[j - 1], s[j], LONG_TERM_WINDOW)]
  <2>3. \A j \in 0 .. k - 1 : h[j] = g[j]
    BY <2>1, <2>2 DEF Fills
  <2>4. \A j \in 0 .. k : j # 0 => h[j - 1] = g[j - 1]
    <3>1. \A j \in 0 .. k : j # 0 => j - 1 \in 0 .. k - 1
      BY <2>1
    <3> HIDE DEF h
    <3> QED
      BY <2>3, <3>1
  <2>5. h = [j \in 0 .. k |-> IF j = 0 THEN ClearRM(LONG_TERM_WINDOW)
                              ELSE InsertRM(h[j - 1], s[j], LONG_TERM_WINDOW)]
    BY <2>4, Zenon
  <2>6. Fills(s, k, h)
    BY <2>5 DEF Fills
  <2> QED
    BY <1>1, <2>6
<1> QED
  BY <1>3, <1>4

LEMMA FilledFills ==
    ASSUME NEW s \in Seq(Nat)
    PROVE  \E g : Fills(s, Len(s), g) /\ Filled(s) = g[Len(s)]
<1>0. Len(s) \in Nat
  OBVIOUS
<1>1. \E g : Fills(s, Len(s), g)
  BY <1>0, FillsExist, Zenon
<1> DEFINE g == CHOOSE g : Fills(s, Len(s), g)
<1>2. Fills(s, Len(s), g)
  BY <1>1
<1>3. Filled(s) = g[Len(s)]
  BY DEF Filled, Fills
<1> QED
  BY <1>2, <1>3, Zenon

LEMMA FillsAgree ==
    ASSUME NEW s \in Seq(Nat), NEW x \in Nat, NEW g, Fills(s, Len(s), g),
           NEW h, Fills(Append(s, x), Len(s) + 1, h)
    PROVE  g[Len(s)] = h[Len(s)]
<1> DEFINE t == Append(s, x)
           n == Len(s)
           m == Len(s) + 1
<1>0. n \in Nat /\ m \in Nat /\ n <= m /\ (\A i \in 1 .. n : s[i] = t[i]) /\ Fills(s, n, g) /\ Fills(t, m, h)
  BY Appended
<1> HIDE DEF t, n, m
<1> DEFINE B == {k \in 0 .. n : g[k] # h[k]}
<1> SUFFICES ASSUME n \in B PROVE FALSE
  BY <1>0 DEF n
<1>1. PICK k \in B : \A j \in B : k <= j
  <2>1. B \in SUBSET Nat /\ B # {}
    BY <1>0
  <2> HIDE DEF B
  <2> QED
    BY <2>1, LeastOf, Zenon
<1>2. k \in 0 .. n /\ k \in 0 .. m /\ g[k] # h[k]
  BY <1>0
<1>3. g[0] = ClearRM(LONG_TERM_WINDOW) /\ h[0] = ClearRM(LONG_TERM_WINDOW)
  BY <1>0 DEF Fills
<1>4. k # 0
  BY <1>2, <1>3
<1>5. k - 1 \in 0 .. n /\ k - 1 \notin B /\ k \in 1 .. n
  BY <1>0, <1>1, <1>2, <1>4
<1>6. g[k - 1] = h[k - 1] /\ s[k] = t[k]
  BY <1>0, <1>5
<1>7. /\ g[k] = InsertRM(g[k - 1], s[k], LONG_TERM_WINDOW)
      /\ h[k] = InsertRM(h[k - 1], t[k], LONG_TERM_WINDOW)
  BY <1>0, <1>2, <1>4, Zenon DEF Fills
<1> QED
  BY <1>2, <1>6, <1>7

\* The loop of get_long_term_block_weight_median: nothing inserted, and one more value.
LEMMA FilledEmpty == Filled(<< >>) = ClearRM(LONG_TERM_WINDOW)
<1> DEFINE s == << >>
<1>1. s \in Seq(Nat) /\ Len(s) = 0
  OBVIOUS
<1> HIDE DEF s
<1>2. PICK g : Fills(s, Len(s), g) /\ Filled(s) = g[Len(s)]
  BY <1>1, FilledFills, Zenon
<1>3. g[0] = ClearRM(LONG_TERM_WINDOW)
  BY <1>1, <1>2 DEF Fills
<1> QED
  BY <1>1, <1>2, <1>3 DEF s

LEMMA FilledAppend ==
    ASSUME NEW s \in Seq(Nat), NEW x \in Nat
    PROVE  Filled(Append(s, x)) = InsertRM(Filled(s), x, LONG_TERM_WINDOW)
<1> DEFINE t == Append(s, x)
           n == Len(s)
<1>1. n \in Nat /\ t \in Seq(Nat) /\ Len(t) = n + 1 /\ t[n + 1] = x /\ \A i \in 1 .. n : s[i] = t[i]
  BY Appended
<1>2. PICK g : Fills(s, n, g) /\ Filled(s) = g[n]
  BY FilledFills
<1> DEFINE m == n + 1
<1> HIDE DEF t, n
<1>3. m \in Nat /\ n <= m /\ m \in 0 .. m /\ m # 0 /\ m - 1 = n /\ Len(t) = m /\ t[m] = x
  BY <1>1
<1> HIDE DEF m
<1>4. PICK h : Fills(t, m, h) /\ Filled(t) = h[m]
  BY <1>1, <1>3, FilledFills, Zenon
<1>5. g[n] = h[n]
  BY <1>2, <1>4, FillsAgree DEF t, n, m
<1>6. h[m] = InsertRM(h[m - 1], t[m], LONG_TERM_WINDOW)
  BY <1>3, <1>4 DEF Fills
<1>7. Filled(t) = InsertRM(g[n], x, LONG_TERM_WINDOW)
  BY <1>3, <1>4, <1>5, <1>6
<1> QED
  BY <1>2, <1>7 DEF t

-----------------------------------------------------------------------------
(* Chains with exact long-term weights.                                    *)

LEMMA LongTermWeightType ==
    ASSUME NEW v, NEW m \in Nat, NEW w \in Nat
    PROVE  LongTermWeight(v, m, w) \in Nat
<1> DEFINE e == AtLeast(ZONE_V5, m)
           x == e + (e * 2) \div 5
           y == e + (e * 7) \div 10
           z == (e * 10) \div 17
<1>1. e \in Nat
  BY EmissionAssumption DEF AtLeast
<1> HIDE DEF e
<1>2. x \in Nat /\ y \in Nat /\ z \in Nat
  BY <1>1
<1>3. LongTermWeight(v, m, w) \in {w, AtMost(w, x), AtMost(AtLeast(w, z), y)}
  BY DEF LongTermWeight, e
<1> HIDE DEF x, y, z
<1>4. AtMost(w, x) \in Nat /\ AtLeast(w, z) \in Nat
  BY <1>2 DEF AtMost, AtLeast
<1>5. AtMost(AtLeast(w, z), y) \in Nat
  BY <1>2, <1>4 DEF AtMost
<1> QED
  BY <1>3, <1>4, <1>5

\* The long-term weight a block gets after the blocks with the weights of ls.
Bounded(ls, w) ==
    LongTermWeight(VersionAt(Len(ls)), MedianOf(Last_n(ls, LONG_TERM_WINDOW)), w)

LEMMA ExactAt ==
    ASSUME NEW ls \in Seq(Nat), NEW ws \in Seq(Nat), Len(ls) = Len(ws)
    PROVE  AreLongTermWeights(ls, ws)
              <=> \A h \in 1 .. Len(ws) : ls[h] = Bounded(SubSeq(ls, 1, h - 1), ws[h])
<1>1. ASSUME NEW h \in 1 .. Len(ws)
      PROVE  Len(SubSeq(ls, 1, h - 1)) = h - 1
  <2>1. h - 1 \in 0 .. Len(ls)
    OBVIOUS
  <2> QED
    BY <2>1, Prefix
<1> QED
  BY <1>1, Zenon DEF AreLongTermWeights, Bounded

LEMMA ExactPrefix ==
    ASSUME NEW ls \in Seq(Nat), NEW ws \in Seq(Nat), AreLongTermWeights(ls, ws), NEW k \in 0 .. Len(ws)
    PROVE  AreLongTermWeights(SubSeq(ls, 1, k), SubSeq(ws, 1, k))
<1> DEFINE l == SubSeq(ls, 1, k)
           w == SubSeq(ws, 1, k)
<1>1. Len(ls) = Len(ws) /\ k \in 0 .. Len(ls) /\ k \in Nat /\ k <= Len(ws) /\ Len(ws) \in Nat
  BY DEF AreLongTermWeights
<1>2. /\ l \in Seq(Nat) /\ Len(l) = k /\ \A i \in 1 .. k : l[i] = ls[i]
      /\ w \in Seq(Nat) /\ Len(w) = k /\ \A i \in 1 .. k : w[i] = ws[i]
  BY <1>1, Prefix
<1>3. \A h \in 1 .. Len(ws) : ls[h] = Bounded(SubSeq(ls, 1, h - 1), ws[h])
  BY <1>1, ExactAt
<1>4. ASSUME NEW h \in 1 .. k
      PROVE  l[h] = Bounded(SubSeq(l, 1, h - 1), w[h])
  <2>1. h \in 1 .. Len(ws) /\ h - 1 \in 0 .. k
    BY <1>1
  <2>2. SubSeq(l, 1, h - 1) = SubSeq(ls, 1, h - 1)
    BY <1>1, <2>1, PrefixOfPrefix
  <2> QED
    BY <1>2, <1>3, <2>1, <2>2, Zenon
<1> HIDE DEF l, w
<1>5. AreLongTermWeights(l, w)
  BY <1>2, <1>4, ExactAt, Zenon
<1> QED
  BY <1>5 DEF l, w

LEMMA ExactUnique ==
    ASSUME NEW l \in Seq(Nat), NEW m \in Seq(Nat), NEW ws \in Seq(Nat),
           AreLongTermWeights(l, ws), AreLongTermWeights(m, ws)
    PROVE  l = m
<1>1. Len(l) = Len(ws) /\ Len(m) = Len(ws) /\ Len(ws) \in Nat
  BY DEF AreLongTermWeights
<1>2. \A h \in 1 .. Len(ws) : /\ l[h] = Bounded(SubSeq(l, 1, h - 1), ws[h])
                              /\ m[h] = Bounded(SubSeq(m, 1, h - 1), ws[h])
  BY <1>1, ExactAt, Zenon
<1> DEFINE B == {h \in 1 .. Len(ws) : l[h] # m[h]}
<1>3. ASSUME B # {} PROVE FALSE
  <2>1. PICK k \in B : \A j \in B : k <= j
    <3>1. B \in SUBSET Nat
      BY <1>1
    <3> HIDE DEF B
    <3> QED
      BY <1>3, <3>1, LeastOf, Zenon
  <2>2. k \in 1 .. Len(ws) /\ k - 1 \in 0 .. Len(ws) /\ l[k] # m[k]
    BY <1>1
  <2>3. \A i \in 1 .. k - 1 : i \in 1 .. Len(ws) /\ i \notin B
    BY <1>1, <2>1, <2>2
  <2>4. \A i \in 1 .. k - 1 : l[i] = m[i]
    BY <2>3
  <2> DEFINE u == SubSeq(l, 1, k - 1)
             v == SubSeq(m, 1, k - 1)
  <2>5. /\ u \in Seq(Nat) /\ Len(u) = k - 1 /\ \A i \in 1 .. k - 1 : u[i] = l[i]
        /\ v \in Seq(Nat) /\ Len(v) = k - 1 /\ \A i \in 1 .. k - 1 : v[i] = m[i]
    BY <1>1, <2>2, Prefix, Zenon
  <2>6. u = v
    <3>1. \A i \in 1 .. Len(u) : u[i] = v[i]
      BY <2>4, <2>5
    <3> HIDE DEF u, v
    <3> QED
      BY <2>5, <3>1, SameSequence, Zenon
  <2> QED
    BY <1>2, <2>2, <2>6, Zenon
<1>4. \A i \in 1 .. Len(l) : l[i] = m[i]
  BY <1>1, <1>3, Zenon
<1> QED
  BY <1>1, <1>4, SameSequence

LEMMA ExactAppend ==
    ASSUME NEW ls \in Seq(Nat), NEW ws \in Seq(Nat), AreLongTermWeights(ls, ws),
           NEW w \in Nat, NEW x \in Nat, x = Bounded(ls, w)
    PROVE  AreLongTermWeights(Append(ls, x), Append(ws, w))
<1> DEFINE l == Append(ls, x)
           v == Append(ws, w)
           n == Len(ws)
<1>1. Len(ls) = n /\ n \in Nat
  BY DEF AreLongTermWeights
<1>2. /\ l \in Seq(Nat) /\ Len(l) = n + 1 /\ \A i \in 1 .. n : l[i] = ls[i]
      /\ l[n + 1] = x /\ SubSeq(l, 1, n) = ls
  BY <1>1, Appended
<1>3. v \in Seq(Nat) /\ Len(v) = n + 1 /\ \A i \in 1 .. n : v[i] = ws[i]
  BY Appended
<1>4. v[n + 1] = w
  BY Appended
<1>5. \A h \in 1 .. n : ls[h] = Bounded(SubSeq(ls, 1, h - 1), ws[h])
  BY <1>1, ExactAt, Zenon
<1> HIDE DEF l, v, n
<1>6. ASSUME NEW h \in 1 .. n + 1
      PROVE  l[h] = Bounded(SubSeq(l, 1, h - 1), v[h])
  <2>1. CASE h = n + 1
    <3>1. h - 1 = n
      BY <1>1, <2>1
    <3> QED
      BY <1>2, <1>4, <2>1, <3>1, Zenon
  <2>2. CASE h # n + 1
    <3>1. h \in 1 .. n /\ h - 1 \in 0 .. n /\ n \in 0 .. Len(l)
      BY <1>1, <1>2, <2>2
    <3>2. SubSeq(SubSeq(l, 1, n), 1, h - 1) = SubSeq(l, 1, h - 1)
      BY <1>2, <3>1, PrefixOfPrefix
    <3>3. SubSeq(ls, 1, h - 1) = SubSeq(l, 1, h - 1)
      BY <1>2, <3>2, Zenon
    <3> QED
      BY <1>2, <1>3, <1>5, <3>1, <3>3, Zenon
  <2> QED
    BY <2>1, <2>2
<1>7. AreLongTermWeights(l, v)
  <2>1. Len(l) = Len(v) /\ \A h \in 1 .. Len(v) : l[h] = Bounded(SubSeq(l, 1, h - 1), v[h])
    BY <1>2, <1>3, <1>6
  <2> QED
    BY <1>2, <1>3, <2>1, ExactAt, Zenon
<1> QED
  BY <1>7 DEF l, v

-----------------------------------------------------------------------------
(* The cache of get_long_term_block_weight_median.                         *)

\* The rolling median of the cache was filled with some values, and if the tip it was
\* computed for is recorded, then those in the window are the last of the long-term
\* weights of the chain that ends in this tip.
CacheOK(c) ==
    /\ c.tip \in Seq(Nat)
    /\ \E s \in Seq(Nat) :
          /\ c.rm = Filled(s)
          /\ c.tip # null_hash =>
                \E l \in Seq(Nat) : /\ AreLongTermWeights(l, c.tip)
                                    /\ Last_n(s, LONG_TERM_WINDOW) = Last_n(l, LONG_TERM_WINDOW)

LEMMA EmptySequence ==
    ASSUME NEW s \in Seq(Nat), Len(s) = 0
    PROVE  s = << >>
OBVIOUS

LEMMA EmptyCacheOK == CacheOK(Empty)
<1>1. Empty.tip = null_hash /\ Empty.rm = ClearRM(LONG_TERM_WINDOW)
  BY DEF Empty
<1>2. Empty.rm = Filled(<< >>)
  BY <1>1, FilledEmpty
<1> DEFINE s == << >>
<1>3. s \in Seq(Nat) /\ Empty.rm = Filled(s) /\ null_hash \in Seq(Nat)
  BY <1>2 DEF null_hash
<1> HIDE DEF s
<1> QED
  BY <1>1, <1>3 DEF CacheOK

\* The cache is found by the tip, moved on by one block, or filled again: in all three
\* cases get_long_term_block_weight_median gives the median of the chain's window.
LEMMA CacheFound ==
    ASSUME MedianOfWindow, NEW ws \in Seq(Nat), NEW ls \in Seq(Nat), AreLongTermWeights(ls, ws),
           NEW c, CacheOK(c), c.tip = ws, AtMost(Len(ls), LONG_TERM_WINDOW) = c.rm.sz
    PROVE  MedianRM(c.rm) = MedianOf(Last_n(ls, LONG_TERM_WINDOW))
<1>1. PICK s \in Seq(Nat) :
          /\ c.rm = Filled(s)
          /\ ws # null_hash =>
                \E l \in Seq(Nat) : /\ AreLongTermWeights(l, ws)
                                    /\ Last_n(s, LONG_TERM_WINDOW) = Last_n(l, LONG_TERM_WINDOW)
  BY DEF CacheOK
<1>2. /\ MedianRM(c.rm) = MedianOf(Last_n(s, LONG_TERM_WINDOW))
      /\ c.rm.sz = AtMost(Len(s), LONG_TERM_WINDOW)
  BY <1>1 DEF MedianOfWindow
<1>3. CASE ws # null_hash
  <2>1. PICK l \in Seq(Nat) : /\ AreLongTermWeights(l, ws)
                              /\ Last_n(s, LONG_TERM_WINDOW) = Last_n(l, LONG_TERM_WINDOW)
    BY <1>1, <1>3
  <2>2. l = ls
    BY <2>1, ExactUnique
  <2> QED
    BY <1>2, <2>1, <2>2
<1>4. CASE ws = null_hash
  <2>1. Len(ls) = 0
    BY <1>4 DEF AreLongTermWeights, null_hash
  <2>2. Len(s) = 0
    <3>1. Len(s) \in Nat /\ LONG_TERM_WINDOW \in Nat \ {0}
      BY BlockWeightsAssumption
    <3>2. AtMost(Len(s), LONG_TERM_WINDOW) = AtMost(0, LONG_TERM_WINDOW)
      BY <1>2, <2>1
    <3> QED
      BY <3>1, <3>2 DEF AtMost
  <2>3. s = ls
    BY <2>1, <2>2, EmptySequence
  <2> QED
    BY <1>2, <2>3
<1> QED
  BY <1>3, <1>4

LEMMA CacheMoved ==
    ASSUME MedianOfWindow, NEW ws \in Seq(Nat), NEW ls \in Seq(Nat), AreLongTermWeights(ls, ws),
           NEW c, CacheOK(c), Len(ws) > 1, c.tip = SubSeq(ws, 1, Len(ws) - 1)
    PROVE  \E s \in Seq(Nat) : /\ InsertRM(c.rm, ls[Len(ls)], LONG_TERM_WINDOW) = Filled(s)
                               /\ Last_n(s, LONG_TERM_WINDOW) = Last_n(ls, LONG_TERM_WINDOW)
<1> DEFINE n == Len(ws) - 1
           w == SubSeq(ws, 1, n)
           k == SubSeq(ls, 1, n)
           x == ls[Len(ls)]
<1>1. /\ Len(ls) = Len(ws) /\ Len(ws) \in Nat /\ n \in Nat /\ n >= 1 /\ n \in 0 .. Len(ws)
      /\ Len(ls) = n + 1 /\ Len(ls) \in 1 .. Len(ls)
  BY DEF AreLongTermWeights
<1>2. x \in Nat
  BY <1>1
<1>3. /\ w \in Seq(Nat) /\ Len(w) = n
      /\ k \in Seq(Nat) /\ Len(k) = n /\ \A i \in 1 .. n : k[i] = ls[i]
  BY <1>1, Prefix, Zenon
<1>4. AreLongTermWeights(k, w)
  BY <1>1, ExactPrefix
<1>5. w # null_hash
  <2>1. Len(null_hash) = 0
    BY DEF null_hash
  <2>2. Len(w) = n /\ n # 0
    BY <1>1, <1>3
  <2> HIDE DEF n, w
  <2> QED
    BY <2>1, <2>2
<1>6. PICK s \in Seq(Nat) :
          /\ c.rm = Filled(s)
          /\ \E l \in Seq(Nat) : /\ AreLongTermWeights(l, w)
                                 /\ Last_n(s, LONG_TERM_WINDOW) = Last_n(l, LONG_TERM_WINDOW)
  BY <1>5 DEF CacheOK
<1>7. PICK l \in Seq(Nat) : /\ AreLongTermWeights(l, w)
                            /\ Last_n(s, LONG_TERM_WINDOW) = Last_n(l, LONG_TERM_WINDOW)
  BY <1>6
<1>8. l = k
  <2> HIDE DEF w, k
  <2> QED
    BY <1>3, <1>4, <1>7, ExactUnique
<1>9. Append(k, x) = ls
  <2> HIDE DEF k
  <2>1. /\ Append(k, x) \in Seq(Nat) /\ Len(Append(k, x)) = n + 1
        /\ \A i \in 1 .. n : Append(k, x)[i] = k[i]
        /\ Append(k, x)[n + 1] = x
    <3> HIDE DEF n, x
    <3>1. /\ Append(k, x) \in Seq(Nat) /\ Len(Append(k, x)) = Len(k) + 1
          /\ \A i \in 1 .. Len(k) : Append(k, x)[i] = k[i]
          /\ Append(k, x)[Len(k) + 1] = x
      BY <1>2, <1>3, Appended, Zenon
    <3> QED
      BY <1>3, <3>1, Zenon
  <2>2. \A i \in 1 .. n + 1 : i \in 1 .. n \/ i = n + 1
    BY <1>1
  <2>3. \A i \in 1 .. n + 1 : Append(k, x)[i] = ls[i]
    BY <1>1, <1>3, <2>1, <2>2, Zenon
  <2> DEFINE u == Append(k, x)
  <2> HIDE DEF u
  <2>4. u \in Seq(Nat) /\ Len(u) = Len(ls) /\ \A i \in 1 .. Len(u) : u[i] = ls[i]
    BY <1>1, <2>1, <2>3, Zenon DEF u
  <2>5. u = ls
    BY <2>4, SameSequence, Zenon
  <2> QED
    BY <2>5 DEF u
<1> HIDE DEF k, x
<1>10. /\ Append(s, x) \in Seq(Nat)
       /\ Filled(Append(s, x)) = InsertRM(c.rm, x, LONG_TERM_WINDOW)
  BY <1>2, <1>6, Appended, FilledAppend
<1>11. Last_n(Append(s, x), LONG_TERM_WINDOW) = Last_n(ls, LONG_TERM_WINDOW)
  <2>1. LONG_TERM_WINDOW \in Nat
    BY BlockWeightsAssumption
  <2>2. Last_n(s, LONG_TERM_WINDOW) = Last_n(k, LONG_TERM_WINDOW)
    BY <1>7, <1>8
  <2>3. Last_n(Append(s, x), LONG_TERM_WINDOW) = Last_n(Append(k, x), LONG_TERM_WINDOW)
    BY <1>2, <1>3, <2>1, <2>2, WindowMoves
  <2> QED
    BY <1>9, <2>3
<1> QED
  BY <1>10, <1>11, Zenon DEF x

LEMMA CacheFilled ==
    ASSUME NEW ls \in Seq(Nat)
    PROVE  \E s \in Seq(Nat) :
              /\ Filled(Last_n(ls, AtMost(Len(ls), LONG_TERM_WINDOW))) = Filled(s)
              /\ Last_n(s, LONG_TERM_WINDOW) = Last_n(ls, LONG_TERM_WINDOW)
<1>1. LONG_TERM_WINDOW \in Nat /\ Len(ls) \in Nat
  BY BlockWeightsAssumption
<1>2. AtMost(Len(ls), LONG_TERM_WINDOW) \in Nat
  BY <1>1, WindowBounds, Zenon
<1> DEFINE t == Last_n(ls, AtMost(Len(ls), LONG_TERM_WINDOW))
<1>3. t \in Seq(Nat)
  BY <1>2, Window
<1>4. Last_n(t, LONG_TERM_WINDOW) = Last_n(ls, LONG_TERM_WINDOW)
  BY <1>1, WindowOfWindow
<1> QED
  BY <1>3, <1>4

LEMMA CacheConsulted ==
    ASSUME MedianOfWindow, NEW ws \in Seq(Nat), NEW ls \in Seq(Nat), AreLongTermWeights(ls, ws),
           NEW c, CacheOK(c)
    PROVE  /\ CacheOK(get_long_term_block_weight_median(c, ws, ls))
           /\ MedianRM(get_long_term_block_weight_median(c, ws, ls).rm)
                 = MedianOf(Last_n(ls, LONG_TERM_WINDOW))
<1> DEFINE count == AtMost(Len(ls), LONG_TERM_WINDOW)
           sized == count = c.rm.sz
           moved == [tip |-> ws, rm |-> InsertRM(c.rm, ls[Len(ls)], LONG_TERM_WINDOW)]
           again == [tip |-> IF sized THEN ws ELSE null_hash, rm |-> Filled(Last_n(ls, count))]
           d == get_long_term_block_weight_median(c, ws, ls)
           found == sized /\ c.tip = ws
           next == sized /\ Len(ws) > 1 /\ c.tip = SubSeq(ws, 1, Len(ws) - 1)
<1>1. d = IF found THEN c ELSE IF next THEN moved ELSE again
  BY DEF get_long_term_block_weight_median
<1>2. ASSUME NEW e, e.tip = ws \/ e.tip = null_hash,
             \E s \in Seq(Nat) : /\ e.rm = Filled(s)
                                 /\ Last_n(s, LONG_TERM_WINDOW) = Last_n(ls, LONG_TERM_WINDOW)
      PROVE  /\ CacheOK(e)
             /\ MedianRM(e.rm) = MedianOf(Last_n(ls, LONG_TERM_WINDOW))
  <2>1. null_hash \in Seq(Nat)
    BY DEF null_hash
  <2>2. PICK s \in Seq(Nat) : /\ e.rm = Filled(s)
                              /\ Last_n(s, LONG_TERM_WINDOW) = Last_n(ls, LONG_TERM_WINDOW)
    BY <1>2
  <2>3. e.tip # null_hash => e.tip = ws
    BY <1>2
  <2>4. CacheOK(e)
    BY <1>2, <2>1, <2>2, <2>3, Zenon DEF CacheOK
  <2>5. MedianRM(e.rm) = MedianOf(Last_n(ls, LONG_TERM_WINDOW))
    BY <2>2, Zenon DEF MedianOfWindow
  <2> QED
    BY <2>4, <2>5
<1>3. CASE found
  BY <1>1, <1>3, CacheFound
<1>4. CASE ~found /\ next
  <2>1. d = moved
    BY <1>1, <1>4
  <2>2. moved.tip = ws /\ moved.rm = InsertRM(c.rm, ls[Len(ls)], LONG_TERM_WINDOW)
    OBVIOUS
  <2>3. \E s \in Seq(Nat) : /\ InsertRM(c.rm, ls[Len(ls)], LONG_TERM_WINDOW) = Filled(s)
                            /\ Last_n(s, LONG_TERM_WINDOW) = Last_n(ls, LONG_TERM_WINDOW)
    BY <1>4, CacheMoved
  <2> HIDE DEF moved, d
  <2>4. /\ d.tip = ws
        /\ \E s \in Seq(Nat) : /\ d.rm = Filled(s)
                               /\ Last_n(s, LONG_TERM_WINDOW) = Last_n(ls, LONG_TERM_WINDOW)
    BY <2>1, <2>2, <2>3
  <2>5. CacheOK(d) /\ MedianRM(d.rm) = MedianOf(Last_n(ls, LONG_TERM_WINDOW))
    BY <1>2, <2>4, Zenon
  <2> QED
    BY <2>5 DEF d
<1>5. CASE ~found /\ ~next
  <2>1. d = again
    BY <1>1, <1>5
  <2>2. (again.tip = ws \/ again.tip = null_hash) /\ again.rm = Filled(Last_n(ls, count))
    OBVIOUS
  <2>3. \E s \in Seq(Nat) : /\ Filled(Last_n(ls, count)) = Filled(s)
                            /\ Last_n(s, LONG_TERM_WINDOW) = Last_n(ls, LONG_TERM_WINDOW)
    BY CacheFilled
  <2> HIDE DEF again, d
  <2>4. /\ d.tip = ws \/ d.tip = null_hash
        /\ \E s \in Seq(Nat) : /\ d.rm = Filled(s)
                               /\ Last_n(s, LONG_TERM_WINDOW) = Last_n(ls, LONG_TERM_WINDOW)
    BY <2>1, <2>2, <2>3
  <2>5. CacheOK(d) /\ MedianRM(d.rm) = MedianOf(Last_n(ls, LONG_TERM_WINDOW))
    BY <1>2, <2>4
  <2> QED
    BY <2>5 DEF d
<1> QED
  BY <1>3, <1>4, <1>5

\* Below the fork with long-term weights the cache is not consulted, and its median
\* decides on nothing.
LEMMA ConsultedOK ==
    ASSUME MedianOfWindow, NEW ws \in Seq(Nat), NEW ls \in Seq(Nat), AreLongTermWeights(ls, ws),
           NEW c, CacheOK(c)
    PROVE  /\ CacheOK(Consulted(c, ws, ls))
           /\ MedianRM(Consulted(c, ws, ls).rm) \in Nat
           /\ ~(VersionAt(Len(ws)) < LONG_TERM_VERSION)
                 => MedianRM(Consulted(c, ws, ls).rm) = MedianOf(Last_n(ls, LONG_TERM_WINDOW))
<1>1. LONG_TERM_WINDOW \in Nat
  BY BlockWeightsAssumption, Zenon
<1>2. ASSUME NEW d, CacheOK(d)
      PROVE  MedianRM(d.rm) \in Nat
  <2>1. PICK s \in Seq(Nat) : d.rm = Filled(s)
    BY <1>2, Zenon DEF CacheOK
  <2>2. Last_n(s, LONG_TERM_WINDOW) \in Seq(Nat)
    BY <1>1, Window, Zenon
  <2> QED
    BY <2>1, <2>2, Zenon DEF MedianOfWindow
<1>3. CASE VersionAt(Len(ws)) < LONG_TERM_VERSION
  BY <1>2, <1>3 DEF Consulted
<1>4. CASE ~(VersionAt(Len(ws)) < LONG_TERM_VERSION)
  BY <1>2, <1>4, CacheConsulted DEF Consulted
<1> QED
  BY <1>3, <1>4

-----------------------------------------------------------------------------
(* The chain, the limits and the batch.                                    *)

Counted(g, i) ==
    \A h \in 1 .. Len(g) :
        /\ g[h] <= MONEY_SUPPLY
        /\ g[h] = (IF h = 1 THEN 0 ELSE g[h - 1]) + i[h]

\* A chain in the database: the supply is counted, the long-term weights are exact.
ChainOK(g, i, ws, ls) ==
    /\ g \in Seq(Nat) /\ i \in Seq(Nat) /\ ws \in Seq(Nat) /\ ls \in Seq(Nat)
    /\ Len(i) = Len(g) /\ Len(ws) = Len(g) /\ Len(g) <= MAX_HEIGHT
    /\ Counted(g, i)
    /\ AreLongTermWeights(ls, ws)

Limits == [median : Nat, long_term : Nat]

\* The limits of a chain; those in memory matter for the long-term one below the fork.
ExactLimits(ws, ls, old) ==
    LimitsFor(VersionAt(Len(ws)), MedianOf(Last_n(ls, LONG_TERM_WINDOW)),
              MedianOf(get_last_n_blocks_weights(ws)), old)

\* What an operation keeps.  The chain an aborted batch goes back to is a good one too,
\* and so is the cache, which survives the abort; only the limits may be stale then.
StateOK(g, i, ws, ls, c, lim, b, ab) ==
    /\ ChainOK(g, i, ws, ls)
    /\ CacheOK(c)
    /\ lim \in Limits
    /\ b # NoBatch => ChainOK(b[1], b[2], b[3], b[4])
    /\ Len(g) > 0 /\ ~ab => lim = ExactLimits(ws, ls, lim)

WeightsInv ==
    StateOK(generated, issued, weights, long_term_weights, cache, limits, batch, aborted)

LEMMA EmptyChainOK == ChainOK(<< >>, << >>, << >>, << >>)
<1>1. << >> \in Seq(Nat) /\ Len(<< >>) = 0
  OBVIOUS
<1>2. Counted(<< >>, << >>) /\ AreLongTermWeights(<< >>, << >>)
  BY DEF Counted, AreLongTermWeights
<1> QED
  BY <1>1, <1>2, EmissionAssumption DEF ChainOK

\* Blocks that are popped uncover a chain that was good.
LEMMA CutOK ==
    ASSUME NEW g, NEW i, NEW ws, NEW ls, ChainOK(g, i, ws, ls), NEW k \in 0 .. Len(g)
    PROVE  ChainOK(SubSeq(g, 1, k), SubSeq(i, 1, k), SubSeq(ws, 1, k), SubSeq(ls, 1, k))
<1> DEFINE G == SubSeq(g, 1, k)
           I == SubSeq(i, 1, k)
           W == SubSeq(ws, 1, k)
           L == SubSeq(ls, 1, k)
<1>1. /\ g \in Seq(Nat) /\ i \in Seq(Nat) /\ ws \in Seq(Nat) /\ ls \in Seq(Nat)
      /\ Len(i) = Len(g) /\ Len(ws) = Len(g) /\ Len(ls) = Len(g) /\ Len(g) \in Nat
      /\ Len(g) <= MAX_HEIGHT /\ Counted(g, i) /\ AreLongTermWeights(ls, ws)
      /\ k \in Nat /\ k <= Len(g)
  BY DEF ChainOK, AreLongTermWeights
<1>2. G \in Seq(Nat) /\ Len(G) = k /\ \A h \in 1 .. k : G[h] = g[h]
  BY <1>1, Prefix, Zenon
<1>3. I \in Seq(Nat) /\ Len(I) = k /\ \A h \in 1 .. k : I[h] = i[h]
  BY <1>1, Prefix
<1>4. W \in Seq(Nat) /\ Len(W) = k
  BY <1>1, Prefix
<1>5. L \in Seq(Nat)
  BY <1>1, Prefix
<1>6. AreLongTermWeights(L, W)
  BY <1>1, ExactPrefix
<1> HIDE DEF G, I, W, L
<1>7. Counted(G, I)
  <2> SUFFICES ASSUME NEW h \in 1 .. k
               PROVE  G[h] <= MONEY_SUPPLY /\ G[h] = (IF h = 1 THEN 0 ELSE G[h - 1]) + I[h]
    BY <1>2 DEF Counted
  <2>1. h \in 1 .. Len(g) /\ (h # 1 => h - 1 \in 1 .. k)
    BY <1>1
  <2> QED
    BY <1>1, <1>2, <1>3, <2>1, Zenon DEF Counted
<1>8. k <= MAX_HEIGHT
  BY <1>1, EmissionAssumption
<1>9. ChainOK(G, I, W, L)
  BY <1>2, <1>3, <1>4, <1>5, <1>6, <1>7, <1>8 DEF ChainOK
<1> QED
  BY <1>9 DEF G, I, W, L

LEMMA LimitsAre ==
    ASSUME NEW v, NEW a \in Nat, NEW b \in Nat, NEW old \in Limits
    PROVE  /\ LimitsFor(v, a, b, old) \in Limits
           /\ LimitsFor(v, a, b, LimitsFor(v, a, b, old)) = LimitsFor(v, a, b, old)
           /\ v < LONG_TERM_VERSION => \A z : LimitsFor(v, z, b, old) = LimitsFor(v, a, b, old)
<1> DEFINE low == get_min_block_weight(v)
           m == AtLeast(b, low)
           t == AtLeast(ZONE_V5, a)
           surge == AtMost(AtLeast(IF v < SCALING_VERSION THEN ZONE_V5 ELSE t, b), SURGE_FACTOR * t)
           n == AtLeast(surge, low)
<1>1. \A o, z : v < LONG_TERM_VERSION => LimitsFor(v, z, b, o) = [o EXCEPT !.median = m]
  BY DEF LimitsFor
<1>2. \A o : ~(v < LONG_TERM_VERSION) => LimitsFor(v, a, b, o) = [median |-> n, long_term |-> t]
  BY DEF LimitsFor
<1>3. low \in Nat /\ ZONE_V5 \in Nat /\ SURGE_FACTOR \in Nat
  BY EmissionAssumption, BlockWeightsAssumption DEF get_min_block_weight
<1> HIDE DEF low
<1>4. m \in Nat /\ t \in Nat
  BY <1>3 DEF AtLeast
<1> HIDE DEF m, t
<1>5. SURGE_FACTOR * t \in Nat
  BY <1>3, <1>4
<1>6. AtLeast(IF v < SCALING_VERSION THEN ZONE_V5 ELSE t, b) \in Nat
  BY <1>3, <1>4 DEF AtLeast
<1>7. surge \in Nat
  BY <1>5, <1>6 DEF AtMost
<1> HIDE DEF surge
<1>8. n \in Nat
  BY <1>3, <1>7 DEF AtLeast
<1> HIDE DEF n
<1>9. CASE v < LONG_TERM_VERSION
  <2> DEFINE new == [old EXCEPT !.median = m]
  <2>1. new \in Limits /\ [new EXCEPT !.median = m] = new
    BY <1>4, Zenon DEF Limits
  <2> QED
    BY <1>1, <1>9, <2>1
<1>10. CASE ~(v < LONG_TERM_VERSION)
  <2>1. [median |-> n, long_term |-> t] \in Limits
    BY <1>4, <1>8 DEF Limits
  <2> QED
    BY <1>2, <1>10, <2>1
<1> QED
  BY <1>9, <1>10

\* update_next_cumulative_weight_limit leaves the limits of the chain it is called for,
\* whatever they were before.
LEMMA UpdateOK ==
    ASSUME MedianOfWindow, NEW g, NEW i, NEW ws, NEW ls, ChainOK(g, i, ws, ls), NEW c, CacheOK(c),
           NEW old \in Limits, NEW d, d = Consulted(c, ws, ls),
           NEW lim, lim = LimitsFor(VersionAt(Len(ws)), MedianRM(d.rm),
                                    MedianOf(get_last_n_blocks_weights(ws)), old)
    PROVE  CacheOK(d) /\ lim \in Limits /\ lim = ExactLimits(ws, ls, lim)
<1> DEFINE v == VersionAt(Len(ws))
           a == MedianOf(Last_n(ls, LONG_TERM_WINDOW))
           b == MedianOf(get_last_n_blocks_weights(ws))
           r == MedianRM(d.rm)
<1>1. ws \in Seq(Nat) /\ ls \in Seq(Nat) /\ AreLongTermWeights(ls, ws)
  BY DEF ChainOK
<1>2. CacheOK(d) /\ r \in Nat /\ (~(v < LONG_TERM_VERSION) => r = a)
  BY <1>1, ConsultedOK, Zenon
<1>3. a \in Nat /\ b \in Nat
  <2>1. LONG_TERM_WINDOW \in Nat /\ REWARD_WINDOW \in Nat
    BY BlockWeightsAssumption, Zenon
  <2>2. Last_n(ls, LONG_TERM_WINDOW) \in Seq(Nat) /\ Last_n(ws, REWARD_WINDOW) \in Seq(Nat)
    BY <1>1, <2>1, Window, Zenon
  <2> QED
    BY <2>2, Zenon DEF MedianOfWindow, get_last_n_blocks_weights
<1>4. lim = LimitsFor(v, r, b, old) /\ ExactLimits(ws, ls, lim) = LimitsFor(v, a, b, lim)
  BY DEF ExactLimits
<1> HIDE DEF v, a, b, r
<1>5. lim = LimitsFor(v, a, b, old)
  BY <1>2, <1>3, <1>4, LimitsAre
<1> QED
  BY <1>2, <1>3, <1>4, <1>5, LimitsAre

LEMMA UpdateStateOK ==
    ASSUME MedianOfWindow, NEW g, NEW i, NEW ws, NEW ls, ChainOK(g, i, ws, ls), NEW c, CacheOK(c),
           NEW old \in Limits, NEW d, d = Consulted(c, ws, ls),
           NEW lim, lim = LimitsFor(VersionAt(Len(ws)), MedianRM(d.rm),
                                    MedianOf(get_last_n_blocks_weights(ws)), old),
           NEW b, b # NoBatch => ChainOK(b[1], b[2], b[3], b[4]), NEW ab
    PROVE  StateOK(g, i, ws, ls, d, lim, b, ab)
BY UpdateOK DEF StateOK

\* handle_block_to_main_chain computes the long-term weight of the block from the cache.
LEMMA AddedOK ==
    ASSUME MedianOfWindow, NEW g, NEW i, NEW ws, NEW ls, ChainOK(g, i, ws, ls), NEW c, CacheOK(c),
           NEW w \in Nat, NEW d, d = Consulted(c, ws, ls),
           NEW x, x = LongTermWeight(VersionAt(Len(g)), MedianRM(d.rm), w),
           NEW G, NEW I, G \in Seq(Nat), I \in Seq(Nat), Len(G) = Len(g) + 1, Len(I) = Len(G),
           Len(g) < MAX_HEIGHT, Counted(G, I)
    PROVE  ChainOK(G, I, Append(ws, w), Append(ls, x))
<1>1. /\ ws \in Seq(Nat) /\ ls \in Seq(Nat) /\ AreLongTermWeights(ls, ws) /\ Len(g) \in Nat
      /\ Len(ws) = Len(g) /\ Len(ls) = Len(g)
  BY DEF ChainOK, AreLongTermWeights
<1>2. /\ MedianRM(d.rm) \in Nat
      /\ ~(VersionAt(Len(ws)) < LONG_TERM_VERSION)
            => MedianRM(d.rm) = MedianOf(Last_n(ls, LONG_TERM_WINDOW))
  BY <1>1, ConsultedOK
<1>3. x \in Nat
  BY <1>2, LongTermWeightType
<1>4. x = Bounded(ls, w)
  <2>1. CASE VersionAt(Len(g)) < LONG_TERM_VERSION
    BY <1>1, <2>1 DEF Bounded, LongTermWeight
  <2>2. CASE ~(VersionAt(Len(g)) < LONG_TERM_VERSION)
    BY <1>1, <1>2, <2>2 DEF Bounded
  <2> QED
    BY <2>1, <2>2
<1> DEFINE W == Append(ws, w)
           L == Append(ls, x)
<1>5. AreLongTermWeights(L, W)
  BY <1>1, <1>3, <1>4, ExactAppend, Zenon
<1>6. L \in Seq(Nat) /\ W \in Seq(Nat) /\ Len(W) = Len(g) + 1
  BY <1>1, <1>3, Appended
<1> HIDE DEF W, L
<1>7. Len(G) <= MAX_HEIGHT
  BY <1>1, EmissionAssumption
<1>8. ChainOK(G, I, W, L)
  BY <1>5, <1>6, <1>7 DEF ChainOK
<1> QED
  BY <1>8 DEF W, L

LEMMA SupplyInv ==
    ASSUME WeightsInv
    PROVE  Inv
BY DEF WeightsInv, StateOK, ChainOK, Counted, Inv, TypeOK, SupplyTracked

LEMMA HandleBlockOK ==
    ASSUME MedianOfWindow, WeightsInv, NEW w \in Nat, NEW f \in Nat, NEW money \in Nat,
           handle_block_to_main_chain(w, f, money)
    PROVE  WeightsInv'
<1> DEFINE x == LongTermWeight(VersionAt(Height), MedianRM(Consulted(cache, weights, long_term_weights).rm), w)
<1>1. /\ AddBlock(MedianForPenalty, w, f, money)
      /\ weights' = Append(weights, w)
      /\ long_term_weights' = Append(long_term_weights, x)
      /\ update_next_cumulative_weight_limit(Consulted(cache, weights, long_term_weights), weights',
                                             long_term_weights', limits)
      /\ batch' = batch
  BY DEF handle_block_to_main_chain
<1> HIDE DEF x
<1>2. /\ ChainOK(generated, issued, weights, long_term_weights) /\ CacheOK(cache) /\ limits \in Limits
      /\ batch # NoBatch => ChainOK(batch[1], batch[2], batch[3], batch[4])
  BY DEF WeightsInv, StateOK
<1>3. PICK m : m = MedianForPenalty
  OBVIOUS
<1>4. m \in Nat
  <2>1. limits.median \in Nat
    BY <1>2 DEF Limits
  <2>2. REWARD_WINDOW \in Nat /\ weights \in Seq(Nat)
    BY <1>2, BlockWeightsAssumption DEF ChainOK
  <2>3. Last_n(weights, REWARD_WINDOW) \in Seq(Nat)
    BY <2>2, Window
  <2>4. MedianOf(get_last_n_blocks_weights(weights)) \in Nat
    BY <2>3 DEF MedianOfWindow, get_last_n_blocks_weights
  <2> QED
    BY <1>3, <2>1, <2>4 DEF MedianForPenalty
<1>5. AddBlock(m, w, f, money)
  BY <1>1, <1>3
<1>6. Inv'
  BY <1>4, <1>5, SupplyInv, AddBlockPreservesInv
<1>7. /\ generated' \in Seq(Nat) /\ issued' \in Seq(Nat)
      /\ Len(issued') = Len(generated') /\ Counted(generated', issued')
  BY <1>6 DEF Inv, TypeOK, SupplyTracked, Counted
<1>8. Len(generated) < MAX_HEIGHT /\ Len(generated') = Len(generated) + 1
  <2>1. generated \in Seq(Nat)
    BY <1>2 DEF ChainOK
  <2> QED
    BY <1>5, <2>1 DEF AddBlock, Height
<1>9. PICK d : d = Consulted(cache, weights, long_term_weights)
  OBVIOUS
<1>10. ChainOK(generated', issued', weights', long_term_weights')
  <2>1. x = LongTermWeight(VersionAt(Len(generated)), MedianRM(d.rm), w)
    BY <1>9 DEF x, Height
  <2>2. ChainOK(generated', issued', Append(weights, w), Append(long_term_weights, x))
    BY <1>2, <1>7, <1>8, <1>9, <2>1, AddedOK
  <2> QED
    BY <1>1, <2>2
<1>11. CacheOK(d)
  <2>1. weights \in Seq(Nat) /\ long_term_weights \in Seq(Nat) /\ AreLongTermWeights(long_term_weights, weights)
    BY <1>2 DEF ChainOK
  <2> QED
    BY <1>2, <1>9, <2>1, ConsultedOK
<1>12. /\ cache' = Consulted(d, weights', long_term_weights')
       /\ limits' = LimitsFor(VersionAt(Len(weights')), MedianRM(cache'.rm),
                              MedianOf(get_last_n_blocks_weights(weights')), limits)
  BY <1>1, <1>9 DEF update_next_cumulative_weight_limit
<1>13. batch' # NoBatch => ChainOK(batch'[1], batch'[2], batch'[3], batch'[4])
  BY <1>1, <1>2
<1>14. StateOK(generated', issued', weights', long_term_weights', cache', limits', batch', aborted')
  BY <1>2, <1>10, <1>11, <1>12, <1>13, UpdateStateOK, Zenon
<1> QED
  BY <1>14 DEF WeightsInv

LEMMA PopBlocksOK ==
    ASSUME MedianOfWindow, WeightsInv, NEW height \in 1 .. (Height - 1), pop_blocks(height)
    PROVE  WeightsInv'
<1>1. /\ CutTo(height)
      /\ update_next_cumulative_weight_limit(cache, weights', long_term_weights', limits)
      /\ batch' = batch
  BY DEF pop_blocks
<1>2. /\ ChainOK(generated, issued, weights, long_term_weights) /\ CacheOK(cache) /\ limits \in Limits
      /\ batch # NoBatch => ChainOK(batch[1], batch[2], batch[3], batch[4])
  BY DEF WeightsInv, StateOK
<1>3. height \in 0 .. Len(generated)
  <2>1. Len(generated) \in Nat
    BY <1>2 DEF ChainOK
  <2> QED
    BY <2>1 DEF Height
<1>4. ChainOK(generated', issued', weights', long_term_weights')
  BY <1>1, <1>2, <1>3, CutOK DEF CutTo
<1>5. /\ cache' = Consulted(cache, weights', long_term_weights')
      /\ limits' = LimitsFor(VersionAt(Len(weights')), MedianRM(cache'.rm),
                             MedianOf(get_last_n_blocks_weights(weights')), limits)
  BY <1>1 DEF update_next_cumulative_weight_limit
<1>6. batch' # NoBatch => ChainOK(batch'[1], batch'[2], batch'[3], batch'[4])
  BY <1>1, <1>2
<1>7. StateOK(generated', issued', weights', long_term_weights', cache', limits', batch', aborted')
  BY <1>2, <1>4, <1>5, <1>6, UpdateStateOK, Zenon
<1> QED
  BY <1>7 DEF WeightsInv

LEMMA PrepareOK ==
    ASSUME WeightsInv, prepare_handle_incoming_blocks
    PROVE  WeightsInv'
<1>1. /\ batch' = <<generated, issued, weights, long_term_weights>>
      /\ UNCHANGED <<generated, issued, weights, long_term_weights, cache, limits, aborted>>
  BY DEF prepare_handle_incoming_blocks, db
<1>2. ChainOK(batch'[1], batch'[2], batch'[3], batch'[4])
  BY <1>1 DEF WeightsInv, StateOK
<1>3. StateOK(generated', issued', weights', long_term_weights', cache', limits', batch', aborted')
  BY <1>1, <1>2 DEF WeightsInv, StateOK
<1> QED
  BY <1>3 DEF WeightsInv

LEMMA BatchStopOK ==
    ASSUME WeightsInv, BatchStop
    PROVE  WeightsInv'
<1>1. /\ batch' = NoBatch
      /\ UNCHANGED <<generated, issued, weights, long_term_weights, cache, limits, aborted>>
  BY DEF BatchStop, db
<1>2. StateOK(generated', issued', weights', long_term_weights', cache', limits', batch', aborted')
  BY <1>1 DEF WeightsInv, StateOK
<1> QED
  BY <1>2 DEF WeightsInv

LEMMA FailBlockOK ==
    ASSUME MedianOfWindow, WeightsInv, FailBlock
    PROVE  WeightsInv'
<1>1. /\ batch # NoBatch /\ GoBack /\ aborted' = TRUE /\ limits' = limits
      /\ cache' = Consulted(cache, weights, long_term_weights)
  BY DEF FailBlock
<1>2. /\ ChainOK(generated, issued, weights, long_term_weights) /\ CacheOK(cache) /\ limits \in Limits
      /\ ChainOK(batch[1], batch[2], batch[3], batch[4])
  BY <1>1 DEF WeightsInv, StateOK
<1>3. ChainOK(generated', issued', weights', long_term_weights') /\ batch' = NoBatch
  BY <1>1, <1>2 DEF GoBack
<1>4. CacheOK(cache')
  <2>1. weights \in Seq(Nat) /\ long_term_weights \in Seq(Nat) /\ AreLongTermWeights(long_term_weights, weights)
    BY <1>2 DEF ChainOK
  <2> QED
    BY <1>1, <1>2, <2>1, ConsultedOK
<1>5. StateOK(generated', issued', weights', long_term_weights', cache', limits', batch', aborted')
  BY <1>1, <1>2, <1>3, <1>4 DEF StateOK
<1> QED
  BY <1>5 DEF WeightsInv

LEMMA RestartOK ==
    ASSUME MedianOfWindow, WeightsInv, Restart
    PROVE  WeightsInv'
<1>1. /\ batch = NoBatch => UNCHANGED <<generated, issued, weights, long_term_weights, batch>>
      /\ batch # NoBatch => GoBack
      /\ update_next_cumulative_weight_limit(Empty, weights', long_term_weights', NoLimits)
  BY DEF Restart, db
<1>2. /\ ChainOK(generated, issued, weights, long_term_weights)
      /\ batch # NoBatch => ChainOK(batch[1], batch[2], batch[3], batch[4])
  BY Zenon DEF WeightsInv, StateOK
<1>3. ChainOK(generated', issued', weights', long_term_weights') /\ batch' = NoBatch
  BY <1>1, <1>2 DEF GoBack
<1>4. /\ cache' = Consulted(Empty, weights', long_term_weights')
      /\ limits' = LimitsFor(VersionAt(Len(weights')), MedianRM(cache'.rm),
                             MedianOf(get_last_n_blocks_weights(weights')), NoLimits)
  BY <1>1 DEF update_next_cumulative_weight_limit
<1>5. NoLimits \in Limits
  BY Zenon DEF NoLimits, Limits
<1>6. StateOK(generated', issued', weights', long_term_weights', cache', limits', batch', aborted')
  BY <1>3, <1>4, <1>5, EmptyCacheOK, UpdateStateOK, Zenon
<1> QED
  BY <1>6 DEF WeightsInv

LEMMA WeightsInitOK ==
    ASSUME WeightsInit
    PROVE  WeightsInv
<1>1. /\ generated = << >> /\ issued = << >> /\ weights = << >> /\ long_term_weights = << >>
      /\ cache = Empty /\ limits = NoLimits /\ batch = NoBatch
  BY DEF WeightsInit, Init
<1>2. NoLimits \in Limits /\ Len(<< >>) = 0
  BY Zenon DEF NoLimits, Limits
<1>3. StateOK(<< >>, << >>, << >>, << >>, Empty, NoLimits, NoBatch, aborted)
  BY <1>2, EmptyChainOK, EmptyCacheOK DEF StateOK
<1> QED
  BY <1>1, <1>3 DEF WeightsInv

LEMMA WeightsNextOK ==
    ASSUME MedianOfWindow, WeightsInv, [WeightsNext]_weights_vars
    PROVE  WeightsInv'
<1>1. ASSUME NEW w \in Weights, NEW f \in Fees, NEW money \in 0 .. (INITIAL_REWARD + f + 1),
             handle_block_to_main_chain(w, f, money)
      PROVE  WeightsInv'
  <2>1. w \in Nat /\ f \in Nat /\ money \in Nat
    BY EmissionAssumption
  <2> QED
    BY <1>1, <2>1, HandleBlockOK
<1>2. ASSUME NEW height \in 1 .. (Height - 1), pop_blocks(height)
      PROVE  WeightsInv'
  BY <1>2, PopBlocksOK
<1>3. CASE UNCHANGED weights_vars
  BY <1>3 DEF weights_vars, db, WeightsInv
<1> QED
  BY <1>1, <1>2, <1>3, PrepareOK, BatchStopOK, FailBlockOK, RestartOK DEF WeightsNext

LEMMA WeightsInvariance ==
    ASSUME MedianOfWindow
    PROVE  WeightsSpec => []WeightsInv
<1>1. WeightsInit => WeightsInv
  BY WeightsInitOK
<1>2. WeightsInv /\ [WeightsNext]_weights_vars => WeightsInv'
  BY WeightsNextOK
<1> QED
  BY <1>1, <1>2, PTL DEF WeightsSpec

\* The long-term weights in the database are a function of the chain alone, for every
\* chain, every window and every history of blocks, pops, aborted batches and restarts:
\* the cache of get_long_term_block_weight_median, found by its tip or by its tip's
\* parent, never brings in a weight of blocks that are gone.
THEOREM WeightsAreExact ==
    ASSUME MedianOfWindow
    PROVE  WeightsSpec => []LongTermWeightsAreExact
<1>1. WeightsInv => LongTermWeightsAreExact
  BY DEF WeightsInv, StateOK, ChainOK, LongTermWeightsAreExact
<1>2. WeightsSpec => []WeightsInv
  BY WeightsInvariance
<1> QED
  BY <1>1, <1>2, PTL

\* After every operation but an aborted batch the limits in memory are those of the
\* chain in the database: handle_block_to_main_chain, the pops and init all end in
\* update_next_cumulative_weight_limit, whose result does not depend on what the limits
\* or the cache were before.
THEOREM LimitsFollow ==
    ASSUME MedianOfWindow
    PROVE  WeightsSpec => []LimitFollowsChain
<1>1. WeightsInv => LimitFollowsChain
  <2> SUFFICES ASSUME WeightsInv, Height > 0, ~aborted
               PROVE  limits = LimitsFor(VersionAt(Height), MedianOf(Last_n(long_term_weights, LONG_TERM_WINDOW)),
                                         MedianOf(get_last_n_blocks_weights(weights)), limits)
    BY DEF LimitFollowsChain
  <2>1. Len(weights) = Height
    BY DEF WeightsInv, StateOK, ChainOK, Height
  <2>2. limits = ExactLimits(weights, long_term_weights, limits)
    BY DEF WeightsInv, StateOK, Height
  <2> QED
    BY <2>1, <2>2 DEF ExactLimits
<1>2. WeightsSpec => []WeightsInv
  BY WeightsInvariance
<1> QED
  BY <1>1, <1>2, PTL

\* The supply stays exact and under the cap also when the limits in memory decide on the
\* penalty, stale ones after an aborted batch included, and when blocks go several at a
\* time, with a batch or with a crash: without the tail emission of blockchain.cpp:4443.
THEOREM SupplyIsCappedInBatches ==
    ASSUME MedianOfWindow
    PROVE  WeightsSpec => [](TypeOK /\ SupplyTracked)
<1>1. WeightsInv => TypeOK /\ SupplyTracked
  BY SupplyInv DEF Inv
<1>2. WeightsSpec => []WeightsInv
  BY WeightsInvariance
<1> QED
  BY <1>1, <1>2, PTL

=============================================================================
