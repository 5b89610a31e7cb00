------------------------- MODULE CheckpointsProofs --------------------------
(***************************************************************************)
(* A checkpoint keeps its hash, committed blocks go only where a failed    *)
(* checkpoint cuts the chain, and check_against_checkpoints leaves no      *)
(* block that fails, for any number of points and any length of the chain. *)
(* The loop looks at the points in increasing order, so Inv needs that the *)
(* least of a set of heights exists: numbers are well-founded.             *)
(***************************************************************************)
EXTENDS Checkpoints, WellFoundedInduction, TLAPS

\* A chain is kept as it is, or more blocks follow.
Extends(short, long) == Len(long) >= Len(short) /\ SubSeq(long, 1, Len(short)) = short

\* The batch of check_against_checkpoints is what is committed, or that cut at a
\* failed point, after which no point the loop has passed was in its reach.
CutOnce ==
    \/ written = db
    \/ \E h \in Failed(db) :
          /\ h >= 2 /\ written = SubSeq(db, 1, h - 2)
          /\ \A p \in DOMAIN m_points \ todo : p > h => p >= Len(db)
          /\ \A p \in todo : p > h

Types ==
    /\ db \in Seq(Hashes) /\ Len(db) \in 1 .. MAX_HEIGHT
    /\ written \in Seq(Hashes) /\ Len(written) \in 1 .. MAX_HEIGHT
    /\ m_points \in PointTables
    /\ m_checkpoints_updating \in BOOLEAN /\ writer \in {"none", "blocks", "update"}
    /\ blockchain_height \in Nat

Inv ==
    /\ Types
    /\ \A h \in DOMAIN Compiled : h \in DOMAIN m_points /\ m_points[h] = Compiled[h]
    /\ phase # "idle" => m_checkpoints_updating
    /\ writer = "update" => phase = "check" \/ (phase = "idle" /\ m_checkpoints_updating)
    /\ writer = "none" => written = db
    /\ writer = "blocks" => Extends(db, written)
    /\ phase = "check" =>
          /\ todo \subseteq DOMAIN m_points
          /\ blockchain_height = Len(db)
          /\ \A p \in DOMAIN m_points \ todo, q \in todo : p < q
          /\ writer = "update" => CutOnce

\* What the loop has seen is in order, and stays so.
Enforced ==
    /\ phase = "check" =>
          \A p \in DOMAIN m_points \ todo : p < 2 \/ p >= blockchain_height \/ p \notin Failed(Seen("update"))
    /\ phase = "done" =>
          \A h \in Failed(db) \cup Failed(written) : h < 2 \/ h >= blockchain_height

-----------------------------------------------------------------------------
(* Numbers and sequences.                                                  *)

LEMMA LeastExists ==
    ASSUME NEW S \in SUBSET Nat, S # {}
    PROVE  \E x \in S : \A y \in S : x <= y
<1>1. PICK x \in S : \A y \in S : ~(<<y, x>> \in OpToRel(<,Nat))
  BY NatLessThanWellFounded, WFMin, Zenon
<1>2. \A y \in S : ~(y < x)
  BY <1>1, Zenon DEF OpToRel
<1> QED
  BY <1>2

LEMMA MinOf ==
    ASSUME NEW S \in SUBSET Nat, S # {}
    PROVE  Min(S) \in S /\ \A y \in S : Min(S) <= y
BY LeastExists, Zenon DEF Min

LEMMA MaxOf ==
    ASSUME NEW n \in Nat, NEW S \in SUBSET (0 .. n), S # {}
    PROVE  Max(S) \in S /\ \A y \in S : Max(S) >= y
<1> DEFINE T == {n - x : x \in S}
<1>0. \A x \in S : x \in Int /\ n - x \in Nat
  OBVIOUS
<1>1. T \in SUBSET Nat /\ T # {}
  BY <1>0, Zenon
<1>2. PICK z \in T : \A y \in T : z <= y
  BY <1>1, LeastExists, Zenon
<1>3. PICK x \in S : z = n - x
  BY <1>2
<1>4. ASSUME NEW y \in S
      PROVE  x >= y
  <2>1. n - y \in T
    OBVIOUS
  <2>2. n - x <= n - y
    BY <1>2, <1>3, <2>1, Zenon
  <2> QED
    BY <1>0, <2>2
<1> QED
  BY <1>4, Zenon DEF Max

LEMMA CutSeq ==
    ASSUME NEW S, NEW s \in Seq(S), NEW n \in 0 .. Len(s)
    PROVE  /\ SubSeq(s, 1, n) \in Seq(S) /\ Len(SubSeq(s, 1, n)) = n
           /\ \A i \in 1 .. n : SubSeq(s, 1, n)[i] = s[i]
OBVIOUS

LEMMA ExtendsSelf ==
    ASSUME NEW S, NEW s \in Seq(S)
    PROVE  Extends(s, s)
BY DEF Extends

LEMMA ExtendsAppend ==
    ASSUME NEW S, NEW s \in Seq(S), NEW t \in Seq(S), Extends(s, t), NEW x \in S
    PROVE  Extends(s, Append(t, x))
<1>1. Append(t, x) \in Seq(S) /\ Len(Append(t, x)) = Len(t) + 1
  OBVIOUS
<1>2. Len(s) \in 0 .. Len(t)
  BY DEF Extends
<1>3. SubSeq(Append(t, x), 1, Len(s)) = SubSeq(t, 1, Len(s))
  BY <1>1, <1>2
<1> QED
  BY <1>1, <1>2, <1>3 DEF Extends

LEMMA RollbackHeight ==
    ASSUME NEW h \in Nat, NEW n \in 1 .. MAX_HEIGHT, h < n
    PROVE  IF h >= 2 THEN rollback_height(h) = h - 2 ELSE rollback_height(h) > n
<1>1. U64 \in Nat /\ MAX_HEIGHT \in Nat /\ U64 > MAX_HEIGHT + 2
  BY CheckpointsAssumption
<1>2. CASE h >= 2
  <2>1. h - 2 \in Nat /\ h - 2 < U64
    BY <1>1, <1>2
  <2> QED
    BY <1>1, <1>2, <2>1 DEF rollback_height
<1>3. CASE h < 2
  <2>1. h - 2 \in -2 .. -1
    BY <1>3
  <2>2. (h - 2) % U64 = h - 2 + U64
    BY <1>1, <2>1
  <2> QED
    BY <1>1, <1>3, <2>2 DEF rollback_height
<1> QED
  BY <1>2, <1>3

-----------------------------------------------------------------------------
(* Points.                                                                 *)

LEMMA PointsType ==
    ASSUME NEW points \in PointTables
    PROVE  /\ DOMAIN points \subseteq Heights /\ DOMAIN points \subseteq 0 .. U64 - 1
           /\ DOMAIN points \in SUBSET Nat /\ U64 - 1 \in Nat
           /\ points = [h \in DOMAIN points |-> points[h]]
           /\ \A h \in DOMAIN points : points[h] \in Hashes
BY CheckpointsAssumption DEF PointTables

\* Heights from the file are above all points known.
LEMMA JsonIsNew ==
    ASSUME m_points \in PointTables, NEW json
    PROVE  NewInJson(json) \cap DOMAIN m_points = {}
<1> SUFFICES ASSUME NEW h \in DOMAIN m_points, h > get_max_height
             PROVE  FALSE
  BY DEF NewInJson
<1>1. DOMAIN m_points \in SUBSET (0 .. (U64 - 1)) /\ U64 - 1 \in Nat
  BY PointsType
<1>2. Max(DOMAIN m_points) \in DOMAIN m_points /\ Max(DOMAIN m_points) >= h
  BY <1>1, MaxOf, Zenon
<1>3. get_max_height = Max(DOMAIN m_points)
  BY DEF get_max_height
<1> QED
  BY <1>1, <1>2, <1>3

LEMMA WithPointsType ==
    ASSUME NEW points \in PointTables, NEW new \in PointTables, NEW H \in SUBSET DOMAIN new
    PROVE  WithPoints(points, new, H) \in PointTables
<1>1. DOMAIN points \cup H \in SUBSET Heights
  BY PointsType
<1>2. WithPoints(points, new, H) \in [DOMAIN points \cup H -> Hashes]
  BY PointsType DEF WithPoints
<1> QED
  BY <1>1, <1>2 DEF PointTables

LEMMA LoadedPoints ==
    ASSUME m_points \in PointTables, NEW json \in Sources, NEW dns \in Sources, ~Refused(json, dns)
    PROVE  /\ Loaded(json, dns) \in PointTables
           /\ \A h \in DOMAIN m_points : h \in DOMAIN Loaded(json, dns) /\ Loaded(json, dns)[h] = m_points[h]
<1> DEFINE fromJson == WithPoints(m_points, json, NewInJson(json))
<1>1. json \in PointTables /\ dns \in PointTables
  BY DEF Sources
<1>2. fromJson \in PointTables
  BY <1>1, WithPointsType DEF NewInJson
<1>3. \A h \in DOMAIN m_points : h \in DOMAIN fromJson /\ fromJson[h] = m_points[h]
  BY JsonIsNew DEF WithPoints
<1> HIDE DEF fromJson
<1>4. CASE ~m_enforce_dns_checkpoints
  BY <1>2, <1>3, <1>4 DEF Loaded, fromJson
<1>5. CASE m_enforce_dns_checkpoints
  <2>1. Loaded(json, dns) = WithPoints(fromJson, dns, DOMAIN dns)
    BY <1>5 DEF Loaded, fromJson
  <2>2. ~Conflicts(fromJson, dns)
    BY <1>5 DEF Refused, fromJson
  <2>3. WithPoints(fromJson, dns, DOMAIN dns) \in PointTables
    BY <1>1, <1>2, WithPointsType
  <2>4. \A h \in DOMAIN fromJson : /\ h \in DOMAIN WithPoints(fromJson, dns, DOMAIN dns)
                                   /\ WithPoints(fromJson, dns, DOMAIN dns)[h] = fromJson[h]
    BY <2>2 DEF WithPoints, Conflicts
  <2> QED
    BY <1>3, <2>1, <2>3, <2>4
<1> QED
  BY <1>4, <1>5, CheckpointsAssumption

\* A chain that another one extends fails no point the other one does not fail.
LEMMA FailedOfPrefix ==
    ASSUME NEW s \in Seq(Hashes), NEW t \in Seq(Hashes), Extends(s, t), m_points \in PointTables
    PROVE  /\ Failed(s) \subseteq Failed(t)
           /\ \A h \in Failed(t) : h < Len(s) => h \in Failed(s)
<1>1. \A i \in 1 .. Len(s) : t[i] = s[i]
  BY CutSeq DEF Extends
<1>2. \A h \in DOMAIN m_points : h \in Nat
  BY PointsType
<1>3. \A h \in DOMAIN m_points : h < Len(s) => h < Len(t) /\ HashAt(t, h) = HashAt(s, h)
  BY <1>1, <1>2 DEF Extends, HashAt
<1> QED
  BY <1>3 DEF Failed

LEMMA CutExtends ==
    ASSUME NEW s \in Seq(Hashes), NEW n \in 0 .. Len(s)
    PROVE  SubSeq(s, 1, n) \in Seq(Hashes) /\ Len(SubSeq(s, 1, n)) = n /\ Extends(SubSeq(s, 1, n), s)
BY CutSeq DEF Extends

-----------------------------------------------------------------------------
(* The invariant.                                                          *)

LEMMA InitInv == Init => Inv /\ Enforced
<1> SUFFICES ASSUME Init
             PROVE  Inv /\ Enforced
  OBVIOUS
<1>1. PICK n \in 1 .. MAX_HEIGHT : db \in [1 .. n -> Hashes]
  BY DEF Init
<1>2. db \in Seq(Hashes) /\ Len(db) \in 1 .. MAX_HEIGHT
  BY <1>1, CheckpointsAssumption
<1>3. Types
  BY <1>2, CheckpointsAssumption, Zenon DEF Init, Types
<1> QED
  BY <1>3 DEF Init, Inv, Enforced

LEMMA ResetInv ==
    ASSUME Inv, Reset
    PROVE  Inv' /\ Enforced'
<1>1. Types'
  BY CheckpointsAssumption, Zenon DEF Inv, Types, Reset
<1> QED
  BY <1>1 DEF Reset, Inv, Enforced

LEMMA PrepareInv ==
    ASSUME Inv, prepare_handle_incoming_blocks
    PROVE  Inv' /\ (Enforced => Enforced')
<1> USE DEF prepare_handle_incoming_blocks, updateVars
<1>1. Types'
  BY DEF Inv, Types
<1>2. Extends(db, db)
  BY ExtendsSelf DEF Inv, Types
<1>3. Inv'
  BY <1>1, <1>2 DEF Inv
<1>4. Failed(db)' = Failed(db) /\ Failed(written)' = Failed(db)
  BY DEF Failed, check_block
<1> QED
  BY <1>3, <1>4 DEF Enforced

LEMMA AddBlockInv ==
    ASSUME Inv, NEW hash \in Hashes, AddBlock(hash)
    PROVE  Inv' /\ (Enforced => Enforced')
<1>1. /\ writer = "blocks" /\ phase # "check" /\ Len(written) < MAX_HEIGHT
      /\ check_block(Len(written), hash) /\ written' = Append(written, hash)
      /\ UNCHANGED <<db, writer, m_points, m_checkpoints_updating, phase, todo, blockchain_height>>
  BY DEF AddBlock, updateVars
<1>2. /\ db \in Seq(Hashes) /\ written \in Seq(Hashes) /\ Len(written) \in Nat /\ Extends(db, written)
      /\ m_points \in PointTables
  BY <1>1 DEF Inv, Types
<1>3. /\ written' \in Seq(Hashes) /\ Len(written') = Len(written) + 1
      /\ \A i \in 1 .. Len(written) : written'[i] = written[i]
      /\ written'[Len(written) + 1] = hash
  BY <1>1, <1>2
<1>4. Types'
  BY <1>1, <1>2, <1>3, CheckpointsAssumption DEF Inv, Types
<1>5. Extends(db, written)'
  BY <1>1, <1>2, ExtendsAppend
<1>6. Inv'
  BY <1>1, <1>4, <1>5 DEF Inv
<1>7. Failed(db)' = Failed(db)
  BY <1>1 DEF Failed, check_block
<1>8. ASSUME NEW h \in Failed(written)'
      PROVE  h \in Failed(written)
  <2>1. /\ h \in DOMAIN m_points /\ h \in Nat /\ h < Len(written) + 1
        /\ ~check_block(h, HashAt(written', h))
    BY <1>1, <1>2, <1>3, <1>8, PointsType DEF Failed, check_block
  <2>2. h # Len(written)
    BY <1>1, <1>3, <2>1 DEF HashAt
  <2>3. h < Len(written) /\ HashAt(written', h) = HashAt(written, h)
    BY <1>2, <1>3, <2>1, <2>2 DEF HashAt
  <2> QED
    BY <2>1, <2>3 DEF Failed
<1> QED
  BY <1>1, <1>6, <1>7, <1>8 DEF Enforced

LEMMA CleanupInv ==
    ASSUME Inv, cleanup_handle_incoming_blocks
    PROVE  Inv' /\ (Enforced => Enforced') /\ Extends(db, db')
<1>1. /\ writer = "blocks" /\ writer' = "none" /\ phase # "check"
      /\ db' \in {written, db} /\ written' = db'
      /\ UNCHANGED <<m_points, m_checkpoints_updating, phase, todo, blockchain_height>>
  BY DEF cleanup_handle_incoming_blocks, updateVars
<1>2. Types'
  BY <1>1 DEF Inv, Types
<1>3. Inv'
  BY <1>1, <1>2 DEF Inv
<1>4. Failed(db)' = Failed(db') /\ Failed(written)' = Failed(db')
  BY <1>1 DEF Failed, check_block
<1>5. Extends(db, db')
  BY <1>1, ExtendsSelf DEF Inv, Types
<1> QED
  BY <1>1, <1>3, <1>4, <1>5 DEF Enforced

LEMMA UpdateInv ==
    ASSUME Inv, NEW json \in Sources, NEW dns \in Sources, update_checkpoints(json, dns)
    PROVE  /\ Inv' /\ Enforced'
           /\ \A h \in DOMAIN m_points : h \in DOMAIN m_points' /\ m_points'[h] = m_points[h]
<1>1. /\ phase = "idle" /\ ~m_checkpoints_updating /\ ~Refused(json, dns)
      /\ m_checkpoints_updating' = TRUE /\ m_points' = Loaded(json, dns) /\ phase' = "loaded"
      /\ UNCHANGED <<todo, blockchain_height, db, writer, written>>
  BY DEF update_checkpoints, blockVars
<1>2. /\ m_points' \in PointTables
      /\ \A h \in DOMAIN m_points : h \in DOMAIN m_points' /\ m_points'[h] = m_points[h]
  BY <1>1, LoadedPoints DEF Inv, Types
<1>3. Types'
  BY <1>1, <1>2 DEF Inv, Types
<1>4. writer # "update"
  BY <1>1 DEF Inv
<1> QED
  BY <1>1, <1>2, <1>3, <1>4 DEF Inv, Enforced

LEMMA StartCheckInv ==
    ASSUME Inv, StartCheck
    PROVE  Inv' /\ Enforced'
<1>1. /\ phase = "loaded" /\ phase' = "check" /\ blockchain_height' = Len(db)
      /\ todo' = DOMAIN m_points /\ UNCHANGED <<db, m_points, m_checkpoints_updating>>
  BY DEF StartCheck
<1>2. /\ writer = "none" => writer' = "update" /\ written' = db
      /\ writer # "none" => UNCHANGED <<writer, written>>
  BY DEF StartCheck
<1>3. writer # "update"
  BY <1>1 DEF Inv
<1>4. Types'
  BY <1>1, <1>2 DEF Inv, Types
<1>5. (writer = "update" => CutOnce)'
  BY <1>1, <1>2, <1>3 DEF CutOnce
<1>6. (writer = "blocks" => Extends(db, written))'
  BY <1>1, <1>2 DEF Inv
<1>7. (writer = "none" => written = db)'
  BY <1>1, <1>2
<1>8. Inv'
  BY <1>1, <1>4, <1>5, <1>6, <1>7 DEF Inv
<1> QED
  BY <1>1, <1>8 DEF Enforced

LEMMA LoopFacts ==
    ASSUME Inv, phase = "check", todo # {}
    PROVE  /\ Min(todo) \in todo /\ Min(todo) \in DOMAIN m_points /\ Min(todo) \in Nat
           /\ \A p \in todo : p \in Nat /\ Min(todo) <= p
           /\ \A p \in DOMAIN m_points : p \in Nat
           /\ \A p \in DOMAIN m_points \ todo, q \in todo : p < q
           /\ blockchain_height = Len(db) /\ todo \subseteq DOMAIN m_points
<1>1. /\ todo \subseteq DOMAIN m_points /\ blockchain_height = Len(db)
      /\ \A p \in DOMAIN m_points \ todo, q \in todo : p < q
  BY DEF Inv
<1>2. DOMAIN m_points \in SUBSET Nat
  BY PointsType DEF Inv, Types
<1>3. todo \in SUBSET Nat
  BY <1>1, <1>2
<1> QED
  BY <1>1, <1>2, <1>3, MinOf

\* One point less, and what the loop has passed stays below what it has not.
LEMMA NextPointOrder ==
    ASSUME Inv, phase = "check", todo # {}, NextPoint
    PROVE  /\ todo' \subseteq DOMAIN m_points' /\ m_points' = m_points
           /\ \A p \in DOMAIN m_points' \ todo', q \in todo' : p < q
           /\ todo' = todo \ {Min(todo)} /\ phase' = "check" /\ blockchain_height' = Len(db')
           /\ UNCHANGED <<db, writer, m_checkpoints_updating>>
           /\ DOMAIN m_points' \ todo' = (DOMAIN m_points \ todo) \cup {Min(todo)}
<1> DEFINE h == Min(todo)
<1>1. /\ todo' = todo \ {h} /\ phase' = "check"
      /\ UNCHANGED <<db, writer, m_points, m_checkpoints_updating, blockchain_height>>
  BY DEF NextPoint
<1>2. /\ h \in todo /\ h \in DOMAIN m_points /\ h \in Nat
      /\ \A p \in todo : p \in Nat /\ h <= p
      /\ \A p \in DOMAIN m_points : p \in Nat
      /\ \A p \in DOMAIN m_points \ todo, q \in todo : p < q
      /\ blockchain_height = Len(db) /\ todo \subseteq DOMAIN m_points
  BY LoopFacts
<1> HIDE DEF h
<1>3. DOMAIN m_points \ todo' = (DOMAIN m_points \ todo) \cup {h}
  BY <1>1, <1>2
<1>4. \A p \in DOMAIN m_points \ todo', q \in todo' : p < q
  <2> SUFFICES ASSUME NEW p \in DOMAIN m_points \ todo', NEW q \in todo'
               PROVE  p < q
    OBVIOUS
  <2>1. q \in todo /\ q # h /\ q \in Nat /\ h <= q
    BY <1>1, <1>2
  <2> QED
    BY <1>2, <1>3, <2>1
<1> QED
  BY <1>1, <1>2, <1>3, <1>4 DEF h

LEMMA PointPassesInv ==
    ASSUME Inv, PointPasses
    PROVE  Inv' /\ (Enforced => Enforced')
<1>0. /\ phase = "check" /\ todo # {} /\ NextPoint /\ written' = written
      /\ \/ Min(todo) >= blockchain_height
         \/ /\ Min(todo) < Len(Seen("update"))
            /\ check_block(Min(todo), HashAt(Seen("update"), Min(todo)))
  BY DEF PointPasses
<1> DEFINE h == Min(todo)
           passed == DOMAIN m_points \ todo
<1>1. /\ h \in todo /\ h \in DOMAIN m_points /\ h \in Nat
      /\ blockchain_height = Len(db) /\ todo \subseteq DOMAIN m_points
      /\ \A p \in passed : p < h
      /\ \A p \in DOMAIN m_points : p \in Nat
  BY <1>0, LoopFacts
<1>2. /\ todo' \subseteq DOMAIN m_points' /\ m_points' = m_points
      /\ \A p \in DOMAIN m_points' \ todo', q \in todo' : p < q
      /\ todo' = todo \ {h} /\ phase' = "check" /\ blockchain_height' = Len(db')
      /\ UNCHANGED <<db, writer, m_checkpoints_updating>>
      /\ DOMAIN m_points' \ todo' = passed \cup {h}
  BY <1>0, NextPointOrder
<1>3. \/ h >= blockchain_height
      \/ h < Len(Seen("update")) /\ check_block(h, HashAt(Seen("update"), h))
  BY <1>0
<1> HIDE DEF h, passed
<1>4. Types'
  BY <1>0, <1>1, <1>2 DEF Inv, Types
<1>5. blockchain_height' = blockchain_height
  BY <1>1, <1>2
<1>6. Failed(db)' = Failed(db) /\ Failed(written)' = Failed(written) /\ Seen("update")' = Seen("update")
      /\ Failed(Seen("update"))' = Failed(Seen("update"))
  BY <1>0, <1>2 DEF Failed, check_block, Seen
<1>7. ASSUME writer = "update"
      PROVE  CutOnce'
  <2>1. CutOnce
    BY <1>0, <1>7 DEF Inv
  <2>2. CASE written = db
    BY <1>0, <1>2, <2>2 DEF CutOnce
  <2>3. CASE \E c \in Failed(db) :
                /\ c >= 2 /\ written = SubSeq(db, 1, c - 2)
                /\ \A p \in DOMAIN m_points \ todo : p > c => p >= Len(db)
                /\ \A p \in todo : p > c
    <3>1. PICK c \in Failed(db) :
                /\ c >= 2 /\ written = SubSeq(db, 1, c - 2)
                /\ \A p \in passed : p > c => p >= Len(db)
                /\ \A p \in todo : p > c
      BY <2>3, Zenon DEF passed
    <3>2. c \in Nat /\ c < Len(db) /\ Len(db) \in Nat
      BY <1>1 DEF Failed, Inv, Types
    <3>3. Len(written) = c - 2
      BY <3>1, <3>2, CutSeq DEF Inv, Types
    <3>4. ~(h < Len(Seen("update")))
      BY <1>1, <1>7, <3>1, <3>2, <3>3 DEF Seen
    <3>5. h >= Len(db)
      BY <1>1, <1>3, <3>4
    <3>6. /\ c \in Failed(db)' /\ c >= 2 /\ written' = SubSeq(db', 1, c - 2)
          /\ \A p \in DOMAIN m_points' \ todo' : p > c => p >= Len(db')
          /\ \A p \in todo' : p > c
      BY <1>0, <1>2, <1>6, <3>1, <3>5
    <3> QED
      BY <3>6, Zenon DEF CutOnce
  <2> QED
    BY <2>1, <2>2, <2>3 DEF CutOnce
<1>8. Inv'
  BY <1>0, <1>2, <1>4, <1>7 DEF Inv
<1>9. ASSUME Enforced
      PROVE  Enforced'
  <2>1. h >= blockchain_height \/ h \notin Failed(Seen("update"))
    BY <1>3 DEF Failed
  <2>2. \A p \in passed : p < 2 \/ p >= blockchain_height \/ p \notin Failed(Seen("update"))
    BY <1>0, <1>9 DEF Enforced, passed
  <2>3. \A p \in DOMAIN m_points' \ todo' : p < 2 \/ p >= blockchain_height' \/ p \notin Failed(Seen("update"))'
    BY <1>2, <1>5, <1>6, <2>1, <2>2
  <2> QED
    BY <1>2, <2>3 DEF Enforced
<1> QED
  BY <1>8, <1>9

\* What a throw leaves: the flag stays set, and with it nothing commits any more.
LEMMA ThrowInv ==
    ASSUME Inv, phase = "check", Throw, written' \in Seq(Hashes), Len(written') \in 1 .. MAX_HEIGHT,
           writer # "update" => written' = written
    PROVE  Inv' /\ Enforced'
<1>1. /\ phase' = "idle" /\ todo' = {}
      /\ UNCHANGED <<db, writer, m_points, m_checkpoints_updating, blockchain_height>>
  BY DEF Throw
<1>2. Types'
  BY <1>1 DEF Inv, Types
<1>3. Inv'
  BY <1>1, <1>2 DEF Inv
<1> QED
  BY <1>1, <1>3 DEF Enforced

LEMMA PointIsGoneInv ==
    ASSUME Inv, PointIsGone
    PROVE  Inv' /\ Enforced'
<1>1. phase = "check" /\ Throw /\ written' = written
  BY DEF PointIsGone
<1>2. written' \in Seq(Hashes) /\ Len(written') \in 1 .. MAX_HEIGHT
  BY <1>1 DEF Inv, Types
<1> QED
  BY <1>1, <1>2, ThrowInv

LEMMA RollBackThrowsInv ==
    ASSUME Inv, RollBackThrows
    PROVE  Inv' /\ Enforced'
<1>1. /\ phase = "check" /\ Throw
      /\ \/ written' = written
         \/ writer = "update" /\ written' = SubSeq(written, 1, 1)
  BY DEF RollBackThrows, PointFails
<1>2. written \in Seq(Hashes) /\ Len(written) \in 1 .. MAX_HEIGHT
  BY DEF Inv, Types
<1>3. 1 \in 0 .. Len(written)
  BY <1>2
<1>4. SubSeq(written, 1, 1) \in Seq(Hashes) /\ Len(SubSeq(written, 1, 1)) = 1
  BY <1>2, <1>3, CutSeq
<1>5. 1 \in 1 .. MAX_HEIGHT
  BY CheckpointsAssumption
<1>6. written' \in Seq(Hashes) /\ Len(written') \in 1 .. MAX_HEIGHT
  <2>1. CASE written' = written
    BY <1>2, <2>1
  <2>2. CASE writer = "update" /\ written' = SubSeq(written, 1, 1)
    BY <1>4, <1>5, <2>2
  <2> QED
    BY <1>1, <2>1, <2>2
<1> QED
  BY <1>1, <1>6, ThrowInv

\* A point that fails cuts the batch two blocks before it, once; below height 2
\* the subtraction wraps and nothing is cut.
LEMMA RollBackInv ==
    ASSUME Inv, RollBack
    PROVE  Inv' /\ (Enforced => Enforced')
<1>0. PICK h \in todo :
        /\ PointFails(h)
        /\ \/ rollback_height(h) > Len(Seen("update")) /\ UNCHANGED written
           \/ /\ rollback_height(h) \in 1 .. Len(Seen("update"))
              /\ writer = "update"
              /\ written' = SubSeq(written, 1, rollback_height(h))
        /\ NextPoint
  BY DEF RollBack
<1> DEFINE passed == DOMAIN m_points \ todo
<1>1. /\ phase = "check" /\ todo # {} /\ h = Min(todo) /\ h < blockchain_height
      /\ h \in Failed(Seen("update"))
  BY <1>0 DEF PointFails
<1>2. /\ h \in DOMAIN m_points /\ h \in Nat
      /\ blockchain_height = Len(db) /\ todo \subseteq DOMAIN m_points
      /\ \A p \in passed : p < h
      /\ \A p \in todo : h <= p
      /\ \A p \in DOMAIN m_points : p \in Nat
  BY <1>1, LoopFacts
<1>3. /\ todo' \subseteq DOMAIN m_points' /\ m_points' = m_points
      /\ \A p \in DOMAIN m_points' \ todo', q \in todo' : p < q
      /\ todo' = todo \ {h} /\ phase' = "check" /\ blockchain_height' = Len(db')
      /\ UNCHANGED <<db, writer, m_checkpoints_updating>>
      /\ DOMAIN m_points' \ todo' = passed \cup {h}
  BY <1>0, <1>1, NextPointOrder
<1> HIDE DEF passed
<1> DEFINE seen == Seen("update")
<1>4. seen \in {written, db} /\ seen \in Seq(Hashes) /\ Len(seen) \in 1 .. MAX_HEIGHT
  BY DEF Seen, Inv, Types
<1>5. h < Len(seen)
  BY <1>1 DEF Failed
<1>6. IF h >= 2 THEN rollback_height(h) = h - 2 ELSE rollback_height(h) > Len(seen)
  BY <1>2, <1>4, <1>5, RollbackHeight
<1> HIDE DEF seen
<1>7. \/ h < 2 /\ written' = written
      \/ h >= 2 /\ h - 2 \in 1 .. Len(seen) /\ writer = "update" /\ written' = SubSeq(written, 1, h - 2)
  <2>1. CASE h < 2
    BY <1>0, <1>2, <1>4, <1>6, <2>1 DEF seen
  <2>2. CASE h >= 2
    BY <1>0, <1>2, <1>4, <1>5, <1>6, <2>2 DEF seen
  <2> QED
    BY <1>2, <2>1, <2>2
<1>8. CASE h >= 2 /\ h - 2 \in 1 .. Len(seen) /\ writer = "update" /\ written' = SubSeq(written, 1, h - 2)
  <2>1. seen = written /\ written \in Seq(Hashes) /\ Len(written) \in 1 .. MAX_HEIGHT
    BY <1>4, <1>8 DEF seen, Seen, Inv, Types
  <2>2. h - 2 \in 0 .. Len(written)
    BY <1>8, <2>1
  <2>3. written' \in Seq(Hashes) /\ Len(written') = h - 2 /\ Extends(written', written)
    BY <1>8, <2>1, <2>2, CutExtends
  <2>4. Types'
    <3>1. h - 2 \in 1 .. MAX_HEIGHT
      BY <1>8, <2>1, CheckpointsAssumption
    <3>2. Len(written') \in 1 .. MAX_HEIGHT
      BY <2>3, <3>1
    <3> QED
      BY <1>2, <1>3, <2>3, <3>2 DEF Inv, Types
  <2>5. written = db
    <3>1. CutOnce
      BY <1>1, <1>8 DEF Inv
    <3>2. ASSUME NEW c \in Failed(db), c >= 2, written = SubSeq(db, 1, c - 2),
                 \A p \in todo : p > c
          PROVE  FALSE
      <4>1. c \in Nat /\ c < Len(db) /\ Len(db) \in Nat /\ db \in Seq(Hashes)
        BY <1>2 DEF Failed, Inv, Types
      <4>2. Len(written) = c - 2
        BY <3>2, <4>1, CutSeq
      <4>3. h > c
        BY <1>0, <3>2
      <4> QED
        BY <1>2, <1>5, <2>1, <4>1, <4>2, <4>3
    <3> QED
      BY <3>1, <3>2 DEF CutOnce
  <2>6. h \in Failed(db)' /\ db' = db
    BY <1>1, <1>3, <1>8, <2>5 DEF Seen, Failed, check_block
  <2>7. \A p \in DOMAIN m_points' \ todo' : ~(p > h)
    BY <1>2, <1>3
  <2>8. \A p \in todo' : p > h
    BY <1>2, <1>3
  <2>9. CutOnce'
    BY <1>8, <2>5, <2>6, <2>7, <2>8 DEF CutOnce
  <2>10. Inv'
    BY <1>1, <1>3, <1>8, <2>4, <2>9 DEF Inv
  <2>11. ASSUME Enforced
         PROVE  Enforced'
    <3>1. Failed(Seen("update"))' = Failed(written') /\ Seen("update") = written
      BY <1>3, <1>8 DEF Failed, check_block, Seen
    <3>2. Failed(written') \subseteq Failed(written)
      BY <2>1, <2>3, FailedOfPrefix DEF Inv, Types
    <3>3. h \notin Failed(written')
      BY <1>2, <2>3 DEF Failed
    <3>4. \A p \in passed : p < 2 \/ p >= blockchain_height \/ p \notin Failed(written)
      BY <1>1, <2>11, <3>1 DEF Enforced, passed
    <3>5. blockchain_height' = blockchain_height
      BY <1>2, <1>3
    <3>6. \A p \in DOMAIN m_points' \ todo' : p < 2 \/ p >= blockchain_height' \/ p \notin Failed(Seen("update"))'
      BY <1>3, <3>1, <3>2, <3>3, <3>4, <3>5
    <3> QED
      BY <1>3, <3>6 DEF Enforced
  <2> QED
    BY <2>10, <2>11
<1>9. CASE h < 2 /\ written' = written
  <2>1. Types'
    BY <1>2, <1>3, <1>9 DEF Inv, Types
  <2>2. ASSUME writer = "update"
        PROVE  CutOnce'
    <3>1. CutOnce
      BY <1>1, <2>2 DEF Inv
    <3>2. written = db
      <4>1. ASSUME NEW c \in Failed(db), c >= 2, \A p \in todo : p > c
            PROVE  FALSE
        <5>1. c \in Nat /\ h > c
          BY <1>0, <1>2, <4>1 DEF Failed
        <5> QED
          BY <1>2, <1>9, <4>1, <5>1
      <4> QED
        BY <3>1, <4>1 DEF CutOnce
    <3> QED
      BY <1>3, <1>9, <3>2 DEF CutOnce
  <2>3. Inv'
    BY <1>1, <1>3, <1>9, <2>1, <2>2 DEF Inv
  <2>4. ASSUME Enforced
        PROVE  Enforced'
    <3>1. Failed(Seen("update"))' = Failed(Seen("update"))
      BY <1>3, <1>9 DEF Failed, check_block, Seen
    <3>2. \A p \in passed : p < 2 \/ p >= blockchain_height \/ p \notin Failed(Seen("update"))
      BY <1>1, <2>4 DEF Enforced, passed
    <3>3. blockchain_height' = blockchain_height
      BY <1>2, <1>3
    <3>4. \A p \in DOMAIN m_points' \ todo' : p < 2 \/ p >= blockchain_height' \/ p \notin Failed(Seen("update"))'
      BY <1>3, <1>9, <3>1, <3>2, <3>3
    <3> QED
      BY <1>3, <3>4 DEF Enforced
  <2> QED
    BY <2>3, <2>4
<1> QED
  BY <1>7, <1>8, <1>9

LEMMA FinishCheckInv ==
    ASSUME Inv, FinishCheck
    PROVE  /\ Inv' /\ (Enforced => Enforced')
           /\ \/ Extends(db, db')
              \/ \E h \in Failed(db) :
                    /\ db' = SubSeq(db, 1, h - 2)
                    /\ \A p \in DOMAIN m_points : p > h => p >= Len(db)
<1>1. /\ phase = "check" /\ todo = {} /\ phase' = "done" /\ db' = Seen("update")
      /\ UNCHANGED <<written, m_points, m_checkpoints_updating, todo, blockchain_height>>
  BY DEF FinishCheck
<1>2. writer = "update" => writer' = "none" /\ db' = written
  BY DEF FinishCheck, Seen
<1>3. writer # "update" => writer' = writer /\ db' = db
  BY DEF FinishCheck, Seen
<1>4. Types'
  BY <1>1, <1>2, <1>3 DEF Inv, Types
<1>5. Inv'
  BY <1>1, <1>2, <1>3, <1>4 DEF Inv
<1>6. Extends(db, db)
  BY ExtendsSelf DEF Inv, Types
<1>7. \/ Extends(db, db')
      \/ \E h \in Failed(db) :
            /\ db' = SubSeq(db, 1, h - 2)
            /\ \A p \in DOMAIN m_points : p > h => p >= Len(db)
  <2>1. CASE writer # "update"
    BY <1>3, <1>6, <2>1
  <2>2. CASE writer = "update"
    <3>1. CutOnce
      BY <1>1, <2>2 DEF Inv
    <3> QED
      BY <1>1, <1>2, <1>6, <2>2, <3>1 DEF CutOnce
  <2> QED
    BY <2>1, <2>2
<1>8. ASSUME Enforced
      PROVE  Enforced'
  <2>1. \A p \in DOMAIN m_points : p < 2 \/ p >= blockchain_height \/ p \notin Failed(Seen("update"))
    BY <1>1, <1>8 DEF Enforced
  <2>2. Failed(db)' = Failed(Seen("update")) /\ Failed(written)' = Failed(written)
    BY <1>1 DEF Failed, check_block
  <2>3. \A p \in Failed(Seen("update")) : p \in DOMAIN m_points /\ (p < 2 \/ p >= blockchain_height)
    BY <2>1 DEF Failed
  <2>4. \A p \in Failed(written) : p < 2 \/ p >= blockchain_height
    <3>1. CASE writer = "update"
      BY <2>3, <3>1 DEF Seen
    <3>2. CASE writer # "update" /\ written = db
      BY <2>3, <3>2 DEF Seen
    <3>3. CASE writer # "update" /\ Extends(db, written)
      <4>1. blockchain_height = Len(db) /\ m_points \in PointTables /\ Len(db) \in Nat
        BY <1>1 DEF Inv, Types
      <4>2. \A p \in Failed(written) : p < Len(db) => p \in Failed(db)
        BY <3>3, FailedOfPrefix DEF Inv, Types
      <4>3. \A p \in Failed(written) : p \in Nat
        BY <4>1, PointsType DEF Failed
      <4> QED
        BY <2>3, <3>3, <4>1, <4>2, <4>3 DEF Seen
    <3>4. writer \in {"none", "blocks", "update"}
      BY DEF Inv, Types
    <3> QED
      BY <3>1, <3>2, <3>3, <3>4 DEF Inv
  <2> QED
    BY <1>1, <2>2, <2>3, <2>4 DEF Enforced
<1> QED
  BY <1>5, <1>7, <1>8

LEMMA FinishUpdateInv ==
    ASSUME Inv, FinishUpdate
    PROVE  Inv' /\ Enforced'
<1>1. Types'
  BY Zenon DEF Inv, Types, FinishUpdate, blockVars
<1> QED
  BY <1>1 DEF FinishUpdate, blockVars, Inv, Enforced

LEMMA StutterInv ==
    ASSUME Inv, UNCHANGED vars
    PROVE  Inv' /\ (Enforced => Enforced')
<1>1. Inv'
  BY DEF Inv, Types, CutOnce, Failed, check_block, vars
<1>2. Enforced => Enforced'
  BY SMTT(20), Zenon DEF Enforced, Failed, check_block, Seen, vars
<1> QED
  BY <1>1, <1>2

-----------------------------------------------------------------------------
(* The theorems.                                                           *)

\* A step keeps Inv; what is committed and the points change as they should.
LEMMA NextInv ==
    ASSUME Inv, [Next]_vars
    PROVE  /\ Inv'
           /\ (Enforced => Enforced')
           /\ \A h \in DOMAIN m_points \cap DOMAIN m_points' : m_points'[h] = m_points[h]
           /\ \/ Extends(db, db')
              \/ \E h \in Failed(db) :
                    /\ db' = SubSeq(db, 1, h - 2)
                    /\ \A p \in DOMAIN m_points : p > h => p >= Len(db)
<1>0. Extends(db, db)
  BY ExtendsSelf DEF Inv, Types
<1>1. CASE prepare_handle_incoming_blocks
  <2>1. UNCHANGED <<db, m_points>>
    BY <1>1 DEF prepare_handle_incoming_blocks, updateVars
  <2> QED
    BY <1>0, <1>1, <2>1, PrepareInv
<1>2. CASE \E hash \in Hashes : AddBlock(hash)
  <2>1. UNCHANGED <<db, m_points>>
    BY <1>2 DEF AddBlock, updateVars
  <2> QED
    BY <1>0, <1>2, <2>1, AddBlockInv
<1>3. CASE cleanup_handle_incoming_blocks
  <2>1. UNCHANGED m_points
    BY <1>3 DEF cleanup_handle_incoming_blocks, updateVars
  <2> QED
    BY <1>3, <2>1, CleanupInv
<1>4. CASE \E json, dns \in Sources : update_checkpoints(json, dns)
  <2>1. UNCHANGED db
    BY <1>4 DEF update_checkpoints, blockVars
  <2> QED
    BY <1>0, <1>4, <2>1, UpdateInv
<1>5. CASE Reset \/ \E json, dns \in Sources : ExitOnConflict(json, dns)
  <2>1. Reset
    BY <1>5 DEF ExitOnConflict
  <2>2. db' = db /\ m_points' = Compiled
    BY <2>1 DEF Reset
  <2>3. \A h \in DOMAIN m_points \cap DOMAIN m_points' : m_points'[h] = m_points[h]
    BY <2>2 DEF Inv
  <2> QED
    BY <1>0, <2>1, <2>2, <2>3, ResetInv
<1>6. CASE StartCheck
  <2>1. UNCHANGED <<db, m_points>>
    BY <1>6 DEF StartCheck
  <2> QED
    BY <1>0, <1>6, <2>1, StartCheckInv
<1>7. CASE PointPasses
  <2>1. UNCHANGED <<db, m_points>>
    BY <1>7 DEF PointPasses, NextPoint
  <2> QED
    BY <1>0, <1>7, <2>1, PointPassesInv
<1>8. CASE PointIsGone
  <2>1. UNCHANGED <<db, m_points>>
    BY <1>8 DEF PointIsGone, Throw
  <2> QED
    BY <1>0, <1>8, <2>1, PointIsGoneInv
<1>9. CASE RollBack
  <2>1. UNCHANGED <<db, m_points>>
    BY <1>9 DEF RollBack, NextPoint
  <2> QED
    BY <1>0, <1>9, <2>1, RollBackInv
<1>10. CASE RollBackThrows
  <2>1. UNCHANGED <<db, m_points>>
    BY <1>10 DEF RollBackThrows, Throw
  <2> QED
    BY <1>0, <1>10, <2>1, RollBackThrowsInv
<1>11. CASE FinishCheck
  <2>1. UNCHANGED m_points
    BY <1>11 DEF FinishCheck
  <2> QED
    BY <1>11, <2>1, FinishCheckInv
<1>12. CASE FinishUpdate
  <2>1. UNCHANGED <<db, m_points>>
    BY <1>12 DEF FinishUpdate, blockVars
  <2> QED
    BY <1>0, <1>12, <2>1, FinishUpdateInv
<1>13. CASE UNCHANGED vars
  <2>1. UNCHANGED <<db, m_points>>
    BY <1>13 DEF vars
  <2> QED
    BY <1>0, <1>13, <2>1, StutterInv
<1> QED
  BY <1>1, <1>2, <1>3, <1>4, <1>5, <1>6, <1>7, <1>8, <1>9, <1>10, <1>11, <1>12, <1>13, Zenon
     DEF Next, Check

LEMMA Invariance == Spec => []Inv
<1>1. Init => Inv
  BY InitInv
<1>2. Inv /\ [Next]_vars => Inv'
  BY NextInv
<1> QED
  BY <1>1, <1>2, PTL DEF Spec

\* add_checkpoint never gives a height another hash, whatever the order in which
\* the compiled-in points, checkpoints.json and the DNS answers bring it: the
\* file's heights are above all that are known, and a DNS answer that contradicts
\* a point ends the daemon.
THEOREM PointsAreFinal == Spec => PointsKeepTheirHash
<1>1. Inv /\ [Next]_vars =>
        [\A h \in DOMAIN m_points \cap DOMAIN m_points' : m_points'[h] = m_points[h]]_vars
  BY NextInv
<1> QED
  BY <1>1, Invariance, PTL DEF Spec, PointsKeepTheirHash

\* check_against_checkpoints and the thread that adds blocks never undo what the
\* other has committed: a commit extends the chain, or cuts it two blocks before
\* a failed checkpoint that is the highest the chain reaches.
THEOREM HistoryIsCommitted == Spec => CommittedHistory
<1>1. Inv /\ [Next]_vars =>
        [\/ Len(db') >= Len(db) /\ SubSeq(db', 1, Len(db)) = db
         \/ \E h \in Failed(db) :
              /\ db' = SubSeq(db, 1, h - 2)
              /\ \A p \in DOMAIN m_points : p > h => p >= Len(db)]_vars
  BY NextInv DEF Extends
<1> QED
  BY <1>1, Invariance, PTL DEF Spec, CommittedHistory

\* When check_against_checkpoints has returned, no block committed before it began
\* fails a checkpoint, except one at height 0 or 1: there pt.first - 2 wraps around
\* and rollback_blockchain_switching does nothing.  The chain it finds may be any.
THEOREM PointsAreEnforced == Spec => []EnforcedWhenDone
<1>1. Init => Enforced
  BY InitInv
<1>2. Inv /\ Enforced /\ [Next]_vars => Enforced'
  BY NextInv
<1>3. Enforced => EnforcedWhenDone
  BY DEF Enforced, EnforcedWhenDone
<1> QED
  BY <1>1, <1>2, <1>3, Invariance, PTL DEF Spec
=============================================================================
