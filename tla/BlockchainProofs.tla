-------------------------- MODULE BlockchainProofs --------------------------
(***************************************************************************)
(* What holds of the main chain for every tree of blocks: its blocks are   *)
(* sound and respect the checkpoints at any point of a switch, a switch    *)
(* that fails ends where it began, blocks known as invalid stay off, and   *)
(* seen from outside of the batch only better chains appear.               *)
(***************************************************************************)
EXTENDS Blockchain, TLAPS

Phases == {"disconnect", "connect", "rollback", "restore", "failed", "push", "finish", "thrown"}

SwitchUnderWay ==
    [phase : Phases, old : Blocks, to : Blocks, split : Nat, next : Nat, failed : Nat,
     discard : BOOLEAN]

OpenBatch == [open : {TRUE}, tip : Blocks, alt : SUBSET Blocks, pool : SUBSET Txs]

\* Types: a switch only runs in a batch.
TypeOK ==
    /\ tip \in Blocks /\ alt \subseteq Blocks /\ pool \subseteq Txs
    /\ switch = NoSwitch \/ switch \in SwitchUnderWay
    /\ batch = NoBatch \/ batch \in OpenBatch
    /\ switch # NoSwitch => batch # NoBatch
    /\ torn \in BOOLEAN

\* All blocks on the way to a block are sound.
SoundTo(b) == \A c \in Range(Path[b]) \ {Genesis} : Sound(c)

\* A main chain and alternative blocks that the database may hold between switches;
\* only if a rollback was cut short do they overlap.
Consistent(top, alts, overlap) ==
    /\ SoundTo(top)
    /\ \A b \in alts : check_block(b)
    /\ ~overlap => Range(Path[top]) \cap alts = {}

\* The two chains of a switch agree below its split, the new one consists of
\* alternative blocks from there on, and it has every checkpoint of the old one.
Forks ==
    /\ switch.split \in 1 .. Height(switch.old)
    /\ switch.split \in 1 .. Height(switch.to)
    /\ At(switch.old, switch.split - 1) = At(switch.to, switch.split - 1)
    /\ BlocksFrom(switch.to, switch.split) \subseteq alt
    /\ SoundTo(switch.old)
    /\ \A h \in DOMAIN Checkpoints :
          h \in switch.split .. Height(switch.old) =>
              h < Height(switch.to) /\ At(switch.old, h) = At(switch.to, h)
    /\ switch.discard = IsCheckpoint(switch.to)
    /\ switch.discard => Height(switch.old) < Height(switch.to)
    /\ ~switch.discard => Work[switch.old] < Work[switch.to]

\* Where the top is in each loop of a switch.
Placed ==
    /\ switch.phase = "disconnect" =>
          tip \in Range(Path[switch.old]) /\ switch.split <= Height(tip) /\ switch.next = switch.split
          /\ switch.failed = 0
    /\ switch.phase = "connect" =>
          switch.next \in switch.split .. Height(switch.to) /\ tip = At(switch.to, switch.next - 1)
    /\ switch.phase = "rollback" =>
          tip \in Range(Path[switch.to]) /\ switch.split <= Height(tip) /\ switch.next = switch.split
          /\ Height(tip) < switch.failed
    /\ switch.phase = "restore" =>
          switch.next \in switch.split .. Height(switch.old) /\ tip = At(switch.old, switch.next - 1)
    /\ switch.phase = "failed" => tip \in Range(Path[switch.old])
    /\ switch.phase \in {"rollback", "restore", "failed"} =>
          switch.failed \in switch.split .. Height(switch.to)
    /\ switch.phase = "push" =>
          switch.next \in switch.split .. Height(switch.old) /\ tip = switch.to /\ ~switch.discard
    /\ switch.phase = "finish" => tip = switch.to
    /\ switch.phase = "thrown" =>
          \/ tip \in Range(Path[switch.old])
          \/ tip \in Range(Path[switch.to]) /\ switch.failed # 0

\* The alternative blocks are none of the old chain's, until those are pushed, and
\* never any that both chains share, if no rollback was cut short before.
AltApart ==
    ~torn => /\ switch.phase \notin {"push", "finish"} => Range(Path[switch.old]) \cap alt = {}
             /\ Range(Path[At(switch.old, switch.split - 1)]) \cap alt = {}

Inv ==
    /\ TypeOK
    /\ SoundTo(tip) /\ \A b \in alt : check_block(b)
    /\ switch = NoSwitch /\ ~torn => Range(Path[tip]) \cap alt = {}
    /\ batch.open => Consistent(batch.tip, batch.alt, torn)
    /\ switch # NoSwitch => Forks /\ Placed /\ AltApart

\* Nothing is lost during a switch, and one that fails ends where it began.
Kept ==
    /\ switch # NoSwitch => TxsIn(Range(Path[switch.old])) \subseteq pool \cup TxsIn(Range(Path[tip]))
    /\ switch.phase = "failed" => tip = switch.old

\* b may follow a in the database: it is a or better, and has all its checkpoints.
MayFollow(a, b) ==
    /\ \/ a = b
       \/ Work[a] < Work[b]
       \/ \E h \in DOMAIN Checkpoints : Selection!Passes(b, h) /\ ~Selection!Passes(a, h)
    /\ \A h \in DOMAIN Checkpoints : Selection!Passes(a, h) => Selection!Passes(b, h)

\* The chain that a batch has reached may follow the one it began with.
BatchAdvances ==
    batch.open => MayFollow(batch.tip, IF switch = NoSwitch THEN tip ELSE switch.old)

\* The block a switch failed at cannot come back with the old chain, if it is one of
\* its blocks: a transaction of it is missing from the pool.
Stuck ==
    LET b == At(switch.to, switch.failed)
    IN  b \in Range(Path[switch.old]) =>
            Height(tip) < switch.failed /\ \E t \in Range(TxsOf[b]) : t \notin pool

\* What is invalid is not on the main chain and not on the one to go back to, and an
\* alternative block only if no switch can ever connect it.
InvalidApart ==
    /\ Range(Path[tip]) \cap invalid = {}
    /\ \A b \in alt \cap invalid : ~Sound(b)
    /\ switch # NoSwitch => Range(Path[switch.old]) \cap invalid = {}
    /\ switch.phase \in {"rollback", "restore", "failed"} => Stuck

-----------------------------------------------------------------------------
(* The tree of blocks.                                                     *)

\* The blocks on the way to a block, by their heights.
LEMMA Tree ==
    ASSUME NEW b \in Blocks
    PROVE  /\ Height(b) \in Nat
           /\ At(b, 0) = Genesis /\ At(b, Height(b)) = b
           /\ \A h \in 0 .. Height(b) :
                 /\ At(b, h) \in Blocks /\ Height(At(b, h)) = h
                 /\ \A k \in 0 .. h : At(At(b, h), k) = At(b, k)
                 /\ \A k \in 0 .. (h - 1) : Work[At(b, k)] < Work[At(b, h)]
           /\ Range(Path[b]) = {At(b, h) : h \in 0 .. Height(b)}
           /\ b # Genesis => Height(b) > 0
<1>1. /\ Path[b] \in Seq(Blocks) /\ Path[b] # << >>
      /\ DOMAIN Path[b] = 1 .. Len(Path[b]) /\ Len(Path[b]) \in Nat
  BY BlockchainAssumption
<1>2. Len(Path[b]) > 0
  BY <1>1
<1>3. Height(b) \in Nat /\ Len(Path[b]) = Height(b) + 1
  BY <1>1, <1>2 DEF Height
<1>4. At(b, 0) = Genesis /\ At(b, Height(b)) = b
  BY BlockchainAssumption
<1>5. ASSUME NEW h \in 0 .. Height(b)
      PROVE  /\ At(b, h) \in Blocks /\ Height(At(b, h)) = h
             /\ \A k \in 0 .. h : At(At(b, h), k) = At(b, k)
             /\ \A k \in 0 .. (h - 1) : Work[At(b, k)] < Work[At(b, h)]
  <2>1. h + 1 \in DOMAIN Path[b] /\ h \in Nat
    BY <1>1, <1>3
  <2>2. At(b, h) \in Blocks
    BY <1>1, <2>1 DEF At
  <2>3. Path[At(b, h)] = SubSeq(Path[b], 1, h + 1)
    BY <2>1, BlockchainAssumption, Zenon DEF At
  <2>4. /\ Len(SubSeq(Path[b], 1, h + 1)) = h + 1
        /\ \A i \in 1 .. (h + 1) : SubSeq(Path[b], 1, h + 1)[i] = Path[b][i]
    BY <1>1, <1>3, <2>1
  <2>5. Height(At(b, h)) = h
    BY <2>1, <2>3, <2>4 DEF Height
  <2>6. \A k \in 0 .. h : At(At(b, h), k) = At(b, k)
    <3> TAKE k \in 0 .. h
    <3>1. k + 1 \in 1 .. (h + 1)
      BY <2>1
    <3> QED
      BY <2>3, <2>4, <3>1 DEF At
  <2>7. \A k \in 0 .. (h - 1) : Work[At(b, k)] < Work[At(b, h)]
    <3> TAKE k \in 0 .. (h - 1)
    <3>1. k + 1 \in DOMAIN Path[b] /\ k + 1 < h + 1
      BY <1>1, <1>3, <2>1
    <3> QED
      BY <2>1, <3>1, BlockchainAssumption, Zenon DEF At
  <2> QED
    BY <2>2, <2>5, <2>6, <2>7
<1>6. Range(Path[b]) = {At(b, h) : h \in 0 .. Height(b)}
  <2>1. \A h \in 0 .. Height(b) : h + 1 \in DOMAIN Path[b]
    BY <1>1, <1>3
  <2>2. \A i \in DOMAIN Path[b] : i - 1 \in 0 .. Height(b) /\ (i - 1) + 1 = i
    BY <1>1, <1>3
  <2> QED
    BY <2>1, <2>2 DEF Range, At
<1>7. b # Genesis => Height(b) > 0
  BY <1>3, <1>4
<1> QED
  BY <1>3, <1>4, <1>5, <1>6, <1>7

\* A block on the way to another one.
LEMMA OnPath ==
    ASSUME NEW b \in Blocks, NEW c \in Range(Path[b])
    PROVE  /\ c \in Blocks /\ Height(c) \in 0 .. Height(b) /\ At(b, Height(c)) = c
           /\ \A k \in 0 .. Height(c) : At(c, k) = At(b, k)
           /\ Range(Path[c]) \subseteq Range(Path[b])
           /\ c # b => Height(c) < Height(b) /\ Work[c] < Work[b]
<1>1. PICK h \in 0 .. Height(b) : c = At(b, h)
  BY Tree
<1>2. c \in Blocks /\ Height(c) = h /\ \A k \in 0 .. h : At(c, k) = At(b, k)
  BY <1>1, Tree
<1>3. Height(b) \in Nat
  BY Tree
<1>4. Range(Path[c]) \subseteq Range(Path[b])
  <2>1. Range(Path[c]) = {At(c, k) : k \in 0 .. h} /\ Range(Path[b]) = {At(b, k) : k \in 0 .. Height(b)}
    BY <1>2, Tree, Zenon
  <2> QED
    BY <1>2, <1>3, <2>1
<1>5. c # b => Height(c) < Height(b) /\ Work[c] < Work[b]
  <2> SUFFICES ASSUME c # b PROVE Height(c) < Height(b) /\ Work[c] < Work[b]
    OBVIOUS
  <2>1. h # Height(b) /\ At(b, Height(b)) = b
    BY <1>1, Tree
  <2>2. h \in 0 .. (Height(b) - 1) /\ Height(b) \in 0 .. Height(b)
    BY <1>3, <2>1
  <2>3. Work[At(b, h)] < Work[At(b, Height(b))]
    BY <2>2, Tree
  <2> QED
    BY <1>1, <1>2, <1>3, <2>1, <2>2, <2>3
<1> QED
  BY <1>1, <1>2, <1>3, <1>4, <1>5

LEMMA TopOfBranch == ASSUME NEW b \in Blocks PROVE Height(b) \in Nat /\ At(b, Height(b)) = b
BY Tree

LEMMA NextOnBranch ==
    ASSUME NEW b \in Blocks, NEW split \in 1 .. Height(b), NEW next \in split .. Height(b)
    PROVE  next \in 1 .. Height(b) /\ next \in next .. Height(b)
<1>1. Height(b) \in Nat
  BY TopOfBranch
<1> QED
  BY <1>1

LEMMA SamePrefix ==
    ASSUME NEW b \in Blocks, NEW h \in 0 .. Height(b), NEW k \in 0 .. h
    PROVE  At(At(b, h), k) = At(b, k)
BY Tree

LEMMA AncestorOnPath ==
    ASSUME NEW b \in Blocks, NEW h \in 0 .. Height(b), NEW k \in 0 .. h
    PROVE  At(b, k) \in Range(Path[At(b, h)])
<1>1. At(b, h) \in Blocks /\ Height(At(b, h)) = h /\ At(At(b, h), k) = At(b, k)
  BY Tree
<1>2. Range(Path[At(b, h)]) = {At(At(b, h), i) : i \in 0 .. h}
  BY <1>1, Tree, Zenon
<1> QED
  BY <1>1, <1>2, Zenon

LEMMA GenesisHeight == Genesis \in Blocks /\ Height(Genesis) = 0
<1>1. Genesis \in Blocks
  BY BlockchainAssumption
<1>2. At(Genesis, 0) = Genesis /\ Height(Genesis) \in Nat
  BY <1>1, Tree
<1>3. Height(At(Genesis, 0)) = 0
  BY <1>1, <1>2, Tree
<1> QED
  BY <1>1, <1>2, <1>3

LEMMA GenesisOnPath == ASSUME NEW b \in Blocks PROVE Genesis \in Range(Path[b])
<1>1. 0 \in 0 .. Height(b) /\ At(b, 0) = Genesis
  BY Tree
<1> QED
  BY <1>1, Tree, Zenon

\* The block below the top of a chain.
LEMMA ParentBelow ==
    ASSUME NEW b \in Blocks, b # Genesis
    PROVE  /\ Parent(b) \in Blocks /\ Height(Parent(b)) = Height(b) - 1
           /\ Parent(b) \in Range(Path[b])
           /\ Range(Path[b]) = Range(Path[Parent(b)]) \cup {b}
           /\ b \notin Range(Path[Parent(b)])
           /\ \A h \in 0 .. (Height(b) - 1) : At(Parent(b), h) = At(b, h)
           /\ Work[Parent(b)] < Work[b]
<1> DEFINE n == Height(b) - 1
<1>1. Height(b) \in Nat /\ Height(b) > 0 /\ n \in 0 .. Height(b) /\ At(b, Height(b)) = b
  BY Tree
<1>2. Parent(b) = At(b, n)
  BY DEF Parent
<1>3. Parent(b) \in Blocks /\ Height(Parent(b)) = n /\ \A h \in 0 .. n : At(Parent(b), h) = At(b, h)
  BY <1>1, <1>2, Tree
<1>4. /\ Range(Path[b]) = {At(b, h) : h \in 0 .. Height(b)}
      /\ Range(Path[Parent(b)]) = {At(Parent(b), h) : h \in 0 .. n}
  BY <1>3, Tree, Zenon
<1>5. 0 .. Height(b) = (0 .. n) \cup {Height(b)}
  BY <1>1
<1>6. Range(Path[b]) = Range(Path[Parent(b)]) \cup {b} /\ Parent(b) \in Range(Path[b])
  BY <1>1, <1>2, <1>3, <1>4, <1>5
<1>7. b \notin Range(Path[Parent(b)])
  <2>1. \A c \in Range(Path[Parent(b)]) : Height(c) \in 0 .. n
    BY <1>3, OnPath
  <2> QED
    BY <1>1, <2>1
<1>8. Work[Parent(b)] < Work[b]
  <2>1. n \in 0 .. (Height(b) - 1) /\ Height(b) \in 0 .. Height(b)
    BY <1>1
  <2>2. Work[At(b, n)] < Work[At(b, Height(b))]
    BY <2>1, Tree
  <2> QED
    BY <1>1, <1>2, <2>2
<1> QED
  BY <1>1, <1>3, <1>6, <1>7, <1>8

\* A step up on the way to a block, and the part of the way above a height.
LEMMA StepUp ==
    ASSUME NEW b \in Blocks, NEW h \in 1 .. Height(b)
    PROVE  /\ At(b, h) \in Blocks /\ At(b, h) # Genesis /\ Height(At(b, h)) = h
           /\ At(b, h - 1) \in Blocks /\ Height(At(b, h - 1)) = h - 1
           /\ Parent(At(b, h)) = At(b, h - 1)
           /\ At(b, h) \in Range(Path[b]) /\ At(b, h - 1) \in Range(Path[b])
           /\ Range(Path[b]) = Range(Path[At(b, h - 1)]) \cup BlocksFrom(b, h)
           /\ BlocksFrom(b, h) \cap Range(Path[At(b, h - 1)]) = {}
           /\ At(b, h) \in BlocksFrom(b, h) /\ At(b, h) \notin Range(Path[At(b, h - 1)])
<1>1. Height(b) \in Nat /\ h \in 0 .. Height(b) /\ h - 1 \in 0 .. Height(b) /\ h - 1 \in 0 .. h
      /\ h \in Nat
  BY Tree
<1>2. /\ At(b, h) \in Blocks /\ Height(At(b, h)) = h /\ At(At(b, h), h - 1) = At(b, h - 1)
      /\ At(b, h - 1) \in Blocks /\ Height(At(b, h - 1)) = h - 1
      /\ \A k \in 0 .. (h - 1) : At(At(b, h - 1), k) = At(b, k)
  BY <1>1, Tree
<1>3. At(b, h) # Genesis
  BY <1>1, <1>2, GenesisHeight
<1>4. Parent(At(b, h)) = At(b, h - 1)
  BY <1>2 DEF Parent
<1>5. /\ Range(Path[b]) = {At(b, k) : k \in 0 .. Height(b)}
      /\ Range(Path[At(b, h - 1)]) = {At(At(b, h - 1), k) : k \in 0 .. (h - 1)}
  BY <1>2, Tree, Zenon
<1>6. 0 .. Height(b) = (0 .. (h - 1)) \cup (h .. Height(b))
  BY <1>1
<1>7. Range(Path[b]) = Range(Path[At(b, h - 1)]) \cup BlocksFrom(b, h)
  BY <1>2, <1>5, <1>6 DEF BlocksFrom
<1>8. BlocksFrom(b, h) \cap Range(Path[At(b, h - 1)]) = {}
  <2>1. \A c \in Range(Path[At(b, h - 1)]) : Height(c) \in 0 .. (h - 1)
    BY <1>2, OnPath
  <2>2. \A k \in h .. Height(b) : Height(At(b, k)) = k /\ k \notin 0 .. (h - 1)
    BY <1>1, Tree
  <2> QED
    BY <2>1, <2>2 DEF BlocksFrom
<1>9. At(b, h) \in Range(Path[b]) /\ At(b, h - 1) \in Range(Path[b])
  BY <1>1, <1>5
<1>10. At(b, h) \in BlocksFrom(b, h)
  BY <1>1 DEF BlocksFrom
<1> QED
  BY <1>2, <1>3, <1>4, <1>7, <1>8, <1>9, <1>10

LEMMA BelowStep ==
    ASSUME NEW b \in Blocks, NEW h \in 1 .. Height(b), NEW c \in Range(Path[b]), Height(c) < h
    PROVE  c \in Range(Path[Parent(At(b, h))])
<1>1. /\ Range(Path[b]) = Range(Path[At(b, h - 1)]) \cup BlocksFrom(b, h)
      /\ Parent(At(b, h)) = At(b, h - 1)
  BY StepUp
<1>2. c \notin BlocksFrom(b, h)
  <2>1. ASSUME NEW k \in h .. Height(b), c = At(b, k) PROVE FALSE
    <3>1. Height(b) \in Nat /\ k \in 0 .. Height(b)
      BY TopOfBranch
    <3>2. Height(c) = k
      BY <2>1, <3>1, Tree
    <3> QED
      BY <3>1, <3>2
  <2> QED
    BY <2>1 DEF BlocksFrom
<1> QED
  BY <1>1, <1>2

-----------------------------------------------------------------------------
(* Every block of the main chain is sound.                                 *)

\* A block that handle_block_to_main_chain accepts is sound on top of a sound chain.
LEMMA AcceptedIsSound ==
    ASSUME tip \in Blocks, SoundTo(tip), NEW b \in Blocks, b # Genesis, Accepted(b)
    PROVE  /\ SoundTo(b) /\ Parent(b) = tip /\ check_block(b)
           /\ Range(Path[b]) = Range(Path[tip]) \cup {b}
<1>1. Parent(b) = tip /\ b \in HeaderOK \cap RewardOK /\ check_block(b) /\ ~SpendsTwice(b)
  BY DEF Accepted, ReachesDatabase, Prevalidated
<1>2. Range(Path[b]) = Range(Path[tip]) \cup {b}
  BY <1>1, ParentBelow
<1>3. \A i \in DOMAIN TxsOf[b] : TxFine(b, i)
  BY DEF Accepted, ReachesDatabase
<1>4. \A t \in Range(TxsOf[b]) :
         /\ t \notin TxsIn(Range(Path[tip]))
         /\ KeyImages[t] \cap ImagesOf(TxsIn(Range(Path[tip]))) = {}
         /\ Needs[t] \subseteq Range(Path[tip])
  <2> SUFFICES ASSUME NEW i \in DOMAIN TxsOf[b]
               PROVE  /\ TxsOf[b][i] \notin TxsIn(Range(Path[tip]))
                      /\ KeyImages[TxsOf[b][i]] \cap ImagesOf(TxsIn(Range(Path[tip]))) = {}
                      /\ Needs[TxsOf[b][i]] \subseteq Range(Path[tip])
    BY Zenon DEF Range
  <2> QED
    BY <1>3 DEF TxFine, Unavailable, check_tx_inputs, MainChain
<1>5. \A i, j \in DOMAIN TxsOf[b] : TxsOf[b][i] = TxsOf[b][j] => i = j
  <2>1. DOMAIN TxsOf[b] \subseteq Int /\ \A i \in DOMAIN TxsOf[b] : i >= 1
    <3>1. TxsOf[b] \in Seq(Txs)
      BY BlockchainAssumption
    <3> QED
      BY <3>1
  <2>2. \A i, j \in DOMAIN TxsOf[b] : j < i => TxsOf[b][i] # TxsOf[b][j]
    BY <1>3, <2>1 DEF TxFine, Unavailable
  <2> QED
    BY <2>1, <2>2
<1>6. Sound(b)
  BY <1>1, <1>4, <1>5 DEF Sound
<1> QED
  BY <1>1, <1>2, <1>6 DEF SoundTo

\* So is what is left when blocks are taken off the top.
LEMMA SoundBelow ==
    ASSUME NEW b \in Blocks, SoundTo(b), NEW c \in Range(Path[b])
    PROVE  SoundTo(c)
BY OnPath DEF SoundTo

\* A sound chain has every checkpoint up to its height.
LEMMA SoundHasCheckpoints ==
    ASSUME NEW b \in Blocks, SoundTo(b), NEW h \in DOMAIN Checkpoints, h <= Height(b)
    PROVE  At(b, h) = Checkpoints[h]
<1>1. h \in 0 .. Height(b)
  BY Tree, BlockchainAssumption
<1>2. At(b, h) \in Range(Path[b]) /\ Height(At(b, h)) = h
  BY <1>1, Tree
<1>3. CASE h = 0
  BY <1>3, Tree, BlockchainAssumption
<1>4. CASE h # 0
  <2>1. At(b, h) # Genesis
    BY <1>2, <1>4, GenesisHeight
  <2>2. Sound(At(b, h))
    BY <1>2, <2>1 DEF SoundTo
  <2> QED
    BY <1>2, <2>2 DEF Sound, check_block
<1> QED
  BY <1>3, <1>4

\* Where an alternative block that is accepted branches off.
LEMMA BranchesOff ==
    ASSUME TypeOK, SoundTo(tip), \A c \in alt : check_block(c),
           NEW b \in Blocks, Parent(b) # tip, NEW front \in 1 .. Height(b), AltAccepted(b, front)
    PROVE  /\ front \in 1 .. Height(tip)
           /\ At(tip, front - 1) = At(b, front - 1)
           /\ BlocksFrom(b, front) \subseteq alt \cup {b}
           /\ \A h \in DOMAIN Checkpoints :
                 h \in front .. Height(tip) => h < Height(b) /\ At(tip, h) = At(b, h)
           /\ IsCheckpoint(b) => Height(tip) < Height(b)
<1>0. tip \in Blocks /\ Height(tip) \in Nat /\ Height(b) \in Nat /\ front \in Nat /\ front > 0
  BY Tree DEF TypeOK
<1>1. At(b, front - 1) \in Range(Path[tip]) /\ Height(At(b, front - 1)) = front - 1
  BY StepUp DEF AltAccepted, Connects, MainChain
<1>2. front - 1 \in 0 .. Height(tip) /\ At(tip, front - 1) = At(b, front - 1)
  BY <1>0, <1>1, OnPath
<1>3. front <= Height(tip)
  <2>1. CASE front < Height(b)
    BY <1>0, <2>1 DEF AltAccepted, Connects, db_height
  <2>2. CASE front = Height(b)
    <3>1. At(tip, front - 1) # tip
      BY <1>2, <2>2 DEF Parent
    <3>2. At(tip, Height(tip)) = tip
      BY <1>0, Tree
    <3> QED
      BY <1>0, <1>2, <3>1, <3>2
  <2> QED
    BY <1>0, <2>1, <2>2
<1>4. \A h \in front .. (Height(b) - 1) : At(b, h) \in alt
  BY DEF AltAccepted, Connects, IsFront
<1>5. BlocksFrom(b, front) \subseteq alt \cup {b}
  <2>1. front .. Height(b) = (front .. (Height(b) - 1)) \cup {Height(b)} /\ At(b, Height(b)) = b
    BY <1>0, Tree
  <2> QED
    BY <1>4, <2>1 DEF BlocksFrom
<1>6. \A h \in DOMAIN Checkpoints : h <= Height(tip) + 1 => h < Height(b)
  BY DEF AltAccepted, is_alternative_block_allowed, db_height
<1>7. \A h \in DOMAIN Checkpoints :
          h \in front .. Height(tip) => h < Height(b) /\ At(tip, h) = At(b, h)
  <2> SUFFICES ASSUME NEW h \in DOMAIN Checkpoints, h \in front .. Height(tip)
               PROVE  h < Height(b) /\ At(tip, h) = At(b, h)
    OBVIOUS
  <2>1. h \in front .. (Height(b) - 1) /\ h \in 0 .. Height(b) /\ h \in 0 .. Height(tip)
    BY <1>0, <1>6
  <2>2. check_block(At(b, h)) /\ Height(At(b, h)) = h
    BY <1>4, <2>1, Tree
  <2>3. At(b, h) = Checkpoints[h]
    BY <2>2 DEF check_block
  <2>4. At(tip, h) = Checkpoints[h]
    BY <1>0, <2>1, SoundHasCheckpoints, SMTT(30)
  <2>5. h < Height(b)
    BY <1>0, <2>1
  <2> QED
    BY <2>3, <2>4, <2>5
<1>8. IsCheckpoint(b) => Height(tip) < Height(b)
  BY <1>0, <1>6 DEF IsCheckpoint
<1> QED
  BY <1>0, <1>2, <1>3, <1>5, <1>7, <1>8

-----------------------------------------------------------------------------
(* The invariant and the actions outside of a switch.                      *)

LEMMA InitInv == Init => Inv
<1> SUFFICES ASSUME Init PROVE Inv
  OBVIOUS
<1>1. Range(Path[Genesis]) = {Genesis}
  <2>1. 0 .. Height(Genesis) = {0}
    BY GenesisHeight
  <2> QED
    BY <2>1, GenesisHeight, Tree
<1>2. TypeOK
  BY GenesisHeight, Zenon DEF Init, TypeOK
<1>3. SoundTo(tip) /\ Range(Path[tip]) \cap alt = {} /\ \A b \in alt : check_block(b)
  BY <1>1 DEF Init, SoundTo
<1>4. ~batch.open
  BY DEF Init, NoBatch
<1> QED
  BY <1>2, <1>3, <1>4 DEF Init, Inv

\* What the invariant asks for where no switch is under way.
LEMMA InvBetweenSwitches ==
    ASSUME TypeOK', switch' = NoSwitch, Consistent(tip', alt', torn'),
           batch'.open => Consistent(batch'.tip, batch'.alt, torn')
    PROVE  Inv'
BY DEF Inv, Consistent

\* A switch only runs in a batch, and pop_blocks only outside of one.
LEMMA ClosedIsNoBatch == ASSUME TypeOK, ~batch.open PROVE batch = NoBatch
<1>1. batch \in OpenBatch => batch.open
  BY Zenon DEF OpenBatch
<1> QED
  BY <1>1, Zenon DEF TypeOK

LEMMA SwitchInBatch ==
    ASSUME Inv
    PROVE  /\ tip \in Blocks
           /\ ~batch.open => switch = NoSwitch
           /\ batch.open => batch \in OpenBatch /\ batch.tip \in Blocks
<1>1. tip \in Blocks /\ (~batch.open => switch = NoSwitch)
  BY Zenon DEF Inv, TypeOK, OpenBatch
<1>2. batch.open => batch \in OpenBatch
  BY DEF Inv, TypeOK, NoBatch
<1> QED
  BY <1>1, <1>2, Zenon DEF OpenBatch

LEMMA BetweenSwitches == ASSUME Inv, switch = NoSwitch PROVE Consistent(tip, alt, torn)
BY DEF Inv, Consistent

\* Opening the batch, the pool on its own, flush_invalid_blocks.
LEMMA SmallStepsPreserve ==
    ASSUME Inv,
           \/ prepare_handle_incoming_blocks
           \/ \E t \in Txs : ReceiveTx(t) \/ DropTx(t)
           \/ flush_invalid_blocks
    PROVE  Inv'
<1>1. switch = NoSwitch /\ UNCHANGED <<tip, alt, switch, torn>>
  BY Zenon DEF Inv, TypeOK, OpenBatch, prepare_handle_incoming_blocks, ReceiveTx, DropTx,
         flush_invalid_blocks
<1>2. Consistent(tip, alt, torn)
  BY <1>1, BetweenSwitches
<1>3. \/ batch' = batch
      \/ batch' = [open |-> TRUE, tip |-> tip, alt |-> alt, pool |-> pool]
  BY DEF prepare_handle_incoming_blocks, Saved, ReceiveTx, DropTx, flush_invalid_blocks
<1>4. pool' \subseteq Txs
  BY DEF Inv, TypeOK, prepare_handle_incoming_blocks, ReceiveTx, DropTx, flush_invalid_blocks
<1>5. TypeOK'
  <2>1. tip \in Blocks /\ alt \in SUBSET Blocks /\ pool \in SUBSET Txs /\ torn \in BOOLEAN
    BY DEF Inv, TypeOK
  <2>2. batch' = NoBatch \/ batch' \in OpenBatch
    <3>1. batch = NoBatch \/ batch \in OpenBatch
      BY DEF Inv, TypeOK
    <3>2. [open |-> TRUE, tip |-> tip, alt |-> alt, pool |-> pool] \in OpenBatch
      BY <2>1 DEF OpenBatch
    <3> QED
      BY <1>3, <3>1, <3>2, Zenon
  <2> QED
    BY <1>1, <1>4, <2>1, <2>2 DEF TypeOK
<1>6. batch'.open => Consistent(batch'.tip, batch'.alt, torn')
  BY <1>1, <1>2, <1>3 DEF Inv
<1> QED
  BY <1>1, <1>2, <1>5, <1>6, InvBetweenSwitches

\* Closing the batch, also after an exception: a switch that threw before anything
\* was connected leaves a part of the old chain, which has no alternative block.
LEMMA CleanupPreserves == ASSUME Inv, cleanup_handle_incoming_blocks PROVE Inv'
<1>1. /\ switch' = NoSwitch /\ batch' = NoBatch /\ ~batch'.open /\ UNCHANGED <<tip, alt, pool>>
      /\ torn' = (torn \/ (switch.phase = "thrown" /\ switch.failed # 0))
      /\ switch.phase \in {"none", "thrown"}
  BY DEF cleanup_handle_incoming_blocks, NoBatch
<1>2. TypeOK'
  BY <1>1, Zenon DEF Inv, TypeOK
<1>3. ASSUME ~torn' PROVE Range(Path[tip]) \cap alt = {}
  <2>1. CASE switch = NoSwitch
    BY <1>1, <1>3, <2>1, Zenon DEF Inv
  <2>2. CASE switch # NoSwitch
    <3>1. switch \in SwitchUnderWay /\ Placed /\ AltApart /\ switch.old \in Blocks
      BY <2>2, Zenon DEF Inv, TypeOK, SwitchUnderWay
    <3>2. switch.phase = "thrown"
      <4>1. switch.phase # "none"
        BY <3>1 DEF SwitchUnderWay, Phases
      <4> QED
        BY <1>1, <4>1
    <3>3. tip \in Range(Path[switch.old]) /\ Range(Path[switch.old]) \cap alt = {}
      BY <1>1, <1>3, <3>1, <3>2, Zenon DEF Placed, AltApart
    <3>4. Range(Path[tip]) \subseteq Range(Path[switch.old])
      BY <3>1, <3>3, OnPath
    <3> QED
      BY <3>3, <3>4
  <2> QED
    BY <2>1, <2>2
<1>4. Consistent(tip', alt', torn')
  BY <1>1, <1>3 DEF Inv, Consistent
<1> QED
  BY <1>1, <1>2, <1>4, InvBetweenSwitches

\* The database as the batch found it.
LEMMA AbortPreserves ==
    ASSUME Inv, batch.open, AbortBatch, switch' = NoSwitch
    PROVE  Inv'
<1>1. batch \in OpenBatch
  BY DEF Inv, TypeOK, NoBatch
<1>2. Consistent(tip', alt', torn')
  BY DEF Inv, AbortBatch
<1>3. TypeOK' /\ ~batch'.open
  BY <1>1 DEF Inv, TypeOK, AbortBatch, OpenBatch, NoBatch
<1> QED
  BY <1>2, <1>3, InvBetweenSwitches

LEMMA AddToMainPreserves ==
    ASSUME Inv, NEW b \in Blocks, AddToMain(b)
    PROVE  Inv'
<1>0. switch = NoSwitch /\ switch' = NoSwitch /\ batch.open /\ tip \in Blocks
  BY DEF AddToMain, Inv, TypeOK
<1>1. Consistent(tip, alt, torn)
  BY <1>0, BetweenSwitches
<1>2. b # Genesis /\ b \notin alt
  <2>1. Genesis \in Range(Path[tip])
    BY <1>0, GenesisOnPath
  <2> QED
    BY <2>1 DEF AddToMain, have_block, MainChain
<1>3. CASE Accepted(b) /\ ConnectToMain(b) /\ UNCHANGED <<alt, invalid, batch, torn>>
  <2>1. SoundTo(b) /\ Range(Path[b]) = Range(Path[tip]) \cup {b}
    BY <1>0, <1>1, <1>2, <1>3, AcceptedIsSound DEF Consistent
  <2>2. Consistent(tip', alt', torn')
    BY <1>1, <1>2, <1>3, <2>1 DEF Consistent, ConnectToMain
  <2>3. TypeOK'
    BY <1>0, <1>3 DEF Inv, TypeOK, ConnectToMain
  <2>4. batch'.open => Consistent(batch'.tip, batch'.alt, torn')
    BY <1>3 DEF Inv
  <2> QED
    BY <1>0, <2>2, <2>3, <2>4, InvBetweenSwitches
<1>4. CASE UNCHANGED <<tip, alt, pool, batch, torn>>
  <2>1. TypeOK'
    BY <1>0, <1>4 DEF Inv, TypeOK
  <2> QED
    BY <1>0, <1>1, <1>4, <2>1, InvBetweenSwitches DEF Inv
<1>5. CASE AbortBatch
  BY <1>0, <1>5, AbortPreserves
<1> QED
  BY <1>3, <1>4, <1>5 DEF AddToMain

LEMMA AddAlternativePreserves ==
    ASSUME Inv, NEW b \in Blocks, AddAlternative(b)
    PROVE  Inv'
<1>0. switch = NoSwitch /\ batch.open /\ tip \in Blocks /\ UNCHANGED <<tip, pool, batch, torn>>
      /\ b \notin Range(Path[tip]) /\ b \notin alt /\ Parent(b) # tip /\ TypeOK
  BY DEF AddAlternative, Inv, TypeOK, have_block, MainChain
<1>1. SoundTo(tip) /\ (\A c \in alt : check_block(c)) /\ (~torn => Range(Path[tip]) \cap alt = {})
  BY <1>0 DEF Inv
<1>2. PICK front \in 1 .. Height(b) :
        /\ AltAccepted(b, front)
        /\ alt' = alt \cup {b}
        /\ IF SwitchesTo(b) THEN StartSwitch(b, front) ELSE UNCHANGED switch
  BY DEF AddAlternative
<1>3. Consistent(tip', alt', torn')
  BY <1>0, <1>1, <1>2 DEF Consistent, AltAccepted
<1>4. batch \in OpenBatch /\ batch' = batch /\ (batch'.open => Consistent(batch'.tip, batch'.alt, torn'))
  BY <1>0 DEF Inv, TypeOK, NoBatch
<1>5. CASE ~SwitchesTo(b)
  <2>1. switch' = NoSwitch
    BY <1>0, <1>2, <1>5
  <2>2. TypeOK'
    BY <1>0, <1>2, <2>1, Zenon DEF TypeOK
  <2> QED
    BY <1>3, <1>4, <2>1, <2>2, InvBetweenSwitches
<1>6. CASE SwitchesTo(b)
  <2>1. switch' = [phase |-> "disconnect", old |-> tip, to |-> b, split |-> front,
                   next |-> front, failed |-> 0, discard |-> IsCheckpoint(b)]
    BY <1>2, <1>6 DEF StartSwitch
  <2>2. /\ front \in 1 .. Height(tip)
        /\ At(tip, front - 1) = At(b, front - 1)
        /\ BlocksFrom(b, front) \subseteq alt \cup {b}
        /\ \A h \in DOMAIN Checkpoints :
              h \in front .. Height(tip) => h < Height(b) /\ At(tip, h) = At(b, h)
        /\ IsCheckpoint(b) => Height(tip) < Height(b)
    BY <1>0, <1>1, <1>2, BranchesOff
  <2>3. Height(tip) \in Nat /\ front \in Nat /\ front <= Height(tip) /\ tip \in Range(Path[tip])
    <3>1. tip \in Blocks /\ Height(tip) \in Nat
      BY <1>0, TopOfBranch
    <3>2. front \in Nat /\ front <= Height(tip)
      BY <2>2, <3>1
    <3>3. Height(tip) \in 0 .. Height(tip) /\ At(tip, Height(tip)) = tip
      BY <3>1, TopOfBranch
    <3>4. tip \in Range(Path[tip])
      <4>1. Range(Path[tip]) = {At(tip, h) : h \in 0 .. Height(tip)}
        BY <3>1, Tree
      <4> QED
        BY <3>3, <4>1
    <3> QED
      BY <3>1, <3>2, <3>4
  <2>4. switch' \in SwitchUnderWay /\ switch'.phase = "disconnect" /\ switch' # NoSwitch
    <3>1. switch' \in SwitchUnderWay
      BY <1>0, <2>1, <2>3 DEF SwitchUnderWay, Phases, IsCheckpoint
    <3> QED
      BY <2>1, <3>1 DEF NoSwitch
  <2>5. TypeOK'
    <3>1. batch' # NoBatch
      BY <1>4 DEF OpenBatch, NoBatch
    <3> QED
      BY <1>0, <1>2, <1>4, <2>4, <3>1 DEF TypeOK
  <2>6. Forks'
    <3>1. /\ switch'.old = tip /\ switch'.to = b /\ switch'.split = front
          /\ switch'.discard = IsCheckpoint(b)
      BY <2>1
    <3>2. ~IsCheckpoint(b) => Work[tip] < Work[b]
      BY <1>6 DEF SwitchesTo
    <3> QED
      BY <1>1, <1>2, <2>2, <3>1, <3>2 DEF Forks
  <2>7. Placed'
    BY <1>0, <2>1, <2>3 DEF Placed
  <2>8. AltApart'
    <3>1. Range(Path[At(tip, front - 1)]) \subseteq Range(Path[tip])
      <4>1. At(tip, front - 1) \in Range(Path[tip])
        BY <1>0, <2>2, StepUp
      <4> QED
        BY <1>0, <4>1, OnPath
    <3>2. ~torn => Range(Path[tip]) \cap alt' = {}
      BY <1>0, <1>1, <1>2
    <3> QED
      BY <1>0, <2>1, <3>1, <3>2 DEF AltApart
  <2> QED
    BY <1>3, <1>4, <2>4, <2>5, <2>6, <2>7, <2>8 DEF Inv, Consistent
<1> QED
  BY <1>5, <1>6

\* pop_blocks runs outside of a batch and so outside of a switch.
LEMMA PopBlocksPreserves ==
    ASSUME Inv, NEW height \in 0 .. (Height(tip) - 1), pop_blocks(height)
    PROVE  Inv'
<1>1. switch = NoSwitch /\ ~batch.open /\ UNCHANGED <<alt, switch, batch, torn>> /\ tip \in Blocks
      /\ tip' = At(tip, height)
  BY Zenon DEF Inv, TypeOK, OpenBatch, pop_blocks
<1>2. tip' \in Range(Path[tip]) /\ tip' \in Blocks
  <2>1. height \in 0 .. Height(tip)
    BY <1>1, Tree
  <2> QED
    BY <1>1, <2>1, Tree
<1>3. Consistent(tip, alt, torn)
  BY <1>1, BetweenSwitches
<1>4. Consistent(tip', alt', torn')
  BY <1>1, <1>2, <1>3, SoundBelow, OnPath DEF Consistent
<1>5. pool' \subseteq Txs
  <2>1. BlocksFrom(tip, height + 1) \subseteq Blocks
    <3>1. \A h \in (height + 1) .. Height(tip) : h \in 0 .. Height(tip)
      BY <1>1, Tree
    <3> QED
      BY <1>1, <3>1, Tree DEF BlocksFrom
  <2>2. \A c \in Blocks : Range(TxsOf[c]) \subseteq Txs
    BY BlockchainAssumption DEF Range
  <2>3. TxsIn(BlocksFrom(tip, height + 1)) \subseteq Txs
    BY <2>1, <2>2 DEF TxsIn
  <2> QED
    BY <2>3 DEF pop_blocks, Inv, TypeOK
<1>6. TypeOK'
  BY <1>1, <1>2, <1>5 DEF Inv, TypeOK
<1> QED
  BY <1>1, <1>4, <1>6, InvBetweenSwitches

\* A restart, in or out of a batch.
LEMMA RestartPreserves ==
    ASSUME Inv, NEW keep_alt_blocks \in BOOLEAN, Restart(keep_alt_blocks)
    PROVE  Inv'
<1>1. /\ switch' = NoSwitch /\ batch' = NoBatch /\ ~batch'.open
      /\ torn' \in BOOLEAN /\ (keep_alt_blocks => torn' = torn)
  BY DEF Restart, NoBatch, Inv, TypeOK
<1>2. CASE batch.open
  <2>1. batch \in OpenBatch /\ Consistent(batch.tip, batch.alt, torn)
    BY <1>2 DEF Inv, TypeOK, NoBatch
  <2>2. /\ tip' = batch.tip /\ pool' = batch.pool
        /\ alt' = IF keep_alt_blocks THEN batch.alt ELSE {}
    BY <1>2 DEF Restart
  <2>3. TypeOK'
    BY <1>1, <2>1, <2>2 DEF TypeOK, OpenBatch
  <2>4. Consistent(tip', alt', torn')
    BY <1>1, <2>1, <2>2 DEF Consistent
  <2> QED
    BY <1>1, <2>3, <2>4, InvBetweenSwitches
<1>3. CASE ~batch.open
  <2>1. switch = NoSwitch
    BY <1>3, Zenon DEF Inv, TypeOK, OpenBatch
  <2>2. Consistent(tip, alt, torn)
    BY <2>1, BetweenSwitches
  <2>3. tip' = tip /\ pool' = pool /\ alt' = IF keep_alt_blocks THEN alt ELSE {}
    BY <1>3 DEF Restart, Saved
  <2>4. TypeOK'
    BY <1>1, <2>3 DEF Inv, TypeOK
  <2>5. Consistent(tip', alt', torn')
    BY <1>1, <2>2, <2>3 DEF Consistent
  <2> QED
    BY <1>1, <2>4, <2>5, InvBetweenSwitches
<1> QED
  BY <1>2, <1>3

-----------------------------------------------------------------------------
(* The invariant and the steps of a switch.                                *)

LEMMA InSwitch ==
    ASSUME Inv, switch.phase \in Phases
    PROVE  /\ switch \in SwitchUnderWay /\ switch # NoSwitch
           /\ switch.old \in Blocks /\ switch.to \in Blocks
           /\ batch \in OpenBatch /\ batch.open
           /\ Forks /\ Placed /\ AltApart
           /\ tip \in Blocks /\ SoundTo(tip) /\ alt \subseteq Blocks /\ pool \subseteq Txs
<1>1. switch # NoSwitch
  BY DEF NoSwitch, Phases
<1>2. switch \in SwitchUnderWay /\ batch \in OpenBatch
  BY <1>1 DEF Inv, TypeOK
<1> QED
  BY <1>1, <1>2, Zenon DEF Inv, TypeOK, SwitchUnderWay, OpenBatch

\* A step after which the switch is still under way.
LEMMA SwitchGoesOn ==
    ASSUME Inv, switch.phase \in Phases, switch' \in SwitchUnderWay,
           switch'.old = switch.old, switch'.to = switch.to,
           switch'.split = switch.split, switch'.discard = switch.discard,
           tip' \in Blocks, SoundTo(tip'), pool' \subseteq Txs,
           alt \subseteq alt', alt' \subseteq Blocks, \A b \in alt' : check_block(b),
           batch' = batch, torn' = torn, Placed', AltApart'
    PROVE  Inv'
<1>1. switch' # NoSwitch
  BY DEF SwitchUnderWay, Phases, NoSwitch
<1>2. batch \in OpenBatch /\ batch # NoBatch /\ Consistent(batch.tip, batch.alt, torn)
  <2>1. batch \in OpenBatch /\ batch.open
    BY InSwitch
  <2>2. batch # NoBatch
    BY <2>1 DEF NoBatch
  <2> QED
    BY <2>1, <2>2 DEF Inv
<1>3. TypeOK'
  BY <1>1, <1>2, Zenon DEF Inv, TypeOK
<1>4. Forks'
  <2>1. Forks
    BY InSwitch
  <2> QED
    BY <2>1 DEF Forks
<1> QED
  BY <1>1, <1>2, <1>3, <1>4 DEF Inv

LEMMA PopsTop ==
    ASSUME tip \in Blocks, tip # Genesis, SoundTo(tip), pool \subseteq Txs, PopTop
    PROVE  /\ tip' \in Blocks /\ tip' \in Range(Path[tip]) /\ Height(tip') = Height(tip) - 1
           /\ tip' = At(tip, Height(tip) - 1)
           /\ Range(Path[tip]) = Range(Path[tip']) \cup {tip}
           /\ SoundTo(tip')
           /\ pool' \subseteq Txs
<1>1. tip' = Parent(tip)
  BY DEF PopTop
<1>2. /\ tip' \in Blocks /\ tip' \in Range(Path[tip]) /\ Height(tip') = Height(tip) - 1
      /\ Range(Path[tip]) = Range(Path[tip']) \cup {tip}
  BY <1>1, ParentBelow
<1>3. SoundTo(tip')
  BY <1>2, SoundBelow
<1>4. Range(TxsOf[tip]) \subseteq Txs
  BY BlockchainAssumption DEF Range
<1> QED
  BY <1>1, <1>2, <1>3, <1>4 DEF PopTop, Parent

LEMMA DisconnectPreserves == ASSUME Inv, Disconnect PROVE Inv'
<1>0. switch.phase = "disconnect" /\ switch.phase \in Phases
  BY DEF Disconnect, Phases
<1>1. /\ switch \in SwitchUnderWay /\ switch.old \in Blocks /\ switch.to \in Blocks
      /\ Forks /\ Placed /\ AltApart
      /\ tip \in Blocks /\ SoundTo(tip) /\ pool \subseteq Txs /\ alt \subseteq Blocks
  BY <1>0, InSwitch, Zenon
<1>2. /\ tip \in Range(Path[switch.old]) /\ switch.split <= Height(tip) /\ switch.next = switch.split
      /\ switch.split \in 1 .. Height(switch.old) /\ switch.split \in 1 .. Height(switch.to)
      /\ At(switch.old, switch.split - 1) = At(switch.to, switch.split - 1)
  BY <1>0, <1>1 DEF Placed, Forks
<1>3. Height(tip) \in Nat /\ Height(switch.old) \in Nat /\ Height(switch.to) \in Nat /\ switch.split \in Nat
  BY <1>1, <1>2, Tree
<1>4. tip # Genesis
  BY <1>2, <1>3, GenesisHeight
<1>5. /\ tip' \in Blocks /\ tip' \in Range(Path[tip]) /\ Height(tip') = Height(tip) - 1
      /\ tip' = At(tip, Height(tip) - 1) /\ SoundTo(tip') /\ pool' \subseteq Txs
  BY <1>1, <1>4, PopsTop DEF Disconnect
<1>6. tip' \in Range(Path[switch.old])
  <2>1. Range(Path[tip]) \subseteq Range(Path[switch.old])
    BY <1>1, <1>2, OnPath
  <2> QED
    BY <1>5, <2>1
<1>7. /\ switch' = [switch EXCEPT !.phase = IF Height(tip) > switch.split THEN @ ELSE "connect"]
      /\ UNCHANGED <<alt, batch, torn>>
  BY DEF Disconnect
<1>8. Placed'
  <2>1. CASE Height(tip) > switch.split
    BY <1>0, <1>1, <1>2, <1>3, <1>5, <1>6, <1>7, <2>1 DEF Placed, SwitchUnderWay
  <2>2. CASE ~(Height(tip) > switch.split)
    <3>1. Height(tip) = switch.split
      BY <1>2, <1>3, <2>2
    <3>2. tip' = At(switch.old, switch.split - 1)
      <4>1. Height(tip) - 1 \in 0 .. Height(tip)
        BY <1>2, <1>3, <3>1
      <4>2. \A k \in 0 .. Height(tip) : At(tip, k) = At(switch.old, k)
        BY <1>1, <1>2, OnPath
      <4> QED
        BY <1>2, <1>5, <3>1, <4>1, <4>2
    <3> QED
      BY <1>0, <1>1, <1>2, <1>3, <1>7, <2>2, <3>2 DEF Placed, SwitchUnderWay
  <2> QED
    BY <2>1, <2>2
<1>9. /\ switch' \in SwitchUnderWay /\ switch'.old = switch.old /\ switch'.to = switch.to
      /\ switch'.split = switch.split /\ switch'.discard = switch.discard
      /\ switch'.phase \in {"disconnect", "connect"}
  BY <1>0, <1>1, <1>7 DEF SwitchUnderWay, Phases
<1>10. AltApart'
  BY <1>0, <1>1, <1>7, <1>9 DEF AltApart
<1> QED
  BY <1>0, <1>1, <1>5, <1>7, <1>8, <1>9, <1>10, SwitchGoesOn DEF Inv

LEMMA RollbackPreserves == ASSUME Inv, Rollback PROVE Inv'
<1>0. switch.phase = "rollback" /\ switch.phase \in Phases
  BY DEF Rollback, Phases
<1>1. /\ switch \in SwitchUnderWay /\ switch.old \in Blocks /\ switch.to \in Blocks
      /\ Forks /\ Placed /\ AltApart
      /\ tip \in Blocks /\ SoundTo(tip) /\ pool \subseteq Txs /\ alt \subseteq Blocks
  BY <1>0, InSwitch, Zenon
<1>2. /\ tip \in Range(Path[switch.to]) /\ switch.split <= Height(tip) /\ switch.next = switch.split
      /\ Height(tip) < switch.failed /\ switch.failed \in switch.split .. Height(switch.to)
      /\ switch.split \in 1 .. Height(switch.old) /\ switch.split \in 1 .. Height(switch.to)
      /\ At(switch.old, switch.split - 1) = At(switch.to, switch.split - 1)
  <2>1. /\ tip \in Range(Path[switch.to]) /\ switch.split <= Height(tip) /\ switch.next = switch.split
        /\ Height(tip) < switch.failed /\ switch.failed \in switch.split .. Height(switch.to)
    BY <1>0, <1>1, Zenon DEF Placed
  <2>2. /\ switch.split \in 1 .. Height(switch.old) /\ switch.split \in 1 .. Height(switch.to)
        /\ At(switch.old, switch.split - 1) = At(switch.to, switch.split - 1)
    BY <1>1, Zenon DEF Forks
  <2> QED
    BY <2>1, <2>2
<1>3. Height(tip) \in Nat /\ Height(switch.old) \in Nat /\ Height(switch.to) \in Nat /\ switch.split \in Nat
  <2>1. Height(tip) \in Nat /\ Height(switch.old) \in Nat /\ Height(switch.to) \in Nat
    BY <1>1, TopOfBranch
  <2>2. switch.split \in Nat
    BY <1>1 DEF SwitchUnderWay
  <2> QED
    BY <2>1, <2>2
<1>4. tip # Genesis
  <2>1. Height(tip) # 0
    BY <1>2, <1>3
  <2> QED
    BY <2>1, GenesisHeight, Zenon
<1>5. /\ tip' \in Blocks /\ tip' \in Range(Path[tip]) /\ Height(tip') = Height(tip) - 1
      /\ tip' = At(tip, Height(tip) - 1) /\ SoundTo(tip') /\ pool' \subseteq Txs
  BY <1>1, <1>4, PopsTop, Zenon DEF Rollback
<1>6. tip' \in Range(Path[switch.to])
  <2>1. Range(Path[tip]) \subseteq Range(Path[switch.to])
    BY <1>1, <1>2, OnPath
  <2> QED
    BY <1>5, <2>1, Zenon
<1>7. /\ switch' = [switch EXCEPT !.phase = IF Height(tip) > switch.split THEN @ ELSE "restore"]
      /\ UNCHANGED <<alt, batch, torn>>
  BY DEF Rollback
<1>8. Placed'
  <2>1. CASE Height(tip) > switch.split
    BY <1>0, <1>1, <1>2, <1>3, <1>5, <1>6, <1>7, <2>1 DEF Placed, SwitchUnderWay
  <2>2. CASE ~(Height(tip) > switch.split)
    <3>1. Height(tip) = switch.split
      BY <1>2, <1>3, <2>2
    <3>2. tip' = At(switch.to, switch.split - 1)
      <4>1. Height(tip) - 1 \in 0 .. Height(tip)
        BY <1>2, <1>3, <3>1
      <4>2. \A k \in 0 .. Height(tip) : At(tip, k) = At(switch.to, k)
        BY <1>1, <1>2, OnPath
      <4> QED
        BY <1>2, <1>5, <3>1, <4>1, <4>2
    <3> QED
      BY <1>0, <1>1, <1>2, <1>3, <1>7, <2>2, <3>2 DEF Placed, SwitchUnderWay
  <2> QED
    BY <2>1, <2>2
<1>9. /\ switch' \in SwitchUnderWay /\ switch'.old = switch.old /\ switch'.to = switch.to
      /\ switch'.split = switch.split /\ switch'.discard = switch.discard
      /\ switch'.phase \in {"rollback", "restore"}
  BY <1>0, <1>1, <1>7 DEF SwitchUnderWay, Phases
<1>10. AltApart'
  BY <1>0, <1>1, <1>7, <1>9 DEF AltApart
<1> QED
  BY <1>0, <1>1, <1>5, <1>7, <1>8, <1>9, <1>10, SwitchGoesOn DEF Inv

LEMMA ConnectPreserves == ASSUME Inv, Connect PROVE Inv'
<1>0. switch.phase = "connect" /\ switch.phase \in Phases
  BY DEF Connect, Phases
<1>1. /\ switch \in SwitchUnderWay /\ switch.old \in Blocks /\ switch.to \in Blocks
      /\ Forks /\ Placed /\ AltApart
      /\ tip \in Blocks /\ SoundTo(tip) /\ pool \subseteq Txs /\ alt \subseteq Blocks
  BY <1>0, InSwitch, Zenon
<1>2. /\ switch.next \in switch.split .. Height(switch.to)
      /\ switch.split \in 1 .. Height(switch.old) /\ switch.split \in 1 .. Height(switch.to)
      /\ At(switch.to, Height(switch.to)) = switch.to
      /\ Height(switch.old) \in Nat /\ Height(switch.to) \in Nat
  BY <1>0, <1>1, Tree, Zenon DEF Placed, Forks
<1>3. Target \in Blocks /\ Target # Genesis
  <2>1. switch.next \in 1 .. Height(switch.to)
    BY <1>2
  <2> QED
    BY <1>1, <2>1, StepUp DEF Target
<1>4. SoundTo(Target) /\ tip' = Target /\ pool' \subseteq Txs
  BY <1>1, <1>3, AcceptedIsSound DEF Connect, ConnectToMain
<1>5. /\ switch' = IF Target = switch.to
                   THEN [switch EXCEPT !.phase = IF switch.discard THEN "finish" ELSE "push",
                                       !.next = switch.split]
                   ELSE [switch EXCEPT !.next = @ + 1]
      /\ UNCHANGED <<alt, batch, torn>>
  BY DEF Connect
<1>6. Placed'
  <2>1. CASE Target = switch.to
    BY <1>0, <1>1, <1>2, <1>4, <1>5, <2>1 DEF Placed, SwitchUnderWay
  <2>2. CASE Target # switch.to
    <3>1. switch.next # Height(switch.to)
      BY <1>2, <2>2 DEF Target
    <3>2. switch.next + 1 \in switch.split .. Height(switch.to) /\ (switch.next + 1) - 1 = switch.next
      BY <1>2, <3>1
    <3>3. switch'.phase = "connect" /\ switch'.next = switch.next + 1 /\ switch'.to = switch.to
          /\ switch'.split = switch.split
      BY <1>0, <1>1, <1>5, <2>2 DEF SwitchUnderWay
    <3> QED
      BY <1>4, <3>2, <3>3 DEF Placed, Target
  <2> QED
    BY <2>1, <2>2
<1>7. /\ switch' \in SwitchUnderWay /\ switch'.old = switch.old /\ switch'.to = switch.to
      /\ switch'.split = switch.split /\ switch'.discard = switch.discard
  <2>1. switch.split \in Nat /\ switch.next + 1 \in Nat
    BY <1>2
  <2> QED
    BY <1>0, <1>1, <1>5, <2>1, Zenon DEF SwitchUnderWay, Phases
<1>8. AltApart'
  BY <1>0, <1>1, <1>5, <1>7 DEF AltApart
<1> QED
  BY <1>0, <1>1, <1>3, <1>4, <1>5, <1>6, <1>7, <1>8, SwitchGoesOn DEF Inv

LEMMA ConnectFailsPreserves == ASSUME Inv, ConnectFails PROVE Inv'
<1>0. switch.phase = "connect" /\ switch.phase \in Phases
  BY DEF ConnectFails, Phases
<1>1. /\ switch \in SwitchUnderWay /\ switch.old \in Blocks /\ switch.to \in Blocks
      /\ Forks /\ Placed /\ AltApart
      /\ tip \in Blocks /\ SoundTo(tip) /\ pool \subseteq Txs /\ alt \subseteq Blocks
  BY <1>0, InSwitch
<1>2. /\ switch.next \in switch.split .. Height(switch.to) /\ tip = At(switch.to, switch.next - 1)
      /\ switch.split \in 1 .. Height(switch.old) /\ switch.split \in 1 .. Height(switch.to)
      /\ At(switch.old, switch.split - 1) = At(switch.to, switch.split - 1)
      /\ Height(switch.old) \in Nat /\ Height(switch.to) \in Nat
  BY <1>0, <1>1, Tree, Zenon DEF Placed, Forks
<1>3. tip \in Range(Path[switch.to]) /\ Height(tip) = switch.next - 1
  <2>1. switch.next \in 1 .. Height(switch.to)
    BY <1>2
  <2> QED
    BY <1>1, <1>2, <2>1, StepUp
<1>4. /\ switch' = [switch EXCEPT !.phase = IF Height(tip) + 1 > switch.split THEN "rollback" ELSE "restore",
                                  !.failed = switch.next, !.next = switch.split]
      /\ UNCHANGED <<tip, alt, pool, batch, torn>>
  BY DEF ConnectFails, db_height
<1>5. /\ switch' \in SwitchUnderWay /\ switch'.old = switch.old /\ switch'.to = switch.to
      /\ switch'.split = switch.split /\ switch'.discard = switch.discard
      /\ switch'.phase = IF Height(tip) + 1 > switch.split THEN "rollback" ELSE "restore"
      /\ switch'.next = switch.split /\ switch'.failed = switch.next
  BY <1>1, <1>4, Zenon DEF SwitchUnderWay, Phases
<1>6. Placed'
  <2>1. CASE Height(tip) + 1 > switch.split
    <3>1. switch.split <= Height(tip) /\ Height(tip) < switch.next
      BY <1>2, <1>3, <2>1
    <3> QED
      BY <1>2, <1>3, <1>4, <1>5, <2>1, <3>1 DEF Placed
  <2>2. CASE ~(Height(tip) + 1 > switch.split)
    <3>1. switch.next = switch.split
      BY <1>2, <1>3, <2>2
    <3>2. switch.split \in switch.split .. Height(switch.old)
      BY <1>2
    <3> QED
      BY <1>2, <1>4, <1>5, <2>2, <3>1, <3>2 DEF Placed
  <2> QED
    BY <2>1, <2>2
<1>7. AltApart'
  BY <1>0, <1>1, <1>4, <1>5 DEF AltApart
<1> QED
  BY <1>0, <1>1, <1>4, <1>5, <1>6, <1>7, SwitchGoesOn DEF Inv

LEMMA RestorePreserves == ASSUME Inv, Restore \/ RestoreFails PROVE Inv'
<1>0. switch.phase = "restore" /\ switch.phase \in Phases
  BY DEF Restore, RestoreFails, Phases
<1>1. /\ switch \in SwitchUnderWay /\ switch.old \in Blocks /\ switch.to \in Blocks
      /\ Forks /\ Placed /\ AltApart
      /\ tip \in Blocks /\ SoundTo(tip) /\ pool \subseteq Txs /\ alt \subseteq Blocks
  BY <1>0, InSwitch, Zenon
<1>2. /\ switch.next \in switch.split .. Height(switch.old) /\ tip = At(switch.old, switch.next - 1)
      /\ switch.split \in 1 .. Height(switch.old)
      /\ switch.failed \in switch.split .. Height(switch.to)
      /\ At(switch.old, Height(switch.old)) = switch.old /\ Height(switch.old) \in Nat
  BY <1>0, <1>1, Tree, Zenon DEF Placed, Forks
<1>3. Previous \in Blocks /\ Previous # Genesis /\ Previous \in Range(Path[switch.old])
      /\ tip \in Range(Path[switch.old])
  <2>1. switch.next \in 1 .. Height(switch.old)
    BY <1>2
  <2> QED
    BY <1>1, <1>2, <2>1, StepUp, Zenon DEF Previous
<1>4. CASE Restore
  <2>1. SoundTo(Previous) /\ tip' = Previous /\ pool' \subseteq Txs
    BY <1>1, <1>3, <1>4, AcceptedIsSound DEF Restore, ConnectToMain
  <2>2. /\ switch' = IF Previous = switch.old
                     THEN [switch EXCEPT !.phase = "failed"]
                     ELSE [switch EXCEPT !.next = @ + 1]
        /\ UNCHANGED <<alt, batch, torn>>
    BY <1>4 DEF Restore
  <2>3. /\ switch' \in SwitchUnderWay /\ switch'.old = switch.old /\ switch'.to = switch.to
        /\ switch'.split = switch.split /\ switch'.discard = switch.discard
        /\ switch'.failed = switch.failed
        /\ switch'.phase = IF Previous = switch.old THEN "failed" ELSE "restore"
        /\ Previous # switch.old => switch'.next = switch.next + 1
    <3>1. switch.next + 1 \in Nat
      BY <1>2
    <3> QED
      BY <1>0, <1>1, <2>2, <3>1 DEF SwitchUnderWay, Phases
  <2>4. Placed'
    <3>1. CASE Previous = switch.old
      BY <1>2, <1>3, <2>1, <2>3, <3>1, Zenon DEF Placed
    <3>2. CASE Previous # switch.old
      <4>1. switch.next # Height(switch.old)
        BY <1>2, <3>2 DEF Previous
      <4>2. switch.next + 1 \in switch.split .. Height(switch.old) /\ (switch.next + 1) - 1 = switch.next
        BY <1>2, <4>1
      <4> QED
        BY <1>2, <2>1, <2>3, <3>2, <4>2, Zenon DEF Placed, Previous
    <3> QED
      BY <3>1, <3>2, Zenon
  <2>5. AltApart'
    BY <1>0, <1>1, <2>2, <2>3 DEF AltApart
  <2> QED
    BY <1>0, <1>1, <1>3, <2>1, <2>2, <2>3, <2>4, <2>5, SwitchGoesOn DEF Inv
<1>5. CASE RestoreFails
  <2>1. switch' = [switch EXCEPT !.phase = "failed"] /\ UNCHANGED <<tip, alt, pool, batch, torn>>
    BY <1>5 DEF RestoreFails
  <2>2. /\ switch' \in SwitchUnderWay /\ switch'.old = switch.old /\ switch'.to = switch.to
        /\ switch'.split = switch.split /\ switch'.discard = switch.discard
        /\ switch'.failed = switch.failed /\ switch'.phase = "failed"
    BY <1>1, <2>1 DEF SwitchUnderWay, Phases
  <2>3. Placed'
    BY <1>2, <1>3, <2>1, <2>2 DEF Placed
  <2>4. AltApart'
    BY <1>0, <1>1, <2>1, <2>2 DEF AltApart
  <2> QED
    BY <1>0, <1>1, <2>1, <2>2, <2>3, <2>4, SwitchGoesOn DEF Inv
<1> QED
  BY <1>4, <1>5

LEMMA GiveUpPreserves == ASSUME Inv, GiveUp PROVE Inv'
<1>0. switch.phase = "failed" /\ switch.phase \in Phases
  BY Zenon DEF GiveUp, Phases
<1>1. /\ switch.old \in Blocks /\ Placed /\ AltApart
      /\ tip \in Blocks /\ SoundTo(tip) /\ pool \subseteq Txs /\ alt \subseteq Blocks
      /\ batch \in OpenBatch /\ Consistent(batch.tip, batch.alt, torn)
  BY <1>0, InSwitch DEF Inv
<1>2. switch' = NoSwitch /\ UNCHANGED <<tip, pool, batch, torn>> /\ alt' \subseteq alt
  BY Zenon DEF GiveUp
<1>3. /\ Range(Path[tip]) \subseteq Range(Path[switch.old])
      /\ ~torn => Range(Path[switch.old]) \cap alt = {}
  BY <1>0, <1>1, OnPath, Zenon DEF Placed, AltApart
<1>4. Consistent(tip', alt', torn')
  BY <1>1, <1>2, <1>3 DEF Consistent, Inv
<1>5. TypeOK'
  BY <1>1, <1>2 DEF Inv, TypeOK
<1> QED
  BY <1>1, <1>2, <1>4, <1>5, InvBetweenSwitches

LEMMA PushOldPreserves == ASSUME Inv, PushOld PROVE Inv'
<1>0. switch.phase = "push" /\ switch.phase \in Phases
  BY DEF PushOld, Phases
<1>1. /\ switch \in SwitchUnderWay /\ switch.old \in Blocks /\ switch.to \in Blocks
      /\ Forks /\ Placed /\ AltApart
      /\ tip \in Blocks /\ SoundTo(tip) /\ pool \subseteq Txs /\ alt \subseteq Blocks
  BY <1>0, InSwitch, Zenon
<1>2. /\ switch.next \in switch.split .. Height(switch.old) /\ tip = switch.to /\ ~switch.discard
      /\ switch.split \in 1 .. Height(switch.old)
      /\ At(switch.old, Height(switch.old)) = switch.old /\ Height(switch.old) \in Nat
  BY <1>0, <1>1, Tree, Zenon DEF Placed, Forks
<1>3. Previous \in Blocks /\ Previous \notin Range(Path[At(switch.old, switch.split - 1)])
  <2>1. switch.next \in 1 .. Height(switch.old)
    BY <1>2
  <2>2. Previous \in BlocksFrom(switch.old, switch.split)
    BY <1>2 DEF BlocksFrom, Previous
  <2> QED
    BY <1>1, <1>2, <2>1, <2>2, StepUp DEF Previous
<1>4. /\ switch' = IF Previous = switch.old
                   THEN [switch EXCEPT !.phase = "finish"]
                   ELSE [switch EXCEPT !.next = @ + 1]
      /\ UNCHANGED <<tip, pool, batch, torn>>
      /\ alt' = alt \/ (alt' = alt \cup {Previous} /\ check_block(Previous))
  BY DEF PushOld, AltAccepted
<1>5. /\ switch' \in SwitchUnderWay /\ switch'.old = switch.old /\ switch'.to = switch.to
      /\ switch'.split = switch.split /\ switch'.discard = switch.discard
      /\ switch'.phase = IF Previous = switch.old THEN "finish" ELSE "push"
      /\ Previous # switch.old => switch'.next = switch.next + 1
  <2>1. switch.next + 1 \in Nat
    BY <1>2
  <2> QED
    BY <1>0, <1>1, <1>4, <2>1 DEF SwitchUnderWay, Phases
<1>6. Placed'
  <2>1. CASE Previous = switch.old
    BY <1>2, <1>4, <1>5, <2>1 DEF Placed
  <2>2. CASE Previous # switch.old
    <3>1. switch.next # Height(switch.old)
      BY <1>2, <2>2 DEF Previous
    <3>2. switch.next + 1 \in switch.split .. Height(switch.old)
      BY <1>2, <3>1
    <3> QED
      BY <1>2, <1>4, <1>5, <2>2, <3>2 DEF Placed
  <2> QED
    BY <2>1, <2>2
<1>7. AltApart'
  BY <1>1, <1>3, <1>4, <1>5 DEF AltApart
<1>8. alt \subseteq alt' /\ alt' \subseteq Blocks /\ \A b \in alt' : check_block(b)
  BY <1>1, <1>3, <1>4 DEF Inv
<1> QED
  BY <1>0, <1>1, <1>4, <1>5, <1>6, <1>7, <1>8, SwitchGoesOn

LEMMA FinishPreserves == ASSUME Inv, Finish PROVE Inv'
<1>0. switch.phase = "finish" /\ switch.phase \in Phases
  BY DEF Finish, Phases
<1>1. /\ switch.old \in Blocks /\ switch.to \in Blocks /\ Forks /\ Placed /\ AltApart
      /\ tip \in Blocks /\ SoundTo(tip) /\ pool \subseteq Txs /\ alt \subseteq Blocks
      /\ batch \in OpenBatch /\ Consistent(batch.tip, batch.alt, torn)
  BY <1>0, InSwitch DEF Inv
<1>2. /\ switch' = NoSwitch /\ UNCHANGED <<tip, pool, batch, torn>>
      /\ alt' = alt \ BlocksFrom(switch.to, switch.split)
  BY Zenon DEF Finish
<1>3. /\ tip = switch.to /\ switch.split \in 1 .. Height(switch.to)
      /\ ~torn => Range(Path[At(switch.to, switch.split - 1)]) \cap alt = {}
  BY <1>0, <1>1, Zenon DEF Placed, AltApart, Forks
<1>4. Range(Path[tip]) = Range(Path[At(switch.to, switch.split - 1)]) \cup BlocksFrom(switch.to, switch.split)
  BY <1>1, <1>3, StepUp, Zenon
<1>5. Consistent(tip', alt', torn')
  BY <1>1, <1>2, <1>3, <1>4 DEF Consistent, Inv
<1>6. TypeOK'
  BY <1>1, <1>2 DEF Inv, TypeOK
<1> QED
  BY <1>1, <1>2, <1>5, <1>6, InvBetweenSwitches

LEMMA PopThrowsPreserves == ASSUME Inv, PopThrows PROVE Inv'
<1>0. switch.phase \in {"disconnect", "rollback"} /\ switch.phase \in Phases
  BY DEF PopThrows, Phases
<1>1. /\ switch \in SwitchUnderWay /\ switch.old \in Blocks /\ switch.to \in Blocks
      /\ Forks /\ Placed /\ AltApart
      /\ tip \in Blocks /\ SoundTo(tip) /\ pool \subseteq Txs /\ alt \subseteq Blocks
  BY <1>0, InSwitch, Zenon
<1>2. /\ switch' = [switch EXCEPT !.phase = "thrown"] /\ UNCHANGED <<alt, batch, torn>>
      /\ UNCHANGED <<tip, pool>> \/ PopTop
  BY DEF PopThrows
<1>3. /\ switch.split \in Nat /\ switch.split >= 1 /\ switch.split <= Height(tip)
      /\ \/ tip \in Range(Path[switch.old])
         \/ tip \in Range(Path[switch.to]) /\ switch.failed # 0
  <2>1. switch.split \in Nat /\ switch.split >= 1 /\ Height(switch.to) \in Nat
    BY <1>1, TopOfBranch DEF Forks, SwitchUnderWay
  <2> QED
    BY <1>0, <1>1, <2>1 DEF Placed
<1>4. tip # Genesis
  BY <1>1, <1>3, GenesisHeight
<1>5. tip' \in Blocks /\ SoundTo(tip') /\ pool' \subseteq Txs /\ (tip' = tip \/ tip' \in Range(Path[tip]))
  <2>1. CASE PopTop
    BY <1>1, <1>4, <2>1, PopsTop, Zenon
  <2> QED
    BY <1>1, <1>2, <2>1
<1>6. \/ tip' \in Range(Path[switch.old])
      \/ tip' \in Range(Path[switch.to]) /\ switch.failed # 0
  <2>1. \A b \in Blocks : tip \in Range(Path[b]) => tip' \in Range(Path[b])
    BY <1>1, <1>5, OnPath
  <2> QED
    BY <1>1, <1>3, <2>1
<1>7. /\ switch' \in SwitchUnderWay /\ switch'.old = switch.old /\ switch'.to = switch.to
      /\ switch'.split = switch.split /\ switch'.discard = switch.discard
      /\ switch'.failed = switch.failed /\ switch'.phase = "thrown"
  BY <1>1, <1>2 DEF SwitchUnderWay, Phases
<1>8. Placed'
  BY <1>6, <1>7 DEF Placed
<1>9. AltApart'
  BY <1>0, <1>1, <1>2, <1>7 DEF AltApart
<1> QED
  BY <1>0, <1>1, <1>2, <1>5, <1>7, <1>8, <1>9, SwitchGoesOn DEF Inv

LEMMA SwitchStepPreserves == ASSUME Inv, SwitchStep PROVE Inv'
<1>1. CASE Disconnect BY <1>1, DisconnectPreserves
<1>2. CASE Connect BY <1>2, ConnectPreserves
<1>3. CASE ConnectFails BY <1>3, ConnectFailsPreserves
<1>4. CASE ConnectAborts
  <2>1. switch.phase \in Phases /\ AbortBatch /\ switch' = NoSwitch
    BY <1>4 DEF ConnectAborts, Phases
  <2> QED
    BY <2>1, InSwitch, AbortPreserves
<1>5. CASE Rollback BY <1>5, RollbackPreserves
<1>6. CASE Restore \/ RestoreFails BY <1>6, RestorePreserves
<1>7. CASE GiveUp BY <1>7, GiveUpPreserves
<1>8. CASE PushOld BY <1>8, PushOldPreserves
<1>9. CASE Finish BY <1>9, FinishPreserves
<1>10. CASE PopThrows BY <1>10, PopThrowsPreserves
<1> QED
  BY <1>1, <1>2, <1>3, <1>4, <1>5, <1>6, <1>7, <1>8, <1>9, <1>10 DEF SwitchStep

LEMMA NextInv == Inv /\ [Next]_vars => Inv'
<1> SUFFICES ASSUME Inv, [Next]_vars PROVE Inv'
  OBVIOUS
<1>1. CASE \/ prepare_handle_incoming_blocks
           \/ \E t \in Txs : ReceiveTx(t) \/ DropTx(t)
           \/ flush_invalid_blocks
  BY <1>1, SmallStepsPreserve
<1>2. ASSUME NEW b \in Blocks, AddToMain(b) PROVE Inv'
  BY <1>2, AddToMainPreserves
<1>3. ASSUME NEW b \in Blocks, AddAlternative(b) PROVE Inv'
  BY <1>3, AddAlternativePreserves
<1>4. CASE SwitchStep
  BY <1>4, SwitchStepPreserves
<1>5. ASSUME NEW height \in 0 .. (Height(tip) - 1), pop_blocks(height) PROVE Inv'
  BY <1>5, PopBlocksPreserves
<1>6. ASSUME NEW keep_alt_blocks \in BOOLEAN, Restart(keep_alt_blocks) PROVE Inv'
  BY <1>6, RestartPreserves
<1>7. CASE UNCHANGED vars
  <2>1. UNCHANGED <<tip, alt, pool, switch, batch, torn>>
    BY <1>7 DEF vars
  <2>2. TypeOK'
    BY <2>1, Zenon DEF Inv, TypeOK
  <2>3. switch # NoSwitch => Forks' /\ Placed' /\ AltApart'
    BY <2>1, Zenon DEF Inv, Forks, Placed, AltApart
  <2> QED
    BY <2>1, <2>2, <2>3 DEF Inv
<1>8. CASE cleanup_handle_incoming_blocks
  BY <1>8, CleanupPreserves
<1> QED
  BY <1>1, <1>2, <1>3, <1>4, <1>5, <1>6, <1>7, <1>8 DEF Next, NextBlock

LEMMA Invariance == Spec => []Inv
BY InitInv, NextInv, PTL DEF Spec

\* At any point of a switch or a rollback, with any batch aborted, and for any tree
\* of blocks, every block on the main chain is sound: it was checked by
\* handle_block_to_main_chain on top of just the blocks it stands on now.
THEOREM ChainIsSound == Spec => []MainChainIsSound
<1>1. Inv => MainChainIsSound
  BY DEF Inv, SoundTo, MainChainIsSound, MainChain
<1> QED
  BY <1>1, Invariance, PTL

\* No switch, rollback, restart or aborted batch leaves a main chain that contradicts
\* a checkpoint of check_block.
THEOREM CheckpointsAreKept == Spec => []CheckpointsHold
<1>1. Inv => CheckpointsHold
  BY SoundHasCheckpoints DEF Inv, TypeOK, CheckpointsHold
<1> QED
  BY <1>1, Invariance, PTL

\* Between switches a block is on the main chain or an alternative block, never
\* both: switch_to_alternative_blockchain removes just the blocks it has connected,
\* an aborted batch takes back both sides, and an exception before anything was
\* connected leaves only old blocks.  After one that cut short a rollback this holds
\* again from the restart on that drops the alternative blocks.
THEOREM BlocksHaveOnePlace == Spec => []OnePlace
<1>1. Inv => OnePlace
  BY DEF Inv, OnePlace, MainChain
<1> QED
  BY <1>1, Invariance, PTL

\* While the old blocks are pushed as alternative ones, none of them starts another
\* switch: they weigh less than the new chain, and one at the height of a checkpoint
\* is below the top of the new chain, so that handle_alternative_block refuses it.
THEOREM NoSwitchInASwitch == Spec => []PushNeverSwitches
<1>1. Inv => PushNeverSwitches
  <2> SUFFICES ASSUME Inv, switch.phase = "push",
                      NEW front \in 1 .. Height(Previous), AltAccepted(Previous, front)
               PROVE  ~SwitchesTo(Previous)
    BY DEF PushNeverSwitches
  <2>1. switch.old \in Blocks /\ switch.to \in Blocks /\ Forks /\ Placed
    BY InSwitch, Zenon DEF Phases
  <2>2. /\ switch.next \in switch.split .. Height(switch.old) /\ tip = switch.to
        /\ switch.split \in 1 .. Height(switch.old)
        /\ Work[switch.old] < Work[switch.to]
    <3>1. switch.next \in switch.split .. Height(switch.old) /\ tip = switch.to /\ ~switch.discard
      BY <2>1, Zenon DEF Placed
    <3>2. switch.split \in 1 .. Height(switch.old) /\ Work[switch.old] < Work[switch.to]
      BY <2>1, <3>1, Zenon DEF Forks
    <3> QED
      BY <3>1, <3>2
  <2>3. switch.next \in 1 .. Height(switch.old)
    BY <2>1, <2>2, NextOnBranch
  <2>4. Previous \in Range(Path[switch.old]) /\ Previous \in Blocks /\ Height(Previous) = switch.next
    BY <2>1, <2>3, StepUp DEF Previous
  <2>5. ~IsCheckpoint(Previous)
    <3> SUFFICES ASSUME switch.next \in DOMAIN Checkpoints PROVE FALSE
      BY <2>4 DEF IsCheckpoint
    <3>1. switch.next < Height(tip) /\ switch.next \in Nat /\ Height(tip) \in Nat
      <4>1. switch.next < Height(switch.to)
        BY <2>1, <2>2, Zenon DEF Forks
      <4> QED
        BY <2>1, <2>2, <2>3, <4>1, TopOfBranch
    <3>2. switch.next <= db_height => switch.next < switch.next
      BY <2>4 DEF AltAccepted, is_alternative_block_allowed
    <3> QED
      BY <3>1, <3>2 DEF db_height
  <2>6. Previous = switch.old \/ Work[Previous] < Work[switch.old]
    BY <2>1, <2>4, OnPath
  <2>7. \A b \in Blocks : Work[b] \in Nat
    BY BlockchainAssumption
  <2> QED
    BY <2>1, <2>2, <2>4, <2>5, <2>6, <2>7 DEF SwitchesTo
<1> QED
  BY <1>1, Invariance, PTL

-----------------------------------------------------------------------------
(* A switch that fails.                                                    *)

LEMMA TxsInUnion ==
    ASSUME NEW A, NEW b
    PROVE  TxsIn(A \cup {b}) = TxsIn(A) \cup Range(TxsOf[b])
BY DEF TxsIn

\* handle_block_to_main_chain accepts a sound block on top of its parent, if the pool
\* has its transactions.
LEMMA SoundIsAccepted ==
    ASSUME NEW b \in Blocks, Parent(b) = tip, Sound(b), Range(TxsOf[b]) \subseteq pool
    PROVE  Accepted(b)
<1>1. /\ b \in HeaderOK \cap RewardOK /\ check_block(b) /\ ~SpendsTwice(b)
      /\ \A t \in Range(TxsOf[b]) : /\ t \notin TxsIn(MainChain)
                                    /\ KeyImages[t] \cap ImagesOf(TxsIn(MainChain)) = {}
                                    /\ Needs[t] \subseteq MainChain
      /\ \A i, j \in DOMAIN TxsOf[b] : TxsOf[b][i] = TxsOf[b][j] => i = j
  BY DEF Sound, MainChain
<1>2. ASSUME NEW i \in DOMAIN TxsOf[b]
      PROVE  TxFine(b, i)
  <2>1. TxsOf[b][i] \in Range(TxsOf[b])
    BY DEF Range
  <2>2. TxsOf[b] \in Seq(Txs)
    BY BlockchainAssumption
  <2>3. \A j \in 1 .. (i - 1) : j \in DOMAIN TxsOf[b] /\ j # i
    BY <2>2
  <2>4. ~\E j \in 1 .. (i - 1) : TxsOf[b][j] = TxsOf[b][i]
    BY <1>1, <2>3, Zenon
  <2> QED
    BY <1>1, <2>1, <2>4 DEF TxFine, Unavailable, check_tx_inputs
<1> QED
  BY <1>1, <1>2, Zenon DEF Accepted, ReachesDatabase, Prevalidated

\* As long as nothing is lost, every block of the old chain is accepted again.
LEMMA RestoreSucceeds ==
    ASSUME Inv, Kept, switch.phase = "restore"
    PROVE  Accepted(Previous)
<1>1. /\ switch # NoSwitch /\ switch.old \in Blocks /\ tip \in Blocks
      /\ SoundTo(switch.old)
      /\ switch.next \in switch.split .. Height(switch.old) /\ tip = At(switch.old, switch.next - 1)
      /\ switch.split \in 1 .. Height(switch.old)
  BY InSwitch DEF Phases, Forks, Placed
<1>2. switch.next \in 1 .. Height(switch.old)
  BY <1>1, NextOnBranch, Zenon
<1>3. /\ Previous \in Blocks /\ Previous # Genesis /\ Previous \in Range(Path[switch.old])
      /\ Parent(Previous) = tip
  BY <1>1, <1>2, StepUp, Zenon DEF Previous
<1>4. Sound(Previous)
  BY <1>1, <1>3 DEF SoundTo
<1>5. \A t \in Range(TxsOf[Previous]) : t \notin TxsIn(Range(Path[tip]))
  BY <1>3, <1>4 DEF Sound
<1>6. Range(TxsOf[Previous]) \subseteq pool
  <2>1. Range(TxsOf[Previous]) \subseteq TxsIn(Range(Path[switch.old]))
    BY <1>3, Zenon DEF TxsIn
  <2> QED
    BY <1>1, <1>5, <2>1 DEF Kept
<1> QED
  BY <1>3, <1>4, <1>6, SoundIsAccepted, Zenon

LEMMA InitKept == Init => Kept
BY DEF Init, Kept, NoSwitch

LEMMA KeptBetweenSwitches == ASSUME switch' = NoSwitch PROVE Kept'
BY DEF Kept, NoSwitch

\* Blocks that are popped give their transactions to the pool, blocks that are
\* connected take them from there.
LEMMA NextKept == ASSUME PrunedTxs = {}, Inv, Kept, [Next]_vars PROVE Kept'
<1>1. CASE switch' = NoSwitch
  BY <1>1, KeptBetweenSwitches
<1>2. ASSUME NEW b \in Blocks, AddAlternative(b), switch' # NoSwitch PROVE Kept'
  <2>1. switch'.old = tip /\ switch'.phase = "disconnect" /\ UNCHANGED <<tip, pool>>
    BY <1>2 DEF AddAlternative, StartSwitch
  <2> QED
    BY <2>1 DEF Kept
<1>3. CASE Disconnect \/ Rollback \/ (PopThrows /\ PopTop)
  <2>0. switch.phase \in {"disconnect", "rollback"} /\ switch.phase \in Phases
    BY <1>3 DEF Disconnect, Rollback, PopThrows, Phases
  <2>1. /\ switch # NoSwitch /\ switch \in SwitchUnderWay /\ tip \in Blocks /\ SoundTo(tip)
        /\ pool \subseteq Txs /\ switch.split <= Height(tip) /\ switch.split >= 1 /\ switch.split \in Nat
    <3>1. /\ switch # NoSwitch /\ switch \in SwitchUnderWay /\ tip \in Blocks /\ SoundTo(tip) /\ pool \subseteq Txs
          /\ switch.old \in Blocks /\ switch.split \in 1 .. Height(switch.old) /\ switch.split <= Height(tip)
      BY <2>0, InSwitch, Zenon DEF Placed, Forks
    <3>2. switch.split >= 1 /\ switch.split \in Nat
      BY <3>1, TopOfBranch
    <3> QED
      BY <3>1, <3>2
  <2>2. tip # Genesis
    BY <2>1, GenesisHeight
  <2>3. Range(Path[tip]) = Range(Path[tip']) \cup {tip} /\ pool' = pool \cup Range(TxsOf[tip])
    BY <1>3, <2>1, <2>2, PopsTop DEF Disconnect, Rollback, PopTop
  <2>4. TxsIn(Range(Path[tip])) = TxsIn(Range(Path[tip'])) \cup Range(TxsOf[tip])
    BY <2>3, TxsInUnion
  <2>5. switch'.old = switch.old /\ switch'.phase # "failed"
    BY <1>3, <2>0, <2>1, Zenon DEF Disconnect, Rollback, PopThrows, SwitchUnderWay
  <2> QED
    BY <2>1, <2>3, <2>4, <2>5, Zenon DEF Kept
<1>4. CASE Connect
  <2>0. switch.phase = "connect" /\ switch.phase \in Phases
    BY <1>4 DEF Connect, Phases
  <2>1. /\ switch # NoSwitch /\ switch \in SwitchUnderWay /\ tip \in Blocks /\ SoundTo(tip)
        /\ switch.to \in Blocks /\ switch.next \in switch.split .. Height(switch.to)
        /\ switch.split \in 1 .. Height(switch.to)
    BY <2>0, InSwitch, Zenon DEF Placed, Forks
  <2>2. Target \in Blocks /\ Target # Genesis
    <3>1. switch.next \in 1 .. Height(switch.to)
      BY <2>1, NextOnBranch
    <3> QED
      BY <2>1, <3>1, StepUp DEF Target
  <2>3. Range(Path[tip']) = Range(Path[tip]) \cup {Target} /\ pool' = pool \ Range(TxsOf[Target])
    BY <1>4, <2>1, <2>2, AcceptedIsSound, Zenon DEF Connect, ConnectToMain
  <2>4. TxsIn(Range(Path[tip'])) = TxsIn(Range(Path[tip])) \cup Range(TxsOf[Target])
    BY <2>3, TxsInUnion
  <2>5. switch'.old = switch.old /\ switch'.phase # "failed"
    BY <1>4, <2>0, <2>1, Zenon DEF Connect, SwitchUnderWay
  <2> QED
    BY <2>1, <2>3, <2>4, <2>5, Zenon DEF Kept
<1>5. CASE Restore
  <2>0. switch.phase = "restore" /\ switch.phase \in Phases
    BY <1>5 DEF Restore, Phases
  <2>1. /\ switch # NoSwitch /\ switch \in SwitchUnderWay /\ tip \in Blocks /\ SoundTo(tip)
        /\ switch.old \in Blocks /\ switch.next \in switch.split .. Height(switch.old)
        /\ switch.split \in 1 .. Height(switch.old)
    BY <2>0, InSwitch, Zenon DEF Placed, Forks
  <2>2. Previous \in Blocks /\ Previous # Genesis
    <3>1. switch.next \in 1 .. Height(switch.old)
      BY <2>1, NextOnBranch
    <3> QED
      BY <2>1, <3>1, StepUp DEF Previous
  <2>3. /\ Range(Path[tip']) = Range(Path[tip]) \cup {Previous} /\ pool' = pool \ Range(TxsOf[Previous])
        /\ tip' = Previous
    BY <1>5, <2>1, <2>2, AcceptedIsSound DEF Restore, ConnectToMain
  <2>4. TxsIn(Range(Path[tip'])) = TxsIn(Range(Path[tip])) \cup Range(TxsOf[Previous])
    BY <2>3, TxsInUnion
  <2>5. switch'.old = switch.old /\ (switch'.phase = "failed" => Previous = switch.old)
    BY <1>5, <2>0, <2>1 DEF Restore, SwitchUnderWay
  <2> QED
    BY <2>1, <2>3, <2>4, <2>5, Zenon DEF Kept
<1>6. CASE RestoreFails
  BY <1>6, RestoreSucceeds DEF RestoreFails
<1>7. CASE ConnectFails \/ PushOld \/ (PopThrows /\ UNCHANGED <<tip, pool>>)
  <2>0. switch.phase \in {"connect", "push", "disconnect", "rollback"} /\ switch.phase \in Phases
    BY <1>7 DEF ConnectFails, PushOld, PopThrows, Phases
  <2>1. switch # NoSwitch /\ switch \in SwitchUnderWay
    BY <2>0, InSwitch
  <2>2. switch'.old = switch.old /\ switch'.phase # "failed" /\ UNCHANGED <<tip, pool>>
    BY <1>7, <2>0, <2>1, Zenon DEF ConnectFails, PushOld, PopThrows, SwitchUnderWay
  <2> QED
    BY <2>1, <2>2 DEF Kept
<1>8. ASSUME switch' # NoSwitch, UNCHANGED switch, switch = NoSwitch \/ UNCHANGED <<tip, pool>>
      PROVE  Kept'
  BY <1>8 DEF Kept
<1> SUFFICES ASSUME switch' # NoSwitch PROVE Kept'
  BY <1>1
<1>9. CASE SwitchStep
  <2>1. PopThrows => PopTop \/ UNCHANGED <<tip, pool>>
    BY DEF PopThrows
  <2> QED
    BY <1>3, <1>4, <1>5, <1>6, <1>7, <1>9, <2>1 DEF SwitchStep, ConnectAborts, GiveUp, Finish
<1>10. CASE UNCHANGED vars
  BY <1>8, <1>10 DEF vars
<1>11. CASE prepare_handle_incoming_blocks
  BY <1>8, <1>11, Zenon DEF prepare_handle_incoming_blocks
<1>12. CASE ~SwitchStep /\ ~prepare_handle_incoming_blocks /\ Next
  <2>1. ~batch.open => switch = NoSwitch
    BY Zenon DEF Inv, TypeOK, OpenBatch
  <2> QED
    BY <1>2, <1>12, <2>1, Zenon DEF Next, NextBlock, cleanup_handle_incoming_blocks, ReceiveTx, DropTx,
         AddToMain, pop_blocks, flush_invalid_blocks, Restart
<1> QED
  BY <1>9, <1>10, <1>11, <1>12

\* blockchain.h on switch_to_alternative_blockchain: "If any step in the
\* reorganization process fails, the blockchain is reverted to its previous state."
\* It is when a block cannot be connected, if the database has all transactions in
\* full.
THEOREM FailedSwitchIsUndone == ASSUME PrunedTxs = {} PROVE Spec => []FailedSwitchReverts
<1>1. Kept => FailedSwitchReverts
  BY Zenon DEF Kept, FailedSwitchReverts
<1>2. Inv /\ Kept /\ [Next]_vars => Kept'
  BY NextKept
<1> QED
  BY <1>1, <1>2, InitKept, Invariance, PTL DEF Spec

\* With a database that has all transactions in full, pop_block_from_blockchain and
\* return_tx_to_pool lose none of the old chain's during a switch.
THEOREM SwitchKeepsTxs == ASSUME PrunedTxs = {} PROVE Spec => []NoTxLost
<1>1. Kept => NoTxLost
  BY DEF Kept, NoTxLost, MainChain
<1>2. Inv /\ Kept /\ [Next]_vars => Kept'
  BY NextKept
<1> QED
  BY <1>1, <1>2, InitKept, Invariance, PTL DEF Spec

-----------------------------------------------------------------------------
(* The blocks known as invalid.                                            *)

LEMMA InitInvalidApart == Init => InvalidApart
BY DEF Init, InvalidApart, NoSwitch

\* check_tx_inputs never fails for a sound block on top of its parent.
LEMMA SoundHasRightInputs ==
    ASSUME NEW b \in Blocks, Parent(b) = tip, Sound(b)
    PROVE  ~HasWrongInputs(b)
<1>1. \A t \in Range(TxsOf[b]) : check_tx_inputs(t)
  BY DEF Sound, check_tx_inputs, MainChain
<1>2. \A i \in DOMAIN TxsOf[b] : TxsOf[b][i] \in Range(TxsOf[b])
  BY DEF Range
<1> QED
  BY <1>1, <1>2, Zenon DEF HasWrongInputs

\* A block of both chains can fail only for a transaction that the pool lacks.
LEMMA StuckWhenFailed == ASSUME Inv, ConnectFails PROVE Stuck'
<1>0. switch.phase = "connect" /\ switch.phase \in Phases
  BY DEF ConnectFails, Phases
<1>1. /\ switch \in SwitchUnderWay /\ switch.old \in Blocks /\ switch.to \in Blocks
      /\ SoundTo(switch.old) /\ tip \in Blocks
      /\ switch.next \in switch.split .. Height(switch.to) /\ tip = At(switch.to, switch.next - 1)
      /\ switch.split \in 1 .. Height(switch.to)
  BY <1>0, InSwitch, Zenon DEF Placed, Forks
<1>2. switch.next \in 1 .. Height(switch.to)
  BY <1>1, NextOnBranch, Zenon
<1>3. /\ Target \in Blocks /\ Target # Genesis /\ Parent(Target) = tip /\ Height(tip) = switch.next - 1
  BY <1>1, <1>2, StepUp, Zenon DEF Target
<1>4. /\ switch'.old = switch.old /\ switch'.to = switch.to /\ switch'.failed = switch.next
      /\ UNCHANGED <<tip, pool>>
  BY <1>1 DEF ConnectFails, SwitchUnderWay
<1>5. ASSUME Target \in Range(Path[switch.old])
      PROVE  \E t \in Range(TxsOf[Target]) : t \notin pool
  <2>1. Sound(Target)
    BY <1>1, <1>3, <1>5 DEF SoundTo
  <2>2. ~Accepted(Target)
    BY DEF ConnectFails, Accepted
  <2> QED
    BY <1>3, <2>1, <2>2, SoundIsAccepted
<1>6. Height(tip) < switch.next
  BY <1>2, <1>3
<1> QED
  BY <1>4, <1>5, <1>6 DEF Stuck, Target

\* The blocks that are popped do not bring the transaction back.
LEMMA StuckInRollback == ASSUME Inv, Stuck, Rollback PROVE Stuck'
<1>0. switch.phase = "rollback" /\ switch.phase \in Phases
  BY DEF Rollback, Phases
<1>1. /\ switch \in SwitchUnderWay /\ switch.old \in Blocks /\ switch.to \in Blocks
      /\ SoundTo(switch.old) /\ tip \in Blocks /\ SoundTo(tip) /\ pool \subseteq Txs
      /\ tip \in Range(Path[switch.to]) /\ Height(tip) < switch.failed /\ switch.split <= Height(tip)
      /\ switch.failed \in switch.split .. Height(switch.to)
      /\ switch.split \in 1 .. Height(switch.to)
  BY <1>0, InSwitch, Zenon DEF Placed, Forks
<1>2. /\ switch.failed \in 1 .. Height(switch.to) /\ switch.failed \in Nat
      /\ Height(tip) \in Nat /\ Height(tip) >= 1
  <2>1. switch.failed \in 1 .. Height(switch.to)
    BY <1>1, NextOnBranch, Zenon
  <2>2. Height(switch.to) \in Nat /\ Height(tip) \in Nat
    BY <1>1, TopOfBranch
  <2> QED
    BY <1>1, <2>1, <2>2
<1>3. Height(tip') = Height(tip) - 1 /\ pool' = pool \cup (Range(TxsOf[tip]) \ PrunedTxs)
  <2>1. tip # Genesis
    BY <1>2, GenesisHeight
  <2>2. PopTop
    BY DEF Rollback
  <2> QED
    BY <1>1, <2>1, <2>2, PopsTop DEF PopTop
<1>4. switch'.old = switch.old /\ switch'.to = switch.to /\ switch'.failed = switch.failed
  BY <1>1 DEF Rollback, SwitchUnderWay
<1> DEFINE b == At(switch.to, switch.failed)
<1>5. b \in Blocks /\ b # Genesis /\ tip \in Range(Path[Parent(b)])
  BY <1>1, <1>2, StepUp, BelowStep, Zenon
<1> HIDE DEF b
<1>6. ASSUME b \in Range(Path[switch.old])
      PROVE  Height(tip') < switch.failed /\ \E t \in Range(TxsOf[b]) : t \notin pool'
  <2>1. Sound(b)
    BY <1>1, <1>5, <1>6 DEF SoundTo
  <2>2. PICK t \in Range(TxsOf[b]) : t \notin pool
    BY <1>6 DEF Stuck, b
  <2>3. t \notin TxsIn(Range(Path[Parent(b)]))
    BY <2>1 DEF Sound
  <2>4. t \notin Range(TxsOf[tip])
    BY <1>5, <2>3, Zenon DEF TxsIn
  <2>5. Height(tip') < switch.failed
    BY <1>1, <1>2, <1>3
  <2> QED
    BY <1>3, <2>2, <2>4, <2>5
<1> QED
  BY <1>4, <1>6 DEF Stuck, b

\* Nor do the blocks that are restored, and the block itself is not accepted.
LEMMA StuckInRestore == ASSUME Inv, Stuck, Restore \/ RestoreFails PROVE Stuck'
<1>0. switch.phase = "restore" /\ switch.phase \in Phases
  BY DEF Restore, RestoreFails, Phases
<1>1. /\ switch \in SwitchUnderWay /\ switch.old \in Blocks /\ switch.to \in Blocks /\ tip \in Blocks
      /\ switch.next \in switch.split .. Height(switch.old) /\ tip = At(switch.old, switch.next - 1)
      /\ switch.split \in 1 .. Height(switch.old)
      /\ switch.failed \in switch.split .. Height(switch.to)
      /\ switch.split \in 1 .. Height(switch.to)
  BY <1>0, InSwitch, Zenon DEF Placed, Forks
<1>2. switch.next \in 1 .. Height(switch.old) /\ switch.failed \in 1 .. Height(switch.to)
  BY <1>1, NextOnBranch, Zenon
<1>3. switch'.old = switch.old /\ switch'.to = switch.to /\ switch'.failed = switch.failed
  BY <1>1 DEF Restore, RestoreFails, SwitchUnderWay
<1>4. CASE RestoreFails
  BY <1>3, <1>4 DEF RestoreFails, Stuck
<1>5. CASE Restore
  <2>1. /\ Height(Previous) = switch.next /\ Height(tip) = switch.next - 1
        /\ tip' = Previous /\ pool' \subseteq pool /\ Accepted(Previous)
    BY <1>1, <1>2, <1>5, StepUp DEF Previous, Restore, ConnectToMain
  <2> DEFINE b == At(switch.to, switch.failed)
  <2>2. Height(b) = switch.failed
    BY <1>1, <1>2, StepUp
  <2> HIDE DEF b
  <2>3. ASSUME b \in Range(Path[switch.old])
        PROVE  Height(tip') < switch.failed /\ \E t \in Range(TxsOf[b]) : t \notin pool'
    <3>1. Height(tip) < switch.failed /\ \E t \in Range(TxsOf[b]) : t \notin pool
      BY <2>3 DEF Stuck, b
    <3>2. At(switch.old, switch.failed) = b
      BY <1>1, <2>2, <2>3, OnPath
    <3>3. switch.next # switch.failed
      <4> SUFFICES ASSUME switch.next = switch.failed PROVE FALSE
        OBVIOUS
      <4>1. Previous = b
        BY <3>2 DEF Previous
      <4>2. \A i \in DOMAIN TxsOf[b] : TxsOf[b][i] \in pool
        BY <2>1, <4>1 DEF Accepted, ReachesDatabase, TxFine, Unavailable
      <4> QED
        BY <3>1, <4>2 DEF Range
    <3>4. switch.next < switch.failed
      <4>1. Height(switch.old) \in Nat /\ Height(switch.to) \in Nat
        BY <1>1, TopOfBranch
      <4> QED
        BY <1>2, <2>1, <3>1, <3>3, <4>1
    <3> QED
      BY <2>1, <3>1, <3>4
  <2> QED
    BY <1>3, <2>3 DEF Stuck, b
<1> QED
  BY <1>4, <1>5

\* A block is marked while it is neither on the main chain nor to be restored, and
\* either it is unsound or it is no alternative block any more.
LEMMA NextInvalidApart ==
    ASSUME \A b \in Blocks : ~SpendsTwice(b), Inv, InvalidApart, [Next]_vars
    PROVE  InvalidApart'
<1>0. tip \in Blocks /\ (~batch.open => switch = NoSwitch)
  BY Zenon DEF Inv, TypeOK, OpenBatch
<1>1. ASSUME UNCHANGED <<tip, alt>>, invalid' \subseteq invalid, switch' = NoSwitch PROVE InvalidApart'
  BY <1>1 DEF InvalidApart, NoSwitch
<1>2. ASSUME NEW b \in Blocks, AddToMain(b) PROVE InvalidApart'
  <2>0. switch = NoSwitch /\ switch' = NoSwitch /\ b \notin MainChain \cup alt \cup invalid
    BY <1>2, Zenon DEF AddToMain, have_block
  <2>1. CASE Accepted(b) /\ ConnectToMain(b) /\ UNCHANGED <<alt, invalid, batch>>
    <3>1. b # Genesis
      BY <1>0, <2>0, GenesisOnPath, Zenon DEF MainChain
    <3>2. Range(Path[tip']) = Range(Path[tip]) \cup {b}
      BY <1>0, <2>1, <3>1, AcceptedIsSound, Zenon DEF Inv, ConnectToMain
    <3> QED
      BY <2>0, <2>1, <3>2 DEF InvalidApart, NoSwitch
  <2>2. CASE UNCHANGED <<tip, alt>> /\ invalid' = InvalidAfter(b)
    <3>1. invalid' \subseteq invalid \cup {b} /\ b \notin Range(Path[tip]) /\ b \notin alt
      BY <2>0, <2>2 DEF InvalidAfter, MainChain
    <3> QED
      BY <2>0, <2>2, <3>1 DEF InvalidApart, NoSwitch
  <2> QED
    BY <1>2, <2>1, <2>2 DEF AddToMain
<1>3. ASSUME NEW b \in Blocks, AddAlternative(b) PROVE InvalidApart'
  <2>1. /\ switch = NoSwitch /\ b \notin invalid /\ alt' = alt \cup {b} /\ UNCHANGED <<tip, invalid>>
        /\ switch' = NoSwitch \/ (switch'.phase = "disconnect" /\ switch'.old = tip)
    BY <1>3, SMTT(20), Zenon DEF AddAlternative, have_block, StartSwitch
  <2> QED
    BY <2>1 DEF InvalidApart, NoSwitch
<1>4. CASE Disconnect \/ Rollback \/ PopThrows
  <2>0. switch.phase \in {"disconnect", "rollback"} /\ switch.phase \in Phases
    BY <1>4 DEF Disconnect, Rollback, PopThrows, Phases
  <2>1. /\ switch \in SwitchUnderWay /\ switch # NoSwitch /\ SoundTo(tip) /\ pool \subseteq Txs
        /\ switch.split <= Height(tip) /\ switch.split >= 1 /\ switch.split \in Nat
    <3>1. switch \in SwitchUnderWay /\ switch # NoSwitch /\ SoundTo(tip) /\ pool \subseteq Txs /\ Forks /\ Placed
      BY <2>0, InSwitch
    <3>2. switch.split \in Nat
      BY <3>1, Zenon DEF SwitchUnderWay
    <3>3. switch.split <= Height(tip)
      BY <2>0, <3>1, Zenon DEF Placed
    <3>4. switch.split >= 1
      BY <3>1 DEF Forks
    <3> QED
      BY <3>1, <3>2, <3>3, <3>4
  <2>2. tip # Genesis
    BY <2>1, GenesisHeight
  <2>3. Range(Path[tip']) \subseteq Range(Path[tip])
    <3>1. PopTop \/ UNCHANGED tip
      BY <1>4 DEF Disconnect, Rollback, PopThrows
    <3> QED
      BY <1>0, <2>1, <2>2, <3>1, PopsTop
  <2>4. /\ UNCHANGED <<alt, invalid>> /\ switch'.old = switch.old
        /\ switch'.phase \in {"rollback", "restore", "failed"} => Rollback /\ switch.phase = "rollback"
    BY <1>4, <2>0, <2>1 DEF Disconnect, Rollback, PopThrows, SwitchUnderWay
  <2>5. switch'.phase \in {"rollback", "restore", "failed"} => Stuck'
    BY <2>4, StuckInRollback DEF InvalidApart
  <2> QED
    BY <2>1, <2>3, <2>4, <2>5 DEF InvalidApart
<1>5. CASE Connect \/ ConnectFails
  <2>0. switch.phase = "connect" /\ switch.phase \in Phases
    BY <1>5, Zenon DEF Connect, ConnectFails, Phases
  <2>1. /\ switch \in SwitchUnderWay /\ switch # NoSwitch /\ SoundTo(tip) /\ SoundTo(switch.old)
        /\ switch.old \in Blocks
        /\ switch.to \in Blocks /\ switch.next \in switch.split .. Height(switch.to)
        /\ switch.split \in 1 .. Height(switch.to) /\ tip = At(switch.to, switch.next - 1)
        /\ BlocksFrom(switch.to, switch.split) \subseteq alt
    BY <2>0, InSwitch, Zenon DEF Placed, Forks
  <2>2. switch.next \in 1 .. Height(switch.to)
    BY <2>1, NextOnBranch, Zenon
  <2>3. /\ Target \in Blocks /\ Target # Genesis /\ Parent(Target) = tip
        /\ Target \notin Range(Path[tip])
    BY <2>1, <2>2, StepUp, Zenon DEF Target
  <2>4. Target \in alt
    BY <2>1, Zenon DEF Target, BlocksFrom
  <2>5. CASE Connect
    <3>1. Range(Path[tip']) = Range(Path[tip]) \cup {Target} /\ SoundTo(Target) /\ UNCHANGED <<alt, invalid>>
      BY <1>0, <2>1, <2>3, <2>5, AcceptedIsSound DEF Connect, ConnectToMain
    <3>2. switch'.old = switch.old /\ switch'.phase \in {"connect", "push", "finish"}
      BY <2>0, <2>1, <2>5, Zenon DEF Connect, SwitchUnderWay
    <3>3. Sound(Target)
      BY <2>3, <3>1, ParentBelow DEF SoundTo
    <3>4. Target \notin invalid
      BY <2>4, <3>3 DEF InvalidApart
    <3> QED
      BY <2>1, <3>1, <3>2, <3>4 DEF InvalidApart
  <2>6. CASE ConnectFails
    <3>1. UNCHANGED <<tip, alt>> /\ (invalid' = invalid \/ (invalid' = invalid \cup {Target} /\ HasWrongInputs(Target)))
      BY <2>6 DEF ConnectFails, InvalidAfter
    <3>2. switch'.old = switch.old
      BY <2>1, <2>6 DEF ConnectFails, SwitchUnderWay
    <3>3. ASSUME HasWrongInputs(Target)
          PROVE  ~Sound(Target) /\ Target \notin Range(Path[switch.old])
      <4>1. ~Sound(Target)
        BY <2>3, <3>3, SoundHasRightInputs
      <4> QED
        BY <2>1, <2>3, <4>1 DEF SoundTo
    <3>4. Stuck'
      BY <2>6, StuckWhenFailed
    <3> QED
      BY <2>1, <2>3, <3>1, <3>2, <3>3, <3>4, Zenon DEF InvalidApart
  <2> QED
    BY <1>5, <2>5, <2>6
<1>6. CASE Restore \/ RestoreFails
  <2>0. switch.phase = "restore" /\ switch.phase \in Phases
    BY <1>6, Zenon DEF Restore, RestoreFails, Phases
  <2>1. /\ switch \in SwitchUnderWay /\ switch # NoSwitch /\ SoundTo(tip) /\ SoundTo(switch.old)
        /\ switch.old \in Blocks /\ switch.next \in switch.split .. Height(switch.old)
        /\ switch.split \in 1 .. Height(switch.old) /\ tip = At(switch.old, switch.next - 1)
    BY <2>0, InSwitch, Zenon DEF Placed, Forks
  <2>2. switch.next \in 1 .. Height(switch.old)
    BY <2>1, NextOnBranch, Zenon
  <2>3. /\ Previous \in Blocks /\ Previous # Genesis /\ Previous \in Range(Path[switch.old])
        /\ Parent(Previous) = tip
    BY <2>1, <2>2, StepUp, Zenon DEF Previous
  <2>4. switch'.old = switch.old /\ UNCHANGED alt
    BY <1>6, <2>1 DEF Restore, RestoreFails, SwitchUnderWay
  <2>5. Range(Path[tip']) \subseteq Range(Path[tip]) \cup {Previous}
    BY <1>0, <1>6, <2>1, <2>3, AcceptedIsSound DEF Restore, RestoreFails, ConnectToMain
  <2>6. UNCHANGED invalid
    <3>1. ~HasWrongInputs(Previous)
      BY <2>1, <2>3, SoundHasRightInputs DEF SoundTo
    <3> QED
      BY <1>6, <3>1 DEF Restore, RestoreFails, InvalidAfter
  <2>7. Stuck'
    BY <1>6, <2>0, StuckInRestore DEF InvalidApart
  <2> QED
    BY <2>1, <2>3, <2>4, <2>5, <2>6, <2>7 DEF InvalidApart
<1>7. CASE GiveUp
  <2>0. switch.phase = "failed" /\ switch.phase \in Phases
    BY <1>7, Zenon DEF GiveUp, Phases
  <2>1. /\ switch.old \in Blocks /\ switch.to \in Blocks /\ tip \in Range(Path[switch.old])
        /\ switch.failed \in switch.split .. Height(switch.to)
        /\ switch.split \in 1 .. Height(switch.to)
    BY <2>0, InSwitch, Zenon DEF Placed, Forks
  <2>2. switch.failed \in 1 .. Height(switch.to) /\ Height(switch.to) \in Nat
    BY <2>1, NextOnBranch, TopOfBranch
  <2>3. ASSUME NEW h \in switch.failed .. Height(switch.to), At(switch.to, h) \in Range(Path[tip])
        PROVE  FALSE
    <3> DEFINE c == At(switch.to, h)
               b == At(switch.to, switch.failed)
    <3>1. h \in 0 .. Height(switch.to) /\ switch.failed \in 0 .. h
      BY <2>2
    <3>2. c \in Blocks /\ Height(c) = h /\ At(c, switch.failed) = b
      BY <2>1, <3>1, Tree
    <3>3. Height(c) \in 0 .. Height(tip) /\ c \in Range(Path[switch.old])
      BY <1>0, <2>1, <2>3, OnPath
    <3>4. b \in Range(Path[switch.old])
      <4>1. b \in Range(Path[c])
        BY <2>1, <3>1, AncestorOnPath
      <4> QED
        BY <2>1, <3>3, <4>1, OnPath
    <3>5. Height(tip) < switch.failed
      BY <2>0, <3>4 DEF InvalidApart, Stuck
    <3>6. Height(tip) \in Nat
      BY <1>0, TopOfBranch
    <3> QED
      BY <2>2, <3>2, <3>3, <3>5, <3>6
  <2>4. /\ invalid' = invalid \cup BlocksFrom(switch.to, switch.failed)
        /\ alt' = alt \ BlocksFrom(switch.to, switch.failed)
        /\ switch' = NoSwitch /\ UNCHANGED tip
    BY <1>7, Zenon DEF GiveUp
  <2>5. BlocksFrom(switch.to, switch.failed) \cap Range(Path[tip]) = {}
    BY <2>3 DEF BlocksFrom
  <2> QED
    BY <2>4, <2>5 DEF InvalidApart, NoSwitch
<1>8. CASE PushOld
  <2>0. switch.phase = "push" /\ switch.phase \in Phases
    BY <1>8, Zenon DEF PushOld, Phases
  <2>1. /\ switch \in SwitchUnderWay /\ switch # NoSwitch /\ switch.old \in Blocks
        /\ switch.next \in switch.split .. Height(switch.old)
        /\ switch.split \in 1 .. Height(switch.old)
    BY <2>0, InSwitch, Zenon DEF Placed, Forks
  <2>2. Previous \in Range(Path[switch.old])
    <3>1. switch.next \in 1 .. Height(switch.old)
      BY <2>1, NextOnBranch
    <3> QED
      BY <2>1, <3>1, StepUp DEF Previous
  <2>3. /\ alt' \subseteq alt \cup {Previous} /\ UNCHANGED <<tip, invalid>>
        /\ switch'.old = switch.old /\ switch'.phase \in {"push", "finish"}
    BY <1>8, <2>0, <2>1, Zenon DEF PushOld, SwitchUnderWay
  <2> QED
    BY <2>1, <2>2, <2>3 DEF InvalidApart
<1>9. CASE Finish
  <2>1. switch' = NoSwitch /\ alt' \subseteq alt /\ UNCHANGED <<tip, invalid>>
    BY <1>9 DEF Finish
  <2> QED
    BY <2>1 DEF InvalidApart, NoSwitch
<1>10. CASE ConnectAborts
  <2>0. switch.phase = "connect" /\ switch.phase \in Phases
    BY <1>10, Zenon DEF ConnectAborts, Phases
  <2>1. /\ switch.to \in Blocks /\ switch.next \in switch.split .. Height(switch.to)
        /\ switch.split \in 1 .. Height(switch.to)
    BY <2>0, InSwitch, Zenon DEF Placed, Forks
  <2>2. Target \in Blocks
    <3>1. switch.next \in 1 .. Height(switch.to)
      BY <2>1, NextOnBranch
    <3> QED
      BY <2>1, <3>1, StepUp DEF Target
  <2> QED
    BY <1>10, <2>2 DEF ConnectAborts
<1>11. CASE SwitchStep
  BY <1>4, <1>5, <1>6, <1>7, <1>8, <1>9, <1>10, <1>11, Zenon DEF SwitchStep
<1>12. ASSUME NEW height \in 0 .. (Height(tip) - 1), pop_blocks(height) PROVE InvalidApart'
  <2>1. switch = NoSwitch /\ UNCHANGED <<alt, invalid, switch>> /\ tip' = At(tip, height)
    BY <1>0, <1>12 DEF pop_blocks
  <2>2. tip' \in Range(Path[tip])
    <3>1. height \in 0 .. Height(tip)
      <4>1. Height(tip) \in Nat
        BY <1>0, TopOfBranch
      <4> QED
        BY <4>1
    <3> QED
      BY <1>0, <2>1, <3>1, Tree
  <2>3. Range(Path[tip']) \subseteq Range(Path[tip])
    BY <1>0, <2>2, OnPath, Zenon
  <2> QED
    BY <2>1, <2>3 DEF InvalidApart, NoSwitch
<1>13. ASSUME NEW keep_alt_blocks \in BOOLEAN, Restart(keep_alt_blocks) PROVE InvalidApart'
  BY <1>13, Zenon DEF Restart, InvalidApart, NoSwitch
<1>14. CASE UNCHANGED vars
  <2>1. UNCHANGED <<tip, alt, invalid, pool, switch>>
    BY <1>14 DEF vars
  <2> QED
    BY <2>1, Zenon DEF InvalidApart, Stuck
<1>15. CASE cleanup_handle_incoming_blocks
  BY <1>1, <1>15 DEF cleanup_handle_incoming_blocks
<1>16. ASSUME \/ prepare_handle_incoming_blocks
              \/ \E t \in Txs : ReceiveTx(t) \/ DropTx(t)
              \/ flush_invalid_blocks
       PROVE  InvalidApart'
  BY <1>0, <1>1, <1>16 DEF prepare_handle_incoming_blocks, ReceiveTx, DropTx, flush_invalid_blocks
<1> QED
  BY <1>2, <1>3, <1>11, <1>12, <1>13, <1>14, <1>15, <1>16 DEF Next, NextBlock

\* A block in m_invalid_blocks is never on the main chain, not even in the middle of
\* a switch to a chain it belongs to, as long as no block makes the database throw:
\* an aborted batch brings blocks back that a switch had marked.
THEOREM InvalidBlocksStayOff ==
    ASSUME \A b \in Blocks : ~SpendsTwice(b)
    PROVE  Spec => []InvalidStaysOff
<1>1. InvalidApart => InvalidStaysOff
  BY DEF InvalidApart, InvalidStaysOff, MainChain
<1>2. Inv /\ InvalidApart /\ [Next]_vars => InvalidApart'
  BY NextInvalidApart
<1> QED
  BY <1>1, <1>2, InitInvalidApart, Invariance, PTL DEF Spec

-----------------------------------------------------------------------------
(* What is seen from outside of the batch.                                 *)

LEMMA PassesAt ==
    ASSUME NEW b \in Blocks, NEW h \in DOMAIN Checkpoints
    PROVE  Selection!Passes(b, h) <=> h <= Height(b) /\ At(b, h) = Checkpoints[h]
<1>1. h \in Nat /\ Height(b) \in Nat /\ Height(b) = Len(Path[b]) - 1
  BY Tree, BlockchainAssumption DEF Height
<1>2. Len(Path[b]) \in Nat
  BY BlockchainAssumption
<1> QED
  BY <1>1, <1>2 DEF Selection!Passes, At

\* A block on top of a chain keeps its checkpoints and adds work.
LEMMA ExtensionFollows ==
    ASSUME NEW a \in Blocks, NEW b \in Blocks, b # Genesis, MayFollow(a, Parent(b))
    PROVE  MayFollow(a, b)
<1>1. /\ Parent(b) \in Blocks /\ Height(Parent(b)) = Height(b) - 1 /\ Work[Parent(b)] < Work[b]
      /\ \A h \in 0 .. (Height(b) - 1) : At(Parent(b), h) = At(b, h)
  BY ParentBelow, Zenon
<1>2. \A c \in Blocks : Work[c] \in Nat /\ Height(c) \in Nat
  BY Tree, BlockchainAssumption
<1>3. \A h \in DOMAIN Checkpoints : Selection!Passes(Parent(b), h) => Selection!Passes(b, h)
  <2> SUFFICES ASSUME NEW h \in DOMAIN Checkpoints, Selection!Passes(Parent(b), h)
               PROVE  Selection!Passes(b, h)
    OBVIOUS
  <2>1. h <= Height(b) - 1 /\ At(Parent(b), h) = Checkpoints[h] /\ h \in Nat
    BY <1>1, PassesAt, BlockchainAssumption
  <2>2. h \in 0 .. (Height(b) - 1) /\ h <= Height(b)
    BY <1>2, <2>1
  <2> QED
    BY <1>1, <2>1, <2>2, PassesAt
<1>4. \/ a = Parent(b)
      \/ Work[a] < Work[Parent(b)]
      \/ \E h \in DOMAIN Checkpoints : Selection!Passes(Parent(b), h) /\ ~Selection!Passes(a, h)
  BY DEF MayFollow
<1>5. \/ Work[a] < Work[b]
      \/ \E h \in DOMAIN Checkpoints : Selection!Passes(b, h) /\ ~Selection!Passes(a, h)
  BY <1>1, <1>2, <1>3, <1>4
<1> QED
  BY <1>3, <1>5, Zenon DEF MayFollow

\* The chain that a switch ends with keeps the checkpoints of the one it leaves, and
\* has more work or one more checkpoint.
LEMMA SwitchFollows ==
    ASSUME Inv, switch.phase \in Phases, NEW a \in Blocks, MayFollow(a, switch.old)
    PROVE  MayFollow(a, switch.to)
<1> DEFINE old == switch.old
           to == switch.to
           split == switch.split
<1>1. /\ old \in Blocks /\ to \in Blocks /\ split \in 1 .. Height(old) /\ split \in 1 .. Height(to)
      /\ At(old, split - 1) = At(to, split - 1)
      /\ BlocksFrom(to, split) \subseteq alt
      /\ \A h \in DOMAIN Checkpoints :
            h \in split .. Height(old) => h < Height(to) /\ At(old, h) = At(to, h)
      /\ switch.discard = IsCheckpoint(to)
      /\ switch.discard => Height(old) < Height(to)
      /\ ~switch.discard => Work[old] < Work[to]
  BY InSwitch, Zenon DEF Forks
<1>2. /\ \A c \in Blocks : Work[c] \in Nat /\ Height(c) \in Nat
      /\ \A h \in DOMAIN Checkpoints : h \in Nat
  BY Tree, BlockchainAssumption, Zenon
<1> HIDE DEF old, to, split
<1>3. \A h \in DOMAIN Checkpoints : Selection!Passes(old, h) => Selection!Passes(to, h)
  <2> SUFFICES ASSUME NEW h \in DOMAIN Checkpoints, Selection!Passes(old, h)
               PROVE  Selection!Passes(to, h)
    OBVIOUS
  <2>1. h <= Height(old) /\ At(old, h) = Checkpoints[h]
    BY <1>1, PassesAt
  <2>2. CASE h \in split .. Height(old)
    <3>1. h < Height(to) /\ At(to, h) = Checkpoints[h]
      BY <1>1, <2>1, <2>2
    <3>2. h <= Height(to)
      BY <1>1, <1>2, <3>1
    <3> QED
      BY <1>1, <3>1, <3>2, PassesAt
  <2>3. CASE h \notin split .. Height(old)
    <3>1. h \in 0 .. (split - 1) /\ split - 1 \in 0 .. Height(old) /\ split - 1 \in 0 .. Height(to)
          /\ h <= Height(to)
      BY <1>1, <1>2, <2>1, <2>3
    <3>2. At(At(old, split - 1), h) = At(old, h) /\ At(At(to, split - 1), h) = At(to, h)
      <4> DEFINE d == split - 1
      <4>1. old \in Blocks /\ to \in Blocks /\ d \in 0 .. Height(old) /\ d \in 0 .. Height(to) /\ h \in 0 .. d
        BY <1>1, <3>1
      <4> HIDE DEF d
      <4>2. At(At(old, d), h) = At(old, h)
        BY <4>1, SamePrefix
      <4>3. At(At(to, d), h) = At(to, h)
        BY <4>1, SamePrefix
      <4> QED
        BY <4>2, <4>3 DEF d
    <3> QED
      BY <1>1, <2>1, <3>1, <3>2, PassesAt, Zenon
  <2> QED
    BY <2>2, <2>3
<1>4. \A h \in DOMAIN Checkpoints : Selection!Passes(a, h) => Selection!Passes(old, h)
  BY Zenon DEF MayFollow, old
<1>5. CASE switch.discard
  <2>1. Height(to) \in DOMAIN Checkpoints
    BY <1>1, <1>5, Zenon DEF IsCheckpoint
  <2>2. Selection!Passes(to, Height(to))
    <3>1. At(to, Height(to)) = to /\ Height(to) \in split .. Height(to)
      <4>1. Height(to) \in Nat /\ At(to, Height(to)) = to
        BY <1>1, TopOfBranch
      <4> QED
        BY <1>1, <4>1
    <3>2. to \in alt
      BY <1>1, <3>1 DEF BlocksFrom
    <3>3. Checkpoints[Height(to)] = to
      BY <2>1, <3>2 DEF Inv, check_block
    <3> QED
      <4>1. to \in Blocks /\ Height(to) <= Height(to) /\ At(to, Height(to)) = Checkpoints[Height(to)]
        <5>1. to \in Blocks /\ Height(to) \in Nat
          BY <1>1, TopOfBranch
        <5>2. At(to, Height(to)) = Checkpoints[Height(to)]
          BY <3>1, <3>3
        <5> QED
          BY <5>1, <5>2
      <4> QED
        BY <2>1, <4>1, PassesAt
  <2>3. ~Selection!Passes(a, Height(to))
    BY <1>1, <1>2, <1>4, <1>5, <2>1, PassesAt
  <2> QED
    BY <1>3, <1>4, <2>1, <2>2, <2>3 DEF MayFollow, to
<1>6. CASE ~switch.discard
  <2>1. \/ a = old
        \/ Work[a] < Work[old]
        \/ \E h \in DOMAIN Checkpoints : Selection!Passes(old, h) /\ ~Selection!Passes(a, h)
    BY DEF MayFollow, old
  <2>2. \/ Work[a] < Work[to]
        \/ \E h \in DOMAIN Checkpoints : Selection!Passes(to, h) /\ ~Selection!Passes(a, h)
    BY <1>1, <1>2, <1>3, <1>6, <2>1
  <2> QED
    BY <1>3, <1>4, <2>2 DEF MayFollow, to
<1> QED
  BY <1>5, <1>6, Zenon

LEMMA InitBatchAdvances == Init => BatchAdvances
BY DEF Init, BatchAdvances, NoBatch

LEMMA NextBatchAdvances ==
    ASSUME PrunedTxs = {}, Inv, Kept, BatchAdvances, [Next]_vars
    PROVE  BatchAdvances'
<1>0. tip \in Blocks /\ (~batch.open => switch = NoSwitch) /\ (batch.open => batch.tip \in Blocks)
  BY SwitchInBatch
<1> SUFFICES ASSUME batch'.open
             PROVE  MayFollow(batch'.tip, IF switch' = NoSwitch THEN tip' ELSE switch'.old)
  BY DEF BatchAdvances
<1>1. CASE UNCHANGED <<batch, switch>> /\ (switch = NoSwitch => tip' = tip)
  BY <1>1 DEF BatchAdvances
<1>2. CASE prepare_handle_incoming_blocks
  BY <1>0, <1>2 DEF prepare_handle_incoming_blocks, Saved, MayFollow
<1>3. ASSUME NEW b \in Blocks, AddToMain(b)
      PROVE  MayFollow(batch'.tip, IF switch' = NoSwitch THEN tip' ELSE switch'.old)
  <2>1. CASE Accepted(b) /\ ConnectToMain(b) /\ UNCHANGED batch
    <3>1. b # Genesis
      BY <1>0, <1>3, GenesisOnPath DEF AddToMain, have_block, MainChain
    <3>2. switch = NoSwitch /\ switch' = NoSwitch /\ batch.open /\ Parent(b) = tip /\ tip' = b
      BY <1>3, <2>1 DEF AddToMain, ConnectToMain
    <3>3. MayFollow(batch.tip, Parent(b))
      BY <3>2 DEF BatchAdvances
    <3> QED
      BY <1>0, <2>1, <3>1, <3>2, <3>3, ExtensionFollows, Zenon
  <2>2. CASE UNCHANGED <<tip, batch>>
    BY <1>1, <1>3, <2>2 DEF AddToMain
  <2>3. CASE AbortBatch
    BY <2>3 DEF AbortBatch, NoBatch
  <2> QED
    BY <1>3, <2>1, <2>2, <2>3 DEF AddToMain
<1>4. ASSUME NEW b \in Blocks, AddAlternative(b)
      PROVE  MayFollow(batch'.tip, IF switch' = NoSwitch THEN tip' ELSE switch'.old)
  <2>1. switch = NoSwitch /\ UNCHANGED <<tip, batch>> /\ (switch' = NoSwitch \/ switch'.old = tip)
    BY <1>4 DEF AddAlternative, StartSwitch
  <2> QED
    BY <2>1, Zenon DEF BatchAdvances
<1>5. CASE SwitchStep
  <2>0. switch.phase \in Phases
    BY <1>5, Zenon DEF SwitchStep, Disconnect, Connect, ConnectFails, ConnectAborts, Rollback, Restore,
                RestoreFails, GiveUp, PushOld, Finish, PopThrows, Phases
  <2>1. switch \in SwitchUnderWay /\ switch # NoSwitch /\ batch.open /\ MayFollow(batch.tip, switch.old)
    BY <2>0, InSwitch, Zenon DEF BatchAdvances
  <2>2. CASE GiveUp
    BY <2>1, <2>2, Zenon DEF GiveUp, Kept
  <2>3. CASE Finish
    <3>1. tip = switch.to /\ switch' = NoSwitch /\ UNCHANGED <<tip, batch>>
      BY <2>0, <2>3, InSwitch, Zenon DEF Finish, Placed
    <3> QED
      BY <1>0, <2>0, <2>1, <3>1, SwitchFollows, Zenon
  <2>4. CASE ConnectAborts
    BY <2>4, Zenon DEF ConnectAborts, AbortBatch, NoBatch
  <2>5. CASE ~GiveUp /\ ~Finish /\ ~ConnectAborts
    <3>1. switch'.old = switch.old /\ switch'.phase \in Phases /\ UNCHANGED batch
      BY <1>5, <2>0, <2>1, <2>5, Zenon DEF SwitchStep, Disconnect, Connect, ConnectFails, Rollback, Restore,
                RestoreFails, PushOld, PopThrows, Phases, SwitchUnderWay
    <3>2. switch' # NoSwitch
      BY <3>1 DEF Phases, NoSwitch
    <3> QED
      BY <2>1, <3>1, <3>2
  <2> QED
    BY <2>2, <2>3, <2>4, <2>5
<1>6. ASSUME NEW height \in 0 .. (Height(tip) - 1), pop_blocks(height)
      PROVE  FALSE
  BY <1>6 DEF pop_blocks
<1>7. ASSUME NEW keep_alt_blocks \in BOOLEAN, Restart(keep_alt_blocks)
      PROVE  FALSE
  BY <1>7 DEF Restart, NoBatch
<1>8. CASE UNCHANGED vars
  BY <1>1, <1>8 DEF vars
<1>9. CASE cleanup_handle_incoming_blocks
  BY <1>9 DEF cleanup_handle_incoming_blocks, NoBatch
<1> QED
  BY <1>1, <1>2, <1>3, <1>4, <1>5, <1>6, <1>7, <1>8, <1>9 DEF Next, NextBlock, ReceiveTx, DropTx,
     flush_invalid_blocks

\* What is committed after an exception is a part of a chain that may follow.
LEMMA CleanupSelects ==
    ASSUME Inv, BatchAdvances, cleanup_handle_incoming_blocks
    PROVE  Selection!Next
<1>0. tip \in Blocks /\ batch.open /\ batch.tip \in Blocks
  BY SwitchInBatch DEF cleanup_handle_incoming_blocks
<1>1. /\ Committed = batch.tip /\ Committed' = tip /\ ~batch'.open /\ batch'.open = FALSE
      /\ switch' = NoSwitch /\ switch'.phase = "none" /\ switch.phase \in {"none", "thrown"}
  BY DEF cleanup_handle_incoming_blocks, Committed, NoBatch, NoSwitch
<1>2. \A b \in Blocks : MayFollow(batch.tip, b) => Selection!MayBecome(b)
  BY <1>1 DEF MayFollow, Selection!MayBecome, Selection!Better
<1>3. CASE switch = NoSwitch
  <2>1. switch.phase = "none" /\ MayFollow(batch.tip, tip)
    BY <1>0, <1>3 DEF BatchAdvances, NoSwitch
  <2>2. Selection!MayBecome(tip)
    BY <1>0, <1>2, <2>1
  <2>3. Selection!Commit(tip)
    BY <1>0, <1>1, <2>1, <2>2 DEF Selection!Commit
  <2> QED
    BY <1>0, <2>3 DEF Selection!Next
<1>4. CASE switch # NoSwitch
  <2>1. switch \in SwitchUnderWay
    BY <1>4 DEF Inv, TypeOK
  <2>2. switch.phase = "thrown" /\ switch.phase \in Phases
    <3>1. switch.phase # "none" /\ switch.phase \in Phases
      BY <2>1 DEF SwitchUnderWay, Phases
    <3> QED
      BY <1>1, <3>1
  <2>3. switch.old \in Blocks /\ switch.to \in Blocks
        /\ (tip \in Range(Path[switch.old]) \/ tip \in Range(Path[switch.to]))
    BY <2>2, InSwitch, Zenon DEF Placed
  <2>4. MayFollow(batch.tip, switch.old)
    BY <1>0, <1>4 DEF BatchAdvances
  <2>5. MayFollow(batch.tip, switch.to)
    BY <1>0, <2>2, <2>4, SwitchFollows, Zenon
  <2>6. PICK b \in Blocks : Selection!MayBecome(b) /\ tip \in Range(Path[b])
    BY <1>2, <2>3, <2>4, <2>5
  <2>7. PICK h \in DOMAIN Path[b] : tip = Path[b][h]
    BY <2>6 DEF Range
  <2>8. Selection!CommitPart(b, h)
    BY <1>0, <1>1, <2>2, <2>6, <2>7 DEF Selection!CommitPart
  <2> QED
    BY <2>8 DEF Selection!Next
<1> QED
  BY <1>3, <1>4

\* A step of the chain is a step of what others see of it, or none.
LEMMA StepSelects ==
    ASSUME Inv, BatchAdvances, [Next]_vars
    PROVE  [Selection!Next]_(Selection!vars)
<1>0. tip \in Blocks /\ (~batch.open => switch = NoSwitch) /\ (batch.open => batch.tip \in Blocks)
  BY SwitchInBatch
<1>1. CASE UNCHANGED <<batch, switch>> /\ (batch.open \/ UNCHANGED tip)
  BY <1>1 DEF Committed, Selection!vars
<1>2. CASE prepare_handle_incoming_blocks
  <2>1. ~batch.open /\ batch'.open = TRUE /\ UNCHANGED Committed /\ UNCHANGED switch
    BY <1>2 DEF prepare_handle_incoming_blocks, Saved, Committed
  <2> QED
    BY <2>1 DEF Selection!Next, Selection!Begin
<1>3. CASE cleanup_handle_incoming_blocks
  BY <1>3, CleanupSelects, SMTT(20), Zenon
<1>4. CASE batch.open /\ AbortBatch /\ switch'.phase = "none"
  BY <1>4 DEF AbortBatch, Committed, NoBatch, Selection!Next, Selection!Abort
<1>5. ASSUME NEW height \in 0 .. (Height(tip) - 1), pop_blocks(height)
      PROVE  [Selection!Next]_(Selection!vars)
  <2>1. Committed = tip /\ Committed' = Path[tip][height + 1] /\ ~batch.open /\ UNCHANGED <<batch, switch>>
    BY <1>5 DEF pop_blocks, Committed, At
  <2>2. height + 1 \in DOMAIN Path[tip]
    <3>1. Path[tip] \in Seq(Blocks) /\ Len(Path[tip]) \in Nat /\ Height(tip) = Len(Path[tip]) - 1
      BY <1>0, BlockchainAssumption DEF Height
    <3> QED
      BY <3>1
  <2> QED
    BY <2>1, <2>2 DEF Selection!Next, Selection!PopBlocks
<1>6. ASSUME NEW keep_alt_blocks \in BOOLEAN, Restart(keep_alt_blocks)
      PROVE  [Selection!Next]_(Selection!vars)
  <2>1. /\ Committed' = Committed /\ batch' = NoBatch /\ batch'.open = FALSE /\ switch'.phase = "none"
    BY <1>6 DEF Restart, Saved, Committed, NoBatch, NoSwitch
  <2>2. CASE batch.open
    BY <2>1, <2>2 DEF Selection!Next, Selection!Abort
  <2>3. CASE ~batch.open
    <3>1. switch.phase = "none" /\ batch = NoBatch
      BY <1>0, <2>3, ClosedIsNoBatch DEF Inv, NoSwitch
    <3> QED
      BY <2>1, <3>1 DEF Selection!vars
  <2> QED
    BY <2>2, <2>3
<1>7. ASSUME NEW b \in Blocks, AddToMain(b) \/ AddAlternative(b)
      PROVE  [Selection!Next]_(Selection!vars)
  <2>1. switch.phase = "none" /\ switch'.phase \in {"none", "disconnect"} /\ batch.open
    <3>1. CASE AddToMain(b)
      BY <3>1 DEF AddToMain, NoSwitch
    <3>2. CASE AddAlternative(b)
      <4>1. /\ batch.open /\ switch = NoSwitch
            /\ switch' = switch \/ \E front \in 1 .. Height(b) : StartSwitch(b, front)
        BY <3>2 DEF AddAlternative
      <4> QED
        BY <4>1 DEF StartSwitch, NoSwitch
    <3> QED
      BY <1>7, <3>1, <3>2
  <2>2. CASE UNCHANGED batch
    BY <2>1, <2>2, Zenon DEF Committed, Selection!vars
  <2>3. CASE AbortBatch /\ UNCHANGED switch
    BY <1>4, <2>1, <2>3
  <2> QED
    BY <1>7, <2>2, <2>3 DEF AddToMain, AddAlternative
<1>8. CASE SwitchStep
  <2>0. switch.phase \in Phases \ {"thrown"}
    BY <1>8, Zenon DEF SwitchStep, Disconnect, Connect, ConnectFails, ConnectAborts, Rollback, Restore,
                RestoreFails, GiveUp, PushOld, Finish, PopThrows, Phases
  <2>1. batch.open /\ switch \in SwitchUnderWay
    BY <2>0, InSwitch, Zenon
  <2>2. CASE ConnectAborts
    BY <1>4, <2>1, <2>2 DEF ConnectAborts, NoSwitch
  <2>3. CASE PopThrows
    <3>1. switch'.phase = "thrown" /\ UNCHANGED <<batch, Committed>>
      BY <2>1, <2>3 DEF PopThrows, SwitchUnderWay, Committed
    <3> QED
      BY <2>0, <2>1, <3>1, Zenon DEF Selection!Next, Selection!Throw
  <2>4. CASE ~ConnectAborts /\ ~PopThrows
    <3>1. switch'.phase # "thrown" /\ UNCHANGED batch
      <4>1. CASE Disconnect \/ Rollback
        BY <2>0, <2>1, <4>1 DEF Disconnect, Rollback, SwitchUnderWay
      <4>2. CASE Connect \/ ConnectFails
        BY <2>0, <2>1, <4>2, Zenon DEF Connect, ConnectFails, SwitchUnderWay
      <4>3. CASE Restore \/ RestoreFails
        BY <2>0, <2>1, <4>3 DEF Restore, RestoreFails, SwitchUnderWay
      <4>4. CASE PushOld
        BY <2>0, <2>1, <4>4 DEF PushOld, SwitchUnderWay
      <4>5. CASE GiveUp \/ Finish
        BY <4>5 DEF GiveUp, Finish, NoSwitch
      <4> QED
        BY <1>8, <2>4, <4>1, <4>2, <4>3, <4>4, <4>5 DEF SwitchStep
    <3> QED
      BY <2>0, <2>1, <3>1, Zenon DEF Committed, Selection!vars
  <2> QED
    BY <2>2, <2>3, <2>4
<1>9. CASE UNCHANGED vars
  BY <1>1, <1>9 DEF vars
<1>10. CASE (\E t \in Txs : ReceiveTx(t) \/ DropTx(t)) \/ flush_invalid_blocks
  BY <1>1, <1>10 DEF ReceiveTx, DropTx, flush_invalid_blocks
<1> QED
  BY <1>2, <1>3, <1>5, <1>6, <1>7, <1>8, <1>9, <1>10 DEF Next, NextBlock

\* With a database that has all transactions in full, a batch of blocks leaves the
\* chain that other threads and a restarted daemon see as it was, or replaces it by
\* a better one, and the rest is pop_blocks, between batches, or an exception of a
\* pop, which commits a part: Blockchain implements ChainSelection.
THEOREM ImplementsSelection == ASSUME PrunedTxs = {} PROVE Spec => SelectsBetterChain
<1>1. Init => Selection!Init
  BY DEF Init, Selection!Init, Committed, NoBatch, NoSwitch
<1>2. Inv /\ Kept /\ [Next]_vars => Kept'
  BY NextKept
<1>3. Inv /\ Kept /\ BatchAdvances /\ [Next]_vars => BatchAdvances'
  BY NextBatchAdvances
<1>4. Inv /\ BatchAdvances /\ [Next]_vars => [Selection!Next]_(Selection!vars)
  BY StepSelects
<1> QED
  BY <1>1, <1>2, <1>3, <1>4, InitKept, InitBatchAdvances, Invariance, PTL
  DEF Spec, SelectsBetterChain, Selection!Spec
=============================================================================
