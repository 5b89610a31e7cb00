--------------------------- MODULE HardForkProofs ---------------------------
(***************************************************************************)
(* Without voting, the cached fork index is the scheduled one.  With any   *)
(* table of forks, the counters of votes are those of the window, and as   *)
(* long as no block is popped the window is that of the last blocks and a  *)
(* restart restores it.                                                    *)
(*                                                                         *)
(* The index alone is not inductive: reorganizations and restarts restore  *)
(* it from the hf_versions table and from the versions of the blocks, so   *)
(* the invariant also says that both follow the schedule, and what the     *)
(* index is in the middle of the loop of reorganize_from_block_height.     *)
(* HistoryInv says the same of a table with votes: every block was         *)
(* accepted under the index that the votes before it had elected.          *)
(***************************************************************************)
EXTENDS HardFork, SequenceTheorems, FiniteSetTheorems, TLAPS

\* The height the index belongs to: that of the next block, or of the block
\* that the running reorganization adds next.
IndexHeight == IF rescan = Idle THEN db_height ELSE rescan

IndexFollowsSchedule == IsScheduled(current_fork_index, IndexHeight)

\* The block at a height, and the version the database keeps for it, are of
\* the fork the schedule gives.
FollowsSchedule(height) ==
    \E i \in ForkIndices :
        /\ IsScheduled(i, height)
        /\ hf_versions[height] = Forks[i].version
        /\ BlockAt(height).version = Forks[i].version
        /\ BlockAt(height).vote >= Forks[i].version

ChainFollowsSchedule == \A h \in 0 .. (db_height - 1) : FollowsSchedule(h)

Inv == TypeOK /\ IndexFollowsSchedule /\ ChainFollowsSchedule

-----------------------------------------------------------------------------
\* The entries of the table are typed.
LEMMA ForkType ==
  ASSUME NEW n \in ForkIndices
  PROVE  /\ n \in Nat
         /\ Forks[n].version \in Nat \ {0}
         /\ Forks[n].height \in Nat
  <1> DEFINE F == [version : Nat \ {0}, height : Nat, threshold : 0 .. 100]
  <1>1. n \in 1 .. Len(Forks) /\ Forks \in Seq(F)
    BY HardForkAssumption DEF ForkIndices
  <1> HIDE DEF F
  <1>2. n \in Nat /\ Forks[n] \in F
    BY <1>1, ElementOfSeq
  <1> QED
    BY <1>2 DEF F

\* At most one index is scheduled at a height.
LEMMA ScheduledUnique ==
  ASSUME NEW i \in ForkIndices, NEW j \in ForkIndices, NEW h \in Nat,
         IsScheduled(i, h), IsScheduled(j, h)
  PROVE  i = j
  BY ForkType DEF IsScheduled, ForkIndices

\* The first fork is scheduled for the genesis block.
LEMMA ScheduledAtGenesis == 1 \in ForkIndices /\ IsScheduled(1, 0)
  <1>1. 1 \in ForkIndices
    BY HardForkAssumption DEF ForkIndices
  <1>2. ASSUME NEW n \in ForkIndices, n > 1
        PROVE  0 < Forks[n].height
    BY <1>1, <1>2, HardForkAssumption, ForkType
  <1> QED
    BY <1>1, <1>2 DEF IsScheduled

\* A threshold of 0 is met whatever the votes are.
LEMMA NoVotesNeeded ==
  ASSUME NoVoting, NEW n \in ForkIndices, NEW counts
  PROVE  EnoughVotes(n, counts)
  BY HardForkAssumption DEF NoVoting, EnoughVotes

\* From an index that is not past the scheduled one of an earlier height,
\* get_voted_fork_index leads to the scheduled one.
LEMMA VotedIsScheduled ==
  ASSUME NoVoting,
         NEW low \in ForkIndices, NEW j \in ForkIndices, low <= j,
         NEW k \in Nat, NEW h \in Nat, k <= h, IsScheduled(j, k),
         NEW voted \in ForkIndices, NEW counts,
         get_voted_fork_index(voted, h, counts, low)
  PROVE  IsScheduled(IF voted > low THEN voted ELSE low, h)
  <1> DEFINE passed == {n \in ForkIndices : h >= Forks[n].height}
  <1>1. IF passed = {} THEN voted = low
                       ELSE voted \in passed /\ \A n \in passed : n <= voted
    BY NoVotesNeeded DEF get_voted_fork_index
  <1>2. j = 1 \/ j \in passed
    BY ForkType DEF IsScheduled
  <1>3. 1 \in ForkIndices
    BY ScheduledAtGenesis
  <1>4. CASE passed = {}
    <2>1. voted = low /\ j = 1
      BY <1>1, <1>2, <1>4, Zenon
    <2>2. low = 1
      BY <2>1 DEF ForkIndices
    <2>3. IsScheduled(1, h)
      <3>1. \A n \in ForkIndices : ~(h >= Forks[n].height)
        BY <1>4, Zenon
      <3> HIDE DEF passed
      <3>2. \A n \in ForkIndices : n \in Nat /\ Forks[n].height \in Nat
        BY ForkType, Zenon
      <3> QED
        BY <1>3, <3>1, <3>2 DEF IsScheduled
    <2>4. ~(voted > low)
      BY <2>1, <2>2
    <2> QED
      BY <2>2, <2>3, <2>4, Zenon
  <1>5. CASE passed # {}
    <2>1. low <= voted
      BY <1>1, <1>2, <1>5, ForkType DEF ForkIndices
    <2>2. IsScheduled(voted, h)
      BY <1>1, <1>5, ForkType DEF IsScheduled
    <2> QED
      BY <2>1, <2>2, ForkType
  <1> QED
    BY <1>4, <1>5
-----------------------------------------------------------------------------
BlockType == [version : Nat, vote : Nat]

\* Heights are natural numbers, and the blocks below the height are typed.
LEMMA ChainType ==
  ASSUME TypeOK
  PROVE  /\ db_height \in Nat /\ db_height <= MAX_HEIGHT
         /\ IndexHeight \in Nat
         /\ \A h \in 0 .. (db_height - 1) :
               BlockAt(h) \in BlockType /\ BlockAt(h).version \in Nat /\ BlockAt(h).vote \in Nat
  <1>1. db_height \in Nat /\ db_height <= MAX_HEIGHT
    BY DEF TypeOK, db_height
  <1>2. IndexHeight \in Nat
    BY <1>1 DEF TypeOK, IndexHeight, Idle
  <1>3. ASSUME NEW h \in 0 .. (db_height - 1)
        PROVE  BlockAt(h) \in BlockType /\ BlockAt(h).version \in Nat /\ BlockAt(h).vote \in Nat
    <2>1. h + 1 \in 1 .. Len(blocks) /\ blocks \in Seq(BlockType)
      BY <1>1 DEF TypeOK, db_height, BlockType
    <2>2. BlockAt(h) \in BlockType
      BY <2>1, ElementOfSeq DEF BlockAt
    <2> QED
      BY <2>2 DEF BlockType
  <1> QED
    BY <1>1, <1>2, <1>3

\* HardFork::add moves the index from the schedule of a height to that of the
\* next one.
LEMMA VoteFollowsSchedule ==
  ASSUME NoVoting, TypeOK, NEW h \in Nat, h < MAX_HEIGHT, NEW vote,
         IsScheduled(current_fork_index, h), Vote(h, vote)
  PROVE  /\ current_fork_index' \in ForkIndices
         /\ IsScheduled(current_fork_index', h + 1)
         /\ hf_versions' = [hf_versions EXCEPT ![h] = Forks[current_fork_index].version]
         /\ hf_versions' \in [0 .. MAX_HEIGHT -> Nat]
  <1>1. current_fork_index \in ForkIndices
    BY DEF TypeOK
  <1>2. PICK voted \in ForkIndices :
           /\ get_voted_fork_index(voted, h + 1, last_versions', current_fork_index)
           /\ current_fork_index' = IF voted > current_fork_index THEN voted ELSE current_fork_index
    BY DEF Vote
  <1>3. IsScheduled(IF voted > current_fork_index THEN voted ELSE current_fork_index, h + 1)
    BY <1>1, <1>2, ForkType, VotedIsScheduled
  <1>4. hf_versions' = [hf_versions EXCEPT ![h] = Forks[current_fork_index].version]
    BY DEF Vote
  <1>5. hf_versions' \in [0 .. MAX_HEIGHT -> Nat]
    BY <1>1, <1>4, ForkType, HardForkAssumption, Zenon DEF TypeOK
  <1> QED
    BY <1>1, <1>2, <1>3, <1>4, <1>5

\* A block that passes check() has the scheduled version.
LEMMA AddPreservesInv ==
  ASSUME NoVoting, Inv, NEW version \in ForkVersions, NEW vote \in Nat, Add(version, vote)
  PROVE  Inv'
  <1>1. /\ rescan = Idle /\ rescan' = Idle
        /\ db_height < MAX_HEIGHT
        /\ do_check(version, vote, current_fork_index)
        /\ blocks' = Append(blocks, [version |-> version, vote |-> vote])
        /\ Vote(db_height, vote)
    BY DEF Add
  <1>2. /\ TypeOK /\ db_height \in Nat
        /\ current_fork_index \in ForkIndices
        /\ IsScheduled(current_fork_index, db_height)
    BY <1>1, ChainType DEF Inv, IndexFollowsSchedule, IndexHeight, TypeOK
  <1>3. /\ current_fork_index' \in ForkIndices
        /\ IsScheduled(current_fork_index', db_height + 1)
        /\ hf_versions' = [hf_versions EXCEPT ![db_height] = Forks[current_fork_index].version]
        /\ hf_versions' \in [0 .. MAX_HEIGHT -> Nat]
    BY <1>1, <1>2, VoteFollowsSchedule
  <1>4. version \in Nat /\ vote \in Nat
    BY <1>1, <1>2, ForkType DEF do_check
  <1>5. blocks \in Seq(BlockType) /\ [version |-> version, vote |-> vote] \in BlockType
    BY <1>2, <1>4 DEF TypeOK, BlockType
  <1>6. /\ blocks' \in Seq(BlockType) /\ db_height' = db_height + 1
        /\ \A h \in 0 .. (db_height - 1) : blocks'[h + 1] = BlockAt(h)
        /\ blocks'[db_height + 1] = [version |-> version, vote |-> vote]
    <2> HIDE DEF BlockType
    <2>1. /\ blocks' \in Seq(BlockType) /\ Len(blocks') = Len(blocks) + 1
          /\ \A i \in 1 .. Len(blocks) : blocks'[i] = blocks[i]
          /\ blocks'[Len(blocks) + 1] = [version |-> version, vote |-> vote]
      BY <1>1, <1>5, AppendProperties
    <2> QED
      BY <2>1, <1>2 DEF db_height, BlockAt
  <1>7. TypeOK'
    <2>1. db_height' <= MAX_HEIGHT
      BY <1>1, <1>2, <1>6, HardForkAssumption
    <2> QED
      BY <1>1, <1>3, <1>6, <2>1 DEF TypeOK, BlockType
  <1>8. IndexFollowsSchedule'
    BY <1>1, <1>3, <1>6 DEF IndexFollowsSchedule, IndexHeight
  <1>9. ASSUME NEW h \in 0 .. db_height
        PROVE  FollowsSchedule(h)'
    <2>1. CASE h < db_height
      <3>1. FollowsSchedule(h)
        BY <1>2, <2>1 DEF Inv, ChainFollowsSchedule
      <3>2. hf_versions'[h] = hf_versions[h] /\ BlockAt(h)' = BlockAt(h)
        <4>1. h \in 0 .. (db_height - 1) /\ h # db_height
          BY <1>2, <2>1
        <4>2. hf_versions'[h] = hf_versions[h]
          BY <1>2, <1>3, <4>1 DEF TypeOK
        <4>3. blocks'[h + 1] = BlockAt(h)
          BY <1>6, <4>1
        <4> QED
          BY <4>2, <4>3 DEF BlockAt
      <3> QED
        BY <3>1, <3>2 DEF FollowsSchedule
    <2>2. CASE h = db_height
      <3>1. hf_versions'[h] = Forks[current_fork_index].version
        BY <1>1, <1>2, <1>3, <2>2 DEF TypeOK
      <3>2. BlockAt(h)' = [version |-> version, vote |-> vote]
        BY <1>6, <2>2 DEF BlockAt
      <3> QED
        BY <1>1, <1>2, <2>2, <3>1, <3>2 DEF FollowsSchedule, do_check
    <2> QED
      BY <1>2, <2>1, <2>2
  <1>10. ChainFollowsSchedule'
    BY <1>2, <1>6, <1>9 DEF ChainFollowsSchedule
  <1> QED
    BY <1>7, <1>8, <1>10 DEF Inv
\* on_block_popped looks the index up in the table again.
LEMMA PopPreservesInv ==
  ASSUME Inv, OnBlockPopped
  PROVE  Inv'
  <1>1. /\ rescan = Idle /\ rescan' = Idle
        /\ db_height > 1
        /\ blocks' = SubSeq(blocks, 1, db_height - 1)
        /\ hf_versions' = hf_versions
        /\ current_fork_index' \in ForkIndices
        /\ IsScheduled(current_fork_index', db_height - 1)
    BY DEF OnBlockPopped
  <1>2. /\ db_height \in Nat /\ db_height <= MAX_HEIGHT /\ MAX_HEIGHT \in Nat
        /\ blocks \in Seq(BlockType)
    BY ChainType, HardForkAssumption DEF Inv, TypeOK, BlockType
  <1>3. \A i \in 1 .. (db_height - 1) : blocks[i] \in BlockType
    BY <1>2, ElementOfSeq DEF db_height
  <1>4. /\ blocks' \in Seq(BlockType)
        /\ db_height' = db_height - 1
        /\ \A h \in 0 .. (db_height - 2) : blocks'[h + 1] = blocks[h + 1]
    <2> HIDE DEF BlockType
    <2> DEFINE n == db_height - 1
    <2>1. n \in Nat /\ n >= 1
      BY <1>1, <1>2
    <2>2. \A i \in 1 .. n : blocks[i] \in BlockType
      BY <1>3
    <2> HIDE DEF n
    <2>3. /\ SubSeq(blocks, 1, n) \in Seq(BlockType)
          /\ Len(SubSeq(blocks, 1, n)) = IF 1 <= n THEN n - 1 + 1 ELSE 0
          /\ \A i \in 1 .. n - 1 + 1 : SubSeq(blocks, 1, n)[i] = blocks[1 + i - 1]
      BY <2>1, <2>2, SubSeqProperties
    <2>4. blocks' = SubSeq(blocks, 1, n)
      BY <1>1 DEF n
    <2>5. blocks' \in Seq(BlockType) /\ Len(blocks') = n
      BY <2>1, <2>3, <2>4
    <2>6. \A h \in 0 .. (n - 1) : blocks'[h + 1] = blocks[h + 1]
      BY <2>1, <2>3, <2>4
    <2> QED
      BY <1>2, <2>5, <2>6 DEF n, db_height
  <1>5. TypeOK'
    BY <1>1, <1>2, <1>4 DEF Inv, TypeOK, BlockType
  <1>6. IndexFollowsSchedule'
    BY <1>1, <1>4 DEF IndexFollowsSchedule, IndexHeight
  <1>7. ASSUME NEW h \in 0 .. (db_height - 2)
        PROVE  FollowsSchedule(h)'
    <2>1. FollowsSchedule(h)
      BY <1>2 DEF Inv, ChainFollowsSchedule
    <2>2. BlockAt(h)' = BlockAt(h)
      BY <1>4 DEF BlockAt
    <2> QED
      BY <1>1, <2>1, <2>2 DEF FollowsSchedule
  <1>8. ChainFollowsSchedule'
    BY <1>2, <1>4, <1>7 DEF ChainFollowsSchedule
  <1> QED
    BY <1>5, <1>6, <1>8 DEF Inv

\* reorganize_from_block_height restarts from the version of the last block
\* kept, which is the scheduled one.
LEMMA ReorganizePreservesInv ==
  ASSUME NoVoting, Inv, NEW chain_height \in 1 .. db_height, Reorganize(chain_height)
  PROVE  Inv'
  <1> DEFINE height == chain_height - 1
             start_version == IF height = 0 THEN original_version ELSE hf_versions[height]
  <1>1. /\ db_height \in Nat /\ height \in Nat /\ height \in 0 .. (db_height - 1)
        /\ height + 1 = chain_height /\ current_fork_index \in ForkIndices
    BY ChainType DEF Inv, TypeOK
  <1>2. /\ rescan = Idle
        /\ UNCHANGED <<blocks, hf_versions>>
        /\ rescan' = NextRescan(height)
    BY DEF Reorganize
  <1>3. PICK low \in ForkIndices, voted \in ForkIndices :
           /\ low <= current_fork_index
           /\ low = 1 \/ Forks[low].version <= start_version
           /\ get_voted_fork_index(voted, height + 1, last_versions', low)
           /\ current_fork_index' = IF voted > low THEN voted ELSE low
    BY DEF Reorganize
  <1>4. PICK j \in ForkIndices : IsScheduled(j, height) /\ start_version = Forks[j].version
    <2>1. CASE height = 0
      BY <2>1, ScheduledAtGenesis, HardForkAssumption
    <2>2. CASE height # 0
      <3>1. FollowsSchedule(height)
        BY <1>1 DEF Inv, ChainFollowsSchedule
      <3> QED
        BY <2>2, <3>1 DEF FollowsSchedule
    <2> QED
      BY <2>1, <2>2
  <1> HIDE DEF height, start_version
  <1>5. low <= j
    <2>1. CASE low = 1
      BY <2>1, ForkType DEF ForkIndices
    <2>2. CASE Forks[low].version <= Forks[j].version
      <3>1. j < low => Forks[j].version < Forks[low].version
        BY HardForkAssumption
      <3> QED
        BY <2>2, <3>1, ForkType
    <2> QED
      BY <1>3, <1>4, <2>1, <2>2
  <1>6. current_fork_index' \in ForkIndices /\ IsScheduled(current_fork_index', height + 1)
    <2>1. IsScheduled(IF voted > low THEN voted ELSE low, height + 1)
      BY <1>1, <1>3, <1>4, <1>5, VotedIsScheduled
    <2> QED
      BY <1>3, <2>1
  <1>7. db_height' = db_height
    BY <1>2 DEF db_height
  <1>8. /\ rescan' = Idle \/ rescan' \in 1 .. (db_height - 1)
        /\ IndexHeight' = height + 1
    BY <1>1, <1>2, <1>7 DEF NextRescan, IndexHeight, Idle
  <1>9. TypeOK'
    BY <1>2, <1>6, <1>7, <1>8 DEF Inv, TypeOK
  <1>10. IndexFollowsSchedule'
    BY <1>6, <1>8 DEF IndexFollowsSchedule
  <1>11. ChainFollowsSchedule'
    BY <1>2, <1>7 DEF Inv, ChainFollowsSchedule, FollowsSchedule, BlockAt
  <1> QED
    BY <1>9, <1>10, <1>11 DEF Inv

\* In the loop of reorganize_from_block_height add() never fails: the index is
\* the scheduled one, which the version of the block matches.
LEMMA ReorganizeAddPreservesInv ==
  ASSUME NoVoting, Inv, ReorganizeAdd
  PROVE  Inv'
  <1>1. /\ rescan # Idle /\ rescan \in 1 .. (db_height - 1) /\ rescan \in Nat
        /\ db_height \in Nat /\ rescan \in 0 .. (db_height - 1)
        /\ rescan < MAX_HEIGHT /\ MAX_HEIGHT \in Nat
        /\ TypeOK /\ current_fork_index \in ForkIndices
        /\ IsScheduled(current_fork_index, rescan)
    <2>1. TypeOK /\ rescan # Idle
      BY DEF Inv, ReorganizeAdd
    <2>2. /\ rescan \in 1 .. (db_height - 1) /\ current_fork_index \in ForkIndices
          /\ db_height <= MAX_HEIGHT
      BY <2>1 DEF TypeOK
    <2>3. db_height \in Nat /\ MAX_HEIGHT \in Nat
      BY <2>1, ChainType, HardForkAssumption DEF Inv
    <2>4. IsScheduled(current_fork_index, rescan)
      BY <2>1 DEF Inv, IndexFollowsSchedule, IndexHeight
    <2> QED
      BY <2>1, <2>2, <2>3, <2>4
  <1>2. blocks' = blocks /\ db_height' = db_height /\ rescan' = NextRescan(rescan)
    BY DEF ReorganizeAdd, db_height
  <1>3. /\ BlockAt(rescan).version = Forks[current_fork_index].version
        /\ BlockAt(rescan).vote >= Forks[current_fork_index].version
        /\ hf_versions[rescan] = Forks[current_fork_index].version
    <2>1. PICK i \in ForkIndices :
             /\ IsScheduled(i, rescan)
             /\ hf_versions[rescan] = Forks[i].version
             /\ BlockAt(rescan).version = Forks[i].version
             /\ BlockAt(rescan).vote >= Forks[i].version
      BY <1>1 DEF Inv, ChainFollowsSchedule, FollowsSchedule
    <2>2. i = current_fork_index
      BY <1>1, <2>1, ScheduledUnique
    <2> QED
      BY <2>1, <2>2
  <1>4. Vote(rescan, BlockAt(rescan).vote)
    BY <1>3 DEF ReorganizeAdd, do_check
  <1>5. /\ current_fork_index' \in ForkIndices
        /\ IsScheduled(current_fork_index', rescan + 1)
        /\ hf_versions' = [hf_versions EXCEPT ![rescan] = Forks[current_fork_index].version]
        /\ hf_versions' \in [0 .. MAX_HEIGHT -> Nat]
    BY <1>1, <1>4, VoteFollowsSchedule
  <1>6. hf_versions' = hf_versions
    BY <1>1, <1>3, <1>5 DEF TypeOK
  <1>7. /\ rescan' = Idle \/ rescan' \in 1 .. (db_height - 1)
        /\ IndexHeight' = rescan + 1
    BY <1>1, <1>2 DEF NextRescan, IndexHeight, Idle
  <1>8. TypeOK'
    BY <1>1, <1>2, <1>5, <1>7 DEF TypeOK
  <1>9. IndexFollowsSchedule'
    BY <1>5, <1>7 DEF IndexFollowsSchedule
  <1>10. ChainFollowsSchedule'
    BY <1>2, <1>6 DEF Inv, ChainFollowsSchedule, FollowsSchedule, BlockAt
  <1> QED
    BY <1>8, <1>9, <1>10 DEF Inv

\* init() finds the fork of the top block by its recorded version.
LEMMA RestartPreservesInv ==
  ASSUME NoVoting, Inv, Restart
  PROVE  Inv'
  <1> DEFINE top == db_height - 1
  <1>1. /\ db_height \in Nat /\ top \in Nat /\ top \in 0 .. (db_height - 1)
        /\ top + 1 = db_height
    BY ChainType DEF Inv, Restart
  <1>2. rescan = Idle /\ UNCHANGED <<blocks, hf_versions, rescan>> /\ db_height' = db_height
    BY DEF Restart, db_height
  <1>3. PICK found \in ForkIndices, voted \in ForkIndices :
           /\ LastFork(found)
           /\ get_voted_fork_index(voted, db_height, last_versions', found)
           /\ current_fork_index' = IF voted > found THEN voted ELSE found
    BY DEF Restart
  <1>4. PICK j \in ForkIndices : IsScheduled(j, top) /\ hf_versions[top] = Forks[j].version
    BY <1>1 DEF Inv, ChainFollowsSchedule, FollowsSchedule
  <1>5. found <= j
    BY <1>3, <1>4, ForkType DEF LastFork, ForkIndices
  <1> HIDE DEF top
  <1>6. IsScheduled(IF voted > found THEN voted ELSE found, db_height)
    <2>1. top <= db_height
      BY <1>1
    <2> QED
      BY <1>1, <1>3, <1>4, <1>5, <2>1, VotedIsScheduled
  <1>7. current_fork_index' \in ForkIndices /\ IsScheduled(current_fork_index', db_height)
    BY <1>3, <1>6
  <1>8. TypeOK'
    BY <1>2, <1>7 DEF Inv, TypeOK
  <1>9. IndexFollowsSchedule'
    BY <1>2, <1>7 DEF IndexFollowsSchedule, IndexHeight
  <1>10. ChainFollowsSchedule'
    BY <1>2 DEF Inv, ChainFollowsSchedule, FollowsSchedule, BlockAt
  <1> QED
    BY <1>8, <1>9, <1>10 DEF Inv

-----------------------------------------------------------------------------
\* Without voting, whatever blocks, pops, reorganizations and restarts the node
\* goes through, the version demanded of the next block is the scheduled one.
THEOREM VersionIsScheduled ==
  ASSUME NoVoting
  PROVE  Spec => [](TypeOK /\ VersionFollowsSchedule)
  <1>1. Init => Inv
    <2> SUFFICES ASSUME Init PROVE Inv
      OBVIOUS
    <2>1. db_height = 0 /\ IndexHeight = 0 /\ current_fork_index = 1
      BY DEF Init, db_height, IndexHeight
    <2>2. TypeOK
      BY <2>1, ScheduledAtGenesis, HardForkAssumption DEF Init, TypeOK
    <2>3. IndexFollowsSchedule
      BY <2>1, ScheduledAtGenesis DEF IndexFollowsSchedule
    <2>4. ChainFollowsSchedule
      BY <2>1 DEF ChainFollowsSchedule
    <2> QED
      BY <2>2, <2>3, <2>4 DEF Inv
  <1>2. Inv /\ [Next]_vars => Inv'
    <2> SUFFICES ASSUME Inv, [Next]_vars PROVE Inv'
      OBVIOUS
    <2>1. ASSUME NEW version \in ForkVersions, NEW minor \in Minors,
                 Add(version, get_block_vote(minor))
          PROVE  Inv'
      <3>1. get_block_vote(minor) \in Nat
        BY HardForkAssumption DEF get_block_vote
      <3> QED
        BY <2>1, <3>1, AddPreservesInv
    <2>2. ASSUME NEW chain_height \in 1 .. db_height, Reorganize(chain_height)
          PROVE  Inv'
      BY <2>2, ReorganizePreservesInv
    <2>3. CASE ReorganizeAdd
      BY <2>3, ReorganizeAddPreservesInv
    <2>4. CASE Restart
      BY <2>4, RestartPreservesInv
    <2>5. CASE OnBlockPopped
      BY <2>5, PopPreservesInv
    <2>6. CASE UNCHANGED vars
      BY <2>6 DEF vars, Inv, TypeOK, IndexFollowsSchedule, IndexHeight,
                  ChainFollowsSchedule, FollowsSchedule, BlockAt, db_height
    <2> QED
      BY <2>1, <2>2, <2>3, <2>4, <2>5, <2>6 DEF Next, NextWithoutPops
  <1>3. Inv => TypeOK /\ VersionFollowsSchedule
    BY DEF Inv, IndexFollowsSchedule, IndexHeight, VersionFollowsSchedule
  <1> QED
    BY <1>1, <1>2, <1>3, PTL DEF Spec

-----------------------------------------------------------------------------
(* Counting the votes of a window.                                         *)

\* The places of a vote.
Places(v, s) == {i \in DOMAIN s : s[i] = v}

LEMMA PlacesAreFinite ==
  ASSUME NEW S, NEW s \in Seq(S), NEW v
  PROVE  /\ IsFiniteSet(Places(v, s)) /\ Occurrences(v, s) = Cardinality(Places(v, s))
         /\ Occurrences(v, s) \in Nat /\ Places(v, s) \subseteq 1 .. Len(s)
  <1>1. IsFiniteSet(1 .. Len(s)) /\ Places(v, s) \in SUBSET (1 .. Len(s))
    BY FS_Interval DEF Places
  <1>2. IsFiniteSet(Places(v, s))
    BY <1>1, FS_Subset
  <1>3. Occurrences(v, s) = Cardinality(Places(v, s))
    BY DEF Occurrences, Places
  <1> QED
    BY <1>1, <1>2, <1>3, FS_CardinalityType

LEMMA SplitFacts ==
  ASSUME NEW S, NEW s \in Seq(S), NEW k \in 0 .. Len(s)
  PROVE  /\ SubSeq(s, 1, k) \in Seq(S) /\ Len(SubSeq(s, 1, k)) = k
         /\ \A i \in 1 .. k : SubSeq(s, 1, k)[i] = s[i]
         /\ SubSeq(s, k + 1, Len(s)) \in Seq(S) /\ Len(SubSeq(s, k + 1, Len(s))) = Len(s) - k
         /\ \A i \in 1 .. (Len(s) - k) : SubSeq(s, k + 1, Len(s))[i] = s[i + k]
  OBVIOUS

\* What the first k votes hold and what the others hold add up.
LEMMA OccurrencesSplit ==
  ASSUME NEW S, NEW s \in Seq(S), NEW k \in 0 .. Len(s), NEW v
  PROVE  Occurrences(v, s) = Occurrences(v, SubSeq(s, 1, k)) + Occurrences(v, SubSeq(s, k + 1, Len(s)))
  <1> DEFINE head == SubSeq(s, 1, k)
             tail == SubSeq(s, k + 1, Len(s))
  <1>1. /\ head \in Seq(S) /\ Len(head) = k /\ \A i \in 1 .. k : head[i] = s[i]
        /\ tail \in Seq(S) /\ Len(tail) = Len(s) - k /\ \A i \in 1 .. (Len(s) - k) : tail[i] = s[i + k]
    BY SplitFacts, ZenonT(30)
  <1> HIDE DEF head, tail
  <1> DEFINE low == Places(v, head)
             high == {i \in Places(v, s) : i > k}
             shift == [i \in Places(v, tail) |-> i + k]
  <1>2. Places(v, s) = low \cup high /\ low \cap high = {}
    <2>1. DOMAIN s = 1 .. Len(s) /\ DOMAIN head = 1 .. k /\ k \in Nat /\ Len(s) \in Nat
      BY <1>1
    <2>2. \A i \in DOMAIN s : i <= k <=> i \in DOMAIN head
      BY <2>1
    <2>3. \A i \in DOMAIN head : i \in DOMAIN s /\ head[i] = s[i] /\ ~(i > k)
      BY <1>1, <2>1
    <2>4. \A i \in DOMAIN s : i <= k \/ i > k
      BY <2>1
    <2> QED
      BY <2>2, <2>3, <2>4 DEF Places
  <1>3. shift \in Bijection(Places(v, tail), high)
    <2>1. ASSUME NEW i \in Places(v, tail)
          PROVE  i + k \in high /\ i \in Nat
      BY <1>1, <2>1 DEF Places
    <2>2. ASSUME NEW j \in high
          PROVE  j - k \in Places(v, tail) /\ j = (j - k) + k
      BY <1>1, <2>2 DEF Places
    <2>3. shift \in [Places(v, tail) -> high]
      BY <2>1
    <2>4. \A i, j \in Places(v, tail) : shift[i] = shift[j] => i = j
      BY <2>1
    <2>5. \A j \in high : \E i \in Places(v, tail) : shift[i] = j
      BY <2>2
    <2> QED
      BY <2>3, <2>4, <2>5 DEF Bijection, Injection, Surjection, IsInjective
  <1>4. Cardinality(high) = Occurrences(v, tail) /\ IsFiniteSet(high)
    <2>1. IsFiniteSet(Places(v, tail)) /\ Cardinality(Places(v, tail)) = Occurrences(v, tail)
      BY <1>1, PlacesAreFinite
    <2>2. ExistsBijection(Places(v, tail), high)
      BY <1>3 DEF ExistsBijection
    <2> QED
      BY <2>1, <2>2, FS_Bijection
  <1>5. IsFiniteSet(low) /\ Cardinality(low) = Occurrences(v, head)
    BY <1>1, PlacesAreFinite
  <1>6. Cardinality(low \cap high) = 0
    BY <1>2, FS_EmptySet, Zenon
  <1>7. Occurrences(v, s) = Cardinality(low \cup high)
    BY <1>2, PlacesAreFinite, Zenon
  <1>8. Cardinality(low \cup high) = Cardinality(low) + Cardinality(high) - Cardinality(low \cap high)
    BY <1>4, <1>5, FS_Union
  <1>9. Occurrences(v, head) \in Nat /\ Occurrences(v, tail) \in Nat
    BY <1>1, PlacesAreFinite
  <1> QED
    BY <1>4, <1>5, <1>6, <1>7, <1>8, <1>9 DEF head, tail

LEMMA OccurrencesOfOne ==
  ASSUME NEW x, NEW v
  PROVE  Occurrences(v, <<x>>) = IF v = x THEN 1 ELSE 0
  <1>1. {i \in DOMAIN <<x>> : <<x>>[i] = v} = IF v = x THEN {1} ELSE {}
    OBVIOUS
  <1> QED
    BY <1>1, FS_Singleton, FS_EmptySet, Zenon DEF Occurrences

LEMMA SeqOfOne ==
  ASSUME NEW S, NEW x \in S, NEW u \in Seq(S), Len(u) = 1, u[1] = x
  PROVE  u = <<x>>
  <1>1. <<x>> \in Seq(S) /\ Len(<<x>>) = 1 /\ <<x>>[1] = x
    OBVIOUS
  <1>2. \A i \in 1 .. Len(u) : i = 1
    OBVIOUS
  <1>3. \A i \in 1 .. Len(u) : u[i] = <<x>>[i]
    BY <1>1, <1>2
  <1> QED
    BY <1>1, <1>3, SeqEqual

LEMMA OccurrencesAppend ==
  ASSUME NEW S, NEW s \in Seq(S), NEW x \in S, NEW v
  PROVE  Occurrences(v, Append(s, x)) = Occurrences(v, s) + (IF v = x THEN 1 ELSE 0)
  <1> DEFINE t == Append(s, x)
  <1>1. t \in Seq(S) /\ Len(t) = Len(s) + 1 /\ Len(s) \in 0 .. Len(t)
    OBVIOUS
  <1>2. SubSeq(t, 1, Len(s)) = s
    OBVIOUS
  <1>3. SubSeq(t, Len(s) + 1, Len(t)) = <<x>>
    <2> DEFINE u == SubSeq(t, Len(s) + 1, Len(t))
    <2>1. u \in Seq(S) /\ Len(u) = 1 /\ u[1] = x
      OBVIOUS
    <2> HIDE DEF u
    <2> QED
      BY <2>1, SeqOfOne, Zenon DEF u
  <1> HIDE DEF t
  <1>4. Occurrences(v, t) = Occurrences(v, s) + Occurrences(v, <<x>>)
    BY <1>1, <1>2, <1>3, OccurrencesSplit, Zenon
  <1> QED
    BY <1>4, OccurrencesOfOne DEF t

LEMMA OccurrencesPrepend ==
  ASSUME NEW S, NEW s \in Seq(S), NEW x \in S, NEW v
  PROVE  Occurrences(v, <<x>> \o s) = (IF v = x THEN 1 ELSE 0) + Occurrences(v, s)
  <1> DEFINE t == <<x>> \o s
  <1>1. <<x>> \in Seq(S) /\ Len(<<x>>) = 1 /\ <<x>>[1] = x
    OBVIOUS
  <1>2. /\ t \in Seq(S) /\ Len(t) = Len(s) + 1 /\ 1 \in 0 .. Len(t)
        /\ t[1] = x /\ \A i \in 1 .. Len(s) : t[i + 1] = s[i]
    <2>1. /\ t \in Seq(S) /\ Len(t) = 1 + Len(s) /\ Len(s) \in Nat
          /\ \A i \in 1 .. 1 + Len(s) : t[i] = IF i <= 1 THEN <<x>>[i] ELSE s[i - 1]
      BY <1>1, ConcatProperties
    <2> HIDE DEF t
    <2>2. t[1] = x
      BY <1>1, <2>1
    <2>3. \A i \in 1 .. Len(s) : i + 1 \in 1 .. 1 + Len(s) /\ ~(i + 1 <= 1) /\ (i + 1) - 1 = i
      BY <2>1
    <2> QED
      BY <2>1, <2>2, <2>3
  <1> HIDE DEF t
  <1>3. SubSeq(t, 1, 1) = <<x>>
    <2>1. SubSeq(t, 1, 1) \in Seq(S) /\ Len(SubSeq(t, 1, 1)) = 1 /\ SubSeq(t, 1, 1)[1] = x
      BY <1>2
    <2> QED
      BY <2>1, SeqOfOne, Zenon
  <1>4. SubSeq(t, 1 + 1, Len(t)) = s
    BY <1>2
  <1>5. Occurrences(v, t) = Occurrences(v, <<x>>) + Occurrences(v, s)
    BY <1>2, <1>3, <1>4, OccurrencesSplit, Zenon
  <1> QED
    BY <1>5, OccurrencesOfOne DEF t

-----------------------------------------------------------------------------
(* The window and its counts, also when forks wait for votes.              *)

CountsOf(window) == [v \in Votes |-> Occurrences(v, window)]

VotedBlock == [version : Nat, vote : Votes]

\* The counts alone are not inductive: a pop takes the vote that enters the window
\* from hf_versions and the one that leaves it from the window, so both must be
\* versions that are counted, and the window must not be empty.
WindowInv ==
    /\ blocks \in Seq(VotedBlock) /\ db_height <= MAX_HEIGHT
    /\ hf_versions \in [0 .. MAX_HEIGHT -> Nat]
    /\ \A h \in 0 .. (db_height - 1) : hf_versions[h] \in ForkVersions
    /\ current_fork_index \in ForkIndices
    /\ rescan = Idle \/ rescan \in 1 .. (db_height - 1)
    /\ versions \in Seq(Votes) /\ Len(versions) <= window_size
    /\ db_height > 0 => Len(versions) > 0
    /\ last_versions = CountsOf(versions)

LEMMA VotesAreNumbers ==
  /\ Votes \subseteq Nat /\ ForkVersions \subseteq Votes
  /\ \A minor \in Minors : get_block_vote(minor) \in Votes
  <1>1. ForkVersions \subseteq Nat
    BY ForkType DEF ForkVersions
  <1>2. \A minor \in Minors : get_block_vote(minor) \in Nat
    BY HardForkAssumption DEF get_block_vote
  <1> QED
    BY <1>1, <1>2, Zenon DEF Votes

LEMMA WindowTypes ==
  ASSUME WindowInv
  PROVE  /\ db_height \in Nat /\ MAX_HEIGHT \in Nat /\ window_size \in Nat \ {0}
         /\ Len(versions) \in Nat
         /\ \A h \in 0 .. (db_height - 1) : /\ BlockAt(h) \in VotedBlock
                                            /\ BlockAt(h).vote \in Votes /\ BlockAt(h).version \in Nat
  <1>1. /\ db_height \in Nat /\ MAX_HEIGHT \in Nat /\ window_size \in Nat \ {0} /\ Len(versions) \in Nat
    <2>1. db_height \in Nat /\ Len(versions) \in Nat
      BY DEF WindowInv, db_height
    <2> QED
      BY <2>1, HardForkAssumption
  <1>2. ASSUME NEW h \in 0 .. (db_height - 1)
        PROVE  BlockAt(h) \in VotedBlock
    <2>1. h + 1 \in 1 .. Len(blocks)
      BY <1>1 DEF db_height
    <2> QED
      BY <2>1, ElementOfSeq DEF WindowInv, BlockAt
  <1>3. \A b \in VotedBlock : b.vote \in Votes /\ b.version \in Nat
    BY DEF VotedBlock
  <1> QED
    BY <1>1, <1>2, <1>3

LEMMA VotesOfType ==
  ASSUME WindowInv, NEW from \in Nat, NEW to \in Int, from <= to + 1, to < db_height
  PROVE  /\ VotesOf(from, to) \in Seq(Votes) /\ Len(VotesOf(from, to)) = to - from + 1
         /\ \A i \in 1 .. (to - from + 1) : VotesOf(from, to)[i] = BlockAt(from + i - 1).vote
  <1>1. to - from + 1 \in Nat
    OBVIOUS
  <1>2. \A i \in 1 .. (to - from + 1) : from + i - 1 \in 0 .. (db_height - 1)
    BY WindowTypes
  <1>3. \A i \in 1 .. (to - from + 1) : BlockAt(from + i - 1).vote \in Votes
    BY <1>2, WindowTypes
  <1>4. VotesOf(from, to) \in [1 .. (to - from + 1) -> Votes]
    BY <1>3 DEF VotesOf
  <1>5. VotesOf(from, to) \in Seq(Votes) /\ Len(VotesOf(from, to)) = to - from + 1
    BY <1>1, <1>4
  <1> QED
    BY <1>5 DEF VotesOf

LEMMA CountsOfFacts ==
  ASSUME NEW s, NEW v \in Votes
  PROVE  CountsOf(s)[v] = Occurrences(v, s)
  BY DEF CountsOf

\* The window HardFork::add leaves: the oldest vote goes if the window is full.
LEMMA VoteSlides ==
  ASSUME WindowInv, NEW h \in 0 .. MAX_HEIGHT, NEW vote \in Votes, Vote(h, vote)
  PROVE  /\ versions' \in Seq(Votes) /\ Len(versions') <= window_size /\ Len(versions') > 0
         /\ last_versions' = CountsOf(versions')
         /\ LET excess == IF Len(versions) = window_size THEN 1 ELSE 0
            IN  /\ Len(versions') = Len(versions) - excess + 1
                /\ \A i \in 1 .. (Len(versions) - excess) : versions'[i] = versions[i + excess]
                /\ versions'[Len(versions) - excess + 1] = vote
         /\ hf_versions' = [hf_versions EXCEPT ![h] = Forks[current_fork_index].version]
         /\ hf_versions' \in [0 .. MAX_HEIGHT -> Nat]
         /\ current_fork_index' \in ForkIndices
         /\ \E voted \in ForkIndices :
               /\ get_voted_fork_index(voted, h + 1, CountsOf(versions'), current_fork_index)
               /\ current_fork_index' = IF voted > current_fork_index THEN voted ELSE current_fork_index
  <1> DEFINE excess == IF Len(versions) >= window_size THEN Len(versions) - window_size + 1 ELSE 0
             dropped == SubSeq(versions, 1, excess)
             kept == SubSeq(versions, excess + 1, Len(versions))
             counts == [v \in Votes |-> last_versions[v] - Occurrences(v, dropped)
                                          + (IF v = vote THEN 1 ELSE 0)]
  <1>1. /\ hf_versions' = [hf_versions EXCEPT ![h] = Forks[current_fork_index].version]
        /\ versions' = Append(kept, vote)
        /\ last_versions' = counts
        /\ \E voted \in ForkIndices :
              /\ get_voted_fork_index(voted, h + 1, counts, current_fork_index)
              /\ current_fork_index' = IF voted > current_fork_index THEN voted ELSE current_fork_index
    BY DEF Vote
  <1>2. /\ versions \in Seq(Votes) /\ Len(versions) \in Nat /\ window_size \in Nat \ {0}
        /\ Len(versions) <= window_size /\ last_versions = CountsOf(versions)
        /\ current_fork_index \in ForkIndices /\ hf_versions \in [0 .. MAX_HEIGHT -> Nat]
    BY WindowTypes DEF WindowInv
  <1>3. /\ excess = IF Len(versions) = window_size THEN 1 ELSE 0
        /\ excess \in 0 .. Len(versions) /\ excess \in Nat
    BY <1>2
  <1> HIDE DEF excess
  <1>4. /\ kept \in Seq(Votes) /\ Len(kept) = Len(versions) - excess
        /\ \A i \in 1 .. (Len(versions) - excess) : kept[i] = versions[i + excess]
    <2>1. versions \in Seq(Votes) /\ excess \in 0 .. Len(versions)
      BY <1>2, <1>3
    <2> QED
      BY <2>1, SplitFacts, Zenon
  <1>5. /\ Append(kept, vote) \in Seq(Votes) /\ Len(Append(kept, vote)) = Len(kept) + 1
        /\ \A i \in 1 .. Len(kept) : Append(kept, vote)[i] = kept[i]
        /\ Append(kept, vote)[Len(kept) + 1] = vote
    <2> HIDE DEF kept
    <2> QED
      BY <1>4, AppendProperties
  <1>6. dropped \in Seq(Votes)
    BY <1>2, <1>3
  <1>7. ASSUME NEW v \in Votes
        PROVE  counts[v] = Occurrences(v, Append(kept, vote))
    <2>1. Occurrences(v, versions) = Occurrences(v, dropped) + Occurrences(v, kept)
      BY <1>2, <1>3, OccurrencesSplit
    <2>2. Occurrences(v, dropped) \in Nat /\ Occurrences(v, kept) \in Nat
      BY <1>4, <1>6, PlacesAreFinite, Zenon
    <2>3. last_versions[v] = Occurrences(v, versions)
      BY <1>2, CountsOfFacts
    <2>4. counts[v] = last_versions[v] - Occurrences(v, dropped) + (IF v = vote THEN 1 ELSE 0)
      OBVIOUS
    <2>5. Occurrences(v, Append(kept, vote)) = Occurrences(v, kept) + (IF v = vote THEN 1 ELSE 0)
      BY <1>4, OccurrencesAppend, Zenon
    <2> HIDE DEF counts, kept, dropped
    <2> QED
      BY <2>1, <2>2, <2>3, <2>4, <2>5
  <1>8. counts = CountsOf(versions')
    BY <1>1, <1>7 DEF CountsOf
  <1>9. /\ Len(versions') = Len(versions) - excess + 1
        /\ Len(versions') <= window_size /\ Len(versions') > 0
    <2> HIDE DEF kept
    <2> QED
      BY <1>1, <1>2, <1>3, <1>4, <1>5
  <1>10. /\ \A i \in 1 .. (Len(versions) - excess) : versions'[i] = versions[i + excess]
         /\ versions'[Len(versions) - excess + 1] = vote
    <2> HIDE DEF kept
    <2> QED
      BY <1>1, <1>4, <1>5
  <1>11. hf_versions' \in [0 .. MAX_HEIGHT -> Nat]
    BY <1>1, <1>2, ForkType
  <1> HIDE DEF kept, dropped, counts
  <1>12. \E voted \in ForkIndices :
              /\ get_voted_fork_index(voted, h + 1, CountsOf(versions'), current_fork_index)
              /\ current_fork_index' = IF voted > current_fork_index THEN voted ELSE current_fork_index
    BY <1>1, <1>8
  <1>13. current_fork_index' \in ForkIndices
    BY <1>2, <1>12
  <1>14. versions' \in Seq(Votes) /\ last_versions' = CountsOf(versions')
    BY <1>1, <1>5, <1>8
  <1> QED
    BY <1>1, <1>3, <1>9, <1>10, <1>11, <1>12, <1>13, <1>14, Zenon

LEMMA AddKeepsWindow ==
  ASSUME WindowInv, NEW version \in ForkVersions, NEW vote \in Votes, Add(version, vote)
  PROVE  /\ WindowInv' /\ db_height' = db_height + 1
         /\ \A h \in 0 .. (db_height - 1) : BlockAt(h)' = BlockAt(h)
         /\ blocks'[db_height + 1] = [version |-> version, vote |-> vote]
  <1>1. /\ rescan = Idle /\ rescan' = Idle /\ db_height < MAX_HEIGHT
        /\ blocks' = Append(blocks, [version |-> version, vote |-> vote])
        /\ Vote(db_height, vote)
    BY DEF Add
  <1>2. db_height \in 0 .. MAX_HEIGHT /\ db_height \in Nat /\ MAX_HEIGHT \in Nat /\ blocks \in Seq(VotedBlock)
    BY <1>1, WindowTypes DEF WindowInv
  <1>3. [version |-> version, vote |-> vote] \in VotedBlock
    BY VotesAreNumbers DEF VotedBlock
  <1>4. /\ blocks' \in Seq(VotedBlock) /\ Len(blocks') = Len(blocks) + 1
        /\ \A i \in 1 .. Len(blocks) : blocks'[i] = blocks[i]
        /\ blocks'[Len(blocks) + 1] = [version |-> version, vote |-> vote]
    BY <1>1, <1>2, <1>3, AppendProperties
  <1>5. /\ db_height' = db_height + 1
        /\ \A h \in 0 .. (db_height - 1) : BlockAt(h)' = BlockAt(h)
        /\ blocks'[db_height + 1] = [version |-> version, vote |-> vote]
    <2>1. db_height' = db_height + 1
      BY <1>4 DEF db_height
    <2>2. \A h \in 0 .. (db_height - 1) : h + 1 \in 1 .. Len(blocks)
      BY <1>2 DEF db_height
    <2>3. \A h \in 0 .. (db_height - 1) : blocks'[h + 1] = blocks[h + 1]
      BY <1>4, <2>2
    <2>4. blocks'[db_height + 1] = [version |-> version, vote |-> vote]
      BY <1>4 DEF db_height
    <2>5. \A h \in Nat : BlockAt(h)' = blocks'[h + 1]
      BY DEF BlockAt
    <2> QED
      BY <1>2, <2>1, <2>3, <2>4, <2>5 DEF BlockAt
  <1>6. /\ versions' \in Seq(Votes) /\ Len(versions') <= window_size /\ Len(versions') > 0
        /\ last_versions' = CountsOf(versions')
        /\ hf_versions' = [hf_versions EXCEPT ![db_height] = Forks[current_fork_index].version]
        /\ hf_versions' \in [0 .. MAX_HEIGHT -> Nat]
        /\ current_fork_index' \in ForkIndices
    BY <1>1, <1>2, VoteSlides, Zenon
  <1>7. \A h \in 0 .. (db_height' - 1) : hf_versions'[h] \in ForkVersions
    <2>1. Forks[current_fork_index].version \in ForkVersions
      BY DEF WindowInv, ForkVersions
    <2>2. ASSUME NEW h \in 0 .. db_height
          PROVE  hf_versions'[h] \in ForkVersions
      <3>1. h = db_height \/ h \in 0 .. (db_height - 1)
        BY <1>2
      <3>2. h \in 0 .. MAX_HEIGHT
        BY <1>2
      <3> QED
        BY <1>6, <2>1, <3>1, <3>2 DEF WindowInv
    <2> QED
      BY <1>2, <1>5, <2>2
  <1>8. db_height' <= MAX_HEIGHT
    BY <1>1, <1>2, <1>5
  <1>9. WindowInv'
    BY <1>1, <1>4, <1>6, <1>7, <1>8 DEF WindowInv, CountsOf
  <1> QED
    BY <1>5, <1>9

LEMMA PopKeepsWindow ==
  ASSUME WindowInv, OnBlockPopped
  PROVE  WindowInv'
  <1> DEFINE last == versions[Len(versions)]
             entering == hf_versions[db_height - 1]
             rest == SubSeq(versions, 1, Len(versions) - 1)
  <1>1. /\ rescan = Idle /\ rescan' = Idle /\ db_height > 1
        /\ blocks' = SubSeq(blocks, 1, db_height - 1)
        /\ versions' = <<entering>> \o rest
        /\ last_versions' = [[last_versions EXCEPT ![last] = @ - 1] EXCEPT ![entering] = @ + 1]
        /\ current_fork_index' \in ForkIndices
        /\ hf_versions' = hf_versions
    BY DEF OnBlockPopped
  <1>2. /\ db_height \in Nat /\ MAX_HEIGHT \in Nat /\ blocks \in Seq(VotedBlock) /\ db_height <= MAX_HEIGHT
        /\ versions \in Seq(Votes) /\ Len(versions) \in Nat /\ Len(versions) > 0
        /\ Len(versions) <= window_size /\ window_size \in Nat
    BY <1>1, WindowTypes DEF WindowInv
  <1>3. last \in Votes /\ entering \in Votes
    <2>1. Len(versions) \in 1 .. Len(versions) /\ db_height - 1 \in 0 .. (db_height - 1)
      BY <1>1, <1>2
    <2>2. last \in Votes
      BY <1>2, <2>1, ElementOfSeq
    <2> QED
      BY <2>1, <2>2, VotesAreNumbers, Zenon DEF WindowInv
  <1>4. Len(versions) - 1 \in 0 .. Len(versions)
    BY <1>2
  <1>5. /\ rest \in Seq(Votes) /\ Len(rest) = Len(versions) - 1
        /\ \A v \in Votes : Occurrences(v, versions) = Occurrences(v, rest) + (IF v = last THEN 1 ELSE 0)
    <2>1. rest \in Seq(Votes) /\ Len(rest) = Len(versions) - 1
      BY <1>2, <1>4, SplitFacts, ZenonT(30)
    <2>2. SubSeq(versions, (Len(versions) - 1) + 1, Len(versions)) = <<last>>
      <3> DEFINE u == SubSeq(versions, (Len(versions) - 1) + 1, Len(versions))
      <3>1. /\ u \in Seq(Votes) /\ Len(u) = Len(versions) - (Len(versions) - 1)
            /\ \A i \in 1 .. (Len(versions) - (Len(versions) - 1)) : u[i] = versions[i + (Len(versions) - 1)]
        BY <1>2, <1>4, SplitFacts
      <3>2. Len(versions) - (Len(versions) - 1) = 1 /\ 1 + (Len(versions) - 1) = Len(versions)
        BY <1>2
      <3> HIDE DEF u
      <3>3. Len(u) = 1 /\ u[1] = last
        BY <3>1, <3>2
      <3> QED
        BY <1>3, <3>1, <3>3, SeqOfOne, Zenon DEF u
    <2>3. \A v \in Votes : Occurrences(v, versions) = Occurrences(v, rest) + Occurrences(v, <<last>>)
      BY <1>2, <1>4, <2>2, OccurrencesSplit, Zenon
    <2> QED
      BY <2>1, <2>3, OccurrencesOfOne
  <1> HIDE DEF rest, last, entering
  <1>6. versions' \in Seq(Votes) /\ Len(versions') = Len(versions)
    <2>1. <<entering>> \in Seq(Votes) /\ Len(<<entering>>) = 1
      BY <1>3
    <2> HIDE <1>1
    <2>2. <<entering>> \o rest \in Seq(Votes) /\ Len(<<entering>> \o rest) = 1 + Len(rest)
      BY <1>5, <2>1, ConcatProperties
    <2> QED
      BY <1>1, <1>2, <1>5, <2>2
  <1>7. \A v \in Votes : Occurrences(v, versions') = (IF v = entering THEN 1 ELSE 0) + Occurrences(v, rest)
    BY <1>1, <1>3, <1>5, OccurrencesPrepend
  <1>8. last_versions' = CountsOf(versions')
    <2>1. last_versions = [v \in Votes |-> Occurrences(v, versions)]
      BY DEF WindowInv, CountsOf
    <2>2. \A v \in Votes : Occurrences(v, rest) \in Nat
      BY <1>5, PlacesAreFinite
    <2>3. ASSUME NEW v \in Votes
          PROVE  last_versions'[v] = Occurrences(v, versions')
      <3>1. last_versions'[v] = Occurrences(v, versions) - (IF v = last THEN 1 ELSE 0)
                                  + (IF v = entering THEN 1 ELSE 0)
        <4>1. Occurrences(v, versions) \in Nat
          BY <1>2, PlacesAreFinite
        <4> QED
          BY <1>1, <1>3, <2>1, <4>1
      <3> QED
        BY <1>5, <1>7, <2>2, <3>1
    <2>4. last_versions' = [v \in Votes |-> last_versions'[v]]
      BY <1>1, <2>1, Zenon
    <2> QED
      BY <2>3, <2>4 DEF CountsOf
  <1>9. blocks' \in Seq(VotedBlock) /\ db_height' = db_height - 1
    <2>1. db_height - 1 \in 0 .. Len(blocks)
      BY <1>1, <1>2 DEF db_height
    <2>2. /\ SubSeq(blocks, 1, db_height - 1) \in Seq(VotedBlock)
          /\ Len(SubSeq(blocks, 1, db_height - 1)) = db_height - 1
      BY <1>2, <2>1, SplitFacts
    <2> QED
      BY <1>1, <2>2 DEF db_height
  <1>10. /\ db_height' <= MAX_HEIGHT
         /\ \A h \in 0 .. (db_height' - 1) : hf_versions'[h] \in ForkVersions
    BY <1>1, <1>2, <1>9 DEF WindowInv
  <1> QED
    BY <1>1, <1>2, <1>6, <1>8, <1>9, <1>10, Zenon DEF WindowInv, CountsOf

\* A reorganization or a restart counts a window it takes from the chain.
LEMMA RecountKeepsWindow ==
  ASSUME WindowInv, NEW from \in Nat, NEW to \in Nat, from <= to, to < db_height,
         to - from + 1 <= window_size,
         versions' = VotesOf(from, to), last_versions' = CountsOf(VotesOf(from, to)),
         current_fork_index' \in ForkIndices, UNCHANGED <<blocks, hf_versions>>,
         rescan' = Idle \/ rescan' \in 1 .. (db_height - 1)
  PROVE  WindowInv'
  <1>1. versions' \in Seq(Votes) /\ Len(versions') = to - from + 1
    <2>1. to \in Int /\ from <= to + 1
      OBVIOUS
    <2> QED
      BY <2>1, VotesOfType, Zenon
  <1>2. Len(versions') <= window_size /\ Len(versions') > 0
    BY <1>1
  <1>3. db_height' = db_height
    BY DEF db_height
  <1> QED
    BY <1>1, <1>2, <1>3 DEF WindowInv, CountsOf

LEMMA ReorganizeWindow ==
  ASSUME WindowInv, NEW chain_height \in 1 .. db_height, Reorganize(chain_height)
  PROVE  /\ WindowInv' /\ UNCHANGED <<blocks, hf_versions>> /\ rescan = Idle
         /\ rescan' = NextRescan(chain_height - 1)
         /\ versions' = VotesOf(WindowStart(chain_height - 1), chain_height - 1)
  <1> DEFINE height == chain_height - 1
             window == VotesOf(WindowStart(height), height)
  <1>1. /\ rescan = Idle /\ versions' = window /\ last_versions' = CountsOf(window)
        /\ rescan' = NextRescan(height) /\ UNCHANGED <<blocks, hf_versions>>
    BY DEF Reorganize, CountsOf
  <1>2. current_fork_index' \in ForkIndices
    BY DEF Reorganize
  <1>3. height \in Nat /\ height < db_height /\ db_height \in Nat /\ window_size \in Nat \ {0}
    BY WindowTypes
  <1>4. /\ WindowStart(height) \in Nat /\ WindowStart(height) <= height
        /\ height - WindowStart(height) + 1 <= window_size
    BY <1>3 DEF WindowStart
  <1>5. rescan' = Idle \/ rescan' \in 1 .. (db_height - 1)
    <2> HIDE DEF height
    <2>1. CASE height + 1 < db_height
      BY <1>1, <1>3, <2>1 DEF NextRescan
    <2>2. CASE ~(height + 1 < db_height)
      BY <1>1, <2>2 DEF NextRescan
    <2> QED
      BY <2>1, <2>2
  <1> HIDE DEF height
  <1>6. WindowInv'
    BY <1>1, <1>2, <1>3, <1>4, <1>5, RecountKeepsWindow
  <1> QED
    BY <1>1, <1>6 DEF height

LEMMA RestartWindow ==
  ASSUME WindowInv, Restart
  PROVE  /\ WindowInv' /\ UNCHANGED <<blocks, hf_versions, rescan>> /\ rescan = Idle /\ db_height > 0
         /\ versions' = VotesOf(WindowStart(db_height - 1), db_height - 1)
  <1> DEFINE from == IF db_height > window_size THEN db_height - window_size ELSE 0
             window == VotesOf(from, db_height - 1)
  <1>1. /\ rescan = Idle /\ db_height > 0 /\ versions' = window /\ last_versions' = CountsOf(window)
        /\ UNCHANGED <<blocks, hf_versions, rescan>>
    BY DEF Restart, CountsOf
  <1>2. current_fork_index' \in ForkIndices
    BY DEF Restart
  <1>3. db_height \in Nat /\ db_height - 1 \in Nat /\ db_height - 1 < db_height /\ window_size \in Nat \ {0}
    BY <1>1, WindowTypes
  <1>4. /\ from = WindowStart(db_height - 1) /\ from \in Nat /\ from <= db_height - 1
        /\ db_height - 1 - from + 1 <= window_size
    BY <1>3 DEF WindowStart
  <1> HIDE DEF from
  <1>5. WindowInv'
    BY <1>1, <1>2, <1>3, <1>4, RecountKeepsWindow
  <1> QED
    BY <1>1, <1>4, <1>5

\* One round of the loop of reorganize_from_block_height.
LEMMA ReorganizeAddWindow ==
  ASSUME WindowInv, ReorganizeAdd
  PROVE  /\ WindowInv' /\ rescan' = NextRescan(rescan) /\ UNCHANGED blocks
         /\ rescan \in 1 .. (db_height - 1) /\ BlockAt(rescan).vote \in Votes
  <1>1. rescan # Idle /\ rescan' = NextRescan(rescan) /\ blocks' = blocks
    BY DEF ReorganizeAdd
  <1>2. /\ rescan \in 1 .. (db_height - 1) /\ db_height \in Nat /\ db_height <= MAX_HEIGHT /\ MAX_HEIGHT \in Nat
    BY <1>1, WindowTypes DEF WindowInv
  <1>3. rescan \in 0 .. (db_height - 1) /\ rescan \in 0 .. MAX_HEIGHT /\ rescan \in Nat
    BY <1>2
  <1>4. BlockAt(rescan).vote \in Votes
    BY <1>3, WindowTypes
  <1>5. rescan' = Idle \/ rescan' \in 1 .. (db_height - 1)
    <2>1. CASE rescan + 1 < db_height
      BY <1>1, <1>2, <2>1 DEF NextRescan
    <2>2. CASE ~(rescan + 1 < db_height)
      BY <1>1, <2>2 DEF NextRescan
    <2> QED
      BY <2>1, <2>2
  <1>6. db_height' = db_height
    BY <1>1 DEF db_height
  <1>7. CASE Vote(rescan, BlockAt(rescan).vote)
    <2>1. /\ versions' \in Seq(Votes) /\ Len(versions') <= window_size /\ Len(versions') > 0
          /\ last_versions' = CountsOf(versions')
          /\ hf_versions' = [hf_versions EXCEPT ![rescan] = Forks[current_fork_index].version]
          /\ hf_versions' \in [0 .. MAX_HEIGHT -> Nat]
          /\ current_fork_index' \in ForkIndices
      BY <1>3, <1>4, <1>7, VoteSlides
    <2>2. Forks[current_fork_index].version \in ForkVersions
      BY DEF WindowInv, ForkVersions
    <2>3. ASSUME NEW h \in 0 .. (db_height - 1)
          PROVE  hf_versions'[h] \in ForkVersions
      <3>1. h \in 0 .. MAX_HEIGHT
        BY <1>2
      <3> QED
        BY <2>1, <2>2, <3>1 DEF WindowInv
    <2>4. WindowInv'
      BY <1>1, <1>5, <1>6, <2>1, <2>3, Zenon DEF WindowInv, CountsOf
    <2> QED
      BY <1>1, <1>2, <1>4, <2>4
  <1>8. CASE UNCHANGED <<hf_versions, versions, last_versions, current_fork_index>>
    <2>1. WindowInv'
      BY <1>1, <1>5, <1>6, <1>8 DEF WindowInv, CountsOf
    <2> QED
      BY <1>1, <1>2, <1>4, <2>1
  <1> QED
    BY <1>7, <1>8 DEF ReorganizeAdd

LEMMA InitWindow == Init => WindowInv
  <1> SUFFICES ASSUME Init PROVE WindowInv
    OBVIOUS
  <1>1. db_height = 0 /\ blocks = << >> /\ versions = << >>
    BY DEF Init, db_height
  <1>2. \A v \in Votes : Occurrences(v, << >>) = 0
    <2>1. \A v \in Votes : {i \in DOMAIN << >> : << >>[i] = v} = {}
      OBVIOUS
    <2> QED
      BY <2>1, FS_EmptySet DEF Occurrences
  <1>3. last_versions = CountsOf(versions)
    BY <1>1, <1>2 DEF Init, CountsOf
  <1>4. 1 \in ForkIndices /\ MAX_HEIGHT \in Nat /\ window_size \in Nat
    BY ScheduledAtGenesis, HardForkAssumption
  <1> QED
    BY <1>1, <1>3, <1>4 DEF Init, WindowInv

LEMMA NextWindow ==
  ASSUME WindowInv, [Next]_vars
  PROVE  WindowInv'
  <1>1. ASSUME NEW version \in ForkVersions, NEW minor \in Minors, Add(version, get_block_vote(minor))
        PROVE  WindowInv'
    BY <1>1, VotesAreNumbers, AddKeepsWindow, Zenon
  <1>2. ASSUME NEW chain_height \in 1 .. db_height, Reorganize(chain_height)
        PROVE  WindowInv'
    BY <1>2, ReorganizeWindow
  <1>3. CASE ReorganizeAdd
    BY <1>3, ReorganizeAddWindow
  <1>4. CASE Restart
    BY <1>4, RestartWindow
  <1>5. CASE OnBlockPopped
    BY <1>5, PopKeepsWindow
  <1>6. CASE UNCHANGED vars
    BY <1>6 DEF vars, WindowInv, CountsOf, db_height
  <1> QED
    BY <1>1, <1>2, <1>3, <1>4, <1>5, <1>6 DEF Next, NextWithoutPops

\* last_versions counts the window whatever the table of forks and the history of
\* blocks, pops, reorganizations and restarts, and the window never runs empty
\* under a block nor outgrows window_size: add() and on_block_popped() never
\* decrement a count that is 0.
THEOREM CountsAreExact == Spec => []CountsMatchWindow
  <1>1. WindowInv => CountsMatchWindow
    BY CountsOfFacts DEF WindowInv, CountsMatchWindow
  <1> QED
    BY <1>1, InitWindow, NextWindow, PTL DEF Spec

-----------------------------------------------------------------------------
(* Without pops, the cache is a function of the chain.                     *)

\* The window when the block at a height is to be checked.
WindowBefore(height) == VotesOf(WindowStart(height - 1), height - 1)

\* The votes of a window lead from one index to another.
ElectedBy(window, height, from, to) ==
    \E voted \in ForkIndices :
        /\ get_voted_fork_index(voted, height, CountsOf(window), from)
        /\ to = IF voted > from THEN voted ELSE from

Elects(height, from, to) == ElectedBy(WindowBefore(height), height, from, to)

\* idx[h] is the index that the block at height h was, or will be, checked with:
\* every one follows from the one before by the votes, the versions recorded and
\* those of the blocks are those of the indices, and the cached index is the one
\* of the height that comes next.
IsHistory(idx) ==
    /\ idx[0] = 1
    /\ \A h \in 1 .. db_height : Elects(h, idx[h - 1], idx[h])
    /\ \A g, h \in 0 .. db_height : g <= h => idx[g] <= idx[h]
    /\ \A h \in 0 .. (db_height - 1) :
          /\ hf_versions[h] = Forks[idx[h]].version
          /\ BlockAt(h).version = Forks[idx[h]].version
          /\ BlockAt(h).vote >= Forks[idx[h]].version
    /\ current_fork_index = idx[IndexHeight]

HistoryInv ==
    /\ WindowInv
    /\ versions = WindowBefore(IndexHeight)
    /\ \E idx \in [0 .. db_height -> ForkIndices] : IsHistory(idx)

LEMMA ElectsUnique ==
  ASSUME NEW window, NEW h, NEW i \in ForkIndices, NEW j, NEW k,
         ElectedBy(window, h, i, j), ElectedBy(window, h, i, k)
  PROVE  j = k
  <1> DEFINE counts == CountsOf(window)
             passed == {n \in ForkIndices : h >= Forks[n].height /\ EnoughVotes(n, counts)}
             Voted(v) == IF passed = {} THEN v = i ELSE v \in passed /\ \A n \in passed : n <= v
  <1>1. PICK v \in ForkIndices : Voted(v) /\ j = IF v > i THEN v ELSE i
    BY DEF ElectedBy, get_voted_fork_index
  <1>2. PICK w \in ForkIndices : Voted(w) /\ k = IF w > i THEN w ELSE i
    BY DEF ElectedBy, get_voted_fork_index
  <1>3. \A n \in ForkIndices : n \in Nat
    BY ForkType
  <1> HIDE DEF passed
  <1>4. v = w
    BY <1>1, <1>2, <1>3
  <1> QED
    BY <1>1, <1>2, <1>4, Zenon

\* The votes of a stretch of a chain.
VotesIn(chain, from, to) == [i \in 1 .. (to - from + 1) |-> chain[from + i].vote]

LEMMA VotesInType ==
  ASSUME NEW chain \in Seq(VotedBlock), NEW from \in Nat, NEW to \in Int, from <= to + 1, to < Len(chain)
  PROVE  /\ VotesIn(chain, from, to) \in Seq(Votes) /\ Len(VotesIn(chain, from, to)) = to - from + 1
         /\ \A i \in 1 .. (to - from + 1) : VotesIn(chain, from, to)[i] = chain[from + i].vote
  <1>1. to - from + 1 \in Nat
    OBVIOUS
  <1>2. \A i \in 1 .. (to - from + 1) : from + i \in 1 .. Len(chain)
    OBVIOUS
  <1>3. \A i \in 1 .. (to - from + 1) : chain[from + i] \in VotedBlock
    BY <1>2, ElementOfSeq
  <1>4. \A b \in VotedBlock : b.vote \in Votes
    BY DEF VotedBlock
  <1>5. VotesIn(chain, from, to) \in [1 .. (to - from + 1) -> Votes]
    BY <1>3, <1>4 DEF VotesIn
  <1>6. VotesIn(chain, from, to) \in Seq(Votes) /\ Len(VotesIn(chain, from, to)) = to - from + 1
    BY <1>1, <1>5
  <1> QED
    BY <1>6 DEF VotesIn

LEMMA VotesOfIsVotesIn ==
  ASSUME NEW from \in Nat, NEW to \in Int
  PROVE  /\ VotesOf(from, to) = VotesIn(blocks, from, to)
         /\ VotesOf(from, to)' = VotesIn(blocks', from, to)
  <1>1. \A i \in 1 .. (to - from + 1) : from + i - 1 + 1 = from + i
    OBVIOUS
  <1>2. VotesOf(from, to) = VotesIn(blocks, from, to)
    BY <1>1 DEF VotesOf, VotesIn, BlockAt
  <1>3. VotesOf(from, to)' = VotesIn(blocks', from, to)
    BY <1>1 DEF VotesOf, VotesIn, BlockAt
  <1> QED
    BY <1>2, <1>3

\* Where the window before a height begins.
LEMMA WindowStartFacts ==
  ASSUME NEW h \in Nat
  PROVE  /\ WindowStart(h - 1) \in Nat /\ WindowStart(h - 1) <= h /\ h - 1 \in Int
         /\ WindowStart(h - 1) = IF h >= window_size THEN h - window_size ELSE 0
         /\ window_size \in Nat \ {0}
  <1>1. window_size \in Nat \ {0}
    BY HardForkAssumption
  <1> QED
    BY <1>1 DEF WindowStart

\* Blocks on top do not change an earlier window.
LEMMA WindowIsKept ==
  ASSUME WindowInv, blocks' \in Seq(VotedBlock), NEW h \in Nat, h <= db_height, h <= db_height',
         \A k \in 0 .. (h - 1) : blocks'[k + 1] = blocks[k + 1]
  PROVE  WindowBefore(h)' = WindowBefore(h)
  <1> DEFINE from == WindowStart(h - 1)
             to == h - 1
  <1>1. from \in Nat /\ to \in Int /\ from <= to + 1
    BY WindowStartFacts
  <1>2. WindowBefore(h) = VotesIn(blocks, from, to) /\ WindowBefore(h)' = VotesIn(blocks', from, to)
    BY <1>1, VotesOfIsVotesIn DEF WindowBefore, WindowStart
  <1>3. \A i \in 1 .. (to - from + 1) : from + i - 1 \in 0 .. (h - 1) /\ from + i = (from + i - 1) + 1
    BY <1>1
  <1>4. \A i \in 1 .. (to - from + 1) : blocks'[from + i] = blocks[from + i]
    BY <1>3
  <1> HIDE DEF from, to
  <1> QED
    BY <1>2, <1>4 DEF VotesIn

\* HardFork::add slides the window of one height to that of the next.
LEMMA WindowSlides ==
  ASSUME WindowInv, blocks' \in Seq(VotedBlock), NEW h \in 0 .. MAX_HEIGHT, h <= db_height, h < db_height',
         \A k \in 0 .. (h - 1) : blocks'[k + 1] = blocks[k + 1],
         NEW vote \in Votes, blocks'[h + 1].vote = vote,
         versions = WindowBefore(h), Vote(h, vote)
  PROVE  versions' = WindowBefore(h + 1)'
  <1> DEFINE from == WindowStart(h - 1)
             next == WindowStart(h)
             excess == IF Len(versions) = window_size THEN 1 ELSE 0
             new == VotesIn(blocks', next, h)
  <1>1. /\ h \in Nat /\ db_height \in Nat /\ MAX_HEIGHT \in Nat /\ window_size \in Nat \ {0}
        /\ blocks \in Seq(VotedBlock) /\ db_height = Len(blocks) /\ db_height' = Len(blocks')
    BY WindowTypes DEF db_height, WindowInv
  <1>2. /\ from \in Nat /\ from <= h /\ h - 1 \in Int
        /\ from = IF h >= window_size THEN h - window_size ELSE 0
    BY <1>1, WindowStartFacts, Zenon
  <1>3. /\ next \in Nat /\ next <= h
        /\ next = IF h + 1 >= window_size THEN h + 1 - window_size ELSE 0
    BY <1>1 DEF WindowStart
  <1>4. versions = VotesIn(blocks, from, h - 1)
    BY <1>2, VotesOfIsVotesIn DEF WindowBefore
  <1>5. (h + 1) - 1 = h /\ WindowBefore(h + 1)' = new
    <2>1. (h + 1) - 1 = h
      BY <1>1
    <2>2. WindowBefore(h + 1)' = VotesOf(next, h)'
      BY <2>1 DEF WindowBefore, WindowStart
    <2> QED
      BY <1>1, <1>3, <2>1, <2>2, VotesOfIsVotesIn
  <1>6. /\ Len(versions) = h - from
        /\ \A i \in 1 .. (h - from) : versions[i] = blocks[from + i].vote
    <2> HIDE DEF from
    <2>1. from <= (h - 1) + 1 /\ h - 1 < Len(blocks) /\ (h - 1) - from + 1 = h - from
      BY <1>1, <1>2, SMTT(30)
    <2>2. /\ Len(VotesIn(blocks, from, h - 1)) = (h - 1) - from + 1
          /\ \A i \in 1 .. ((h - 1) - from + 1) : VotesIn(blocks, from, h - 1)[i] = blocks[from + i].vote
      BY <1>1, <1>2, <2>1, VotesInType, ZenonT(30)
    <2> QED
      BY <1>4, <2>1, <2>2
  <1>7. /\ new \in Seq(Votes) /\ Len(new) = h - next + 1
        /\ \A i \in 1 .. (h - next + 1) : new[i] = blocks'[next + i].vote
    <2> HIDE DEF next
    <2>1. next <= h + 1 /\ h < Len(blocks') /\ h \in Int
      BY <1>1, <1>3
    <2> QED
      BY <1>3, <2>1, VotesInType, Zenon
  <1>8. /\ versions' \in Seq(Votes) /\ Len(versions') = Len(versions) - excess + 1
        /\ \A i \in 1 .. (Len(versions) - excess) : versions'[i] = versions[i + excess]
        /\ versions'[Len(versions) - excess + 1] = vote
    BY VoteSlides
  <1> HIDE DEF from, next, new
  <1>9. next = from + excess /\ excess \in {0, 1} /\ Len(versions) - excess = h - next
    BY <1>1, <1>2, <1>3, <1>6
  <1> HIDE DEF excess
  <1>10. /\ h \in Nat /\ from \in Nat /\ next \in Nat /\ excess \in Nat
         /\ next = from + excess /\ next <= h /\ from <= h
    BY <1>1, <1>2, <1>3, <1>9
  <1>11. Len(versions') = h - next + 1
    BY <1>8, <1>9
  <1>12. ASSUME NEW i \in 1 .. (h - next)
         PROVE  versions'[i] = new[i]
    <2>1. i + excess \in 1 .. (h - from) /\ from + (i + excess) = next + i /\ i \in 1 .. (h - next + 1)
      BY <1>10
    <2>2. versions'[i] = blocks[next + i].vote
      <3>1. i \in 1 .. (Len(versions) - excess)
        BY <1>9
      <3>2. versions'[i] = versions[i + excess]
        BY <1>8, <3>1
      <3>3. versions[i + excess] = blocks[from + (i + excess)].vote
        BY <1>6, <2>1
      <3> QED
        BY <2>1, <3>2, <3>3
    <2>3. next + i - 1 \in 0 .. (h - 1) /\ (next + i - 1) + 1 = next + i
      BY <1>1, <1>3
    <2>4. blocks'[next + i] = blocks[next + i]
      BY <2>3
    <2> QED
      BY <1>7, <2>1, <2>2, <2>4, Zenon
  <1>13. versions'[h - next + 1] = new[h - next + 1]
    <2>1. h - next + 1 \in 1 .. (h - next + 1) /\ next + (h - next + 1) = h + 1
      BY <1>1, <1>3
    <2>2. new[h - next + 1] = vote
      BY <1>7, <2>1
    <2>3. versions'[h - next + 1] = vote
      BY <1>8, <1>9
    <2> QED
      BY <2>2, <2>3
  <1>14. \A i \in 1 .. Len(versions') : versions'[i] = new[i]
    <2>1. Len(versions') = h - next + 1 /\ h - next \in Nat
      BY <1>10, <1>11
    <2>2. \A i \in 1 .. (h - next + 1) : i \in 1 .. (h - next) \/ i = h - next + 1
      BY <2>1
    <2> QED
      BY <1>12, <1>13, <2>1, <2>2
  <1>15. Len(versions') = Len(new)
    BY <1>7, <1>11, Zenon
  <1> QED
    BY <1>5, <1>7, <1>8, <1>14, <1>15, SeqEqual, Zenon

\* What a step that keeps the chain and the versions keeps of a history.
LEMMA HistoryIsKept ==
  ASSUME HistoryInv, NEW idx \in [0 .. db_height -> ForkIndices], IsHistory(idx),
         UNCHANGED <<blocks, hf_versions>>, current_fork_index' = idx[IndexHeight']
  PROVE  IsHistory(idx)' /\ idx \in [0 .. db_height' -> ForkIndices]
  <1>1. db_height' = db_height
    BY DEF db_height
  <1>2. \A h \in Nat : WindowBefore(h)' = WindowBefore(h)
    BY DEF WindowBefore, VotesOf, BlockAt, WindowStart
  <1>3. \A h \in 1 .. db_height : Elects(h, idx[h - 1], idx[h])'
    <2> SUFFICES ASSUME NEW h \in 1 .. db_height
                 PROVE  Elects(h, idx[h - 1], idx[h])'
      OBVIOUS
    <2>1. Elects(h, idx[h - 1], idx[h])
      BY DEF IsHistory
    <2>2. WindowBefore(h)' = WindowBefore(h)
      BY <1>2
    <2> QED
      BY <2>1, <2>2 DEF Elects
  <1> QED
    BY <1>1, <1>3 DEF IsHistory, BlockAt

\* The table is strictly increasing.
LEMMA SameFork ==
  ASSUME NEW m \in ForkIndices, NEW n \in ForkIndices
  PROVE  /\ Forks[m].version = Forks[n].version => m = n
         /\ Forks[m].version <= Forks[n].version => m <= n
  <1>1. m < n => Forks[m].version < Forks[n].version
    BY HardForkAssumption
  <1>2. n < m => Forks[n].version < Forks[m].version
    BY HardForkAssumption
  <1> QED
    BY <1>1, <1>2, ForkType

LEMMA InitHistory == Init => HistoryInv
  <1> SUFFICES ASSUME Init PROVE HistoryInv
    OBVIOUS
  <1>1. db_height = 0 /\ IndexHeight = 0 /\ current_fork_index = 1 /\ versions = << >>
    BY DEF Init, db_height, IndexHeight
  <1> DEFINE idx == [h \in 0 .. 0 |-> 1]
  <1>2. idx \in [0 .. db_height -> ForkIndices]
    BY <1>1, ScheduledAtGenesis
  <1>3. IsHistory(idx)
    BY <1>1 DEF IsHistory
  <1>4. WindowBefore(0) = << >>
    <2>1. WindowStart(0 - 1) = 0
      BY WindowStartFacts
    <2>2. VotesOf(0, 0 - 1) = << >>
      BY DEF VotesOf
    <2> QED
      BY <2>1, <2>2 DEF WindowBefore
  <1> HIDE DEF idx
  <1> QED
    BY <1>1, <1>2, <1>3, <1>4, InitWindow DEF HistoryInv

\* add() of a new block makes the history one longer.
LEMMA AddHistory ==
  ASSUME HistoryInv, NEW version \in ForkVersions, NEW vote \in Votes, Add(version, vote)
  PROVE  HistoryInv'
  <1>1. /\ rescan = Idle /\ rescan' = Idle /\ db_height < MAX_HEIGHT
        /\ do_check(version, vote, current_fork_index) /\ Vote(db_height, vote)
    BY DEF Add
  <1>2. WindowInv /\ versions = WindowBefore(db_height)
    BY <1>1, Zenon DEF HistoryInv, IndexHeight
  <1>3. /\ WindowInv' /\ db_height' = db_height + 1
        /\ \A h \in 0 .. (db_height - 1) : BlockAt(h)' = BlockAt(h)
        /\ blocks'[db_height + 1] = [version |-> version, vote |-> vote]
    BY <1>2, AddKeepsWindow, Zenon
  <1>4. PICK idx \in [0 .. db_height -> ForkIndices] : IsHistory(idx)
    BY DEF HistoryInv
  <1>5. db_height \in Nat /\ db_height \in 0 .. MAX_HEIGHT /\ MAX_HEIGHT \in Nat
    BY <1>1, <1>2, WindowTypes
  <1>6. blocks' \in Seq(VotedBlock) /\ \A k \in 0 .. (db_height - 1) : blocks'[k + 1] = blocks[k + 1]
    BY <1>3, Zenon DEF WindowInv, BlockAt
  <1>7. blocks'[db_height + 1].vote = vote
    <2> DEFINE added == blocks'[db_height + 1]
    <2>1. added = [version |-> version, vote |-> vote]
      BY <1>3, Zenon
    <2> HIDE DEF added
    <2>2. added.vote = vote
      BY <2>1
    <2> QED
      BY <2>2, Zenon DEF added
  <1>8. PICK n \in 0 .. MAX_HEIGHT : n = db_height
    BY <1>5
  <1>9. n \in Nat /\ n <= db_height /\ n < db_height' /\ IndexHeight' = n + 1 /\ db_height' = n + 1
    BY <1>1, <1>3, <1>5, <1>8, SMTT(30) DEF IndexHeight
  <1>10. versions' = WindowBefore(n + 1)'
    BY <1>1, <1>2, <1>6, <1>7, <1>8, <1>9, WindowSlides, Zenon
  <1>11. versions' = WindowBefore(IndexHeight)'
    <2>1. WindowBefore(IndexHeight)' = WindowBefore(n + 1)'
      BY <1>9 DEF WindowBefore, VotesOf, WindowStart, BlockAt
    <2> QED
      BY <1>10, <2>1
  <1>12. PICK c \in ForkIndices : c = current_fork_index'
    BY <1>3 DEF WindowInv
  <1> DEFINE new == [h \in 0 .. (n + 1) |-> IF h <= n THEN idx[h] ELSE c]
  <1>13. /\ new \in [0 .. db_height' -> ForkIndices]
         /\ \A h \in 0 .. n : new[h] = idx[h]
         /\ new[n + 1] = c
    <2>2. \A h \in 0 .. n : idx[h] \in ForkIndices /\ h <= n /\ h \in 0 .. (n + 1)
      BY <1>4, <1>8, <1>9
    <2>3. ~(n + 1 <= n) /\ n + 1 \in 0 .. (n + 1)
      BY <1>9
    <2>4. \A h \in 0 .. (n + 1) : h <= n => h \in 0 .. n
      BY <1>9
    <2> QED
      BY <1>9, <2>2, <2>3, <2>4
  <1> HIDE DEF new
  <1>14. current_fork_index = idx[n] /\ idx[n] \in ForkIndices
    BY <1>1, <1>4, <1>8, <1>9 DEF IsHistory, IndexHeight
  <1>15. ElectedBy(versions', n + 1, idx[n], c) /\ idx[n] <= c
    <2>1. ElectedBy(versions', n + 1, idx[n], c)
      BY <1>1, <1>2, <1>8, <1>14, <1>12, VoteSlides, Zenon DEF ElectedBy
    <2> QED
      BY <1>14, <2>1, ForkType DEF ElectedBy
  <1>16. ASSUME NEW h \in 1 .. (n + 1)
         PROVE  Elects(h, new[h - 1], new[h])'
    <2>1. CASE h = n + 1
      <3>1. h - 1 = n
        BY <1>9, <2>1
      <3>2. new[h - 1] = idx[n] /\ new[h] = c
        BY <1>9, <1>13, <2>1, <3>1
      <3> QED
        BY <1>10, <1>15, <2>1, <3>2, Zenon DEF Elects
    <2>2. CASE h # n + 1
      <3>1. h \in 1 .. db_height /\ h \in 0 .. n /\ h - 1 \in 0 .. n
        BY <1>8, <1>9, <2>2
      <3>2. Elects(h, new[h - 1], new[h])
        BY <1>4, <1>13, <3>1, Zenon DEF IsHistory
      <3>3. WindowBefore(h)' = WindowBefore(h)
        <4>1. h \in Nat /\ h <= db_height /\ h <= db_height'
          BY <1>3, <1>5, <3>1
        <4>2. \A k \in 0 .. (h - 1) : k \in 0 .. (db_height - 1)
          BY <1>5, <3>1
        <4> QED
          BY <1>2, <1>6, <4>1, <4>2, WindowIsKept, Zenon
      <3> QED
        BY <3>2, <3>3 DEF Elects
    <2> QED
      BY <2>1, <2>2
  <1>17. ASSUME NEW g \in 0 .. (n + 1), NEW h \in 0 .. (n + 1), g <= h
         PROVE  new[g] <= new[h]
    <2>1. CASE h \in 0 .. n
      <3>1. g \in 0 .. n
        BY <1>9, <1>17, <2>1
      <3> QED
        BY <1>4, <1>8, <1>13, <1>17, <2>1, <3>1, Zenon DEF IsHistory
    <2>2. CASE h = n + 1 /\ g \in 0 .. n
      <3>1. idx[g] <= idx[n] /\ idx[g] \in ForkIndices
        BY <1>4, <1>8, <1>9, <2>2 DEF IsHistory
      <3> QED
        BY <1>13, <1>14, <1>15, <2>2, <3>1, ForkType
    <2>3. CASE h = n + 1 /\ g = n + 1
      BY <1>13, <2>3, ForkType
    <2> QED
      BY <1>9, <2>1, <2>2, <2>3
  <1>18. ASSUME NEW h \in 0 .. n
         PROVE  /\ hf_versions'[h] = Forks[new[h]].version
                /\ BlockAt(h)'.version = Forks[new[h]].version
                /\ BlockAt(h)'.vote >= Forks[new[h]].version
    <2>1. hf_versions' = [hf_versions EXCEPT ![n] = Forks[idx[n]].version]
      BY <1>1, <1>2, <1>8, <1>14, VoteSlides, Zenon
    <2>2. h \in 0 .. MAX_HEIGHT /\ hf_versions \in [0 .. MAX_HEIGHT -> Nat]
      BY <1>2, <1>5, <1>8 DEF WindowInv
    <2>3. new[h] = idx[h]
      BY <1>13, Zenon
    <2>4. CASE h = n
      <3>1. BlockAt(h)' = [version |-> version, vote |-> vote]
        BY <1>3, <1>8, <2>4, Zenon DEF BlockAt
      <3> QED
        BY <1>1, <1>14, <2>1, <2>2, <2>3, <2>4, <3>1 DEF do_check
    <2>5. CASE h # n
      <3>1. h \in 0 .. (db_height - 1)
        BY <1>8, <1>9, <2>5
      <3>2. BlockAt(h)' = BlockAt(h) /\ hf_versions'[h] = hf_versions[h]
        BY <1>3, <2>1, <2>2, <2>5, <3>1, Zenon
      <3> QED
        BY <1>4, <2>3, <3>1, <3>2, Zenon DEF IsHistory
    <2> QED
      BY <2>4, <2>5, Zenon
  <1>19. IsHistory(new)'
    <2>1. new[0] = 1
      BY <1>4, <1>9, <1>13 DEF IsHistory
    <2>2. db_height' - 1 = n
      BY <1>9
    <2>3. current_fork_index' = new[IndexHeight']
      BY <1>9, <1>13, <1>12
    <2> QED
      BY <1>9, <1>16, <1>17, <1>18, <2>1, <2>2, <2>3, Zenon DEF IsHistory
  <1> QED
    BY <1>3, <1>11, <1>13, <1>19, Zenon DEF HistoryInv

\* A reorganization that pops nothing finds the index of the last block kept, and
\* from it the votes elect again what they elected then.
LEMMA ReorganizeHistory ==
  ASSUME HistoryInv, NEW chain_height \in 1 .. db_height, Reorganize(chain_height)
  PROVE  HistoryInv'
  <1> DEFINE start_version == IF chain_height - 1 = 0 THEN original_version ELSE hf_versions[chain_height - 1]
  <1>1. /\ WindowInv' /\ UNCHANGED <<blocks, hf_versions>> /\ rescan = Idle
        /\ rescan' = NextRescan(chain_height - 1)
        /\ versions' = WindowBefore(chain_height)
    BY ReorganizeWindow DEF HistoryInv, WindowBefore
  <1>2. PICK idx \in [0 .. db_height -> ForkIndices] : IsHistory(idx)
    BY DEF HistoryInv
  <1>3. /\ db_height \in Nat /\ chain_height \in Nat /\ chain_height - 1 \in 0 .. db_height
        /\ chain_height \in 0 .. db_height /\ db_height \in 0 .. db_height
        /\ chain_height - 1 \in 0 .. (db_height - 1) /\ chain_height - 1 <= db_height
    BY WindowTypes DEF HistoryInv
  <1>4. PICK n \in ForkIndices : n = idx[chain_height - 1]
    BY <1>2, <1>3, Zenon
  <1>5. start_version = Forks[n].version
    BY <1>2, <1>3, <1>4, HardForkAssumption, Zenon DEF IsHistory
  <1>6. PICK low \in ForkIndices, voted \in ForkIndices :
           /\ low <= current_fork_index
           /\ low = 1 \/ Forks[low].version <= start_version
           /\ \A k \in ForkIndices : (low < k /\ k <= current_fork_index) => Forks[k].version > start_version
           /\ get_voted_fork_index(voted, (chain_height - 1) + 1, CountsOf(versions'), low)
           /\ current_fork_index' = IF voted > low THEN voted ELSE low
    BY <1>1 DEF Reorganize, CountsOf, WindowBefore
  <1> HIDE DEF start_version
  <1>7. low = n
    <2>1. n <= current_fork_index
      <3>1. current_fork_index = idx[db_height]
        BY <1>1, <1>2, Zenon DEF IsHistory, IndexHeight
      <3> QED
        BY <1>2, <1>3, <1>4, <3>1, Zenon DEF IsHistory
    <2>2. ~(low < n)
      BY <1>5, <1>6, <2>1, ForkType
    <2>3. low <= n
      <3>1. low = 1 \/ Forks[low].version <= Forks[n].version
        BY <1>5, <1>6
      <3>2. n >= 1
        BY HardForkAssumption DEF ForkIndices
      <3>3. Forks[low].version <= Forks[n].version => low <= n
        BY SameFork, Zenon
      <3> QED
        BY <3>1, <3>2, <3>3, ForkType, Zenon
    <2> QED
      BY <2>2, <2>3, ForkType
  <1>8. ElectedBy(WindowBefore(chain_height), chain_height, n, current_fork_index')
    <2>1. (chain_height - 1) + 1 = chain_height
      BY <1>3
    <2> QED
      BY <1>1, <1>6, <1>7, <2>1, Zenon DEF ElectedBy
  <1>9. ElectedBy(WindowBefore(chain_height), chain_height, n, idx[chain_height])
    BY <1>2, <1>4 DEF IsHistory, Elects
  <1>10. current_fork_index' = idx[chain_height]
    BY <1>8, <1>9, ElectsUnique
  <1>11. IndexHeight' = chain_height
    <2>1. db_height' = db_height
      BY <1>1 DEF db_height
    <2> QED
      BY <1>1, <1>3, <2>1 DEF IndexHeight, NextRescan, Idle
  <1>12. IsHistory(idx)' /\ idx \in [0 .. db_height' -> ForkIndices]
    BY <1>1, <1>2, <1>10, <1>11, HistoryIsKept, Zenon
  <1>13. WindowBefore(IndexHeight)' = WindowBefore(chain_height)
    BY <1>1, <1>11 DEF WindowBefore, VotesOf, WindowStart, BlockAt
  <1> QED
    BY <1>1, <1>12, <1>13, Zenon DEF HistoryInv

\* Every block of the loop passes check() again, as it did when it was added.
LEMMA ReorganizeAddHistory ==
  ASSUME HistoryInv, ReorganizeAdd
  PROVE  HistoryInv'
  <1>1. /\ WindowInv' /\ rescan' = NextRescan(rescan) /\ blocks' = blocks
        /\ rescan \in 1 .. (db_height - 1) /\ BlockAt(rescan).vote \in Votes
    BY ReorganizeAddWindow DEF HistoryInv
  <1>2. PICK idx \in [0 .. db_height -> ForkIndices] : IsHistory(idx)
    BY DEF HistoryInv
  <1>3. db_height \in Nat /\ MAX_HEIGHT \in Nat /\ db_height <= MAX_HEIGHT /\ WindowInv
    BY WindowTypes DEF HistoryInv, WindowInv
  <1>4. PICK n \in 0 .. MAX_HEIGHT : n = rescan
    BY <1>1, <1>3
  <1>5. /\ n \in Nat /\ n \in 0 .. (db_height - 1) /\ n + 1 \in 1 .. db_height /\ n \in 0 .. db_height
        /\ (n + 1) - 1 = n /\ n <= db_height /\ n < db_height
    BY <1>1, <1>3, <1>4
  <1>6. rescan # Idle /\ IndexHeight = n
    BY <1>4, <1>5 DEF IndexHeight, Idle
  <1>7. current_fork_index = idx[n] /\ idx[n] \in ForkIndices /\ versions = WindowBefore(n)
    BY <1>2, <1>5, <1>6, Zenon DEF IsHistory, HistoryInv
  <1>8. /\ hf_versions[n] = Forks[idx[n]].version
        /\ BlockAt(n).version = Forks[idx[n]].version
        /\ BlockAt(n).vote >= Forks[idx[n]].version
    BY <1>2, <1>5 DEF IsHistory
  <1>9. Vote(n, BlockAt(n).vote)
    BY <1>4, <1>7, <1>8 DEF ReorganizeAdd, do_check
  <1>10. PICK vote \in Votes : vote = BlockAt(n).vote
    BY <1>1, <1>4, Zenon
  <1>11. /\ hf_versions' = [hf_versions EXCEPT ![n] = Forks[idx[n]].version]
         /\ ElectedBy(versions', n + 1, idx[n], current_fork_index')
    BY <1>3, <1>7, <1>9, <1>10, VoteSlides, Zenon DEF ElectedBy
  <1>12. hf_versions' = hf_versions
    BY <1>3, <1>8, <1>11, Zenon DEF WindowInv
  <1>13. versions' = WindowBefore(n + 1)' /\ WindowBefore(n + 1)' = WindowBefore(n + 1)
    <2>1. db_height' = db_height
      BY <1>1 DEF db_height
    <2>2. blocks'[n + 1].vote = vote
      BY <1>1, <1>10 DEF BlockAt
    <2>3. blocks' \in Seq(VotedBlock)
      BY <1>1, <1>3, Zenon DEF WindowInv
    <2>4. versions' = WindowBefore(n + 1)'
      BY <1>1, <1>3, <1>5, <1>7, <1>9, <1>10, <2>1, <2>2, <2>3, WindowSlides, Zenon
    <2> QED
      BY <1>1, <2>4 DEF WindowBefore, VotesOf, WindowStart, BlockAt
  <1>14. ElectedBy(WindowBefore(n + 1), n + 1, idx[n], idx[n + 1])
    BY <1>2, <1>5 DEF IsHistory, Elects
  <1>15. current_fork_index' = idx[n + 1]
    BY <1>7, <1>11, <1>13, <1>14, ElectsUnique
  <1>16. IndexHeight' = n + 1
    <2>1. db_height' = db_height
      BY <1>1 DEF db_height
    <2> QED
      BY <1>1, <1>3, <1>4, <1>5, <2>1 DEF IndexHeight, NextRescan, Idle
  <1>17. IsHistory(idx)' /\ idx \in [0 .. db_height' -> ForkIndices]
    BY <1>1, <1>2, <1>12, <1>15, <1>16, HistoryIsKept, Zenon
  <1>18. WindowBefore(IndexHeight)' = WindowBefore(n + 1)'
    BY <1>16 DEF WindowBefore, VotesOf, WindowStart, BlockAt
  <1> QED
    BY <1>1, <1>13, <1>17, <1>18 DEF HistoryInv

\* A restart finds the cache again.
LEMMA RestartHistory ==
  ASSUME HistoryInv, Restart
  PROVE  HistoryInv' /\ UNCHANGED <<versions, last_versions, current_fork_index>>
  <1>1. /\ WindowInv' /\ UNCHANGED <<blocks, hf_versions, rescan>> /\ rescan = Idle /\ db_height > 0
        /\ versions' = WindowBefore(db_height)
    BY RestartWindow DEF HistoryInv, WindowBefore
  <1>2. PICK idx \in [0 .. db_height -> ForkIndices] : IsHistory(idx)
    BY DEF HistoryInv
  <1>3. /\ db_height \in Nat /\ db_height - 1 \in 0 .. (db_height - 1) /\ db_height - 1 \in 0 .. db_height
        /\ db_height \in 1 .. db_height
    BY <1>1, WindowTypes DEF HistoryInv
  <1>4. PICK n \in ForkIndices : n = idx[db_height - 1]
    BY <1>2, <1>3
  <1>5. hf_versions[db_height - 1] = Forks[n].version
    BY <1>2, <1>3, <1>4 DEF IsHistory
  <1>6. versions' = versions /\ IndexHeight = db_height /\ IndexHeight' = db_height
    <2>1. IndexHeight = db_height /\ IndexHeight' = db_height
      BY <1>1 DEF IndexHeight, db_height
    <2> QED
      BY <1>1, <2>1 DEF HistoryInv
  <1>7. last_versions' = last_versions
    BY <1>1, <1>6 DEF HistoryInv, WindowInv, CountsOf
  <1>8. last_versions' = CountsOf(versions')
    BY <1>6, <1>7 DEF HistoryInv, WindowInv
  <1>9. PICK found \in ForkIndices, voted \in ForkIndices :
           /\ LastFork(found)
           /\ get_voted_fork_index(voted, db_height, CountsOf(versions'), found)
           /\ current_fork_index' = IF voted > found THEN voted ELSE found
    <2>1. \E found, voted \in ForkIndices :
           /\ LastFork(found)
           /\ get_voted_fork_index(voted, db_height, last_versions', found)
           /\ current_fork_index' = IF voted > found THEN voted ELSE found
      BY DEF Restart
    <2> QED
      BY <1>8, <2>1
  <1>10. found = n
    <2>1. /\ found = Len(Forks) \/ Forks[found].version = Forks[n].version
          /\ \A k \in ForkIndices : k < found => Forks[k].version # Forks[n].version
      BY <1>5, <1>9 DEF LastFork
    <2>2. n \in Nat /\ found \in Nat /\ n <= Len(Forks) /\ Len(Forks) \in Nat
      BY ForkType, HardForkAssumption DEF ForkIndices
    <2>3. ~(n < found)
      BY <2>1
    <2>4. CASE found = Len(Forks)
      BY <2>2, <2>3, <2>4
    <2>5. CASE Forks[found].version = Forks[n].version
      BY <2>5, SameFork
    <2> QED
      BY <2>1, <2>4, <2>5
  <1>11. ElectedBy(WindowBefore(db_height), db_height, n, current_fork_index')
    BY <1>1, <1>9, <1>10 DEF ElectedBy
  <1>12. ElectedBy(WindowBefore(db_height), db_height, n, idx[db_height])
    BY <1>2, <1>3, <1>4 DEF IsHistory, Elects
  <1>13. current_fork_index' = idx[db_height] /\ current_fork_index = idx[db_height]
    BY <1>2, <1>6, <1>11, <1>12, ElectsUnique DEF IsHistory
  <1>14. IsHistory(idx)' /\ idx \in [0 .. db_height' -> ForkIndices]
    BY <1>1, <1>2, <1>6, <1>13, HistoryIsKept, Zenon
  <1>15. WindowBefore(IndexHeight)' = WindowBefore(db_height)
    BY <1>1, <1>6 DEF WindowBefore, VotesOf, WindowStart, BlockAt
  <1> QED
    BY <1>1, <1>6, <1>7, <1>13, <1>14, <1>15 DEF HistoryInv

LEMMA NextHistory ==
  ASSUME HistoryInv, [NextWithoutPops]_vars
  PROVE  HistoryInv'
  <1>1. ASSUME NEW version \in ForkVersions, NEW minor \in Minors, Add(version, get_block_vote(minor))
        PROVE  HistoryInv'
    BY <1>1, VotesAreNumbers, AddHistory, Zenon
  <1>2. ASSUME NEW chain_height \in 1 .. db_height, Reorganize(chain_height)
        PROVE  HistoryInv'
    BY <1>2, ReorganizeHistory
  <1>3. CASE ReorganizeAdd
    BY <1>3, ReorganizeAddHistory
  <1>4. CASE Restart
    BY <1>4, RestartHistory
  <1>5. CASE UNCHANGED vars
    <2>1. PICK idx \in [0 .. db_height -> ForkIndices] : IsHistory(idx)
      BY DEF HistoryInv
    <2>2. UNCHANGED <<blocks, hf_versions, versions, last_versions, current_fork_index, rescan>>
      BY <1>5 DEF vars
    <2>3. IndexHeight' = IndexHeight
      BY <2>2, Zenon DEF IndexHeight, db_height
    <2>4. current_fork_index' = idx[IndexHeight']
      BY <2>1, <2>2, <2>3, Zenon DEF IsHistory
    <2>5. IsHistory(idx)' /\ idx \in [0 .. db_height' -> ForkIndices]
      BY <2>1, <2>2, <2>4, HistoryIsKept, Zenon
    <2>6. WindowBefore(IndexHeight)' = WindowBefore(IndexHeight)
      BY <2>2, <2>3 DEF WindowBefore, VotesOf, WindowStart, BlockAt
    <2>7. WindowInv'
      BY <1>5, NextWindow DEF HistoryInv
    <2> QED
      BY <2>2, <2>5, <2>6, <2>7 DEF HistoryInv
  <1> QED
    BY <1>1, <1>2, <1>3, <1>4, <1>5 DEF NextWithoutPops

LEMMA HistoryInvariance == SpecWithoutPops => []HistoryInv
  BY InitHistory, NextHistory, PTL DEF SpecWithoutPops

\* As long as no block is popped, versions is the "rolling window of the last N
\* blocks' versions" its comment promises, for any table of forks: in the loop of
\* reorganize_from_block_height no block fails check(), so none is left out.
THEOREM WindowIsLastBlocks == SpecWithoutPops => []WindowHoldsLastBlocks
  <1>1. HistoryInv => WindowHoldsLastBlocks
    <2> SUFFICES ASSUME HistoryInv, rescan = Idle
                 PROVE  versions = VotesOf(db_height - Min({window_size, db_height}), db_height - 1)
      BY DEF WindowHoldsLastBlocks
    <2>1. versions = VotesOf(WindowStart(db_height - 1), db_height - 1)
      BY DEF HistoryInv, IndexHeight, WindowBefore
    <2>2. db_height \in Nat /\ window_size \in Nat \ {0}
      BY WindowTypes DEF HistoryInv
    <2>3. Min({window_size, db_height}) = IF window_size <= db_height THEN window_size ELSE db_height
      BY <2>2 DEF Min
    <2>4. WindowStart(db_height - 1) = db_height - Min({window_size, db_height})
      BY <2>2, <2>3 DEF WindowStart
    <2> QED
      BY <2>1, <2>4
  <1> QED
    BY <1>1, HistoryInvariance, PTL

\* A restart that rescans the last window_size blocks finds the window, the counts
\* and the index that add() and reorganizations had built up, for any table of
\* forks and whatever the votes, as long as no block is popped.
THEOREM RestartRestoresTheCache == SpecWithoutPops => RescanChangesNothing
  <1>1. HistoryInv /\ [NextWithoutPops]_vars =>
          [Restart => UNCHANGED <<versions, last_versions, current_fork_index>>]_vars
    BY RestartHistory
  <1> QED
    BY <1>1, HistoryInvariance, PTL DEF SpecWithoutPops, RescanChangesNothing
=============================================================================
