------------------------------ MODULE HardFork ------------------------------
(***************************************************************************)
(* Which version a block must have.  The HardFork object caches, for the   *)
(* block that comes next, an index into the table of forks; the cache is   *)
(* moved by blocks added, blocks popped, reorganizations and restarts, and *)
(* the version of every accepted block is recorded in the database.        *)
(*                                                                         *)
(* Indices start at 1 here and at 0 in the code.  The loop of              *)
(* reorganize_from_block_height that adds the blocks above the fork point  *)
(* again is one step per block (ReorganizeAdd); it holds the lock, so no   *)
(* other action is enabled until it is over.                               *)
(***************************************************************************)
EXTENDS Integers, Sequences, FiniteSets, FiniteSetsExt

CONSTANTS
    Forks,             \* the table: a sequence of [version, height, threshold]
    original_version,  \* the version before the first fork
    window_size,       \* the number of blocks whose votes count
    Minors,            \* minor versions a block may carry
    MAX_HEIGHT         \* bound on the length of the chain

ForkIndices == 1 .. Len(Forks)

\* add_fork refuses a table that is not in strictly increasing order, and the
\* tables of hardforks.cpp start with the original version.
ASSUME HardForkAssumption ==
    /\ Forks \in Seq([version : Nat \ {0}, height : Nat, threshold : 0 .. 100])
    /\ Len(Forks) >= 1
    /\ Forks[1].version = original_version
    /\ \A m, n \in ForkIndices : m < n => /\ Forks[m].version < Forks[n].version
                                          /\ Forks[m].height < Forks[n].height
    /\ window_size \in Nat \ {0}
    /\ Minors \subseteq Nat
    /\ MAX_HEIGHT \in Nat

VARIABLES
    blocks,              \* the main chain: a sequence of [version, vote]
    hf_versions,         \* the hf_versions table of the database, 0 if absent
    versions,            \* the rolling window of votes
    last_versions,       \* how often each version occurs in the window
    current_fork_index,
    rescan               \* the next height to add again, Idle outside of a reorganization

vars == <<blocks, hf_versions, versions, last_versions, current_fork_index, rescan>>

Idle == -1

ForkVersions == {Forks[n].version : n \in ForkIndices}

get_block_vote(minor_version) == IF minor_version = 0 THEN 1 ELSE minor_version

Votes == ForkVersions \cup {get_block_vote(m) : m \in Minors}

db_height == Len(blocks)

\* The block at a height counted from 0.
BlockAt(height) == blocks[height + 1]

Occurrences(v, s) == Cardinality({i \in DOMAIN s : s[i] = v})

-----------------------------------------------------------------------------
(* Pure parts of the class.                                                *)

do_check(version, vote, index) ==
    /\ version = Forks[index].version
    /\ vote >= Forks[index].version

\* The votes for the version of fork n and for those after it.
AccumulatedVotes(n, counts) ==
    MapThenSumSet(LAMBDA k : counts[Forks[k].version], n .. Len(Forks))

\* Votes are unsigned, so a threshold of 0 is always met.
EnoughVotes(n, counts) ==
    LET threshold == (window_size * Forks[n].threshold + 99) \div 100
    IN  threshold = 0 \/ AccumulatedVotes(n, counts) >= threshold

\* Mutant: the height of a fork is compared strictly.
get_voted_fork_index_late(voted, height, counts, current) ==
    LET passed == {n \in ForkIndices : height > Forks[n].height /\ EnoughVotes(n, counts)}
    IN  IF passed = {} THEN voted = current
                       ELSE voted \in passed /\ \A n \in passed : n <= voted

\* voted is the last fork whose height and threshold are reached, or the
\* current one if there is none.
get_voted_fork_index(voted, height, counts, current) ==
    LET passed == {n \in ForkIndices : height >= Forks[n].height /\ EnoughVotes(n, counts)}
    IN  IF passed = {} THEN voted = current
                       ELSE voted \in passed /\ \A n \in passed : n <= voted

\* The index get_ideal_version(height) and on_block_popped search for: the last
\* fork whose height is reached, whatever the votes.
IsScheduled(index, height) ==
    /\ index = 1 \/ height >= Forks[index].height
    /\ \A n \in ForkIndices : n > index => height < Forks[n].height

-----------------------------------------------------------------------------
Init ==
    /\ blocks = << >>
    /\ hf_versions = [h \in 0 .. MAX_HEIGHT |-> 0]
    /\ versions = << >>
    /\ last_versions = [v \in Votes |-> 0]
    /\ current_fork_index = 1
    /\ rescan = Idle

\* The state change of HardFork::add for the vote of the block at a height:
\* the window slides, and the index moves forward if the votes say so.
Vote(height, vote) ==
    LET excess == IF Len(versions) >= window_size THEN Len(versions) - window_size + 1 ELSE 0
        dropped == SubSeq(versions, 1, excess)
        kept == SubSeq(versions, excess + 1, Len(versions))
        counts == [v \in Votes |-> last_versions[v] - Occurrences(v, dropped)
                                     + (IF v = vote THEN 1 ELSE 0)]
    IN  /\ hf_versions' = [hf_versions EXCEPT ![height] = Forks[current_fork_index].version]
        /\ versions' = Append(kept, vote)
        /\ last_versions' = counts
        /\ \E voted \in ForkIndices :
              /\ get_voted_fork_index(voted, height + 1, counts, current_fork_index)
              /\ current_fork_index' = IF voted > current_fork_index THEN voted
                                                                     ELSE current_fork_index

\* A block passes check() and is added to the database, which calls add().
Add(version, vote) ==
    /\ rescan = Idle
    /\ db_height < MAX_HEIGHT
    /\ do_check(version, vote, current_fork_index)
    /\ blocks' = Append(blocks, [version |-> version, vote |-> vote])
    /\ Vote(db_height, vote)
    /\ UNCHANGED rescan

\* Mutant: the count of the vote that enters the window at the front is not raised.
OnBlockPoppedMiscounts ==
    LET last == versions[Len(versions)]
        entering == hf_versions[db_height - 1]
    IN  /\ rescan = Idle
        /\ db_height > 1
        /\ blocks' = SubSeq(blocks, 1, db_height - 1)
        /\ versions' = <<entering>> \o SubSeq(versions, 1, Len(versions) - 1)
        /\ last_versions' = [last_versions EXCEPT ![last] = @ - 1]
        /\ \E index \in ForkIndices :
              IsScheduled(index, db_height - 1) /\ current_fork_index' = index
        /\ UNCHANGED <<hf_versions, rescan>>

\* The database has popped its top block.  The version recorded for the popped
\* height, not the vote of an older block, enters the window at the front, and
\* votes play no part in the new index.  The entry of hf_versions stays.
OnBlockPopped ==
    LET last == versions[Len(versions)]
        entering == hf_versions[db_height - 1]
    IN  /\ rescan = Idle
        /\ db_height > 1
        /\ blocks' = SubSeq(blocks, 1, db_height - 1)
        /\ versions' = <<entering>> \o SubSeq(versions, 1, Len(versions) - 1)
        /\ last_versions' = [[last_versions EXCEPT ![last] = @ - 1] EXCEPT ![entering] = @ + 1]
        /\ \E index \in ForkIndices :
              IsScheduled(index, db_height - 1) /\ current_fork_index' = index
        /\ UNCHANGED <<hf_versions, rescan>>

\* The votes of the blocks from one height to another, both included.
VotesOf(from, to) == [i \in 1 .. (to - from + 1) |-> BlockAt(from + i - 1).vote]

\* Mutant: the window is one block too long.
WindowStartEarly(height) == IF height >= window_size THEN height - window_size ELSE 0

\* The first block of the window that ends with the block at a height.
WindowStart(height) == IF height >= window_size - 1 THEN height - (window_size - 1) ELSE 0

NextRescan(height) == IF height + 1 < db_height THEN height + 1 ELSE Idle

\* reorganize_from_chain_height(chain_height), up to its loop: the window is
\* rebuilt up to the last block kept, the index falls back to the version of
\* that block, and the votes may raise it again.
Reorganize(chain_height) ==
    LET height == chain_height - 1
        start_version == IF height = 0 THEN original_version ELSE hf_versions[height]
        window == VotesOf(WindowStart(height), height)
        counts == [v \in Votes |-> Occurrences(v, window)]
    IN  /\ rescan = Idle
        /\ versions' = window
        /\ last_versions' = counts
        /\ \E low, voted \in ForkIndices :
              /\ low <= current_fork_index
              /\ low = 1 \/ Forks[low].version <= start_version
              /\ \A n \in ForkIndices : (low < n /\ n <= current_fork_index) => Forks[n].version > start_version
              /\ get_voted_fork_index(voted, height + 1, counts, low)
              /\ current_fork_index' = IF voted > low THEN voted ELSE low
        /\ rescan' = NextRescan(height)
        /\ UNCHANGED <<blocks, hf_versions>>

\* One round of the loop of reorganize_from_block_height, which ignores what
\* add() returns.
ReorganizeAdd ==
    /\ rescan # Idle
    /\ \/ /\ do_check(BlockAt(rescan).version, BlockAt(rescan).vote, current_fork_index)
          /\ Vote(rescan, BlockAt(rescan).vote)
       \/ /\ ~do_check(BlockAt(rescan).version, BlockAt(rescan).vote, current_fork_index)
          /\ UNCHANGED <<hf_versions, versions, last_versions, current_fork_index>>
    /\ rescan' = NextRescan(rescan)
    /\ UNCHANGED blocks

\* found is the first fork with the version of the top block, or the last fork.
LastFork(found) ==
    LET lastv == hf_versions[db_height - 1]
    IN  /\ found = Len(Forks) \/ Forks[found].version = lastv
        /\ \A n \in ForkIndices : n < found => Forks[n].version # lastv

\* Mutant: the rescan begins one block late.
RestartScansLess ==
    LET from == IF db_height > window_size THEN db_height - window_size + 1 ELSE 0
        window == VotesOf(from, db_height - 1)
        counts == [v \in Votes |-> Occurrences(v, window)]
    IN  /\ rescan = Idle
        /\ db_height > 0
        /\ versions' = window
        /\ last_versions' = counts
        /\ \E found, voted \in ForkIndices :
              /\ LastFork(found)
              /\ get_voted_fork_index(voted, db_height, counts, found)
              /\ current_fork_index' = IF voted > found THEN voted ELSE found
        /\ UNCHANGED <<blocks, hf_versions, rescan>>

\* A restart: init() forgets the cache and rescans the last blocks.
Restart ==
    LET from == IF db_height > window_size THEN db_height - window_size ELSE 0
        window == VotesOf(from, db_height - 1)
        counts == [v \in Votes |-> Occurrences(v, window)]
    IN  /\ rescan = Idle
        /\ db_height > 0
        /\ versions' = window
        /\ last_versions' = counts
        /\ \E found, voted \in ForkIndices :
              /\ LastFork(found)
              /\ get_voted_fork_index(voted, db_height, counts, found)
              /\ current_fork_index' = IF voted > found THEN voted ELSE found
        /\ UNCHANGED <<blocks, hf_versions, rescan>>

NextWithoutPops ==
    \/ \E version \in ForkVersions, minor \in Minors : Add(version, get_block_vote(minor))
    \/ \E chain_height \in 1 .. db_height : Reorganize(chain_height)
    \/ ReorganizeAdd
    \/ Restart

Next == NextWithoutPops \/ OnBlockPopped

Spec == Init /\ [][Next]_vars

SpecWithoutPops == Init /\ [][NextWithoutPops]_vars

-----------------------------------------------------------------------------
\* Types.  The index points into the table, and the loop of
\* reorganize_from_block_height reads only heights the chain has.
TypeOK ==
    /\ blocks \in Seq([version : Nat, vote : Nat])
    /\ db_height <= MAX_HEIGHT
    /\ hf_versions \in [0 .. MAX_HEIGHT -> Nat]
    /\ current_fork_index \in ForkIndices
    /\ rescan = Idle \/ rescan \in 1 .. (db_height - 1)

\* No fork of the table waits for votes, as on every LODE network.
NoVoting == \A n \in ForkIndices : Forks[n].threshold = 0

\* Without voting, the version the next block must have depends on its height
\* alone: after any history of blocks, pops, reorganizations and restarts the
\* cached index is the one the schedule gives, so check(), check_for_height()
\* and get_ideal_version(), which the callers use side by side, agree.
VersionFollowsSchedule == rescan = Idle => IsScheduled(current_fork_index, db_height)

\* last_versions counts the window, which holds no more than window_size votes
\* and never runs empty under a block: the assertion in add() and the back() of
\* on_block_popped are safe.
CountsMatchWindow ==
    /\ \A v \in Votes : last_versions[v] = Occurrences(v, versions)
    /\ Len(versions) <= window_size
    /\ db_height > 0 => Len(versions) > 0

\* The comment on the member versions, "rolling window of the last N blocks'
\* versions": the window is the votes of the last blocks of the chain.
WindowHoldsLastBlocks ==
    LET n == Min({window_size, db_height})
    IN  rescan = Idle => versions = VotesOf(db_height - n, db_height - 1)

\* The cache is only a cache: as long as no block was popped, the rescan of a
\* restart recomputes exactly what add() and reorganizations had built up block
\* by block, also when the forks wait for votes.
RescanChangesNothing ==
    [][Restart => UNCHANGED <<versions, last_versions, current_fork_index>>]_vars
=============================================================================
