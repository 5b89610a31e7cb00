---------------------------- MODULE Checkpoints -----------------------------
(***************************************************************************)
(* Checkpoints that arrive while the daemon runs, from checkpoints.json or *)
(* by DNS, and how update_checkpoints enforces them on blocks the chain    *)
(* already has.  Two threads: one adds blocks, in the batch of the         *)
(* database that prepare_handle_incoming_blocks opens and                  *)
(* cleanup_handle_incoming_blocks commits; the other updates the           *)
(* checkpoints.  check_against_checkpoints holds the lock of the chain     *)
(* while it loops over the points, lowest first, one step for each.  What  *)
(* a batch has written only its own thread sees before the commit.         *)
(***************************************************************************)
EXTENDS Integers, Sequences, FiniteSets, FiniteSetsExt

CONSTANTS
    Hashes,                     \* block hashes
    Heights,                    \* heights a loaded checkpoint may have
    Compiled,                   \* the points of init_default_checkpoints
    m_enforce_dns_checkpoints,  \* --enforce-dns-checkpointing
    U64,                        \* 2^64, scaled down
    MAX_LOAD,                   \* bound on the points one source brings at a time
    MAX_HEIGHT                  \* bound on the height of the chain

PointTables == UNION {[H -> Hashes] : H \in SUBSET Heights}

ASSUME CheckpointsAssumption ==
    /\ Heights \subseteq 0 .. U64 - 1
    /\ Compiled \in PointTables /\ 0 \notin DOMAIN Compiled
    /\ m_enforce_dns_checkpoints \in BOOLEAN
    /\ MAX_LOAD \in Nat /\ MAX_HEIGHT \in Nat \ {0} /\ U64 \in Nat /\ U64 > MAX_HEIGHT + 2

VARIABLES
    db,         \* the committed chain: the hashes from height 0 on
    writer,     \* the thread whose batch is open
    written,    \* the chain as that thread sees it
    m_points,   \* the checkpoints: heights to hashes
    m_checkpoints_updating,
    phase,      \* where the thread that updates the checkpoints is
    todo,       \* the points its loop has still to look at
    blockchain_height  \* the height of the chain it read before the loop

vars == <<db, writer, written, m_points, m_checkpoints_updating, phase, todo,
          blockchain_height>>

blockVars == <<db, writer, written>>
updateVars == <<m_points, m_checkpoints_updating, phase, todo, blockchain_height>>

\* What checkpoints.json or the DNS records hold at a time.
Sources == {new \in PointTables : Cardinality(DOMAIN new) <= MAX_LOAD}

\* The chain a thread reads: its own batch, or what is committed.
Seen(thread) == IF writer = thread THEN written ELSE db

HashAt(chain, height) == chain[height + 1]

\* check_block of checkpoints.cpp.
check_block(height, hash) == height \in DOMAIN m_points => m_points[height] = hash

\* The points a chain fails.
Failed(chain) == {h \in DOMAIN m_points : h < Len(chain) /\ ~check_block(h, HashAt(chain, h))}

-----------------------------------------------------------------------------
\* The chain in the database may be that of an earlier release, with other points.
Init ==
    /\ db \in UNION {[1 .. n -> Hashes] : n \in 1 .. MAX_HEIGHT}
    /\ writer = "none" /\ written = db
    /\ m_points = Compiled
    /\ m_checkpoints_updating = FALSE
    /\ phase = "idle" /\ todo = {} /\ blockchain_height = 0

\* batch_start fails as long as any batch is open, and then this thread sleeps
\* and tries again.
prepare_handle_incoming_blocks ==
    /\ writer = "none" /\ phase # "check"
    /\ writer' = "blocks" /\ written' = db
    /\ UNCHANGED <<db>> /\ UNCHANGED updateVars

\* The part of handle_block_to_main_chain that concerns checkpoints.
AddBlock(hash) ==
    /\ writer = "blocks" /\ phase # "check"
    /\ Len(written) < MAX_HEIGHT
    /\ check_block(Len(written), hash)
    /\ written' = Append(written, hash)
    /\ UNCHANGED <<db, writer>> /\ UNCHANGED updateVars

\* The batch is committed, or given up when adding a block threw.
cleanup_handle_incoming_blocks ==
    /\ writer = "blocks" /\ phase # "check"
    /\ writer' = "none"
    /\ db' \in {written, db} /\ written' = db'
    /\ UNCHANGED updateVars

-----------------------------------------------------------------------------
get_max_height == IF DOMAIN m_points = {} THEN 0 ELSE Max(DOMAIN m_points)

\* load_checkpoints_from_json skips the heights up to the highest it knows.
NewInJson(json) == {h \in DOMAIN json : h > get_max_height}

\* add_checkpoint for each of the heights.
WithPoints(points, new, heights) ==
    [h \in DOMAIN points \cup heights |-> IF h \in heights THEN new[h] ELSE points[h]]

\* Mutant: the hash of a height that is known is not compared.
ConflictsNowhere(points, new) == FALSE

\* add_checkpoint refuses another hash for a height it knows.
Conflicts(points, new) == \E h \in DOMAIN points \cap DOMAIN new : points[h] # new[h]

\* The points after a load: from JSON, and by DNS when those are enforced.  DNS
\* points that are not enforced are compared with the chain and logged only.
Loaded(json, dns) ==
    LET fromJson == WithPoints(m_points, json, NewInJson(json))
    IN  IF m_enforce_dns_checkpoints THEN WithPoints(fromJson, dns, DOMAIN dns) ELSE fromJson

Refused(json, dns) ==
    /\ m_enforce_dns_checkpoints
    /\ Conflicts(WithPoints(m_points, json, NewInJson(json)), dns)

\* core::update_checkpoints up to the enforcement.  It holds no lock.
update_checkpoints(json, dns) ==
    /\ phase = "idle" /\ ~m_checkpoints_updating
    /\ ~Refused(json, dns)
    /\ m_checkpoints_updating' = TRUE
    /\ m_points' = Loaded(json, dns)
    /\ phase' = "loaded"
    /\ UNCHANGED <<todo, blockchain_height>> /\ UNCHANGED blockVars

\* The daemon starts anew: an open batch is lost, the points are the compiled ones.
Reset ==
    /\ writer' = "none" /\ written' = db /\ db' = db
    /\ m_points' = Compiled
    /\ m_checkpoints_updating' = FALSE
    /\ phase' = "idle" /\ todo' = {} /\ blockchain_height' = 0

\* Conflicting points end the daemon (graceful_exit).
ExitOnConflict(json, dns) ==
    /\ phase = "idle" /\ ~m_checkpoints_updating
    /\ Refused(json, dns)
    /\ Reset

-----------------------------------------------------------------------------
\* check_against_checkpoints takes the lock and opens a batch, unless the other
\* thread has one open already.
StartCheck ==
    /\ phase = "loaded"
    /\ phase' = "check"
    /\ IF writer = "none"
       THEN writer' = "update" /\ written' = db
       ELSE UNCHANGED <<writer, written>>
    /\ blockchain_height' = Len(db)
    /\ todo' = DOMAIN m_points
    /\ UNCHANGED <<db, m_points, m_checkpoints_updating>>

\* An exception leaves check_against_checkpoints and update_checkpoints: the
\* lock goes, the batch and m_checkpoints_updating stay as they are.
Throw ==
    /\ phase' = "idle" /\ todo' = {}
    /\ UNCHANGED <<db, writer, m_points, m_checkpoints_updating, blockchain_height>>

\* Mutant: rolls back to the checkpoint's own height only.
rollback_height_short(height) == height + 1

\* pt.first - 2, in 64 bits without sign.
rollback_height(height) == (height - 2) % U64

NextPoint ==
    /\ todo' = todo \ {Min(todo)}
    /\ UNCHANGED <<db, writer, m_points, m_checkpoints_updating, phase, blockchain_height>>

\* The point is for a block the chain did not have when the loop began, or the
\* chain passes it.
PointPasses ==
    /\ phase = "check" /\ todo # {}
    /\ LET h == Min(todo) IN
       \/ h >= blockchain_height
       \/ h < Len(Seen("update")) /\ check_block(h, HashAt(Seen("update"), h))
    /\ NextPoint /\ UNCHANGED written

\* The chain was rolled back below the point: get_block_hash_from_height throws.
PointIsGone ==
    /\ phase = "check" /\ todo # {}
    /\ Min(todo) < blockchain_height /\ Min(todo) >= Len(Seen("update"))
    /\ Throw /\ UNCHANGED written

PointFails(h) ==
    /\ phase = "check" /\ todo # {} /\ h = Min(todo)
    /\ h < blockchain_height /\ h \in Failed(Seen("update"))

\* rollback_blockchain_switching pops blocks down to the height, and does nothing
\* for a height above the chain's.
RollBack ==
    \E h \in todo :
        /\ PointFails(h)
        /\ \/ rollback_height(h) > Len(Seen("update")) /\ UNCHANGED written
           \/ /\ rollback_height(h) \in 1 .. Len(Seen("update"))
              /\ writer = "update"
              /\ written' = SubSeq(written, 1, rollback_height(h))
        /\ NextPoint

\* pop_block_from_blockchain throws on the genesis block, and on a thread that is
\* not the one that opened the batch.
RollBackThrows ==
    \E h \in todo :
        /\ PointFails(h)
        /\ \/ /\ writer # "update" /\ rollback_height(h) <= Len(Seen("update"))
              /\ UNCHANGED written
           \/ /\ writer = "update" /\ rollback_height(h) = 0
              /\ written' = SubSeq(written, 1, 1)
        /\ Throw

\* The loop is over; batch_stop commits the batch if this thread opened it.
FinishCheck ==
    /\ phase = "check" /\ todo = {}
    /\ db' = Seen("update")
    /\ IF writer = "update"
       THEN writer' = "none" /\ UNCHANGED written
       ELSE UNCHANGED <<writer, written>>
    /\ phase' = "done"
    /\ UNCHANGED <<m_points, m_checkpoints_updating, todo, blockchain_height>>

\* core::update_checkpoints clears the flag.
FinishUpdate ==
    /\ phase = "done"
    /\ phase' = "idle" /\ m_checkpoints_updating' = FALSE
    /\ UNCHANGED <<m_points, todo, blockchain_height>> /\ UNCHANGED blockVars

Check == StartCheck \/ PointPasses \/ PointIsGone \/ RollBack \/ RollBackThrows \/ FinishCheck

Next ==
    \/ prepare_handle_incoming_blocks
    \/ \E hash \in Hashes : AddBlock(hash)
    \/ cleanup_handle_incoming_blocks
    \/ \E json, dns \in Sources : update_checkpoints(json, dns)
    \/ \E json, dns \in Sources : ExitOnConflict(json, dns)
    \/ Check
    \/ FinishUpdate
    \/ Reset

Spec == Init /\ [][Next]_vars

-----------------------------------------------------------------------------
\* A checkpoint keeps its hash as long as the daemon runs: add_checkpoint never
\* replaces one, in whatever order the file and the DNS answers bring them.
PointsKeepTheirHash ==
    [][\A h \in DOMAIN m_points \cap DOMAIN m_points' : m_points'[h] = m_points[h]]_vars

\* "If a block fails a checkpoint and enforce is enabled, the blockchain will be
\* rolled back to two blocks prior to that block" (blockchain.h): when
\* check_against_checkpoints has returned, no block that was committed when it began
\* fails a checkpoint, except one at height 0 or 1.  For those, and the main network
\* has a point at height 1, pt.first - 2 wraps around, and nothing is rolled back.
EnforcedWhenDone ==
    phase = "done" => \A h \in Failed(db) : h < 2 \/ h >= blockchain_height

\* What is committed is extended by the batch of new blocks, or cut two blocks
\* before a checkpoint it fails, and neither thread ever undoes what the other
\* committed.  The cut is committed only if that checkpoint is the highest the
\* chain reaches: with a higher one the loop throws.
CommittedHistory ==
    [][\/ Len(db') >= Len(db) /\ SubSeq(db', 1, Len(db)) = db
       \/ \E h \in Failed(db) :
            /\ db' = SubSeq(db, 1, h - 2)
            /\ \A p \in DOMAIN m_points : p > h => p >= Len(db)]_vars
=============================================================================
