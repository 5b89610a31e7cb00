---------------------------- MODULE TxPoolProofs ----------------------------
(***************************************************************************)
(* The indexes of the pool, the input cache and the cached block template  *)
(* agree with the pool and the chain, for any transactions, limits and     *)
(* number of blocks.  The invariant Inv says in addition what values the   *)
(* variables have, and speaks of a block that is being popped where the    *)
(* properties speak of any block whose transactions go back: those of a    *)
(* refused block go back while the cache is still in use.                  *)
(*                                                                         *)
(* The last part proves that the weight counter covers the pool's entries  *)
(* and that the state is typed.  All of it is without the exception path.  *)
(***************************************************************************)
EXTENDS TxPool, FiniteSetTheorems, WellFoundedInduction, TLAPS

Relays == {"none", "local", "forward", "stem", "fluff", "block"}

IsMeta(m) == "relay" \in DOMAIN m /\ m.relay \in Relays

IsPool(p) == DOMAIN p \subseteq Txs /\ \A t \in DOMAIN p : IsMeta(p[t])

IsChain(blocks) == blocks \in Seq([id : BlockIds, txs : Seq(Txs)])

IsBatch(b) ==
    /\ b = [open |-> b.open, failed |-> b.failed, handled |-> b.handled, chain |-> b.chain, pool |-> b.pool]
    /\ b.open \in BOOLEAN
    /\ IsPool(b.pool) /\ IsChain(b.chain)

Types ==
    /\ IsPool(pool) /\ IsChain(chain)
    /\ job \in [txs : Seq(Txs), popped : BOOLEAN]
    /\ IsBatch(batch)
    /\ job # NoJob => batch.open

Fresh == \A t \in DOMAIN cache : cache[t].ok = InputsOK(t)

\* What TemplateConnects says of the template, but for Mineable.
TemplateFits ==
    /\ template.txs \subseteq DOMAIN pool
    /\ \A t \in template.txs : InputsOK(t)
    /\ \A t, u \in template.txs : ~Conflict(t, u)

Inv ==
    /\ Types
    /\ IndexesMatchPool
    /\ OnlyBlockTxsConflict
    /\ TimedOutStaysOut
    /\ ~job.popped => Fresh
    /\ template.usable /\ ~job.popped => TemplateFits

\* Nobody may ask for a transaction not to be relayed.
NoneIsUnused ==
    /\ \A t \in DOMAIN pool : pool[t].relay # "none"
    /\ \A t \in DOMAIN batch.pool : batch.pool[t].relay # "none"

TemplateMineable == template.usable /\ ~job.popped => \A t \in template.txs : Mineable(t)

-----------------------------------------------------------------------------
(* The ranks of the relay methods.                                         *)

LEMMA RankOf == \A i \in 1 .. 6 : Rank(relay_method[i]) = i
<1>1. DOMAIN relay_method = 1 .. 6
  BY DEF relay_method
<1>2. \A i, j \in 1 .. 6 : relay_method[i] = relay_method[j] => i = j
  BY DEF relay_method
<1> QED
  BY <1>1, <1>2 DEF Rank

LEMMA Ranks ==
    /\ Rank("none") = 1 /\ Rank("local") = 2 /\ Rank("forward") = 3
    /\ Rank("stem") = 4 /\ Rank("fluff") = 5 /\ Rank("block") = 6
<1>1. /\ relay_method[1] = "none" /\ relay_method[2] = "local" /\ relay_method[3] = "forward"
      /\ relay_method[4] = "stem" /\ relay_method[5] = "fluff" /\ relay_method[6] = "block"
  BY DEF relay_method
<1> QED
  BY <1>1, RankOf

\* Nothing outranks a transaction kept for a block, and only such a one is level.
LEMMA BlockIsHighest ==
    \A m \in Relays : Rank(m) \in 1 .. 6 /\ (Rank(m) >= Rank("block") <=> m = "block")
BY Ranks DEF Relays

-----------------------------------------------------------------------------
(* What the changes of the pool do to it and to its indexes.               *)

Exact(p, s, order) ==
    /\ order = DOMAIN p
    /\ \A k \in KeyImages : s[k] = {t \in DOMAIN p : k \in ImagesOf(t)}

LEMMA ImagesType == \A t \in Txs : Images[t] \in Seq(KeyImages) /\ ImagesOf(t) \subseteq KeyImages
BY TxPoolAssumption DEF ImagesOf, Range

\* remove_transaction_keyimages finds all images of a transaction of the pool.
LEMMA FoundAll ==
    ASSUME NEW p, NEW s, NEW order, DOMAIN p \subseteq Txs, Exact(p, s, order),
           NEW t \in DOMAIN p
    PROVE  Found(s, t) = ImagesOf(t)
<1>1. Images[t] \in Seq(KeyImages)
  BY ImagesType
<1>2. \A n \in DOMAIN Images[t] : n \in Nat /\ \A j \in 1 .. n : j \in DOMAIN Images[t]
  BY <1>1
<1>3. \A n \in DOMAIN Images[t] : \A j \in 1 .. n : t \in s[Images[t][j]]
  <2> SUFFICES ASSUME NEW n \in DOMAIN Images[t], NEW j \in 1 .. n
               PROVE  t \in s[Images[t][j]]
    OBVIOUS
  <2>1. j \in DOMAIN Images[t] /\ Images[t][j] \in KeyImages
    BY <1>1, <1>2
  <2>2. Images[t][j] \in ImagesOf(t)
    BY <2>1 DEF ImagesOf, Range
  <2> QED
    BY <2>1, <2>2 DEF Exact
<1> QED
  BY <1>3 DEF Found, ImagesOf, Range

LEMMA RemovalIsExact ==
    ASSUME NEW p, NEW s, NEW order, DOMAIN p \subseteq Txs, Exact(p, s, order), NEW S
    PROVE  Exact(Without(p, S), remove_transaction_keyimages(s, S), order \ S)
<1>1. DOMAIN Without(p, S) = DOMAIN p \ S
  BY DEF Without
<1>2. ASSUME NEW k \in KeyImages
      PROVE  remove_transaction_keyimages(s, S)[k] = {t \in DOMAIN p \ S : k \in ImagesOf(t)}
  <2>1. s[k] = {t \in DOMAIN p : k \in ImagesOf(t)}
    BY DEF Exact
  <2>2. \A t \in DOMAIN p : Found(s, t) = ImagesOf(t)
    BY FoundAll
  <2>3. remove_transaction_keyimages(s, S)[k] = s[k] \ {t \in S : k \in Found(s, t)}
    BY DEF remove_transaction_keyimages
  <2> QED
    BY <2>1, <2>2, <2>3
<1> QED
  BY <1>1, <1>2 DEF Exact

LEMMA WithoutIsPool ==
    ASSUME NEW p, IsPool(p), NEW S
    PROVE  /\ IsPool(Without(p, S)) /\ DOMAIN Without(p, S) = DOMAIN p \ S
           /\ \A t \in DOMAIN p \ S : Without(p, S)[t] = p[t]
BY DEF IsPool, Without

\* take_tx removes the transactions from the pool and from its indexes.
LEMMA TakeOK ==
    ASSUME NEW S, IsPool(pool), IndexesMatchPool, Take(S)
    PROVE  /\ IsPool(pool)' /\ IndexesMatchPool' /\ template' = Stale
           /\ DOMAIN pool' = DOMAIN pool \ S
           /\ \A t \in DOMAIN pool' : pool'[t] = pool[t]
<1>1. Exact(pool, spent, sorted)
  BY DEF Exact, IndexesMatchPool
<1>2. Exact(Without(pool, S), remove_transaction_keyimages(spent, S), sorted \ S)
  BY <1>1, RemovalIsExact DEF IsPool
<1>3. /\ pool' = Without(pool, S) /\ sorted' = sorted \ S
      /\ spent' = remove_transaction_keyimages(spent, S) /\ template' = Stale
  BY DEF Take
<1>4. Exact(pool', spent', sorted')
  BY <1>2, <1>3
<1>5. IndexesMatchPool'
  BY <1>4 DEF Exact, IndexesMatchPool
<1>6. /\ IsPool(pool') /\ DOMAIN pool' = DOMAIN pool \ S
      /\ \A t \in DOMAIN pool \ S : pool'[t] = pool[t]
  BY <1>3, WithoutIsPool, Zenon
<1> QED
  BY <1>3, <1>5, <1>6

\* The end of add_tx keeps the indexes exact, and what is kept for a block.
LEMMA CountAndPruneOK ==
    ASSUME NEW t, NEW p, NEW s, NEW order, IsPool(p), Exact(p, s, order),
           CountAndPrune(t, p, s, order)
    PROVE  /\ IsPool(pool)' /\ IndexesMatchPool' /\ template' = Stale
           /\ DOMAIN pool' \subseteq DOMAIN p
           /\ \A u \in DOMAIN pool' : pool'[u] = p[u]
           /\ \A u \in DOMAIN p : p[u].relay = "block" => u \in DOMAIN pool'
<1> DEFINE pruned == Pruned(p, order, weight + Weight[t])
<1>1. /\ pool' = Without(p, pruned) /\ sorted' = order \ pruned
      /\ spent' = remove_transaction_keyimages(s, pruned) /\ template' = Stale
  BY DEF CountAndPrune
<1>2. \A u \in pruned : p[u].relay # "block"
  BY DEF Pruned
<1> HIDE DEF pruned
<1>3. Exact(Without(p, pruned), remove_transaction_keyimages(s, pruned), order \ pruned)
  BY RemovalIsExact DEF IsPool
<1>4. Exact(pool', spent', sorted')
  BY <1>1, <1>3
<1>5. IndexesMatchPool'
  BY <1>4 DEF Exact, IndexesMatchPool
<1>6. /\ IsPool(pool') /\ DOMAIN pool' = DOMAIN p \ pruned
      /\ \A u \in DOMAIN p \ pruned : pool'[u] = p[u]
  BY <1>1, WithoutIsPool, Zenon
<1> QED
  BY <1>1, <1>2, <1>5, <1>6

LEMMA InsertOK ==
    ASSUME NEW t \in Txs, NEW meta, IsMeta(meta), IsPool(pool), IndexesMatchPool, Insert(t, meta)
    PROVE  /\ IsPool(pool)' /\ IndexesMatchPool' /\ template' = Stale
           /\ DOMAIN pool' \subseteq DOMAIN pool \cup {t}
           /\ \A u \in DOMAIN pool' : pool'[u] = IF u = t THEN meta ELSE pool[u]
           /\ \A u \in DOMAIN pool : u # t /\ Kept(u) => u \in DOMAIN pool'
           /\ meta.relay = "block" => t \in DOMAIN pool'
<1> DEFINE p == With(pool, t, meta)
<1>1. /\ DOMAIN p = DOMAIN pool \cup {t}
      /\ \A u \in DOMAIN p : p[u] = IF u = t THEN meta ELSE pool[u]
  BY DEF With
<1> HIDE DEF p
<1>2. IsPool(p)
  BY <1>1 DEF IsPool
<1>3. ImagesOf(t) \subseteq KeyImages
  BY ImagesType
<1>4. \A k \in KeyImages : insert_key_images(t)[k] = {u \in DOMAIN p : k \in ImagesOf(u)}
  BY <1>1, <1>3 DEF insert_key_images, IndexesMatchPool
<1>5. Exact(p, insert_key_images(t), sorted \cup {t})
  BY <1>1, <1>4 DEF Exact, IndexesMatchPool
<1>6. CountAndPrune(t, p, insert_key_images(t), sorted \cup {t})
  BY DEF Insert, p
<1> QED
  BY <1>1, <1>2, <1>5, <1>6, CountAndPruneOK, Zenon DEF Kept

\* What add_tx does to the pool for transaction t: others may be pruned, unless
\* they are kept for a block, and t is never turned into less than that.
Adds(t, method) ==
    /\ IsPool(pool)' /\ IndexesMatchPool'
    /\ template' = Stale
    /\ DOMAIN pool' \subseteq DOMAIN pool \cup {t}
    /\ \A u \in DOMAIN pool' : u # t => pool'[u] = pool[u]
    /\ t \in DOMAIN pool' =>
          \/ pool'[t].relay \in {method, "fluff"}
          \/ t \in DOMAIN pool /\ pool'[t] = pool[t]
    /\ \A u \in DOMAIN pool : Kept(u) => u \in DOMAIN pool' /\ pool'[u].relay = "block"
    /\ method = "block" =>
          /\ t \in DOMAIN pool'
          /\ pool'[t].relay = "block" \/ (t \in DOMAIN pool /\ pool'[t] = pool[t])

LEMMA AddCheckedAdds ==
    ASSUME NEW t \in Txs, NEW method \in Relays, NEW used, IsPool(pool), IndexesMatchPool,
           AddChecked(t, method, used)
    PROVE  Adds(t, method)
<1> DEFINE relay == UpgradeTo(t, method)
           meta == [relay |-> relay, double_spend_seen |-> FALSE, used |-> used, failed |-> {}]
<1>1. relay \in Relays /\ relay \in {method, "fluff"} /\ (method = "block" => relay = "block")
  BY DEF UpgradeTo, Relays
<1>2. ASSUME t \in DOMAIN pool, Rank(pool[t].relay) >= Rank(relay)
      PROVE  Adds(t, method)
  <2>1. CountAndPrune(t, pool, spent, sorted)
    BY <1>2 DEF AddChecked
  <2>2. Exact(pool, spent, sorted)
    BY DEF Exact, IndexesMatchPool
  <2>3. pool[t].relay \in Relays
    BY <1>2 DEF IsPool, IsMeta
  <2>4. relay = "block" => pool[t].relay = "block"
    BY <1>2, <2>3, BlockIsHighest, Zenon
  <2> QED
    BY <1>1, <1>2, <2>1, <2>2, <2>4, CountAndPruneOK DEF Adds, Kept
<1>3. ASSUME ~(t \in DOMAIN pool /\ Rank(pool[t].relay) >= Rank(relay))
      PROVE  Adds(t, method)
  <2>1. Insert(t, meta)
    BY <1>3 DEF AddChecked
  <2>2. IsMeta(meta) /\ meta.relay = relay
    BY <1>1 DEF IsMeta
  <2>3. t \in DOMAIN pool => pool[t].relay # "block"
    <3> SUFFICES ASSUME t \in DOMAIN pool, pool[t].relay = "block"
                 PROVE  FALSE
      OBVIOUS
    <3>1. Rank(relay) \in 1 .. 6 /\ Rank("block") = 6
      BY <1>1, BlockIsHighest, Ranks, Zenon
    <3> QED
      BY <1>3, <3>1
  <2> HIDE DEF meta, relay
  <2>4. /\ IsPool(pool)' /\ IndexesMatchPool' /\ template' = Stale
        /\ DOMAIN pool' \subseteq DOMAIN pool \cup {t}
        /\ \A u \in DOMAIN pool' : pool'[u] = IF u = t THEN meta ELSE pool[u]
        /\ \A u \in DOMAIN pool : u # t /\ Kept(u) => u \in DOMAIN pool'
        /\ meta.relay = "block" => t \in DOMAIN pool'
    BY <2>1, <2>2, InsertOK
  <2> QED
    BY <1>1, <2>2, <2>3, <2>4, Zenon DEF Adds, Kept
<1> QED
  BY <1>2, <1>3

LEMMA AddForBlockAdds ==
    ASSUME NEW t \in Txs, IsPool(pool), IndexesMatchPool, add_tx_for_block(t)
    PROVE  Adds(t, "block") /\ cache' = cache
<1>1. CASE AddChecked(t, "block", MaxUsed(t))
  <2>1. "block" \in Relays
    BY DEF Relays
  <2> QED
    BY <1>1, <2>1, AddCheckedAdds DEF add_tx_for_block
<1>2. CASE t \notin DOMAIN pool /\ AddUnchecked(t)
  <2> DEFINE seen == have_tx_keyimges_as_spent(t)
             meta == [relay |-> "block", double_spend_seen |-> seen, used |-> -1, failed |-> {}]
  <2>1. Insert(t, meta)
    BY <1>2 DEF AddUnchecked
  <2> HIDE DEF seen
  <2>2. IsMeta(meta) /\ meta.relay = "block"
    BY DEF IsMeta, Relays
  <2> HIDE DEF meta
  <2>3. /\ IsPool(pool)' /\ IndexesMatchPool' /\ template' = Stale
        /\ DOMAIN pool' \subseteq DOMAIN pool \cup {t}
        /\ \A u \in DOMAIN pool' : pool'[u] = IF u = t THEN meta ELSE pool[u]
        /\ \A u \in DOMAIN pool : u # t /\ Kept(u) => u \in DOMAIN pool'
        /\ t \in DOMAIN pool'
    BY <2>1, <2>2, InsertOK, Zenon
  <2>4. Adds(t, "block")
    BY <1>2, <2>2, <2>3, Zenon DEF Adds, Kept
  <2> QED
    BY <2>4 DEF add_tx_for_block
<1>3. CASE t \in DOMAIN pool /\ template' = Stale /\ UNCHANGED <<pool, spent, sorted, weight>>
  <2>1. IsPool(pool)' /\ IndexesMatchPool'
    BY <1>3 DEF IndexesMatchPool
  <2> QED
    BY <1>3, <2>1 DEF Adds, Kept, add_tx_for_block
<1> QED
  BY <1>1, <1>2, <1>3 DEF add_tx_for_block

\* A transaction that the pool refuses to none of its key images has no rival there.
LEMMA NoRival ==
    ASSUME NEW t \in Txs, IsPool(pool), IndexesMatchPool, ~have_tx_keyimges_as_spent(t)
    PROVE  \A u \in DOMAIN pool : ~Conflict(t, u)
<1> SUFFICES ASSUME NEW u \in DOMAIN pool, Conflict(t, u)
             PROVE  FALSE
  OBVIOUS
<1>1. PICK k \in ImagesOf(t) : k \in ImagesOf(u) /\ t # u
  BY DEF Conflict
<1>2. k \in KeyImages
  BY ImagesType
<1>3. u \in spent[k]
  BY <1>1, <1>2 DEF IndexesMatchPool
<1>4. ~have_tx_keyimg_as_spent(k, t)
  BY DEF have_tx_keyimges_as_spent
<1> QED
  BY <1>1, <1>3, <1>4 DEF have_tx_keyimg_as_spent

\* Adding a transaction makes no conflict but with one kept for a block, and
\* brings nothing back that timed out.
LEMMA AddsKeeps ==
    ASSUME NEW t \in Txs, NEW method, Adds(t, method), Loadable(pool), TimedOutStaysOut,
           UNCHANGED timed_out,
           method = "block" \/ (t \notin timed_out /\ \A u \in DOMAIN pool : ~Conflict(t, u))
    PROVE  Loadable(pool)' /\ TimedOutStaysOut'
<1>0. \A x, y : Conflict(x, y) => x # y /\ Conflict(y, x)
  BY DEF Conflict
<1>1. ASSUME NEW x \in DOMAIN pool', NEW y \in DOMAIN pool', Conflict(x, y)
      PROVE  "block" \in {pool'[x].relay, pool'[y].relay}
  <2>1. CASE x # t /\ y # t
    BY <1>1, <2>1, Zenon DEF Adds, Loadable
  <2>2. ASSUME method # "block", x = t \/ y = t
        PROVE  FALSE
    BY <1>0, <1>1, <2>2, Zenon DEF Adds
  <2>3. CASE method = "block" /\ (pool'[t].relay = "block") /\ (x = t \/ y = t)
    BY <2>3
  <2>4. CASE method = "block" /\ t \in DOMAIN pool /\ pool'[t] = pool[t]
    <3>1. x \in DOMAIN pool /\ y \in DOMAIN pool /\ pool'[x] = pool[x] /\ pool'[y] = pool[y]
      BY <2>4 DEF Adds
    <3> QED
      BY <1>1, <3>1, Zenon DEF Loadable
  <2> QED
    BY <2>1, <2>2, <2>3, <2>4, Zenon DEF Adds
<1>2. Loadable(pool)'
  BY <1>1 DEF Loadable
<1>3. ASSUME NEW u \in timed_out, u \in DOMAIN pool'
      PROVE  pool'[u].relay = "block"
  <2>1. u \in DOMAIN pool => pool[u].relay = "block"
    BY DEF TimedOutStaysOut, Kept
  <2>2. CASE u \in DOMAIN pool
    BY <2>1, <2>2, Zenon DEF Adds, Kept
  <2>3. CASE u \notin DOMAIN pool
    <3>1. u = t
      BY <1>3, <2>3 DEF Adds
    <3> QED
      BY <2>3, <3>1 DEF Adds
  <2> QED
    BY <2>2, <2>3
<1> QED
  BY <1>2, <1>3 DEF TimedOutStaysOut, Kept

-----------------------------------------------------------------------------
(* The invariant.                                                          *)

LEMMA InitInv == Init => Inv
<1> SUFFICES ASSUME Init
             PROVE  Inv
  OBVIOUS
<1>1. DOMAIN pool = {} /\ DOMAIN cache = {} /\ DOMAIN NoBatch.pool = {}
  BY DEF Init, NoBatch
<1>2. Types
  <2>1. IsPool(pool) /\ IsChain(chain) /\ IsChain(<< >>) /\ job = NoJob
    BY <1>1 DEF Init, IsPool, IsChain
  <2>2. NoJob \in [txs : Seq(Txs), popped : BOOLEAN]
    BY DEF NoJob
  <2>3. IsPool(NoBatch.pool)
    BY <1>1 DEF IsPool
  <2>4. IsBatch(NoBatch)
    BY <2>1, <2>3 DEF IsBatch, NoBatch
  <2>5. batch = NoBatch
    BY DEF Init
  <2> QED
    BY <2>1, <2>2, <2>4, <2>5 DEF Types
<1>3. IndexesMatchPool
  BY <1>1 DEF Init, IndexesMatchPool
<1>4. OnlyBlockTxsConflict
  BY <1>1 DEF Init, OnlyBlockTxsConflict, Loadable, NoBatch
<1>5. TimedOutStaysOut
  BY <1>1 DEF TimedOutStaysOut
<1>6. Fresh
  BY <1>1 DEF Fresh
<1>7. ~template.usable
  BY DEF Init, Stale
<1> QED
  BY <1>2, <1>3, <1>4, <1>5, <1>6, <1>7 DEF Inv

LEMMA InputsFrame ==
    ASSUME chain' = chain
    PROVE  \A t : InputsOK(t)' = InputsOK(t)
BY DEF InputsOK

LEMMA StaleIsUnusable == Stale.usable = FALSE
BY DEF Stale

LEMMA NoJobIsNotPopped == NoJob.popped = FALSE /\ NoJob \in [txs : Seq(Txs), popped : BOOLEAN]
BY DEF NoJob

\* The cache stays right when results are added for the chain as it is.
LEMMA CheckedIsFresh ==
    ASSUME Fresh
    PROVE  \A t : Checked(t).ok = InputsOK(t)
BY DEF Fresh, Checked

LEMMA AddNewTxInv ==
    ASSUME Inv, NEW t \in Txs, NEW method \in Methods, add_new_tx(t, method)
    PROVE  Inv'
<1> USE DEF Inv
<1>1. job = NoJob /\ UNCHANGED <<chain, timed_out, job, batch>>
  BY Zenon DEF add_new_tx
<1>2. IsPool(pool) /\ Fresh /\ method \in Relays
  BY <1>1, NoJobIsNotPopped, TxPoolAssumption, Zenon DEF Types, Relays
<1>3. ASSUME IsPool(pool)', IndexesMatchPool', Loadable(pool)', TimedOutStaysOut', Fresh',
             (template.usable => TemplateFits)'
      PROVE  Inv'
  <2>1. Types'
    BY <1>1, <1>3 DEF Types
  <2>2. OnlyBlockTxsConflict'
    BY <1>1, <1>3 DEF OnlyBlockTxsConflict
  <2> QED
    BY <1>3, <2>1, <2>2, Zenon
<1>4. Loadable(pool)
  BY Zenon DEF OnlyBlockTxsConflict
<1>5. CASE method = "block"
  <2>1. add_tx_for_block(t)
    BY <1>5 DEF add_new_tx
  <2>2. Adds(t, "block") /\ cache' = cache
    BY <1>2, <2>1, AddForBlockAdds, Zenon
  <2>3. Loadable(pool)' /\ TimedOutStaysOut'
    BY <1>1, <1>4, <2>2, AddsKeeps, Zenon
  <2>4. Fresh'
    BY <1>1, <1>2, <2>2, InputsFrame, Zenon DEF Fresh
  <2>5. ~(template.usable)'
    BY <2>2, StaleIsUnusable, Zenon DEF Adds
  <2> QED
    BY <1>3, <2>2, <2>3, <2>4, <2>5, Zenon DEF Adds
<1>6. CASE method # "block"
  <2>1. add_tx_for_relay(t, method)
    BY <1>6 DEF add_new_tx
  <2>2. ASSUME Refused, Fresh'
        PROVE  Inv'
    <3>1. UNCHANGED <<pool, spent, sorted, template>>
      BY <2>2, Zenon DEF Refused
    <3>2. IsPool(pool)' /\ IndexesMatchPool' /\ Loadable(pool)'
      BY <1>2, <1>4, <3>1, Zenon DEF IndexesMatchPool, Loadable
    <3>3. TimedOutStaysOut'
      BY <1>1, <3>1, Zenon DEF TimedOutStaysOut, Kept
    <3>4. (template.usable => TemplateFits)'
      BY <1>1, <3>1, NoJobIsNotPopped, InputsFrame, Zenon DEF TemplateFits
    <3> QED
      BY <1>3, <2>2, <3>2, <3>3, <3>4, Zenon
  <2>3. CASE Refused /\ UNCHANGED cache
    <3>1. Fresh'
      BY <1>1, <1>2, <2>3, InputsFrame, Zenon DEF Fresh
    <3> QED
      BY <2>2, <2>3, <3>1, Zenon
  <2>4. CASE MarkDoubleSpend(t) /\ UNCHANGED cache
    <3>1. /\ DOMAIN pool' = DOMAIN pool /\ UNCHANGED <<spent, sorted>>
          /\ template' = template \/ template' = Stale
      BY <2>4 DEF MarkDoubleSpend
    <3>2. \A u \in DOMAIN pool : pool'[u].relay = pool[u].relay /\ IsMeta(pool'[u])
      <4> SUFFICES ASSUME NEW u \in DOMAIN pool
                   PROVE  pool'[u].relay = pool[u].relay /\ IsMeta(pool'[u])
        OBVIOUS
      <4>1. pool'[u] = pool[u] \/ pool'[u] = [pool[u] EXCEPT !.double_spend_seen = TRUE]
        BY <2>4 DEF MarkDoubleSpend
      <4>2. IsMeta(pool[u])
        BY <1>2, Zenon DEF IsPool
      <4> QED
        BY <4>1, <4>2 DEF IsMeta
    <3>3. IsPool(pool)' /\ IndexesMatchPool' /\ Loadable(pool)'
      BY <1>2, <1>4, <3>1, <3>2, Zenon DEF IsPool, IndexesMatchPool, Loadable
    <3>4. TimedOutStaysOut'
      BY <1>1, <3>1, <3>2, Zenon DEF TimedOutStaysOut, Kept
    <3>5. Fresh'
      BY <1>1, <1>2, <2>4, InputsFrame, Zenon DEF Fresh
    <3>6. (template.usable => TemplateFits)'
      BY <1>1, <3>1, NoJobIsNotPopped, StaleIsUnusable, InputsFrame, Zenon DEF TemplateFits
    <3> QED
      BY <1>3, <3>3, <3>4, <3>5, <3>6, Zenon
  <2>5. ASSUME t \notin timed_out, ~have_tx_keyimges_as_spent(t),
               cache' = With(cache, t, Checked(t)),
               IF Checked(t).ok THEN AddChecked(t, method, Checked(t).used) ELSE Refused
        PROVE  Inv'
    <3>1. Fresh'
      BY <1>1, <1>2, <2>5, CheckedIsFresh, InputsFrame, Zenon DEF Fresh, With
    <3>2. CASE Refused
      BY <2>2, <3>1, <3>2, Zenon
    <3>3. CASE AddChecked(t, method, Checked(t).used)
      <4>1. Adds(t, method)
        BY <1>2, <3>3, AddCheckedAdds, Zenon
      <4>2. \A u \in DOMAIN pool : ~Conflict(t, u)
        BY <1>2, <2>5, NoRival, Zenon
      <4>3. Loadable(pool)' /\ TimedOutStaysOut'
        BY <1>1, <1>4, <2>5, <4>1, <4>2, AddsKeeps, Zenon
      <4>4. ~(template.usable)'
        BY <4>1, StaleIsUnusable DEF Adds
      <4> QED
        BY <1>3, <3>1, <4>1, <4>3, <4>4, Zenon DEF Adds
    <3> QED
      BY <2>5, <3>2, <3>3, Zenon
  <2> QED
    BY <2>1, <2>3, <2>4, <2>5, Zenon DEF add_tx_for_relay
<1> QED
  BY <1>5, <1>6

LEMMA SetRelayedInv ==
    ASSUME Inv, NEW t \in Txs, NEW method \in {"local", "forward", "stem", "fluff"},
           set_relayed(t, method)
    PROVE  Inv'
<1> USE DEF Inv
<1>1. /\ t \in DOMAIN pool /\ UNCHANGED <<chain, spent, timed_out, cache, template, job, batch>>
      /\ pool' = [pool EXCEPT ![t].relay = method]
      /\ Rank(pool[t].relay) < Rank(method)
  BY DEF set_relayed
<1>2. IsPool(pool) /\ method \in Relays
  BY DEF Types, Relays
<1>3. pool[t].relay # "block"
  <2>1. Rank(method) \in 1 .. 6 /\ Rank("block") = 6
    BY <1>2, BlockIsHighest, Ranks
  <2> QED
    BY <1>1, <2>1
<1>4. DOMAIN pool' = DOMAIN pool /\ \A u \in DOMAIN pool : u # t => pool'[u] = pool[u]
  BY <1>1
<1>5. IsMeta(pool'[t])
  BY <1>1, <1>2 DEF IsPool, IsMeta
<1>6. IsPool(pool')
  BY <1>2, <1>4, <1>5 DEF IsPool
<1>7. Types'
  BY <1>1, <1>6 DEF Types
<1>8. sorted' = sorted
  BY <1>1, Zenon DEF set_relayed, IndexesMatchPool
<1>9. IndexesMatchPool'
  BY <1>1, <1>4, <1>8, Zenon DEF IndexesMatchPool
<1>10. \A u \in DOMAIN pool : pool[u].relay = "block" => pool'[u].relay = "block"
  BY <1>3, <1>4
<1>11. OnlyBlockTxsConflict'
  BY <1>1, <1>4, <1>10 DEF OnlyBlockTxsConflict, Loadable
<1>12. TimedOutStaysOut'
  BY <1>1, <1>4, <1>10 DEF TimedOutStaysOut, Kept
<1>13. (~job.popped => Fresh)'
  BY <1>1, InputsFrame DEF Fresh
<1>14. (template.usable /\ ~job.popped => TemplateFits)'
  BY <1>1, <1>4, InputsFrame, Zenon DEF TemplateFits
<1> QED
  BY <1>7, <1>9, <1>11, <1>12, <1>13, <1>14, Zenon

\* Transactions are taken and the template with them, the chain stays.
LEMMA TakeInv ==
    ASSUME Inv, NEW S, Take(S)
    PROVE  /\ IsPool(pool)' /\ IndexesMatchPool' /\ Loadable(pool)' /\ ~(template.usable)'
           /\ timed_out' \subseteq timed_out \cup S => TimedOutStaysOut'
<1> USE DEF Inv
<1>1. IsPool(pool) /\ Loadable(pool)
  BY DEF Types, OnlyBlockTxsConflict
<1>2. /\ IsPool(pool)' /\ IndexesMatchPool' /\ template' = Stale
      /\ DOMAIN pool' = DOMAIN pool \ S
      /\ \A t \in DOMAIN pool' : pool'[t] = pool[t]
  BY <1>1, TakeOK, Zenon
<1>3. Loadable(pool)'
  BY <1>1, <1>2 DEF Loadable
<1>4. timed_out' \subseteq timed_out \cup S => TimedOutStaysOut'
  BY <1>2 DEF TimedOutStaysOut, Kept
<1> QED
  BY <1>2, <1>3, <1>4, StaleIsUnusable, Zenon

LEMMA RemoveInv ==
    ASSUME Inv, NEW S, Take(S), timed_out' \subseteq timed_out \cup S,
           UNCHANGED <<chain, cache, job, batch>>
    PROVE  Inv'
<1> USE DEF Inv
<1>1. IsPool(pool)' /\ IndexesMatchPool' /\ Loadable(pool)' /\ ~(template.usable)' /\ TimedOutStaysOut'
  BY TakeInv
<1>2. Types'
  BY <1>1 DEF Types
<1>3. OnlyBlockTxsConflict'
  BY <1>1 DEF OnlyBlockTxsConflict
<1>4. (~job.popped => Fresh)'
  BY InputsFrame DEF Fresh
<1> QED
  BY <1>1, <1>2, <1>3, <1>4

LEMMA HandledExcept ==
    ASSUME NEW o, NEW f, NEW h, NEW n, NEW c, NEW p
    PROVE  [[open |-> o, failed |-> f, handled |-> h, chain |-> c, pool |-> p] EXCEPT !.handled = n]
           = [open |-> o, failed |-> f, handled |-> n, chain |-> c, pool |-> p]
OBVIOUS

LEMMA BatchHandled ==
    ASSUME Types, HandleInBatch
    PROVE  /\ IsBatch(batch)' /\ (batch.open)' = TRUE /\ batch.open
           /\ (batch.pool)' = batch.pool /\ job = NoJob
<1> DEFINE o == batch.open  f == batch.failed  h == batch.handled  c == batch.chain  p == batch.pool
           n == h + 1
<1>1. batch = [open |-> o, failed |-> f, handled |-> h, chain |-> c, pool |-> p]
  BY DEF Types, IsBatch
<1>2. batch' = [batch EXCEPT !.handled = n]
  BY DEF HandleInBatch
<1>3. o = TRUE /\ job = NoJob
  BY DEF HandleInBatch, Types, IsBatch
<1>4. IsPool(p) /\ IsChain(c)
  BY DEF Types, IsBatch
<1>5. batch.open = o /\ batch.pool = p
  OBVIOUS
<1> HIDE DEF o, f, h, c, p, n
<1>6. batch' = [open |-> o, failed |-> f, handled |-> n, chain |-> c, pool |-> p]
  BY <1>1, <1>2, HandledExcept, Zenon
<1>7. (batch.open)' = o /\ (batch.pool)' = p
  BY <1>6
<1>8. IsBatch(batch)'
  BY <1>3, <1>4, <1>6 DEF IsBatch
<1> QED
  BY <1>3, <1>5, <1>7, <1>8, Zenon

LEMMA BlockTxsType == IsPool(pool) => \A txs \in BlockTxs : txs \in Seq(Txs) /\ Range(txs) \subseteq DOMAIN pool
<1> SUFFICES ASSUME IsPool(pool), NEW txs \in BlockTxs
             PROVE  txs \in Seq(Txs) /\ Range(txs) \subseteq DOMAIN pool
  OBVIOUS
<1>1. PICK n \in BlockSizes : txs \in [1 .. n -> DOMAIN pool]
  BY DEF BlockTxs
<1>2. n \in Nat
  BY TxPoolAssumption
<1>3. txs \in Seq(DOMAIN pool)
  BY <1>1, <1>2
<1> QED
  BY <1>1, <1>2, <1>3 DEF IsPool, Range

LEMMA AddBlockInv ==
    ASSUME Inv, NEW id \in BlockIds, NEW txs \in BlockTxs, AddBlock(id, txs)
    PROVE  Inv'
<1> USE DEF Inv
<1>1. /\ HandleInBatch /\ Take(Range(txs)) /\ UNCHANGED <<timed_out, job>>
      /\ chain' = Append(chain, [id |-> id, txs |-> txs]) /\ cache' = << >>
  BY DEF AddBlock, ClearedCache
<1>2. IsBatch(batch)' /\ (batch.open)' = TRUE /\ batch.open /\ (batch.pool)' = batch.pool /\ job = NoJob
  BY <1>1, BatchHandled, Zenon
<1>3. IsPool(pool)' /\ IndexesMatchPool' /\ Loadable(pool)' /\ ~(template.usable)' /\ TimedOutStaysOut'
  BY <1>1, TakeInv, Zenon
<1>4. IsChain(chain)'
  <2>1. [id |-> id, txs |-> txs] \in [id : BlockIds, txs : Seq(Txs)]
    BY BlockTxsType DEF Types
  <2>2. chain \in Seq([id : BlockIds, txs : Seq(Txs)])
    BY Zenon DEF Types, IsChain
  <2> QED
    BY <1>1, <2>1, <2>2 DEF IsChain
<1>5. Types'
  BY <1>1, <1>2, <1>3, <1>4, Zenon DEF Types
<1>6. OnlyBlockTxsConflict'
  BY <1>2, <1>3, Zenon DEF OnlyBlockTxsConflict
<1>7. Fresh'
  BY <1>1 DEF Fresh
<1> QED
  BY <1>3, <1>5, <1>6, <1>7, Zenon

LEMMA RefuseBlockInv ==
    ASSUME Inv, NEW txs \in BlockTxs, RefuseBlock(txs)
    PROVE  Inv'
<1> USE DEF Inv
<1>1. /\ HandleInBatch /\ Take(Range(txs)) /\ UNCHANGED <<chain, timed_out, cache>>
      /\ job' = [txs |-> txs, popped |-> FALSE]
  BY DEF RefuseBlock
<1>2. IsBatch(batch)' /\ (batch.open)' = TRUE /\ batch.open /\ (batch.pool)' = batch.pool /\ job = NoJob
  BY <1>1, BatchHandled, Zenon
<1>3. IsPool(pool)' /\ IndexesMatchPool' /\ Loadable(pool)' /\ ~(template.usable)' /\ TimedOutStaysOut'
  BY <1>1, TakeInv, Zenon
<1>4. job' \in [txs : Seq(Txs), popped : BOOLEAN]
  BY <1>1, BlockTxsType, Zenon DEF Types
<1>5. Types'
  BY <1>1, <1>2, <1>3, <1>4, Zenon DEF Types
<1>6. OnlyBlockTxsConflict'
  BY <1>2, <1>3, Zenon DEF OnlyBlockTxsConflict
<1>7. Fresh'
  BY <1>1, <1>2, NoJobIsNotPopped, InputsFrame DEF Fresh
<1> QED
  BY <1>3, <1>5, <1>6, <1>7, Zenon

LEMMA FrontAndLast ==
    ASSUME NEW B, NEW s \in Seq(B), s # << >>
    PROVE  SubSeq(s, 1, Len(s) - 1) \in Seq(B) /\ s[Len(s)] \in B
<1>1. Len(s) \in Nat \ {0} /\ DOMAIN s = 1 .. Len(s)
  OBVIOUS
<1> QED
  BY <1>1

LEMMA PopBlockInv ==
    ASSUME Inv, PopBlock
    PROVE  Inv'
<1> USE DEF Inv
<1>1. /\ HandleInBatch /\ UNCHANGED <<pool, spent, sorted, weight, timed_out, cache, template>>
      /\ chain # << >> /\ chain' = SubSeq(chain, 1, Len(chain) - 1)
      /\ job' = [txs |-> chain[Len(chain)].txs, popped |-> TRUE]
  BY DEF PopBlock
<1>2. IsBatch(batch)' /\ (batch.open)' = TRUE /\ batch.open /\ (batch.pool)' = batch.pool /\ job = NoJob
  BY <1>1, BatchHandled, Zenon
<1>3. chain \in Seq([id : BlockIds, txs : Seq(Txs)])
  BY DEF Types, IsChain
<1>4. IsChain(chain)'
  BY <1>1, <1>3, FrontAndLast, Zenon DEF IsChain
<1>5. chain[Len(chain)] \in [id : BlockIds, txs : Seq(Txs)]
  BY <1>1, <1>3, FrontAndLast, Zenon
<1>6. job' \in [txs : Seq(Txs), popped : BOOLEAN] /\ (job.popped)' = TRUE
  BY <1>1, <1>5, Zenon
<1>7. Types'
  BY <1>1, <1>2, <1>4, <1>6, Zenon DEF Types
<1>8. IndexesMatchPool' /\ TimedOutStaysOut'
  BY <1>1, Zenon DEF IndexesMatchPool, TimedOutStaysOut, Kept
<1>9. OnlyBlockTxsConflict'
  BY <1>1, <1>2, Zenon DEF OnlyBlockTxsConflict, Loadable
<1> QED
  BY <1>6, <1>7, <1>8, <1>9, Zenon

LEMMA ReturnTxInv ==
    ASSUME Inv, ReturnTx
    PROVE  Inv'
<1> USE DEF Inv
<1>1. /\ job.txs # << >> /\ add_tx_for_block(Head(job.txs)) /\ UNCHANGED <<chain, timed_out, batch>>
      /\ job' = IF Len(job.txs) = 1 /\ ~job.popped THEN NoJob ELSE [job EXCEPT !.txs = Tail(@)]
  BY DEF ReturnTx
<1>2. job \in [txs : Seq(Txs), popped : BOOLEAN] /\ IsPool(pool) /\ Loadable(pool)
  BY DEF Types, OnlyBlockTxsConflict
<1>3. Head(job.txs) \in Txs /\ Tail(job.txs) \in Seq(Txs)
  BY <1>1, <1>2
<1>4. Adds(Head(job.txs), "block") /\ cache' = cache
  BY <1>1, <1>2, <1>3, AddForBlockAdds, Zenon
<1>5. Loadable(pool)' /\ TimedOutStaysOut'
  BY <1>1, <1>2, <1>3, <1>4, AddsKeeps, Zenon
<1>6. job' \in [txs : Seq(Txs), popped : BOOLEAN]
  BY <1>1, <1>2, <1>3, NoJobIsNotPopped, Zenon
<1>7. job # NoJob
  BY <1>1 DEF NoJob
<1>8. ~job'.popped => ~job.popped
  BY <1>1, <1>2, Zenon
<1>9. Types'
  BY <1>1, <1>4, <1>6, <1>7, Zenon DEF Types, Adds
<1>10. OnlyBlockTxsConflict'
  BY <1>1, <1>5 DEF OnlyBlockTxsConflict
<1>11. (~job.popped => Fresh)'
  BY <1>1, <1>4, <1>8, InputsFrame, Zenon DEF Fresh
<1>12. ~(template.usable)'
  BY <1>4, StaleIsUnusable, Zenon DEF Adds
<1> QED
  BY <1>4, <1>5, <1>9, <1>10, <1>11, <1>12, Zenon DEF Adds

LEMMA FinishPopInv ==
    ASSUME Inv, FinishPop
    PROVE  Inv'
<1> USE DEF Inv
<1>1. /\ cache' = << >> /\ template' = Stale /\ job' = NoJob
      /\ UNCHANGED <<chain, pool, spent, sorted, weight, timed_out, batch>>
  BY Zenon DEF FinishPop, ClearedCache
<1>2. Types'
  BY <1>1, NoJobIsNotPopped, Zenon DEF Types
<1>3. IndexesMatchPool' /\ TimedOutStaysOut'
  BY <1>1, Zenon DEF IndexesMatchPool, TimedOutStaysOut, Kept
<1>4. OnlyBlockTxsConflict'
  BY <1>1 DEF OnlyBlockTxsConflict, Loadable
<1>5. Fresh'
  BY <1>1 DEF Fresh
<1>6. ~(template.usable)'
  BY <1>1, StaleIsUnusable, Zenon
<1> QED
  BY <1>2, <1>3, <1>4, <1>5, <1>6, Zenon

LEMMA CreateTemplateInv ==
    ASSUME Inv, NEW wanted, create_block_template(wanted)
    PROVE  /\ Inv'
           /\ DOMAIN pool' = DOMAIN pool
           /\ \A t \in DOMAIN pool : pool'[t].relay = pool[t].relay
           /\ \A t \in template'.txs : t \in DOMAIN pool /\ Mineable(t)
<1> USE DEF Inv
<1> DEFINE checked == {t \in wanted \cap sorted : t \in DOMAIN pool /\ Mineable(t) /\ ~Skipped(t)}
           ready == {t \in checked : Checked(t).ok}
           Meta(t) == IF t \in ready THEN [pool[t] EXCEPT !.used = Checked(t).used]
                      ELSE IF t \in checked
                           THEN [pool[t] EXCEPT !.failed = {chain}, !.used = IF @ = -1 THEN -1 ELSE 0]
                           ELSE pool[t]
<1>1. /\ UNCHANGED <<chain, spent, sorted, timed_out, job, batch>> /\ ~batch.open
      /\ pool' = [t \in DOMAIN pool |-> Meta(t)]
      /\ cache' = [t \in DOMAIN cache \cup checked |-> Checked(t)]
  BY Zenon DEF create_block_template
<1>2. PICK txs \in SUBSET ready :
              /\ \A t \in ready : t \in txs <=> ~\E u \in txs : Fee[u] > Fee[t] /\ Conflict(t, u)
              /\ template' = [usable |-> TRUE, txs |-> txs]
  BY Zenon DEF create_block_template
<1>3. checked \subseteq DOMAIN pool /\ \A t \in checked : Mineable(t)
  BY Zenon
<1>4. job = NoJob /\ IsPool(pool) /\ Fresh
  BY <1>1, NoJobIsNotPopped, Zenon DEF Types
<1>5. \A t \in ready : InputsOK(t)
  BY <1>4, CheckedIsFresh
<1>6. \A t \in DOMAIN pool : IsMeta(Meta(t)) /\ Meta(t).relay = pool[t].relay
  <2> SUFFICES ASSUME NEW t \in DOMAIN pool
               PROVE  IsMeta(Meta(t)) /\ Meta(t).relay = pool[t].relay
    BY Zenon
  <2> DEFINE x == Checked(t).used
             top == {chain}
  <2> HIDE DEF ready, checked
  <2>1. \/ Meta(t) = pool[t]
        \/ Meta(t) = [pool[t] EXCEPT !.used = x]
        \/ Meta(t) = [pool[t] EXCEPT !.failed = top, !.used = IF @ = -1 THEN -1 ELSE 0]
    OBVIOUS
  <2>2. IsMeta(pool[t])
    BY <1>4 DEF IsPool
  <2> HIDE DEF x, top, Meta
  <2>3. ASSUME Meta(t) = [pool[t] EXCEPT !.used = x]
        PROVE  IsMeta(Meta(t)) /\ Meta(t).relay = pool[t].relay
    BY <2>2, <2>3 DEF IsMeta
  <2>4. ASSUME Meta(t) = [pool[t] EXCEPT !.failed = top, !.used = IF @ = -1 THEN -1 ELSE 0]
        PROVE  IsMeta(Meta(t)) /\ Meta(t).relay = pool[t].relay
    BY <2>2, <2>4, Zenon DEF IsMeta
  <2> QED
    BY <2>1, <2>2, <2>3, <2>4, Zenon
<1>7. ready \subseteq checked
  OBVIOUS
<1> HIDE DEF checked, ready, Meta
<1>8. DOMAIN pool' = DOMAIN pool /\ \A t \in DOMAIN pool : pool'[t] = Meta(t)
  BY <1>1
<1>9. IsPool(pool')
  BY <1>4, <1>6, <1>8, Zenon DEF IsPool
<1>10. Types'
  BY <1>1, <1>9, Zenon DEF Types
<1>11. IndexesMatchPool'
  BY <1>1, <1>8, Zenon DEF IndexesMatchPool
<1>12. \A t \in DOMAIN pool : pool'[t].relay = pool[t].relay
  BY <1>6, <1>8
<1>13. OnlyBlockTxsConflict' /\ TimedOutStaysOut'
  <2>1. OnlyBlockTxsConflict'
    BY <1>1, <1>8, <1>12 DEF OnlyBlockTxsConflict, Loadable, Kept
  <2>2. TimedOutStaysOut'
    BY <1>1, <1>8, <1>12, Zenon DEF TimedOutStaysOut, Loadable, Kept
  <2> QED
    BY <2>1, <2>2, Zenon
<1>14. Fresh'
  BY <1>1, <1>4, CheckedIsFresh, InputsFrame, Zenon DEF Fresh
<1>15. template'.txs = txs
  BY <1>2, Zenon
<1>16. ASSUME NEW t \in txs, NEW u \in txs, Conflict(t, u)
       PROVE  FALSE
  <2>1. t # u /\ Conflict(u, t) /\ t \in Txs /\ u \in Txs
    BY <1>3, <1>4, <1>7, <1>16, Zenon DEF Conflict, IsPool
  <2>2. Fee[t] \in Nat /\ Fee[u] \in Nat /\ Fee[t] # Fee[u]
    BY <2>1, TxPoolAssumption, Zenon DEF IsInjective
  <2>3. Fee[t] > Fee[u] \/ Fee[u] > Fee[t]
    BY <2>2
  <2> QED
    BY <1>2, <1>16, <2>1, <2>3, Zenon
<1>17. TemplateFits'
  BY <1>1, <1>2, <1>3, <1>5, <1>7, <1>8, <1>15, <1>16, InputsFrame, Zenon DEF TemplateFits
<1> QED
  BY <1>2, <1>3, <1>7, <1>8, <1>10, <1>11, <1>12, <1>13, <1>14, <1>15, <1>17, Zenon

LEMMA RestartInv ==
    ASSUME Inv, Restart
    PROVE  Inv'
<1> USE DEF Inv
<1> DEFINE p == IF batch.open THEN batch.pool ELSE pool
<1>1. /\ Loadable(p) /\ pool' = p
      /\ chain' = IF batch.open THEN batch.chain ELSE chain
      /\ spent' = [k \in KeyImages |-> {t \in DOMAIN p : k \in ImagesOf(t)}]
      /\ sorted' = DOMAIN p
      /\ timed_out' = {} /\ cache' = << >> /\ template' = Stale
      /\ job' = NoJob /\ batch' = NoBatch
  BY Zenon DEF Restart
<1>2. IsPool(p) /\ IsChain(chain)'
  BY <1>1, Zenon DEF Types, IsBatch
<1> HIDE DEF p
<1>3. IsBatch(NoBatch) /\ ~NoBatch.open
  <2>1. DOMAIN NoBatch.pool = {} /\ IsChain(<< >>)
    BY DEF NoBatch, IsChain
  <2>2. IsPool(NoBatch.pool)
    BY <2>1, Zenon DEF IsPool
  <2> QED
    BY <2>1, <2>2, Zenon DEF IsBatch, NoBatch
<1>4. Types'
  BY <1>1, <1>2, <1>3, NoJobIsNotPopped, Zenon DEF Types
<1>5. IndexesMatchPool'
  BY <1>1, Zenon DEF IndexesMatchPool
<1>6. OnlyBlockTxsConflict'
  BY <1>1, <1>3 DEF OnlyBlockTxsConflict, Loadable
<1>7. TimedOutStaysOut' /\ Fresh'
  BY <1>1 DEF TimedOutStaysOut, Fresh
<1>8. ~(template.usable)'
  BY <1>1, StaleIsUnusable
<1> QED
  BY <1>4, <1>5, <1>6, <1>7, <1>8, Zenon

\* Steps that begin or end a batch, and nothing else.
LEMMA BatchInv ==
    ASSUME Inv, job = NoJob,
           UNCHANGED <<chain, pool, spent, sorted, weight, timed_out, cache, template, job>>,
           IsBatch(batch)', (batch.open => Loadable(batch.pool))'
    PROVE  Inv'
<1> USE DEF Inv
<1>1. Types'
  BY Zenon DEF Types
<1>2. IndexesMatchPool' /\ TimedOutStaysOut'
  BY Zenon DEF IndexesMatchPool, TimedOutStaysOut, Kept
<1>3. OnlyBlockTxsConflict'
  BY DEF OnlyBlockTxsConflict, Loadable
<1>4. (~job.popped => Fresh)'
  BY InputsFrame, Zenon DEF Fresh
<1>5. (template.usable /\ ~job.popped => TemplateFits)'
  BY InputsFrame, Zenon DEF TemplateFits
<1> QED
  BY <1>1, <1>2, <1>3, <1>4, <1>5, Zenon

LEMMA PrepareInv ==
    ASSUME Inv, prepare_handle_incoming_blocks
    PROVE  Inv'
<1>1. IsPool(pool) /\ IsChain(chain) /\ Loadable(pool)
  BY Zenon DEF Inv, Types, OnlyBlockTxsConflict
<1>2. /\ job = NoJob /\ UNCHANGED <<chain, pool, spent, sorted, weight, timed_out, cache, template, job>>
      /\ batch' = [open |-> TRUE, failed |-> FALSE, handled |-> 0, chain |-> chain, pool |-> pool]
  BY Zenon DEF prepare_handle_incoming_blocks
<1>3. IsBatch(batch)'
  BY <1>1, <1>2, Zenon DEF IsBatch
<1>4. (batch.pool)' = pool
  BY <1>2, Zenon
<1>5. Loadable(batch.pool)'
  BY <1>1, <1>4, Zenon DEF Loadable
<1> QED
  BY <1>2, <1>3, <1>5, BatchInv, Zenon

LEMMA CommitInv ==
    ASSUME Inv, CommitBatch
    PROVE  Inv'
<1>1. /\ job = NoJob /\ UNCHANGED <<chain, pool, spent, sorted, weight, timed_out, cache, template, job>>
      /\ batch' = NoBatch
  BY Zenon DEF CommitBatch
<1>2. DOMAIN NoBatch.pool = {} /\ IsChain(<< >>) /\ ~NoBatch.open
  BY DEF NoBatch, IsChain
<1>3. IsPool(NoBatch.pool)
  BY <1>2, Zenon DEF IsPool
<1>4. IsBatch(NoBatch)
  BY <1>2, <1>3 DEF IsBatch, NoBatch
<1> QED
  BY <1>1, <1>2, <1>4, BatchInv, Zenon

LEMMA StutterInv ==
    ASSUME Inv, UNCHANGED vars
    PROVE  Inv'
<1> USE DEF Inv, vars
<1>1. Types'
  BY Zenon DEF Types
<1>2. IndexesMatchPool' /\ TimedOutStaysOut'
  BY Zenon DEF IndexesMatchPool, TimedOutStaysOut, Kept
<1>3. OnlyBlockTxsConflict'
  BY DEF OnlyBlockTxsConflict, Loadable
<1>4. (~job.popped => Fresh)'
  BY InputsFrame DEF Fresh
<1>5. (template.usable /\ ~job.popped => TemplateFits)'
  BY InputsFrame, Zenon DEF TemplateFits
<1> QED
  BY <1>1, <1>2, <1>3, <1>4, <1>5, Zenon

LEMMA NextInv == Inv /\ [Next]_vars => Inv'
<1> SUFFICES ASSUME Inv, [Next]_vars
             PROVE  Inv'
  OBVIOUS
<1>1. ASSUME NEW old \in SUBSET DOMAIN pool, remove_stuck_transactions(old)
      PROVE  Inv'
  BY <1>1, RemoveInv DEF remove_stuck_transactions
<1>2. ASSUME NEW t \in DOMAIN pool, flush_txes_from_pool(t)
      PROVE  Inv'
  BY <1>2, RemoveInv DEF flush_txes_from_pool
<1> QED
  BY <1>1, <1>2, AddNewTxInv, SetRelayedInv, PrepareInv, AddBlockInv, RefuseBlockInv, PopBlockInv,
     ReturnTxInv, FinishPopInv, CommitInv, CreateTemplateInv, RestartInv, StutterInv, Zenon DEF Next

LEMMA Invariance == Spec => []Inv
BY InitInv, NextInv, PTL DEF Spec

\* In every reachable state the spent key images and the order by fee are those
\* of the transactions in the pool's database: add_tx, prune, take_tx, the
\* return of popped and refused blocks and init leave no entry behind and
\* forget none, for any transactions with any key images.
THEOREM IndexesAreExact == Spec => []IndexesMatchPool
<1>1. Inv => IndexesMatchPool
  BY DEF Inv
<1> QED
  BY <1>1, Invariance, PTL

\* Of two transactions of the pool with a common key image one is kept for a
\* block (insert_key_images), also in the state a crash in a batch goes back to:
\* init can always load the pool it finds.
THEOREM PoolIsLoadable == Spec => []OnlyBlockTxsConflict
<1>1. Inv => OnlyBlockTxsConflict
  BY DEF Inv
<1> QED
  BY <1>1, Invariance, PTL

\* A transaction that timed out (remove_stuck_transactions) is in the pool again
\* only if it is kept for a block.
THEOREM TimedOutIsRefused == Spec => []TimedOutStaysOut
<1>1. Inv => TimedOutStaysOut
  BY Zenon DEF Inv
<1> QED
  BY <1>1, Invariance, PTL

\* Whenever no transactions are on their way back to the pool, m_input_cache
\* says of each transaction what check_tx_inputs would find on the chain.
THEOREM CacheNeverLies == Spec => []CacheIsFresh
<1>1. Inv => CacheIsFresh
  BY NoJobIsNotPopped DEF Inv, CacheIsFresh, Fresh
<1> QED
  BY <1>1, Invariance, PTL

-----------------------------------------------------------------------------
(* The cached block template.                                              *)

\* What TemplateConnects says, but for relay methods: whatever template is
\* handed out again, its transactions are in the pool, have right inputs on the
\* chain as it is and spend no key image twice.
THEOREM TemplateStaysValid ==
    Spec => [](template.usable /\ job = NoJob => TemplateFits)
<1>1. Inv => (template.usable /\ job = NoJob => TemplateFits)
  BY NoJobIsNotPopped DEF Inv
<1> QED
  BY <1>1, Invariance, PTL

MineInv == NoneIsUnused /\ TemplateMineable

LEMMA InitMine == Init => MineInv
<1> SUFFICES ASSUME Init
             PROVE  MineInv
  OBVIOUS
<1>1. DOMAIN pool = {} /\ DOMAIN batch.pool = {} /\ ~template.usable
  BY DEF Init, NoBatch, Stale
<1> QED
  BY <1>1, Zenon DEF MineInv, NoneIsUnused, TemplateMineable

\* The template goes, and no transaction comes in that is not relayed.
LEMMA MineIfStale ==
    ASSUME MineInv, template' = Stale,
           DOMAIN batch'.pool = {} \/ batch'.pool \in {batch.pool, pool},
           \A t \in DOMAIN pool' : \/ pool'[t].relay # "none"
                                   \/ t \in DOMAIN pool /\ pool'[t].relay = pool[t].relay
                                   \/ t \in DOMAIN batch.pool /\ pool'[t].relay = batch.pool[t].relay
    PROVE  MineInv'
<1>1. NoneIsUnused'
  BY Zenon DEF MineInv, NoneIsUnused
<1>2. TemplateMineable'
  BY StaleIsUnusable, Zenon DEF TemplateMineable
<1> QED
  BY <1>1, <1>2, Zenon DEF MineInv

\* The template stays or is made anew, and relay methods stay.
LEMMA MineIfSame ==
    ASSUME MineInv, DOMAIN pool' = DOMAIN pool, TemplateFits \/ ~template.usable,
           \A t \in DOMAIN pool : pool'[t].relay = pool[t].relay,
           DOMAIN batch'.pool = {} \/ batch'.pool \in {batch.pool, pool},
           template' = template \/ \A t \in template'.txs : t \in DOMAIN pool /\ Mineable(t),
           ~job.popped
    PROVE  MineInv'
<1>1. NoneIsUnused'
  BY DEF MineInv, NoneIsUnused
<1>2. ASSUME template'.usable, NEW t \in template'.txs
      PROVE  Mineable(t)'
  <2>1. t \in DOMAIN pool /\ Mineable(t)
    BY <1>2, Zenon DEF MineInv, TemplateMineable, TemplateFits
  <2> QED
    BY <2>1, Zenon DEF Mineable
<1>3. TemplateMineable'
  BY <1>2 DEF TemplateMineable
<1> QED
  BY <1>1, <1>3, Zenon DEF MineInv

LEMMA AddNewTxMine ==
    ASSUME Inv, MineInv, "none" \notin Methods,
           NEW t \in Txs, NEW method \in Methods, add_new_tx(t, method)
    PROVE  MineInv'
<1>1. job = NoJob /\ batch' = batch /\ method # "none"
  BY Zenon DEF add_new_tx
<1>2. IsPool(pool) /\ IndexesMatchPool /\ method \in Relays /\ ~job.popped
  BY <1>1, NoJobIsNotPopped, TxPoolAssumption, Zenon DEF Inv, Types, Relays
<1>3. TemplateFits \/ ~template.usable
  BY <1>2, Zenon DEF Inv
<1>4. ASSUME Adds(t, method)
      PROVE  MineInv'
  <2>1. \A u \in DOMAIN pool' : pool'[u].relay # "none" \/ (u \in DOMAIN pool /\ pool'[u].relay = pool[u].relay)
    BY <1>1, <1>4 DEF Adds
  <2> QED
    BY <1>1, <1>4, <2>1, MineIfStale, Zenon DEF Adds
<1>5. CASE method = "block"
  BY <1>2, <1>4, <1>5, AddForBlockAdds, Zenon DEF add_new_tx
<1>6. CASE method # "block"
  <2>1. CASE Refused
    BY <1>1, <1>2, <1>3, <2>1, MineIfSame, Zenon DEF Refused
  <2>2. CASE MarkDoubleSpend(t)
    <3>1. DOMAIN pool' = DOMAIN pool /\ (template' = template \/ template' = Stale)
      BY <2>2 DEF MarkDoubleSpend
    <3>2. \A u \in DOMAIN pool : pool'[u].relay = pool[u].relay
      <4> SUFFICES ASSUME NEW u \in DOMAIN pool
                   PROVE  pool'[u].relay = pool[u].relay
        OBVIOUS
      <4>1. pool'[u] = pool[u] \/ pool'[u] = [pool[u] EXCEPT !.double_spend_seen = TRUE]
        BY <2>2 DEF MarkDoubleSpend
      <4>2. IsMeta(pool[u])
        BY <1>2 DEF IsPool
      <4> QED
        BY <4>1, <4>2 DEF IsMeta
    <3>3. CASE template' = template
      BY <1>1, <1>2, <1>3, <3>1, <3>2, <3>3, MineIfSame, Zenon
    <3>4. CASE template' = Stale
      BY <1>1, <3>1, <3>2, <3>4, MineIfStale, Zenon
    <3> QED
      BY <3>1, <3>3, <3>4
  <2>3. ASSUME NEW used, AddChecked(t, method, used)
        PROVE  MineInv'
    BY <1>2, <1>4, <2>3, AddCheckedAdds, Zenon
  <2> QED
    BY <1>6, <2>1, <2>2, <2>3, Zenon DEF add_new_tx, add_tx_for_relay
<1> QED
  BY <1>5, <1>6

LEMMA SetRelayedMine ==
    ASSUME Inv, MineInv, NEW t \in Txs, NEW method \in {"local", "forward", "stem", "fluff"},
           set_relayed(t, method)
    PROVE  MineInv'
<1>1. /\ t \in DOMAIN pool /\ UNCHANGED <<template, job, batch>>
      /\ pool' = [pool EXCEPT ![t].relay = method]
      /\ Rank(pool[t].relay) < Rank(method)
  BY DEF set_relayed
<1>2. IsMeta(pool[t])
  BY <1>1 DEF Inv, Types, IsPool
<1>3. /\ DOMAIN pool' = DOMAIN pool /\ \A u \in DOMAIN pool : u # t => pool'[u] = pool[u]
      /\ pool'[t].relay = method
  BY <1>1, <1>2 DEF IsMeta
<1>4. pool[t].relay # "none" /\ pool[t].relay \in Relays
  BY <1>1, <1>2 DEF MineInv, NoneIsUnused, IsMeta
<1>5. NoneIsUnused'
  BY <1>1, <1>3 DEF MineInv, NoneIsUnused
<1>6. Mineable(t) => method = "fluff"
  BY <1>1, <1>4, Ranks DEF Mineable, IsLegacy, Relays
<1>7. ASSUME template.usable, ~job.popped, NEW u \in template.txs
      PROVE  Mineable(u)'
  <2>1. Mineable(u) /\ u \in DOMAIN pool
    BY <1>7 DEF Inv, MineInv, TemplateMineable, TemplateFits
  <2>2. CASE u # t
    BY <1>3, <2>1, <2>2, Zenon DEF Mineable
  <2>3. CASE u = t
    BY <1>3, <1>6, <2>1, <2>3, Zenon DEF Mineable, IsLegacy
  <2> QED
    BY <2>2, <2>3, Zenon
<1> QED
  BY <1>1, <1>5, <1>7 DEF MineInv, TemplateMineable

LEMMA TakeMine ==
    ASSUME Inv, MineInv, NEW S, Take(S), batch'.pool = batch.pool
    PROVE  MineInv'
<1>1. /\ template' = Stale /\ DOMAIN pool' \subseteq DOMAIN pool
      /\ \A t \in DOMAIN pool' : pool'[t] = pool[t]
  BY TakeOK, Zenon DEF Inv, Types
<1> QED
  BY <1>1, MineIfStale, Zenon

LEMMA NextMine ==
    ASSUME "none" \notin Methods
    PROVE  Inv /\ MineInv /\ [Next]_vars => MineInv'
<1> SUFFICES ASSUME Inv, MineInv, [Next]_vars
             PROVE  MineInv'
  BY Zenon
<1>0. Types /\ IsPool(pool) /\ IndexesMatchPool
  BY DEF Inv, Types
<1>1. ASSUME NEW old \in SUBSET DOMAIN pool, remove_stuck_transactions(old)
      PROVE  MineInv'
  BY <1>1, TakeMine DEF remove_stuck_transactions
<1>2. ASSUME NEW t \in DOMAIN pool, flush_txes_from_pool(t)
      PROVE  MineInv'
  BY <1>2, TakeMine, Zenon DEF flush_txes_from_pool
<1>3. CASE prepare_handle_incoming_blocks
  <2>1. job = NoJob /\ UNCHANGED <<pool, template>>
    BY <1>3, Zenon DEF prepare_handle_incoming_blocks
  <2>2. batch'.pool = pool
    BY <1>3 DEF prepare_handle_incoming_blocks
  <2>3. TemplateFits \/ ~template.usable
    BY <2>1, NoJobIsNotPopped, Zenon DEF Inv
  <2> QED
    BY <2>1, <2>2, <2>3, NoJobIsNotPopped, MineIfSame, Zenon
<1>4. ASSUME NEW id \in BlockIds, NEW txs \in BlockTxs, AddBlock(id, txs)
      PROVE  MineInv'
  BY <1>0, <1>4, BatchHandled, TakeMine, Zenon DEF AddBlock
<1>5. ASSUME NEW txs \in BlockTxs, RefuseBlock(txs)
      PROVE  MineInv'
  BY <1>0, <1>5, BatchHandled, TakeMine, Zenon DEF RefuseBlock
<1>6. CASE PopBlock
  <2>1. batch'.pool = batch.pool
    BY <1>0, <1>6, BatchHandled DEF PopBlock
  <2>2. pool' = pool /\ job'.popped = TRUE
    BY <1>6, Zenon DEF PopBlock
  <2> QED
    BY <2>1, <2>2, Zenon DEF MineInv, NoneIsUnused, TemplateMineable
<1>7. CASE ReturnTx
  <2>1. job.txs \in Seq(Txs) /\ job.txs # << >> /\ batch' = batch
    BY <1>0, <1>7 DEF ReturnTx, Types
  <2>2. Head(job.txs) \in Txs
    BY <2>1
  <2>3. Adds(Head(job.txs), "block")
    BY <1>0, <1>7, <2>2, AddForBlockAdds, Zenon DEF ReturnTx
  <2>4. \A u \in DOMAIN pool' : pool'[u].relay # "none" \/ (u \in DOMAIN pool /\ pool'[u].relay = pool[u].relay)
    BY <2>3, Zenon DEF Adds
  <2> QED
    BY <2>1, <2>3, <2>4, MineIfStale DEF Adds
<1>8. CASE FinishPop
  BY <1>8, MineIfStale, Zenon DEF FinishPop
<1>9. CASE CommitBatch
  <2>1. job = NoJob /\ UNCHANGED <<pool, template>>
    BY <1>9, Zenon DEF CommitBatch
  <2>2. DOMAIN batch'.pool = {}
    BY <1>9 DEF CommitBatch, NoBatch
  <2>3. TemplateFits \/ ~template.usable
    BY <2>1, NoJobIsNotPopped DEF Inv
  <2> QED
    BY <2>1, <2>2, <2>3, NoJobIsNotPopped, MineIfSame, Zenon
<1>10. ASSUME NEW wanted, create_block_template(wanted)
       PROVE  MineInv'
  <2>1. job = NoJob /\ batch' = batch /\ ~template.usable
    BY <1>0, <1>10, Zenon DEF create_block_template, Types
  <2>2. /\ DOMAIN pool' = DOMAIN pool
        /\ \A t \in DOMAIN pool : pool'[t].relay = pool[t].relay
        /\ \A t \in template'.txs : t \in DOMAIN pool /\ Mineable(t)
    BY <1>10, CreateTemplateInv, Zenon
  <2> QED
    BY <2>1, <2>2, NoJobIsNotPopped, MineIfSame, Zenon
<1>11. CASE Restart
  <2>1. template' = Stale /\ (pool' = pool \/ pool' = batch.pool)
    BY <1>11, Zenon DEF Restart
  <2>2. DOMAIN batch'.pool = {}
    BY <1>11 DEF Restart, NoBatch
  <2> QED
    BY <2>1, <2>2, MineIfStale, Zenon
<1>12. CASE UNCHANGED vars
  BY <1>12 DEF vars, MineInv, NoneIsUnused, TemplateMineable, Mineable
<1> QED
  BY <1>1, <1>2, <1>3, <1>4, <1>5, <1>6, <1>7, <1>8, <1>9, <1>10, <1>11, <1>12,
     AddNewTxMine, SetRelayedMine, Zenon DEF Next

\* A template handed out again would be accepted as a block and holds no
\* transaction that is still a secret, on a daemon to which nobody submits
\* transactions that are not to be relayed.  Such a one may be mined at once,
\* and relaying it later makes it a secret of the stem phase, of which
\* set_relayed does not tell the template.
THEOREM TemplateIsMineable ==
    ASSUME "none" \notin Methods
    PROVE  Spec => []TemplateConnects
<1>1. Inv /\ MineInv => TemplateConnects
  BY NoJobIsNotPopped DEF Inv, MineInv, TemplateMineable, TemplateFits, TemplateConnects
<1>2. Inv /\ MineInv /\ [Next]_vars => MineInv'
  BY NextMine
<1> QED
  BY <1>1, <1>2, InitMine, Invariance, PTL DEF Spec

-----------------------------------------------------------------------------
(* Transactions that go back to the pool.                                  *)

LEMMA TailOfOne ==
    ASSUME NEW S, NEW s \in Seq(S), Len(s) = 1
    PROVE  DOMAIN Tail(s) = {}
<1>1. s # << >>
  OBVIOUS
<1>2. Len(Tail(s)) = 0 /\ DOMAIN Tail(s) = 1 .. Len(Tail(s))
  BY <1>1
<1> QED
  BY <1>2

LEMMA ReturnsStay ==
    ASSUME Inv, Next, job # NoJob, batch' = batch
    PROVE  {t \in DOMAIN pool : Kept(t)} \cup (Range(job.txs) \ Range(job'.txs)) \subseteq DOMAIN pool'
<1>1. batch.open /\ IsPool(pool) /\ IndexesMatchPool /\ job \in [txs : Seq(Txs), popped : BOOLEAN]
  BY Zenon DEF Inv, Types
<1>2. ~Restart /\ ~CommitBatch
  BY <1>1 DEF Restart, CommitBatch, NoBatch
<1>3. ReturnTx \/ FinishPop
  <2>1. ~HandleInBatch
    BY DEF HandleInBatch
  <2>2. \A t, method : ~add_new_tx(t, method) /\ ~set_relayed(t, method)
    BY <1>1, Zenon DEF add_new_tx, set_relayed
  <2>3. \A x : ~remove_stuck_transactions(x) /\ ~flush_txes_from_pool(x)
    BY <1>1 DEF remove_stuck_transactions, flush_txes_from_pool
  <2>4. \A x : ~create_block_template(x)
    BY <1>1, Zenon DEF create_block_template
  <2>5. ~prepare_handle_incoming_blocks /\ ~PopBlock
    BY <2>1, Zenon DEF prepare_handle_incoming_blocks, PopBlock
  <2>6. \A id, txs : ~AddBlock(id, txs) /\ ~RefuseBlock(txs)
    BY <2>1, Zenon DEF AddBlock, RefuseBlock
  <2> QED
    BY <1>2, <2>2, <2>3, <2>4, <2>5, <2>6, Zenon DEF Next
<1>4. CASE FinishPop
  <2>1. job.txs = << >> /\ pool' = pool
    BY <1>4 DEF FinishPop
  <2>2. Range(job.txs) = {}
    BY <2>1 DEF Range
  <2> QED
    BY <2>1, <2>2, Zenon
<1>5. CASE ReturnTx
  <2>1. job.txs # << >> /\ Head(job.txs) \in Txs
    BY <1>1, <1>5 DEF ReturnTx
  <2>2. Adds(Head(job.txs), "block")
    BY <1>1, <1>5, <2>1, AddForBlockAdds DEF ReturnTx
  <2>3. Range(job.txs) \subseteq {Head(job.txs)} \cup Range(job'.txs)
    <3>1. Range(job.txs) \subseteq {Head(job.txs)} \cup Range(Tail(job.txs))
      <4> SUFFICES ASSUME NEW i \in DOMAIN job.txs, i # 1
                   PROVE  job.txs[i] \in Range(Tail(job.txs))
        BY <1>1 DEF Range
      <4>1. i - 1 \in DOMAIN Tail(job.txs) /\ Tail(job.txs)[i - 1] = job.txs[i]
        BY <1>1, <2>1
      <4> QED
        BY <4>1, Zenon DEF Range
    <3>2. CASE Len(job.txs) = 1 /\ ~job.popped
      <4>1. DOMAIN Tail(job.txs) = {}
        BY <1>1, <3>2, TailOfOne, Zenon
      <4>2. Range(Tail(job.txs)) = {}
        BY <4>1, Zenon DEF Range
      <4> QED
        BY <3>1, <4>2
    <3>3. CASE ~(Len(job.txs) = 1 /\ ~job.popped)
      <4>1. job' = [job EXCEPT !.txs = Tail(job.txs)]
        BY <1>5, <3>3 DEF ReturnTx
      <4>2. job'.txs = Tail(job.txs)
        BY <1>1, <4>1
      <4> QED
        BY <3>1, <4>2
    <3> QED
      BY <3>2, <3>3, Zenon
  <2> QED
    BY <2>2, <2>3 DEF Adds
<1> QED
  BY <1>3, <1>4, <1>5, Zenon

\* While the transactions of a popped or refused block go back one by one
\* (return_tx_to_pool, pop_block_from_blockchain), prune removes none that is
\* back already, whatever the limit of the pool is.
THEOREM ReturnedTxsAreKept == Spec => ReturnedTxsStay
<1>1. Inv /\ [Next]_vars =>
          [job # NoJob /\ batch' = batch =>
              {t \in DOMAIN pool : Kept(t)} \cup (Range(job.txs) \ Range(job'.txs)) \subseteq DOMAIN pool']_vars
  BY ReturnsStay
<1> QED
  BY <1>1, Invariance, PTL DEF Spec, ReturnedTxsStay
-----------------------------------------------------------------------------
(* Sums of weights.                                                        *)

LEMMA Bounds == MAX_BLOCKS \in Nat /\ MAX_COUNTED \in Nat
BY TxPoolAssumption

LEMMA WeightType == \A t \in Txs : Weight[t] \in Nat /\ Weight[t] # 0
BY TxPoolAssumption

LEMMA Least ==
    ASSUME NEW B \in SUBSET Nat, B # {}
    PROVE  \E n \in B : \A k \in B : n <= k
<1>1. PICK n \in B : \A y \in B : ~(<<y, n>> \in OpToRel(<, Nat))
  BY NatLessThanWellFounded, WFMin, Zenon
<1>2. \A y \in B : ~(y < n)
  BY <1>1, Zenon DEF OpToRel
<1> QED
  BY <1>2

\* The element MapThenSumSet begins with.
Pick(s) == CHOOSE x \in s : TRUE

Small(S, n) == {s \in SUBSET S : Cardinality(s) <= n}

\* g is the sum of the weights of every set of D, by the recursion of MapThenSumSet.
Sums(D, g) == g = [s \in D |-> IF s = {} THEN 0 ELSE Weight[Pick(s)] + g[s \ {Pick(s)}]]

LEMMA Smaller ==
    ASSUME NEW S, IsFiniteSet(S), NEW x \in S
    PROVE  /\ IsFiniteSet(S \ {x}) /\ Cardinality(S) \in Nat /\ Cardinality(S \ {x}) \in Nat
           /\ Cardinality(S \ {x}) = Cardinality(S) - 1
<1>1. IsFiniteSet(S \ {x}) /\ Cardinality(S \ {x}) = Cardinality(S) - 1
  BY FS_RemoveElement
<1> QED
  BY <1>1, FS_CardinalityType, Zenon

LEMMA Picked == ASSUME NEW s, s # {} PROVE Pick(s) \in s
BY DEF Pick

LEMMA SumsExist ==
    ASSUME NEW S, IsFiniteSet(S), NEW n \in Nat
    PROVE  \E g : Sums(Small(S, n), g)
<1> DEFINE B == {k \in Nat : ~\E g : Sums(Small(S, k), g)}
<1> SUFFICES ASSUME B # {} PROVE FALSE
  OBVIOUS
<1>1. PICK k \in B : \A m \in B : k <= m
  <2>1. B \in SUBSET Nat
    BY Zenon
  <2> HIDE DEF B
  <2> QED
    BY <2>1, Least, Zenon
<1>2. \A s \in SUBSET S : IsFiniteSet(s) /\ Cardinality(s) \in Nat
  BY FS_Subset, FS_CardinalityType, Zenon
<1>3. CASE k = 0
  <2>1. \A s \in Small(S, 0) : s = {}
    BY <1>2, FS_EmptySet DEF Small
  <2> DEFINE g == [s \in Small(S, 0) |-> 0]
  <2>2. g = [s \in Small(S, 0) |-> IF s = {} THEN 0 ELSE Weight[Pick(s)] + g[s \ {Pick(s)}]]
    BY <2>1, Zenon
  <2>3. Sums(Small(S, 0), g)
    BY <2>2, Zenon DEF Sums
  <2> QED
    BY <1>1, <1>3, <2>3, Zenon
<1>4. CASE k # 0
  <2>1. k \in Nat /\ k - 1 \in Nat /\ k - 1 \notin B
    BY <1>1, <1>4
  <2>2. PICK g : Sums(Small(S, k - 1), g)
    BY <2>1, Zenon
  <2> DEFINE h == [s \in Small(S, k) |-> IF s = {} THEN 0 ELSE Weight[Pick(s)] + g[s \ {Pick(s)}]]
  <2>3. ASSUME NEW s \in Small(S, k), s # {}
        PROVE  s \ {Pick(s)} \in Small(S, k - 1)
    <3>1. s \in SUBSET S /\ IsFiniteSet(s) /\ Cardinality(s) <= k /\ Pick(s) \in s
      BY <1>2, <2>3, Picked, Zenon DEF Small
    <3>2. Cardinality(s) \in Nat /\ Cardinality(s \ {Pick(s)}) = Cardinality(s) - 1
      BY <3>1, Smaller, Zenon
    <3> QED
      BY <2>1, <3>1, <3>2 DEF Small
  <2>4. \A s \in Small(S, k - 1) : s \in Small(S, k)
    BY <1>2, <2>1 DEF Small
  <2>5. \A s \in Small(S, k - 1) : h[s] = g[s]
    BY <2>2, <2>4, Zenon DEF Sums
  <2>6. \A s \in Small(S, k) : s # {} => h[s \ {Pick(s)}] = g[s \ {Pick(s)}]
    BY <2>3, <2>5, Zenon
  <2>7. h = [s \in Small(S, k) |-> IF s = {} THEN 0 ELSE Weight[Pick(s)] + h[s \ {Pick(s)}]]
    BY <2>6, Zenon
  <2>8. Sums(Small(S, k), h)
    BY <2>7, Zenon DEF Sums
  <2> QED
    BY <1>1, <2>8, Zenon
<1> QED
  BY <1>3, <1>4, Zenon

\* The recursion of Total is well founded.
LEMMA TotalSums ==
    ASSUME NEW S, IsFiniteSet(S)
    PROVE  \E g : Sums(SUBSET S, g) /\ Total(S) = g[S]
<1>1. Cardinality(S) \in Nat
  BY FS_CardinalityType
<1>2. Small(S, Cardinality(S)) = SUBSET S
  <2>1. \A s \in SUBSET S : Cardinality(s) <= Cardinality(S)
    BY FS_Subset
  <2> QED
    BY <2>1 DEF Small
<1>3. \E g : Sums(SUBSET S, g)
  <2>1. \E g : Sums(Small(S, Cardinality(S)), g)
    BY <1>1, SumsExist
  <2> QED
    BY <1>2, <2>1
<1> DEFINE g == CHOOSE g : Sums(SUBSET S, g)
<1>4. Sums(SUBSET S, g)
  BY <1>3, Zenon
<1>5. Total(S) = g[S]
  BY Zenon DEF Total, MapThenSumSet, MapThenFoldSet, Sums, Pick
<1> QED
  BY <1>4, <1>5, Zenon
LEMMA SumsAgree ==
    ASSUME NEW S, IsFiniteSet(S), NEW T \in SUBSET S,
           NEW g, Sums(SUBSET S, g), NEW h, Sums(SUBSET T, h)
    PROVE  g[T] = h[T]
<1> DEFINE C == {s \in SUBSET T : g[s] # h[s]}
           B == {Cardinality(s) : s \in C}
<1> SUFFICES ASSUME T \in C PROVE FALSE
  BY Zenon
<1>1. \A s \in SUBSET T : s \in SUBSET S /\ IsFiniteSet(s) /\ Cardinality(s) \in Nat
  BY FS_Subset, FS_CardinalityType
<1>2. PICK s \in C : \A u \in C : Cardinality(s) <= Cardinality(u)
  <2>1. B \in SUBSET Nat /\ B # {}
    BY <1>1, Zenon
  <2>2. PICK k \in B : \A m \in B : k <= m
    <3> HIDE DEF B
    <3> QED
      BY <2>1, Least
  <2> QED
    BY <2>2, Zenon
<1>3. s # {}
  <2>1. g[{}] = 0 /\ h[{}] = 0
    BY Zenon DEF Sums
  <2> QED
    BY <2>1, Zenon
<1>4. Pick(s) \in s /\ s \ {Pick(s)} \in SUBSET T
  BY <1>3, Picked, Zenon
<1>5. Cardinality(s \ {Pick(s)}) < Cardinality(s)
  BY <1>1, <1>4, Smaller
<1>6. g[s \ {Pick(s)}] = h[s \ {Pick(s)}]
  BY <1>1, <1>2, <1>4, <1>5
<1>7. g[s] = Weight[Pick(s)] + g[s \ {Pick(s)}]
  BY <1>1, <1>3, Zenon DEF Sums
<1>8. h[s] = Weight[Pick(s)] + h[s \ {Pick(s)}]
  BY <1>1, <1>3, Zenon DEF Sums
<1> QED
  BY <1>6, <1>7, <1>8, Zenon

LEMMA TotalRecursion ==
    /\ Total({}) = 0
    /\ \A S : IsFiniteSet(S) /\ S # {} => Total(S) = Weight[Pick(S)] + Total(S \ {Pick(S)})
<1>1. Total({}) = 0
  <2>1. PICK g : Sums(SUBSET {}, g) /\ Total({}) = g[{}]
    BY TotalSums, FS_EmptySet, Zenon
  <2> QED
    BY <2>1 DEF Sums
<1>2. ASSUME NEW S, IsFiniteSet(S), S # {}
      PROVE  Total(S) = Weight[Pick(S)] + Total(S \ {Pick(S)})
  <2> DEFINE T == S \ {Pick(S)}
  <2>1. PICK g : Sums(SUBSET S, g) /\ Total(S) = g[S]
    BY <1>2, TotalSums, Zenon
  <2>2. T \in SUBSET S /\ IsFiniteSet(T)
    BY <1>2, FS_Subset
  <2>3. PICK h : Sums(SUBSET T, h) /\ Total(T) = h[T]
    BY <2>2, TotalSums, Zenon
  <2>4. g[T] = h[T]
    BY <1>2, <2>1, <2>2, <2>3, SumsAgree, ZenonT(60)
  <2>5. g[S] = Weight[Pick(S)] + g[T]
    BY <1>2, <2>1, Zenon DEF Sums
  <2> QED
    BY <2>1, <2>3, <2>4, <2>5, Zenon
<1> QED
  BY <1>1, <1>2, Zenon

LEMMA TotalType ==
    ASSUME NEW S \in SUBSET Txs, IsFiniteSet(S)
    PROVE  Total(S) \in Nat
<1> DEFINE C == {s \in SUBSET S : Total(s) \notin Nat}
           B == {Cardinality(s) : s \in C}
<1> SUFFICES ASSUME S \in C PROVE FALSE
  OBVIOUS
<1>1. \A s \in SUBSET S : IsFiniteSet(s) /\ Cardinality(s) \in Nat
  BY FS_Subset, FS_CardinalityType
<1>2. PICK s \in C : \A u \in C : Cardinality(s) <= Cardinality(u)
  <2>1. B \in SUBSET Nat /\ B # {}
    BY <1>1
  <2>2. PICK k \in B : \A m \in B : k <= m
    <3> HIDE DEF B
    <3> QED
      BY <2>1, Least, Zenon
  <2> QED
    BY <2>2, Zenon
<1>3. s # {}
  BY TotalRecursion
<1>4. Pick(s) \in s /\ s \ {Pick(s)} \in SUBSET S /\ Weight[Pick(s)] \in Nat
  BY <1>3, Picked, WeightType, Zenon
<1>5. Cardinality(s \ {Pick(s)}) < Cardinality(s)
  BY <1>1, <1>4, Smaller
<1>6. Total(s \ {Pick(s)}) \in Nat
  BY <1>1, <1>2, <1>4, <1>5
<1>7. Total(s) = Weight[Pick(s)] + Total(s \ {Pick(s)})
  BY <1>1, <1>3, TotalRecursion, Zenon
<1> QED
  BY <1>4, <1>6, <1>7

\* It does not matter which transaction comes first.
LEMMA TotalRemove ==
    ASSUME NEW S \in SUBSET Txs, IsFiniteSet(S), NEW x \in S
    PROVE  Total(S) = Weight[x] + Total(S \ {x})
<1> DEFINE C == {s \in SUBSET S : \E y \in s : Total(s) # Weight[y] + Total(s \ {y})}
           B == {Cardinality(s) : s \in C}
<1> SUFFICES ASSUME S \in C PROVE FALSE
  BY Zenon
<1>1. \A s \in SUBSET S : s \in SUBSET Txs /\ IsFiniteSet(s) /\ Cardinality(s) \in Nat /\ Total(s) \in Nat
  BY FS_Subset, FS_CardinalityType, TotalType, Zenon
<1>2. PICK s \in C : \A u \in C : Cardinality(s) <= Cardinality(u)
  <2>1. B \in SUBSET Nat /\ B # {}
    BY <1>1, Zenon
  <2>2. PICK k \in B : \A m \in B : k <= m
    <3> HIDE DEF B
    <3> QED
      BY <2>1, Least
  <2> QED
    BY <2>2, Zenon
<1>3. PICK y \in s : Total(s) # Weight[y] + Total(s \ {y})
  BY <1>2, Zenon
<1> DEFINE p == Pick(s)
<1>4. p \in s /\ Weight[p] \in Nat /\ Weight[y] \in Nat
  BY <1>1, <1>3, Picked, WeightType, Zenon
<1>5. Total(s) = Weight[p] + Total(s \ {p})
  BY <1>1, <1>4, TotalRecursion, Zenon
<1> HIDE DEF p
<1>6. y # p
  BY <1>3, <1>5, Zenon
<1>7. /\ s \ {p} \in SUBSET S /\ s \ {y} \in SUBSET S /\ s \ {p, y} \in SUBSET S
      /\ y \in s \ {p} /\ p \in s \ {y}
      /\ (s \ {p}) \ {y} = s \ {p, y} /\ (s \ {y}) \ {p} = s \ {p, y}
  BY <1>3, <1>4, <1>6, Zenon
<1>8. Cardinality(s \ {p}) < Cardinality(s) /\ Cardinality(s \ {y}) < Cardinality(s)
  BY <1>1, <1>4, Smaller
<1>9. s \ {p} \notin C /\ s \ {y} \notin C
  <2>1. \A u \in C : ~(Cardinality(u) < Cardinality(s))
    BY <1>1, <1>2
  <2> HIDE DEF C
  <2> QED
    BY <1>8, <2>1, Zenon
<1>10. Total(s \ {p}) = Weight[y] + Total(s \ {p, y})
  BY <1>7, <1>9, Zenon
<1>11. Total(s \ {y}) = Weight[p] + Total(s \ {p, y})
  BY <1>7, <1>9, Zenon
<1>12. Total(s \ {p, y}) \in Nat
  BY <1>1, <1>7, Zenon
<1> QED
  BY <1>3, <1>4, <1>5, <1>10, <1>11, <1>12

LEMMA TotalSplit ==
    ASSUME NEW S \in SUBSET Txs, IsFiniteSet(S), NEW T \in SUBSET S
    PROVE  Total(S) = Total(T) + Total(S \ T)
<1> DEFINE C == {s \in SUBSET T : Total(S) # Total(s) + Total(S \ s)}
           B == {Cardinality(s) : s \in C}
<1> SUFFICES ASSUME T \in C PROVE FALSE
  OBVIOUS
<1>1. \A s \in SUBSET S : s \in SUBSET Txs /\ IsFiniteSet(s) /\ Cardinality(s) \in Nat /\ Total(s) \in Nat
  BY FS_Subset, FS_CardinalityType, TotalType, Zenon
<1>2. PICK s \in C : \A u \in C : Cardinality(s) <= Cardinality(u)
  <2>1. B \in SUBSET Nat /\ B # {}
    BY <1>1, Zenon
  <2>2. PICK k \in B : \A m \in B : k <= m
    <3> HIDE DEF B
    <3> QED
      BY <2>1, Least, Zenon
  <2> QED
    BY <2>2, Zenon
<1>3. s # {}
  <2>1. S \ {} = S /\ Total(S) \in Nat
    BY <1>1
  <2> QED
    BY <2>1, TotalRecursion
<1>4. PICK x \in s : TRUE
  BY <1>3, Zenon
<1>5. /\ s \ {x} \in SUBSET T /\ s \in SUBSET S /\ s \ {x} \in SUBSET S
      /\ S \ s \in SUBSET S /\ S \ (s \ {x}) \in SUBSET S
      /\ x \in S \ (s \ {x}) /\ (S \ (s \ {x})) \ {x} = S \ s
      /\ Weight[x] \in Nat
  BY <1>4, WeightType, Zenon
<1>6. Cardinality(s \ {x}) < Cardinality(s)
  BY <1>1, <1>4, <1>5, Smaller
<1>7. Total(S) = Total(s \ {x}) + Total(S \ (s \ {x}))
  BY <1>1, <1>2, <1>5, <1>6
<1>8. Total(s) = Weight[x] + Total(s \ {x})
  BY <1>1, <1>4, <1>5, TotalRemove, Zenon
<1>9. Total(S \ (s \ {x})) = Weight[x] + Total(S \ s)
  <2> DEFINE R == S \ (s \ {x})
  <2>1. R \in SUBSET Txs /\ IsFiniteSet(R) /\ x \in R /\ R \ {x} = S \ s
    BY <1>1, <1>5, Zenon
  <2> HIDE DEF R
  <2>2. Total(R) = Weight[x] + Total(S \ s)
    BY <2>1, TotalRemove
  <2> QED
    BY <2>2, Zenon DEF R
<1>10. Total(s \ {x}) \in Nat /\ Total(S \ s) \in Nat /\ Total(s) # Total(S) - Total(S \ s)
  BY <1>1, <1>2, <1>5
<1> QED
  BY <1>5, <1>7, <1>8, <1>9, <1>10
-----------------------------------------------------------------------------
(* The weight of the pool.                                                 *)

\* m_txpool_weight covers the transactions of the pool, which are finitely many,
\* and what an open batch would go back to fits the counter as well.
PoolWeighed == IsFiniteSet(DOMAIN pool) /\ weight \in 0 .. MAX_COUNTED /\ weight >= Total(DOMAIN pool)

WeightInv ==
    /\ PoolWeighed
    /\ IsFiniteSet(DOMAIN batch.pool) /\ Total(DOMAIN batch.pool) <= MAX_COUNTED

LEMMA ReduceCovers ==
    ASSUME NEW P \in SUBSET Txs, IsFiniteSet(P), NEW S \in SUBSET P,
           NEW w \in 0 .. MAX_COUNTED, w >= Total(P)
    PROVE  /\ IsFiniteSet(P \ S)
           /\ reduce_txpool_weight(w, S) \in 0 .. MAX_COUNTED /\ reduce_txpool_weight(w, S) >= Total(P \ S)
<1>1. IsFiniteSet(P \ S) /\ IsFiniteSet(S)
  BY FS_Subset, Zenon
<1>2. Total(S) \in Nat /\ Total(P \ S) \in Nat
  BY <1>1, TotalType, Zenon
<1>3. Total(P) = Total(S) + Total(P \ S)
  BY TotalSplit, Zenon
<1> HIDE DEF Total
<1>4. MAX_COUNTED \in Nat /\ ~(Total(S) > w)
  BY <1>2, <1>3, Bounds
<1> QED
  BY <1>1, <1>2, <1>3, <1>4 DEF reduce_txpool_weight

LEMMA TakeWeighs ==
    ASSUME IsPool(pool), PoolWeighed, NEW S \in SUBSET DOMAIN pool, Take(S)
    PROVE  PoolWeighed'
<1>1. DOMAIN pool' = DOMAIN pool \ S /\ weight' = reduce_txpool_weight(weight, S)
  BY DEF Take, Without
<1>2. DOMAIN pool \in SUBSET Txs
  BY Zenon DEF IsPool
<1> QED
  BY <1>1, <1>2, ReduceCovers, Zenon DEF PoolWeighed

LEMMA CountWeighs ==
    ASSUME IsPool(pool), PoolWeighed, NEW t \in Txs, NEW p, NEW s, NEW order,
           DOMAIN p \in {DOMAIN pool, DOMAIN pool \cup {t}}, CountAndPrune(t, p, s, order)
    PROVE  PoolWeighed'
<1> DEFINE P == DOMAIN p
           w == weight + Weight[t]
           pruned == Pruned(p, order, w)
<1>1. DOMAIN pool' = P \ pruned /\ weight' = reduce_txpool_weight(w, pruned) /\ w <= MAX_COUNTED
  BY Zenon DEF CountAndPrune, Without
<1>2. pruned \in SUBSET P
  BY Zenon DEF Pruned
<1>3. IsFiniteSet(DOMAIN pool) /\ weight \in Nat /\ weight >= Total(DOMAIN pool) /\ MAX_COUNTED \in Nat
  BY Bounds DEF PoolWeighed
<1>4. DOMAIN pool \in SUBSET Txs /\ P \in SUBSET Txs /\ Weight[t] \in Nat
  BY WeightType, Zenon DEF IsPool
<1>5. w \in 0 .. MAX_COUNTED
  BY <1>1, <1>3, <1>4
<1>6. IsFiniteSet(P) /\ w >= Total(P)
  <2>1. Total(DOMAIN pool) \in Nat
    BY <1>3, <1>4, TotalType, Zenon
  <2>2. CASE P = DOMAIN pool
    BY <1>3, <1>4, <2>1, <2>2
  <2>3. CASE P = DOMAIN pool \cup {t} /\ t \notin DOMAIN pool
    <3>1. IsFiniteSet(P) /\ t \in P /\ P \ {t} = DOMAIN pool
      BY <1>3, <2>3, FS_AddElement, Zenon
    <3> HIDE DEF P
    <3>2. Total(P) = Weight[t] + Total(DOMAIN pool)
      BY <1>4, <3>1, TotalRemove, Zenon
    <3> QED
      BY <1>3, <1>4, <2>1, <3>1, <3>2
  <2>4. CASE t \in DOMAIN pool
    <3>1. P = DOMAIN pool
      BY <2>4, Zenon
    <3> QED
      BY <2>2, <3>1, Zenon
  <2> QED
    BY <2>2, <2>3, <2>4, Zenon
<1> HIDE DEF P, w, pruned
<1> QED
  BY <1>1, <1>2, <1>4, <1>5, <1>6, ReduceCovers, Zenon DEF PoolWeighed

LEMMA InsertWeighs ==
    ASSUME IsPool(pool), PoolWeighed, NEW t \in Txs, NEW meta, Insert(t, meta)
    PROVE  PoolWeighed'
<1> DEFINE p == With(pool, t, meta)
           s == insert_key_images(t)
           order == sorted \cup {t}
<1>1. DOMAIN p \in {DOMAIN pool, DOMAIN pool \cup {t}}
  BY Zenon DEF With
<1>2. CountAndPrune(t, p, s, order)
  BY DEF Insert
<1> HIDE DEF p, s, order
<1> QED
  BY <1>1, <1>2, CountWeighs

LEMMA AddCheckedWeighs ==
    ASSUME IsPool(pool), PoolWeighed, NEW t \in Txs, NEW method, NEW used, AddChecked(t, method, used)
    PROVE  PoolWeighed'
<1> DEFINE meta == [relay |-> UpgradeTo(t, method), double_spend_seen |-> FALSE, used |-> used, failed |-> {}]
<1>1. CountAndPrune(t, pool, spent, sorted) \/ Insert(t, meta)
  BY Zenon DEF AddChecked
<1> HIDE DEF meta
<1>2. CASE CountAndPrune(t, pool, spent, sorted)
  <2> DEFINE p == pool
             s == spent
             order == sorted
  <2>1. DOMAIN p \in {DOMAIN pool, DOMAIN pool \cup {t}}
    BY Zenon
  <2>2. CountAndPrune(t, p, s, order)
    BY <1>2
  <2> HIDE DEF p, s, order
  <2> QED
    BY <2>1, <2>2, CountWeighs
<1>3. CASE Insert(t, meta)
  BY <1>3, InsertWeighs, Zenon
<1> QED
  BY <1>1, <1>2, <1>3, Zenon

LEMMA AddForBlockWeighs ==
    ASSUME IsPool(pool), PoolWeighed, NEW t \in Txs, add_tx_for_block(t)
    PROVE  PoolWeighed'
<1>1. CASE AddChecked(t, "block", MaxUsed(t))
  BY <1>1, AddCheckedWeighs
<1>2. CASE AddUnchecked(t)
  <2>1. \E meta : Insert(t, meta)
    BY <1>2, Zenon DEF AddUnchecked
  <2> QED
    BY <2>1, InsertWeighs, Zenon
<1>3. CASE UNCHANGED <<pool, weight>>
  BY <1>3, Zenon DEF PoolWeighed
<1> QED
  BY <1>1, <1>2, <1>3, Zenon DEF add_tx_for_block

LEMMA AddNewTxWeighs ==
    ASSUME IsPool(pool), PoolWeighed, NEW t \in Txs, NEW method, add_new_tx(t, method)
    PROVE  PoolWeighed'
<1>1. CASE add_tx_for_block(t)
  BY <1>1, AddForBlockWeighs, Zenon
<1>2. CASE add_tx_for_relay(t, method)
  <2>1. CASE Refused
    BY <2>1, Zenon DEF Refused, PoolWeighed
  <2>2. CASE MarkDoubleSpend(t)
    <3>1. DOMAIN pool' = DOMAIN pool /\ weight' = weight
      BY <2>2 DEF MarkDoubleSpend
    <3> QED
      BY <3>1, Zenon DEF PoolWeighed
  <2>3. CASE AddChecked(t, method, Checked(t).used)
    BY <2>3, AddCheckedWeighs, Zenon
  <2> QED
    BY <1>2, <2>1, <2>2, <2>3, Zenon DEF add_tx_for_relay
<1> QED
  BY <1>1, <1>2, Zenon DEF add_new_tx

\* The pool and its weight stay, and the batch keeps its state or takes that of the pool.
LEMMA WeightIfSame ==
    ASSUME Inv, WeightInv, DOMAIN pool' = DOMAIN pool, weight' = weight,
           DOMAIN batch'.pool \in {DOMAIN batch.pool, DOMAIN pool, {}}
    PROVE  WeightInv'
<1>1. PoolWeighed'
  BY Zenon DEF WeightInv, PoolWeighed
<1>2. Total({}) <= MAX_COUNTED /\ IsFiniteSet({})
  BY TotalRecursion, FS_EmptySet, Bounds
<1>3. Total(DOMAIN pool) \in Nat
  BY TotalType, Zenon DEF Inv, Types, IsPool, WeightInv, PoolWeighed
<1>4. Total(DOMAIN pool) <= MAX_COUNTED
  BY <1>3, Bounds DEF WeightInv, PoolWeighed
<1> QED
  BY <1>1, <1>2, <1>4, Zenon DEF WeightInv, PoolWeighed

LEMMA InitWeight == Init => WeightInv
<1> SUFFICES ASSUME Init PROVE WeightInv
  OBVIOUS
<1>1. DOMAIN pool = {} /\ DOMAIN batch.pool = {} /\ weight = 0
  BY DEF Init, NoBatch
<1>2. Total({}) = 0 /\ IsFiniteSet({})
  BY TotalRecursion, FS_EmptySet, Zenon
<1> QED
  BY <1>1, <1>2, Bounds DEF WeightInv, PoolWeighed

LEMMA NextWeight == Inv /\ WeightInv /\ [Next]_vars => WeightInv'
<1> SUFFICES ASSUME Inv, WeightInv, [Next]_vars
             PROVE  WeightInv'
  BY Zenon
<1>0. Types /\ IsPool(pool) /\ PoolWeighed
  BY Zenon DEF Inv, Types, WeightInv
<1>1. ASSUME PoolWeighed', batch'.pool = batch.pool
      PROVE  WeightInv'
  BY <1>1 DEF WeightInv
<1>2. ASSUME NEW S \in SUBSET DOMAIN pool, Take(S), batch'.pool = batch.pool
      PROVE  WeightInv'
  BY <1>0, <1>1, <1>2, TakeWeighs, Zenon
<1>3. ASSUME NEW t \in Txs, NEW method \in Methods, add_new_tx(t, method)
      PROVE  WeightInv'
  BY <1>0, <1>1, <1>3, AddNewTxWeighs, Zenon DEF add_new_tx
<1>4. ASSUME NEW t \in Txs, NEW method \in {"local", "forward", "stem", "fluff"}, set_relayed(t, method)
      PROVE  WeightInv'
  BY <1>4, WeightIfSame, Zenon DEF set_relayed
<1>5. ASSUME NEW old \in SUBSET DOMAIN pool, remove_stuck_transactions(old)
      PROVE  WeightInv'
  BY <1>2, <1>5, Zenon DEF remove_stuck_transactions
<1>6. ASSUME NEW t \in DOMAIN pool, flush_txes_from_pool(t)
      PROVE  WeightInv'
  BY <1>2, <1>6, Zenon DEF flush_txes_from_pool
<1>7. CASE prepare_handle_incoming_blocks
  <2>1. UNCHANGED <<pool, weight>> /\ batch'.pool = pool
    BY <1>7, Zenon DEF prepare_handle_incoming_blocks
  <2> QED
    BY <2>1, WeightIfSame, Zenon
<1>8. ASSUME NEW id \in BlockIds, NEW txs \in BlockTxs, AddBlock(id, txs)
      PROVE  WeightInv'
  BY <1>0, <1>2, <1>8, BatchHandled, BlockTxsType, Zenon DEF AddBlock
<1>9. ASSUME NEW txs \in BlockTxs, RefuseBlock(txs)
      PROVE  WeightInv'
  BY <1>0, <1>2, <1>9, BatchHandled, BlockTxsType, Zenon DEF RefuseBlock
<1>10. CASE PopBlock
  <2>1. batch'.pool = batch.pool
    BY <1>0, <1>10, BatchHandled, Zenon DEF PopBlock
  <2> QED
    BY <1>10, <2>1, WeightIfSame, Zenon DEF PopBlock
<1>11. CASE ReturnTx
  <2>1. job.txs \in Seq(Txs) /\ job.txs # << >> /\ batch' = batch
    BY <1>0, <1>11, Zenon DEF ReturnTx, Types
  <2>2. Head(job.txs) \in Txs
    BY <2>1
  <2> QED
    BY <1>0, <1>1, <1>11, <2>1, <2>2, AddForBlockWeighs, Zenon DEF ReturnTx
<1>12. CASE FinishPop
  BY <1>12, WeightIfSame, Zenon DEF FinishPop
<1>13. CASE CommitBatch
  <2>1. DOMAIN batch'.pool = {}
    BY <1>13 DEF CommitBatch, NoBatch
  <2> QED
    BY <1>13, <2>1, WeightIfSame, Zenon DEF CommitBatch
<1>14. ASSUME NEW wanted, create_block_template(wanted)
       PROVE  WeightInv'
  <2>1. batch' = batch /\ weight' = weight
    BY <1>14, Zenon DEF create_block_template
  <2>2. DOMAIN pool' = DOMAIN pool
    BY <1>14, CreateTemplateInv, Zenon
  <2> QED
    BY <2>1, <2>2, WeightIfSame, Zenon
<1>15. CASE Restart
  <2> DEFINE P == DOMAIN (IF batch.open THEN batch.pool ELSE pool)
  <2>1. DOMAIN pool' = P /\ weight' = Total(P) /\ DOMAIN batch'.pool = {}
    BY <1>15 DEF Restart, NoBatch
  <2>2. P \in SUBSET Txs /\ IsFiniteSet(P)
    BY <1>0, Zenon DEF Types, IsBatch, IsPool, WeightInv, PoolWeighed
  <2>3. Total(P) \in Nat
    BY <2>2, TotalType, Zenon
  <2>4. Total(DOMAIN pool) \in Nat
    BY <1>0, TotalType, Zenon DEF IsPool, PoolWeighed
  <2>5. Total(P) <= MAX_COUNTED
    BY <2>4, Bounds DEF WeightInv, PoolWeighed
  <2>6. Total({}) <= MAX_COUNTED /\ IsFiniteSet({})
    BY TotalRecursion, FS_EmptySet, Bounds
  <2> HIDE DEF P
  <2> QED
    BY <2>1, <2>2, <2>3, <2>5, <2>6, Bounds DEF WeightInv, PoolWeighed
<1>16. CASE UNCHANGED vars
  BY <1>16, WeightIfSame DEF vars
<1> QED
  BY <1>3, <1>4, <1>5, <1>6, <1>7, <1>8, <1>9, <1>10, <1>11, <1>12, <1>13, <1>14, <1>15, <1>16, Zenon DEF Next

LEMMA WeightInvariance == Spec => []WeightInv
BY InitWeight, NextWeight, Invariance, PTL DEF Spec

\* m_txpool_weight never falls below the weight of the transactions in the pool:
\* add_tx, prune, take_tx, remove_stuck_transactions and init, for any weights, fees
\* and limit, never subtract what they did not add, so that prune never takes an
\* overfull pool for one that fits.
THEOREM WeightIsCovered == Spec => []WeightCoversPool
<1>1. WeightInv => WeightCoversPool
  BY Zenon DEF WeightInv, PoolWeighed, WeightCoversPool
<1> QED
  BY <1>1, WeightInvariance, PTL

-----------------------------------------------------------------------------
(* The types.                                                              *)

IsFull(m) ==
    /\ {"double_spend_seen", "used"} \subseteq DOMAIN m
    /\ m.double_spend_seen \in BOOLEAN /\ m.used \in -1 .. MAX_BLOCKS

AllFull(p) == \A t \in DOMAIN p : IsFull(p[t])

IsFunction(f, S) == f = [x \in S |-> f[x]]

CacheOK(c) == DOMAIN c \subseteq Txs /\ \A t \in DOMAIN c : c[t].used \in 0 .. MAX_BLOCKS

\* What add_tx and take_tx change.
Held == AllFull(pool) /\ IsFunction(spent, KeyImages) /\ template.txs \subseteq Txs

TypeInv ==
    /\ Held /\ AllFull(batch.pool)
    /\ Len(chain) <= MAX_BLOCKS /\ Len(batch.chain) <= MAX_BLOCKS
    /\ timed_out \subseteq Txs /\ CacheOK(cache)

LEMMA Highest ==
    ASSUME NEW n \in Nat, NEW S \in SUBSET (0 .. n), S # {}
    PROVE  Max(S) \in S
<1> DEFINE T == {n - x : x \in S}
<1>1. \A x \in S : x \in Int /\ n - x \in Nat
  OBVIOUS
<1>2. T \in SUBSET Nat /\ T # {}
  BY <1>1, Zenon
<1>3. PICK z \in T : \A y \in T : z <= y
  BY <1>2, Least, Zenon
<1>4. PICK x \in S : z = n - x
  BY <1>3, Zenon
<1>5. \A y \in S : n - y \in T
  BY Zenon
<1>6. \A y \in S : n - x <= n - y
  BY <1>3, <1>4, <1>5, Zenon
<1>7. ASSUME NEW y \in S
      PROVE  x >= y
  <2>1. x \in Int /\ y \in Int /\ n - x <= n - y
    BY <1>1, <1>3, <1>6, Zenon
  <2> HIDE DEF T
  <2> QED
    BY <2>1
<1> QED
  BY <1>7, Zenon DEF Max

LEMMA MaxUsedType ==
    ASSUME IsChain(chain), Len(chain) <= MAX_BLOCKS, NEW t
    PROVE  MaxUsed(t) \in 0 .. MAX_BLOCKS
<1> DEFINE S == {0} \cup {h \in DOMAIN chain : Needs[t] \cap Range(chain[h].txs) # {}}
<1>1. DOMAIN chain = 1 .. Len(chain) /\ Len(chain) \in Nat
  BY DEF IsChain
<1>2. S # {} /\ MaxUsed(t) = Max(S)
  BY Zenon DEF MaxUsed
<1>3. S \in SUBSET (0 .. Len(chain))
  BY <1>1
<1> HIDE DEF S
<1>4. Max(S) \in S
  BY <1>1, <1>2, <1>3, Highest, Zenon
<1>5. Max(S) \in 0 .. Len(chain)
  BY <1>3, <1>4, Zenon
<1> HIDE DEF MaxUsed
<1> QED
  BY <1>1, <1>2, <1>5, Bounds

LEMMA CheckedType ==
    ASSUME IsChain(chain), Len(chain) <= MAX_BLOCKS, CacheOK(cache), NEW t
    PROVE  Checked(t).used \in 0 .. MAX_BLOCKS
<1>1. CASE t \in DOMAIN cache
  BY <1>1, Zenon DEF Checked, CacheOK
<1>2. CASE t \notin DOMAIN cache
  <2> DEFINE u == MaxUsed(t)
             ok == InputsOK(t)
  <2>1. Checked(t) = [ok |-> ok, used |-> u]
    BY <1>2, Zenon DEF Checked
  <2>2. u \in 0 .. MAX_BLOCKS
    BY MaxUsedType, Zenon
  <2> HIDE DEF u, ok
  <2> QED
    BY <2>1, <2>2
<1> QED
  BY <1>1, <1>2, Zenon

LEMMA StaleIsEmpty == Stale.txs = {}
BY Zenon DEF Stale

LEMMA RemovedIsFunction ==
    ASSUME NEW s, NEW S
    PROVE  IsFunction(remove_transaction_keyimages(s, S), KeyImages)
BY Zenon DEF IsFunction, remove_transaction_keyimages

LEMMA TakeHolds ==
    ASSUME Held, NEW S, Take(S)
    PROVE  Held'
<1>1. IsFunction(spent', KeyImages)
  BY RemovedIsFunction, Zenon DEF Take
<1>2. AllFull(pool')
  BY DEF Take, Without, Held, AllFull
<1>3. template' = Stale
  BY Zenon DEF Take
<1> QED
  BY <1>1, <1>2, <1>3, StaleIsEmpty, Zenon DEF Held

LEMMA CountHolds ==
    ASSUME NEW t, NEW p, NEW s, NEW order, AllFull(p), CountAndPrune(t, p, s, order)
    PROVE  Held'
<1> DEFINE pruned == Pruned(p, order, weight + Weight[t])
<1>1. pool' = Without(p, pruned) /\ spent' = remove_transaction_keyimages(s, pruned) /\ template' = Stale
  BY DEF CountAndPrune
<1> HIDE DEF pruned
<1>2. IsFunction(spent', KeyImages)
  BY <1>1, RemovedIsFunction, Zenon
<1>3. AllFull(pool')
  BY <1>1, Zenon DEF Without, AllFull
<1> QED
  BY <1>1, <1>2, <1>3, StaleIsEmpty, Zenon DEF Held

LEMMA InsertHolds ==
    ASSUME Held, NEW t, NEW meta, IsFull(meta), Insert(t, meta)
    PROVE  Held'
<1> DEFINE p == With(pool, t, meta)
           s == insert_key_images(t)
           order == sorted \cup {t}
<1>1. CountAndPrune(t, p, s, order)
  BY Zenon DEF Insert
<1>2. AllFull(p)
  BY DEF With, Held, AllFull
<1> HIDE DEF p, s, order
<1> QED
  BY <1>1, <1>2, CountHolds, Zenon

LEMMA AddCheckedHolds ==
    ASSUME Held, NEW t, NEW method, NEW used \in 0 .. MAX_BLOCKS, AddChecked(t, method, used)
    PROVE  Held'
<1> DEFINE relay == UpgradeTo(t, method)
           meta == [relay |-> relay, double_spend_seen |-> FALSE, used |-> used, failed |-> {}]
<1>1. CountAndPrune(t, pool, spent, sorted) \/ Insert(t, meta)
  BY Zenon DEF AddChecked
<1> HIDE DEF relay
<1>2. IsFull(meta)
  BY Bounds DEF IsFull
<1> HIDE DEF meta
<1>3. CASE CountAndPrune(t, pool, spent, sorted)
  <2> DEFINE p == pool
             s == spent
             order == sorted
  <2>1. CountAndPrune(t, p, s, order) /\ AllFull(p)
    BY <1>3 DEF Held
  <2> HIDE DEF p, s, order
  <2> QED
    BY <2>1, CountHolds, Zenon
<1>4. CASE Insert(t, meta)
  BY <1>2, <1>4, InsertHolds, Zenon
<1> QED
  BY <1>1, <1>3, <1>4, Zenon

LEMMA AddForBlockHolds ==
    ASSUME Held, IsChain(chain), Len(chain) <= MAX_BLOCKS, NEW t, add_tx_for_block(t)
    PROVE  Held'
<1>1. CASE AddChecked(t, "block", MaxUsed(t))
  BY <1>1, MaxUsedType, AddCheckedHolds, Zenon
<1>2. CASE AddUnchecked(t)
  <2> DEFINE seen == have_tx_keyimges_as_spent(t)
             meta == [relay |-> "block", double_spend_seen |-> seen, used |-> -1, failed |-> {}]
  <2>1. Insert(t, meta)
    BY <1>2 DEF AddUnchecked
  <2>2. seen \in BOOLEAN
    BY Zenon DEF have_tx_keyimges_as_spent
  <2> HIDE DEF seen
  <2>3. IsFull(meta)
    BY <2>2, Bounds DEF IsFull
  <2> HIDE DEF meta
  <2> QED
    BY <2>1, <2>3, InsertHolds, Zenon
<1>3. CASE template' = Stale /\ UNCHANGED <<pool, spent, sorted, weight>>
  BY <1>3, StaleIsEmpty, Zenon DEF Held
<1> QED
  BY <1>1, <1>2, <1>3, Zenon DEF add_tx_for_block

LEMMA AddNewTxHolds ==
    ASSUME Held, IsChain(chain), Len(chain) <= MAX_BLOCKS, CacheOK(cache),
           NEW t \in Txs, NEW method, add_new_tx(t, method)
    PROVE  Held' /\ CacheOK(cache')
<1>1. CASE add_tx_for_block(t)
  <2>1. cache' = cache
    BY <1>1, Zenon DEF add_tx_for_block
  <2> QED
    BY <1>1, <2>1, AddForBlockHolds, Zenon
<1>2. CASE add_tx_for_relay(t, method)
  <2>1. ASSUME Refused
        PROVE  Held'
    BY <2>1, Zenon DEF Refused, Held
  <2>2. ASSUME cache' = With(cache, t, Checked(t))
        PROVE  CacheOK(cache')
    <3>1. Checked(t).used \in 0 .. MAX_BLOCKS
      BY CheckedType
    <3> HIDE DEF Checked
    <3> QED
      BY <2>2, <3>1, Zenon DEF With, CacheOK
  <2>3. ASSUME MarkDoubleSpend(t)
        PROVE  Held'
    <3>1. /\ DOMAIN pool' = DOMAIN pool /\ spent' = spent
          /\ template' \in {template, Stale}
          /\ \A u \in DOMAIN pool : pool'[u] \in {pool[u], [pool[u] EXCEPT !.double_spend_seen = TRUE]}
      BY <2>3 DEF MarkDoubleSpend
    <3>2. \A u \in DOMAIN pool : IsFull(pool[u]) /\ IsFull([pool[u] EXCEPT !.double_spend_seen = TRUE])
      BY DEF Held, AllFull, IsFull
    <3>3. AllFull(pool')
      BY <3>1, <3>2, Zenon DEF AllFull
    <3> QED
      BY <3>1, <3>3, StaleIsEmpty, Zenon DEF Held
  <2>4. ASSUME AddChecked(t, method, Checked(t).used)
        PROVE  Held'
    BY <2>4, CheckedType, AddCheckedHolds, Zenon
  <2>5. CASE cache' = cache /\ (Refused \/ MarkDoubleSpend(t))
    BY <2>1, <2>3, <2>5, Zenon
  <2>6. CASE cache' = With(cache, t, Checked(t)) /\ (Refused \/ AddChecked(t, method, Checked(t).used))
    BY <2>1, <2>2, <2>4, <2>6, Zenon
  <2> QED
    BY <1>2, <2>5, <2>6, Zenon DEF add_tx_for_relay
<1> QED
  BY <1>1, <1>2, Zenon DEF add_new_tx

LEMMA TemplateHolds ==
    ASSUME Inv, TypeInv, NEW wanted, create_block_template(wanted)
    PROVE  Held' /\ CacheOK(cache')
<1> DEFINE checked == {t \in wanted \cap sorted : t \in DOMAIN pool /\ Mineable(t) /\ ~Skipped(t)}
           ready == {t \in checked : Checked(t).ok}
           Meta(t) == IF t \in ready THEN [pool[t] EXCEPT !.used = Checked(t).used]
                      ELSE IF t \in checked
                           THEN [pool[t] EXCEPT !.failed = {chain}, !.used = IF @ = -1 THEN -1 ELSE 0]
                           ELSE pool[t]
<1>1. /\ spent' = spent
      /\ pool' = [t \in DOMAIN pool |-> Meta(t)]
      /\ cache' = [t \in DOMAIN cache \cup checked |-> Checked(t)]
  BY Zenon DEF create_block_template
<1>2. checked \subseteq DOMAIN pool
  OBVIOUS
<1>3. \A t : Checked(t).used \in 0 .. MAX_BLOCKS
  BY CheckedType, Zenon DEF Inv, Types, TypeInv
<1>4. DOMAIN pool \subseteq Txs /\ DOMAIN cache \subseteq Txs /\ AllFull(pool) /\ IsFunction(spent, KeyImages)
  BY Zenon DEF Inv, Types, IsPool, TypeInv, CacheOK, Held
<1>5. \A t \in DOMAIN pool : IsFull(Meta(t))
  <2> SUFFICES ASSUME NEW t \in DOMAIN pool
               PROVE  IsFull(Meta(t))
    BY Zenon
  <2> DEFINE x == Checked(t).used
             top == {chain}
  <2> HIDE DEF ready, checked
  <2>1. \/ Meta(t) = pool[t]
        \/ Meta(t) = [pool[t] EXCEPT !.used = x]
        \/ Meta(t) = [pool[t] EXCEPT !.failed = top, !.used = IF @ = -1 THEN -1 ELSE 0]
    BY Zenon
  <2>2. IsFull(pool[t]) /\ x \in 0 .. MAX_BLOCKS
    BY <1>3, <1>4, Zenon DEF AllFull
  <2> HIDE DEF x, top, Meta
  <2>3. CASE Meta(t) = [pool[t] EXCEPT !.used = x]
    BY <2>2, <2>3, Bounds DEF IsFull
  <2>4. CASE Meta(t) = [pool[t] EXCEPT !.failed = top, !.used = IF @ = -1 THEN -1 ELSE 0]
    BY <2>2, <2>4, Bounds DEF IsFull
  <2> QED
    BY <2>1, <2>2, <2>3, <2>4, Zenon
<1> HIDE DEF checked, ready, Meta
<1>6. AllFull(pool')
  BY <1>1, <1>5, Zenon DEF AllFull
<1>7. CacheOK(cache')
  <2> HIDE DEF Checked
  <2> QED
    BY <1>1, <1>2, <1>3, <1>4, Zenon DEF CacheOK
<1>8. template'.txs \subseteq Txs
  BY <1>4, CreateTemplateInv, Zenon
<1> QED
  BY <1>1, <1>4, <1>6, <1>7, <1>8, Zenon DEF Held

LEMMA HandledKeepsChain ==
    ASSUME Types, HandleInBatch
    PROVE  batch'.chain = batch.chain /\ batch'.pool = batch.pool
<1> DEFINE o == batch.open  f == batch.failed  h == batch.handled  c == batch.chain  p == batch.pool
           n == h + 1
<1>1. batch = [open |-> o, failed |-> f, handled |-> h, chain |-> c, pool |-> p]
  BY DEF Types, IsBatch
<1>2. batch' = [batch EXCEPT !.handled = n]
  BY DEF HandleInBatch
<1> HIDE DEF o, f, h, c, p, n
<1>3. batch' = [open |-> o, failed |-> f, handled |-> n, chain |-> c, pool |-> p]
  BY <1>1, <1>2, Zenon
<1> QED
  BY <1>1, <1>3, Zenon

LEMMA InitTypes == Init => TypeInv
<1> SUFFICES ASSUME Init PROVE TypeInv
  OBVIOUS
<1>1. /\ DOMAIN pool = {} /\ DOMAIN batch.pool = {} /\ DOMAIN cache = {}
      /\ Len(chain) = 0 /\ Len(batch.chain) = 0 /\ timed_out = {} /\ template = Stale
  BY DEF Init, NoBatch
<1>2. IsFunction(spent, KeyImages)
  BY Zenon DEF Init, IsFunction
<1> QED
  BY <1>1, <1>2, StaleIsEmpty, Bounds DEF TypeInv, Held, AllFull, CacheOK

LEMMA NextTypes == Inv /\ TypeInv /\ [Next]_vars => TypeInv'
<1> SUFFICES ASSUME Inv, TypeInv, [Next]_vars
             PROVE  TypeInv'
  OBVIOUS
<1>0. /\ Types /\ IsPool(pool) /\ IsChain(chain) /\ Held /\ CacheOK(cache) /\ timed_out \subseteq Txs
      /\ AllFull(pool) /\ AllFull(batch.pool) /\ Len(chain) <= MAX_BLOCKS /\ Len(batch.chain) <= MAX_BLOCKS
  BY Zenon DEF Inv, Types, TypeInv, Held
<1>1. ASSUME Held', CacheOK(cache'), UNCHANGED <<chain, timed_out, batch>>
      PROVE  TypeInv'
  BY <1>0, <1>1, Zenon DEF TypeInv
<1>2. DOMAIN ClearedCache = {} /\ CacheOK(ClearedCache)
  BY DEF ClearedCache, CacheOK
<1>3. ASSUME NEW t \in Txs, NEW method \in Methods, add_new_tx(t, method)
      PROVE  TypeInv'
  <2>1. UNCHANGED <<chain, timed_out, batch>>
    BY <1>3 DEF add_new_tx
  <2> QED
    BY <1>0, <1>1, <1>3, <2>1, AddNewTxHolds, Zenon
<1>4. ASSUME NEW t \in Txs, NEW method \in {"local", "forward", "stem", "fluff"}, set_relayed(t, method)
      PROVE  TypeInv'
  <2>1. /\ UNCHANGED <<chain, timed_out, batch, cache, spent, template>>
        /\ pool' = [pool EXCEPT ![t].relay = method]
    BY <1>4 DEF set_relayed
  <2>2. \A u \in DOMAIN pool : IsFull(pool[u]) /\ IsFull([pool[u] EXCEPT !.relay = method])
    BY <1>0 DEF AllFull, IsFull
  <2>3. AllFull(pool')
    BY <2>1, <2>2, Zenon DEF AllFull
  <2>4. Held'
    BY <1>0, <2>1, <2>3, Zenon DEF Held
  <2> QED
    BY <1>0, <1>1, <2>1, <2>4, Zenon
<1>5. ASSUME NEW old \in SUBSET DOMAIN pool, remove_stuck_transactions(old)
      PROVE  TypeInv'
  <2>1. /\ UNCHANGED <<chain, cache, batch>> /\ Take(old)
        /\ timed_out' = timed_out \cup old
    BY <1>5, Zenon DEF remove_stuck_transactions
  <2>2. timed_out' \subseteq Txs
    BY <1>0, <2>1, Zenon DEF IsPool
  <2> QED
    BY <1>0, <2>1, <2>2, TakeHolds, Zenon DEF TypeInv
<1>6. ASSUME NEW t \in DOMAIN pool, flush_txes_from_pool(t)
      PROVE  TypeInv'
  <2>1. UNCHANGED <<chain, timed_out, cache, batch>> /\ Take({t})
    BY <1>6, Zenon DEF flush_txes_from_pool
  <2> QED
    BY <1>0, <1>1, <2>1, TakeHolds, Zenon
<1>7. CASE prepare_handle_incoming_blocks
  <2>1. /\ UNCHANGED <<chain, pool, spent, timed_out, cache, template>>
        /\ batch'.pool = pool /\ batch'.chain = chain
    BY <1>7, Zenon DEF prepare_handle_incoming_blocks
  <2> QED
    BY <1>0, <2>1, Zenon DEF TypeInv, Held
<1>8. ASSUME NEW id \in BlockIds, NEW txs \in BlockTxs, AddBlock(id, txs)
      PROVE  TypeInv'
  <2> DEFINE block == [id |-> id, txs |-> txs]
  <2>1. /\ Take(Range(txs)) /\ cache' = ClearedCache /\ timed_out' = timed_out
        /\ chain' = Append(chain, block) /\ Len(chain) < MAX_BLOCKS /\ HandleInBatch
    BY <1>8, Zenon DEF AddBlock
  <2> HIDE DEF block
  <2>2. Len(chain') <= MAX_BLOCKS
    <3>1. Len(chain') = Len(chain) + 1 /\ Len(chain) \in Nat
      BY <1>0, <2>1 DEF IsChain
    <3> QED
      BY <2>1, <3>1, Bounds
  <2>3. batch'.chain = batch.chain /\ batch'.pool = batch.pool
    BY <1>0, <2>1, HandledKeepsChain, Zenon
  <2>4. Held'
    BY <1>0, <2>1, TakeHolds, Zenon
  <2> QED
    BY <1>0, <1>2, <2>1, <2>2, <2>3, <2>4, Zenon DEF TypeInv
<1>9. ASSUME NEW txs \in BlockTxs, RefuseBlock(txs)
      PROVE  TypeInv'
  <2>1. Take(Range(txs)) /\ UNCHANGED <<chain, timed_out, cache>> /\ HandleInBatch
    BY <1>9, Zenon DEF RefuseBlock
  <2>2. batch'.chain = batch.chain /\ batch'.pool = batch.pool
    BY <1>0, <2>1, HandledKeepsChain, Zenon
  <2>3. Held'
    BY <1>0, <2>1, TakeHolds, Zenon
  <2> QED
    BY <1>0, <2>1, <2>2, <2>3, Zenon DEF TypeInv
<1>10. CASE PopBlock
  <2>1. /\ UNCHANGED <<pool, spent, timed_out, cache, template>> /\ HandleInBatch
        /\ chain' = SubSeq(chain, 1, Len(chain) - 1) /\ chain # << >>
    BY <1>10 DEF PopBlock
  <2>2. batch'.chain = batch.chain /\ batch'.pool = batch.pool
    BY <1>0, <2>1, HandledKeepsChain, Zenon
  <2>3. Len(chain') <= MAX_BLOCKS
    <3>1. Len(chain') = Len(chain) - 1 /\ Len(chain) \in Nat
      <4>1. Len(chain) \in Nat \ {0} /\ chain \in Seq([id : BlockIds, txs : Seq(Txs)])
        BY <1>0, <2>1 DEF IsChain
      <4> DEFINE T == [id : BlockIds, txs : Seq(Txs)]
                 n == Len(chain) - 1
      <4>2. n \in 0 .. Len(chain) /\ chain \in Seq(T) /\ chain' = SubSeq(chain, 1, n)
        BY <2>1, <4>1
      <4> HIDE DEF T, n
      <4>3. Len(SubSeq(chain, 1, n)) = n
        BY <4>2
      <4> QED
        BY <4>1, <4>2, <4>3, Zenon DEF n
    <3> QED
      BY <1>0, <3>1, Bounds
  <2> QED
    BY <1>0, <2>1, <2>2, <2>3, Zenon DEF TypeInv, Held
<1>11. CASE ReturnTx
  <2>1. add_tx_for_block(Head(job.txs)) /\ UNCHANGED <<chain, timed_out, batch>>
    BY <1>11, Zenon DEF ReturnTx
  <2>2. cache' = cache
    BY <2>1 DEF add_tx_for_block
  <2> QED
    BY <1>0, <1>1, <2>1, <2>2, AddForBlockHolds, Zenon
<1>12. CASE FinishPop
  <2>1. UNCHANGED <<chain, pool, spent, timed_out, batch>> /\ cache' = ClearedCache /\ template' = Stale
    BY <1>12, Zenon DEF FinishPop
  <2>2. Held'
    BY <1>0, <2>1, StaleIsEmpty, Zenon DEF Held
  <2> QED
    BY <1>1, <1>2, <2>1, <2>2, Zenon
<1>13. CASE CommitBatch
  <2>1. UNCHANGED <<chain, pool, spent, timed_out, cache, template>> /\ batch' = NoBatch
    BY <1>13, Zenon DEF CommitBatch
  <2>2. DOMAIN NoBatch.pool = {} /\ Len(NoBatch.chain) = 0
    BY DEF NoBatch
  <2> QED
    BY <1>0, <2>1, <2>2, Bounds DEF TypeInv, Held, AllFull
<1>14. ASSUME NEW wanted, create_block_template(wanted)
       PROVE  TypeInv'
  <2>1. UNCHANGED <<chain, timed_out, batch>>
    BY <1>14, Zenon DEF create_block_template
  <2> QED
    BY <1>1, <1>14, <2>1, TemplateHolds, Zenon
<1>15. CASE Restart
  <2>1. /\ pool' \in {pool, batch.pool} /\ chain' \in {chain, batch.chain}
        /\ timed_out' = {} /\ DOMAIN cache' = {} /\ template' = Stale /\ batch' = NoBatch
    BY <1>15 DEF Restart
  <2>2. IsFunction(spent', KeyImages)
    BY <1>15 DEF Restart, IsFunction
  <2>3. DOMAIN NoBatch.pool = {} /\ Len(NoBatch.chain) = 0
    BY DEF NoBatch
  <2>4. AllFull(pool') /\ Len(chain') <= MAX_BLOCKS
    BY <1>0, <2>1, Zenon
  <2>5. Held'
    BY <2>1, <2>2, <2>4, StaleIsEmpty, Zenon DEF Held
  <2> QED
    BY <2>1, <2>3, <2>4, <2>5, Bounds DEF TypeInv, AllFull, CacheOK
<1>16. CASE UNCHANGED vars
  BY <1>0, <1>1, <1>16 DEF vars, Held
<1> QED
  BY <1>3, <1>4, <1>5, <1>6, <1>7, <1>8, <1>9, <1>10, <1>11, <1>12, <1>13, <1>14, <1>15, <1>16 DEF Next

LEMMA TypeInvariance == Spec => []TypeInv
BY InitTypes, NextTypes, Invariance, PTL DEF Spec

\* Every variable of the pool holds a value of its kind; m_txpool_weight stays
\* between zero and its bound, and transactions go back to the pool
\* (return_tx_to_pool, pop_block_from_blockchain) inside a batch of the database only.
THEOREM PoolIsTyped == Spec => []TypeOK
<1>1. ASSUME Inv, TypeInv, WeightInv
      PROVE  TypeOK
  <2>1. /\ DOMAIN pool \subseteq Txs /\ sorted = DOMAIN pool
        /\ job.txs \in Seq(Txs) /\ (job # NoJob => batch.open)
    BY <1>1, Zenon DEF Inv, Types, IsPool, IndexesMatchPool
  <2>2. \A t \in DOMAIN pool : pool[t].relay \in Range(relay_method)
    <3>1. Relays \subseteq Range(relay_method)
      <4>1. /\ DOMAIN relay_method = 1 .. 6
            /\ relay_method[1] = "none" /\ relay_method[2] = "local" /\ relay_method[3] = "forward"
            /\ relay_method[4] = "stem" /\ relay_method[5] = "fluff" /\ relay_method[6] = "block"
        BY DEF relay_method
      <4>2. 1 \in 1 .. 6 /\ 2 \in 1 .. 6 /\ 3 \in 1 .. 6 /\ 4 \in 1 .. 6 /\ 5 \in 1 .. 6 /\ 6 \in 1 .. 6
        OBVIOUS
      <4> QED
        BY <4>1, <4>2, Zenon DEF Relays, Range
    <3> QED
      BY <1>1, <3>1 DEF Inv, Types, IsPool, IsMeta
  <2>3. \A t \in DOMAIN pool : pool[t].double_spend_seen \in BOOLEAN /\ pool[t].used \in -1 .. MAX_BLOCKS
    BY <1>1 DEF TypeInv, Held, AllFull, IsFull
  <2>4. spent \in [KeyImages -> SUBSET Txs]
    <3>1. \A k \in KeyImages : spent[k] \in SUBSET Txs
      BY <1>1, <2>1 DEF Inv, IndexesMatchPool
    <3>2. spent = [k \in KeyImages |-> spent[k]]
      BY <1>1 DEF TypeInv, Held, IsFunction
    <3> QED
      BY <3>1, <3>2
  <2>5. /\ timed_out \subseteq Txs /\ DOMAIN cache \subseteq Txs /\ template.txs \subseteq Txs
        /\ weight \in 0 .. MAX_COUNTED /\ Len(chain) <= MAX_BLOCKS
    BY <1>1 DEF TypeInv, Held, CacheOK, WeightInv, PoolWeighed
  <2> QED
    BY <2>1, <2>2, <2>3, <2>4, <2>5 DEF TypeOK
<1> QED
  BY <1>1, Invariance, TypeInvariance, WeightInvariance, PTL
=============================================================================
