----------------------------- MODULE ReplayBuffer ----------------------------
(* What a retrain of M13 learns from (learning/buffer.py): the events closed  *)
(* within the window, and a stratified sample of the historical corpus next   *)
(* to them, a quarter of their number but not below a floor.                  *)
EXTENDS Integers, FiniteSets, FiniteSetsExt, Functions

CONSTANTS
    Closing,            \* the events that may be closed while the system runs
    Strata,             \* corridor x cause x peak x planned
    StratumOf,          \* [Closing -> Strata]
    CorpusSizes,        \* the corpora: a set of functions in [Strata -> Nat]
    Floors              \* values of learning_anchor_min_records

ASSUME BufferAssumption ==
    /\ IsFiniteSet(Closing) /\ IsFiniteSet(Strata)
    /\ StratumOf \in [Closing -> Strata]
    /\ CorpusSizes \subseteq [Strata -> Nat] /\ Floors \subseteq Nat

VARIABLES
    pool,               \* [Closing -> "active", "recent" (closed in the window), "old"]
    buffer              \* BufferResult and the manifest made of it

bufferVars == <<pool, buffer>>

NoBuffer == [status |-> "none", corpus |-> [s \in Strata |-> 0], target |-> 0,
             recent |-> {}, anchor |-> [s \in Strata |-> 0], anchorCount |-> 0,
             strata |-> [s \in Strata |-> 0]]

BufferInit == pool = [e \in Closing |-> "active"] /\ buffer = NoBuffer

Total(sizes) == SumFunctionOnSet(sizes, Strata)

\* [mutant] Every stratum has one row at least.
QuotaFloored(sizes, target, s) ==
    LET share == (sizes[s] * target) \div Total(sizes)
        atLeast == IF share = 0 THEN 1 ELSE share
    IN  IF atLeast < sizes[s] THEN atLeast ELSE sizes[s]

\* A stratum's share of the target, rounded down; none of its rows is taken twice.
Quota(sizes, target, s) ==
    LET share == (sizes[s] * target) \div Total(sizes)
    IN  IF share < sizes[s] THEN share ELSE sizes[s]

Remainder(sizes, target, s) == sizes[s] * target - Quota(sizes, target, s) * Total(sizes)

\* _stratified_anchor_sample: what the shares leave goes to the largest remainders,
\* equal ones in any order.
StratifiedSamples(sizes, target) ==
    IF target >= Total(sizes) THEN {sizes}
    ELSE LET quota == [s \in Strata |-> Quota(sizes, target, s)]
             short == target - Total(quota)
             open == {s \in Strata : quota[s] < sizes[s]}
         IN  {[s \in Strata |-> quota[s] + (IF s \in extra THEN 1 ELSE 0)] : extra \in
                {extra \in SUBSET open :
                    /\ \/ Cardinality(extra) = short
                       \/ short < 0 /\ extra = {}
                       \/ short > Cardinality(open) /\ extra = open
                    /\ \A s \in extra, t \in open \ extra :
                        Remainder(sizes, target, s) >= Remainder(sizes, target, t)}}

\* round(0.25 * n): halves go to the even number.
Quarter(n) == n \div 4 + (CASE n % 4 = 3 -> 1 [] n % 4 = 2 -> (n \div 4) % 2 [] OTHER -> 0)

\* An event is closed, and leaves the window some weeks later.
CloseEvent(e) == pool[e] = "active" /\ pool' = [pool EXCEPT ![e] = "recent"] /\ UNCHANGED buffer

LeaveWindow(e) == pool[e] = "recent" /\ pool' = [pool EXCEPT ![e] = "old"] /\ UNCHANGED buffer

RecentPool == {e \in Closing : pool[e] = "recent"}

\* build_buffer and save_manifest: without a recent event the whole corpus is used.
BuildBuffer ==
    /\ buffer = NoBuffer
    /\ \E corpus \in CorpusSizes, floor \in Floors :
        LET recent == Cardinality(RecentPool)
            target == IF recent = 0 THEN Max({floor, Total(corpus)})
                      ELSE Max({floor, Quarter(recent)})
            of(s) == Cardinality({e \in RecentPool : StratumOf[e] = s})
        IN  \E sample \in StratifiedSamples(corpus, target) :
                buffer' = [status |-> IF recent = 0 THEN "anchor_only" ELSE "ready",
                           corpus |-> corpus, target |-> target,
                           recent |-> RecentPool, anchor |-> sample,
                           anchorCount |-> IF recent = 0 THEN target ELSE Total(sample),
                           strata |-> [s \in Strata |-> sample[s] + of(s)]]
    /\ UNCHANGED pool

BufferNext ==
    \/ \E e \in Closing : CloseEvent(e) \/ LeaveWindow(e)
    \/ BuildBuffer

BufferSpec == BufferInit /\ [][BufferNext]_bufferVars

------------------------------------------------------------------------------
\* The sample has exactly the rows asked for, or the whole corpus when it is smaller:
\* each stratum within one row of its share and within its own rows, and no stratum
\* more than a larger one.  The manifest's strata add up to the rows of the buffer,
\* and its anchor count is that of the rows when the corpus reaches the floor.
\* (buffer.py:109-111 "the total never overshoots target_count".)
SampleIsProportional ==
    buffer # NoBuffer =>
        LET size == buffer.corpus
            got == buffer.anchor
            all == Total(size)
            target == IF buffer.target < all THEN buffer.target ELSE all
        IN  /\ Total(got) = target
            /\ \A s \in Strata :
                /\ got[s] <= size[s]
                /\ all = 0 \/ got[s] * all - size[s] * target \in (-all + 1) .. (all - 1)
                /\ \A t \in Strata : size[s] < size[t] => got[s] <= got[t]
            /\ Total(buffer.strata) = Total(got) + Cardinality(buffer.recent)
            /\ buffer.target <= all => buffer.anchorCount = Total(got)
==============================================================================
