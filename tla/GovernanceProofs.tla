--------------------------- MODULE GovernanceProofs ---------------------------
(***************************************************************************)
(* Proofs about Governance, for every value of its constants: the type     *)
(* invariant, the agreement of the row with the transition log, and the    *)
(* wait before a recovery.                                                 *)
(***************************************************************************)
EXTENDS Governance, FiniteSetTheorems, TLAPS

------------------------------------------------------------------------------
(* Constants. *)

(* The settings are a row; what no row and no write are. *)
LEMMA Constants ==
  /\ Settings \in Row
  /\ Hysteresis \in Nat /\ Hysteresis > 0
  /\ Probe \in Writers /\ Operators \subseteq Writers
  /\ IsFiniteSet(Writers)
  /\ NoOp \in Op /\ NoRow \notin Row
<1>1. IsFiniteSet(Writers)
  BY GovernanceAssumption, FS_AddElement DEF Writers
<1>2. NoOp \in Op
  BY DEF NoOp, Op, Tiers, KeepTier, KeepShadow
<1>3. NoRow \notin Row
  BY DEF NoRow, Row, Tiers
<1>4. QED
  BY <1>1, <1>2, <1>3, GovernanceAssumption DEF Writers

(* A cycle later is still within the cycles that are counted. *)
LEMMA OlderType ==
  ASSUME NEW n \in Cycles
  PROVE  /\ Older(n) \in Cycles
         /\ n # Never => Older(n) >= 0 /\ Older(n) >= n
         /\ Older(Never) = Never
BY Constants DEF Older, Cycles, Never

LEMMA CycleValues ==
  0 \in Cycles /\ Never \in Cycles /\ Hysteresis \in Cycles
BY Constants DEF Cycles, Never

------------------------------------------------------------------------------
(* The inductive invariant. *)

(* A writer works on a row it has loaded after the start of the process, and  *)
(* it only logs what it has written.                                          *)
WriterInv ==
  \A w \in Writers :
    /\ pc[w] # "idle" => booted /\ sess[w] \in Row
    /\ pc[w] = "log" => WritesTier(w)

(* A tier that is written and not logged is with the writer that is about to  *)
(* log it, unless that writer failed.                                         *)
LogInv ==
  /\ Cardinality(AboutToLog) <= unlogged
  /\ TierWritesAreLogged

GovInv == TypeOK /\ WriterInv /\ LogInv

(* A change that Load takes is one of the tier, or one of the mode. *)
LEMMA ChangeType ==
  ASSUME TypeOK, booted
  PROVE  /\ db \in Row
         /\ \A t \in Tiers : [from |-> db.tier, tier |-> t, shadow |-> KeepShadow] \in Op
         /\ \A m \in ShadowMode : [from |-> db.tier, tier |-> KeepTier, shadow |-> m] \in Op
<1>1. db \in Row /\ db.tier \in Tiers
  BY DEF TypeOK, Row
<1>2. \A t \in Tiers : [from |-> db.tier, tier |-> t, shadow |-> KeepShadow] \in Op
  BY <1>1 DEF Op
<1>3. \A m \in ShadowMode : [from |-> db.tier, tier |-> KeepTier, shadow |-> m] \in Op
  BY <1>1 DEF Op
<1>4. QED
  BY <1>1, <1>2, <1>3

(* Loading the row keeps the types and the invariant of the writers, and is   *)
(* not the write of a tier.                                                   *)
LEMMA LoadInv ==
  ASSUME TypeOK, WriterInv, booted, booted',
         NEW w \in Writers, pc[w] = "idle", NEW change \in Op, Load(w, change)
  PROVE  /\ pc' \in [Writers -> Pcs]
         /\ sess' \in [Writers -> Row \cup {NoRow}]
         /\ op' \in [Writers -> Op]
         /\ alone' \in SUBSET Writers
         /\ WriterInv'
         /\ AboutToLog' = AboutToLog
<1>1. db \in Row
  BY DEF TypeOK
<1>2. /\ pc \in [Writers -> Pcs] /\ sess \in [Writers -> Row \cup {NoRow}]
      /\ op \in [Writers -> Op]
  BY DEF TypeOK
<1>3. /\ pc' = [pc EXCEPT ![w] = "commit"]
      /\ sess' = [sess EXCEPT ![w] = db]
      /\ op' = [op EXCEPT ![w] = change]
      /\ alone' = IF Busy = {} THEN {w} ELSE {}
  BY DEF Load
<1>4. pc' \in [Writers -> Pcs] /\ sess' \in [Writers -> Row \cup {NoRow}]
      /\ op' \in [Writers -> Op] /\ alone' \in SUBSET Writers
  BY <1>1, <1>2, <1>3 DEF Pcs
<1>5. /\ pc'[w] = "commit" /\ sess'[w] = db
      /\ \A v \in Writers : v # w => pc'[v] = pc[v] /\ sess'[v] = sess[v] /\ op'[v] = op[v]
  BY <1>2, <1>3
<1>6. WriterInv'
  BY <1>1, <1>5 DEF WriterInv, WritesTier
<1>7. AboutToLog' = AboutToLog
  BY <1>5 DEF AboutToLog, WritesTier
<1>8. QED
  BY <1>4, <1>6, <1>7

LEMMA LogSetFinite ==
  /\ IsFiniteSet(AboutToLog)
  /\ Cardinality(AboutToLog) \in Nat
<1>1. AboutToLog \in SUBSET Writers
  BY DEF AboutToLog
<1>2. IsFiniteSet(AboutToLog)
  BY <1>1, Constants, FS_Subset
<1>3. QED
  BY <1>2, FS_CardinalityType

(* Moving one writer along adds it to those about to log, or removes it. *)
LEMMA Moved ==
  ASSUME TypeOK, NEW w \in Writers, NEW l \in Pcs,
         pc' = [pc EXCEPT ![w] = l], UNCHANGED op
  PROVE  /\ pc' \in [Writers -> Pcs] /\ pc'[w] = l
         /\ \A v \in Writers : v # w => pc'[v] = pc[v]
         /\ \A v \in Writers : WritesTier(v)' <=> WritesTier(v)
         /\ AboutToLog' = IF l \in {"refresh", "log"} /\ WritesTier(w)
                          THEN AboutToLog \cup {w} ELSE AboutToLog \ {w}
<1>1. /\ pc' \in [Writers -> Pcs] /\ pc'[w] = l
      /\ \A v \in Writers : v # w => pc'[v] = pc[v]
  BY DEF TypeOK
<1>2. \A v \in Writers : WritesTier(v)' <=> WritesTier(v)
  BY DEF WritesTier
<1>3. AboutToLog' = IF l \in {"refresh", "log"} /\ WritesTier(w)
                    THEN AboutToLog \cup {w} ELSE AboutToLog \ {w}
  BY <1>1, <1>2 DEF AboutToLog
<1>4. QED
  BY <1>1, <1>2, <1>3

(* A writer that is done, or has failed, leaves nothing behind. *)
LEMMA Finished ==
  ASSUME TypeOK, WriterInv, NEW w \in Writers, Finish(w), UNCHANGED booted
  PROVE  /\ pc' \in [Writers -> Pcs]
         /\ sess' \in [Writers -> Row \cup {NoRow}]
         /\ op' \in [Writers -> Op]
         /\ WriterInv'
         /\ AboutToLog' = AboutToLog \ {w}
<1>1. /\ pc' \in [Writers -> Pcs] /\ sess' \in [Writers -> Row \cup {NoRow}]
      /\ op' \in [Writers -> Op]
  BY Constants DEF TypeOK, Finish, Pcs
<1>2. /\ pc'[w] = "idle"
      /\ \A v \in Writers : v # w => pc'[v] = pc[v] /\ sess'[v] = sess[v] /\ op'[v] = op[v]
  BY DEF TypeOK, Finish
<1>3. WriterInv'
  BY <1>2 DEF WriterInv, WritesTier
<1>4. AboutToLog' = AboutToLog \ {w}
  BY <1>2 DEF AboutToLog, WritesTier
<1>5. QED
  BY <1>1, <1>3, <1>4

(* Nothing written, nothing logged. *)
LEMMA LogKept ==
  ASSUME TypeOK, LogInv, AboutToLog' = AboutToLog, UNCHANGED unlogged,
         faults' + crashes' = 0 => faults + crashes = 0
  PROVE  LogInv'
BY DEF LogInv, TierWritesAreLogged

(* A writer that fails is one fewer about to log. *)
LEMMA LogDropped ==
  ASSUME TypeOK, LogInv, UNCHANGED unlogged,
         AboutToLog' \in SUBSET AboutToLog, faults' + crashes' # 0
  PROVE  LogInv'
<1>1. Cardinality(AboutToLog') <= Cardinality(AboutToLog)
  BY LogSetFinite, FS_Subset
<1>2. Cardinality(AboutToLog') \in Nat /\ unlogged \in Nat
  BY LogSetFinite, FS_Subset, FS_CardinalityType DEF TypeOK
<1>3. QED
  BY <1>1, <1>2, LogSetFinite DEF LogInv, TierWritesAreLogged

------------------------------------------------------------------------------
(* The steps of a writer. *)

LEMMA CommitInv ==
  ASSUME GovInv, NEW w \in Writers, Commit(w)
  PROVE  GovInv'
<1> USE DEF GovInv
<1>1. /\ booted /\ sess[w] \in Row /\ db \in Row /\ op[w] \in Op
  BY DEF Commit, WriterInv, TypeOK
<1>2. db' \in Row
  BY <1>1 DEF Commit, Row, Op
<1>3. /\ pc' = [pc EXCEPT ![w] = "refresh"] /\ UNCHANGED <<op, sess, booted>> /\ "refresh" \in Pcs
  BY DEF Commit, Pcs
<1>4. /\ pc' \in [Writers -> Pcs] /\ pc'[w] = "refresh"
      /\ \A v \in Writers : v # w => pc'[v] = pc[v]
      /\ \A v \in Writers : WritesTier(v)' <=> WritesTier(v)
      /\ AboutToLog' = IF WritesTier(w) THEN AboutToLog \cup {w} ELSE AboutToLog \ {w}
  BY <1>3, Moved
<1>5. w \notin AboutToLog
  BY DEF Commit, AboutToLog
<1>6. WriterInv'
  BY <1>1, <1>3, <1>4 DEF WriterInv
<1>7. unlogged' = (IF WritesTier(w) THEN unlogged + 1 ELSE unlogged) /\ unlogged \in Nat
  BY DEF Commit, TypeOK
<1>8. LogInv'
  <2>1. UNCHANGED <<faults, crashes>>
    BY DEF Commit, counters
  <2>2. CASE WritesTier(w)
    <3>1. Cardinality(AboutToLog') = Cardinality(AboutToLog) + 1
      BY <1>4, <1>5, <2>2, LogSetFinite, FS_AddElement
    <3>2. QED
      BY <1>7, <2>1, <2>2, <3>1, LogSetFinite DEF LogInv, TierWritesAreLogged
  <2>3. CASE ~WritesTier(w)
    BY <1>4, <1>5, <1>7, <2>1, <2>3, LogKept
  <2>4. QED
    BY <2>2, <2>3
<1>9. downFor' \in Cycles /\ unlogged' \in Nat
  BY <1>7, CycleValues DEF Commit, TypeOK
<1>10. UNCHANGED <<cache, booted, since, sess, op, beat, streak, alone, trusted, requests, faults, crashes>>
  BY DEF Commit, counters
<1>11. TypeOK'
  BY <1>1, <1>2, <1>4, <1>9, <1>10 DEF TypeOK
<1>12. QED
  BY <1>6, <1>8, <1>11

LEMMA RefreshInv ==
  ASSUME GovInv, NEW w \in Writers, Refresh(w)
  PROVE  GovInv'
<1> USE DEF GovInv
<1> DEFINE l == IF WritesTier(w) THEN "log" ELSE "cache"
<1>1. booted /\ db \in Row
  BY DEF Refresh, WriterInv, TypeOK
<1>2. /\ pc[w] = "refresh" /\ pc' = [pc EXCEPT ![w] = l] /\ sess' = [sess EXCEPT ![w] = db]
      /\ UNCHANGED <<op, booted>> /\ l \in Pcs /\ (l = "log" <=> WritesTier(w))
      /\ l \in {"log", "cache"}
  BY DEF Refresh, Pcs
<1> HIDE DEF l
<1>3. /\ pc' \in [Writers -> Pcs] /\ pc'[w] = l
      /\ \A v \in Writers : v # w => pc'[v] = pc[v]
      /\ \A v \in Writers : WritesTier(v)' <=> WritesTier(v)
      /\ AboutToLog' = IF l \in {"refresh", "log"} /\ WritesTier(w)
                       THEN AboutToLog \cup {w} ELSE AboutToLog \ {w}
  BY <1>2, Moved
<1>4. w \in AboutToLog <=> WritesTier(w)
  BY <1>2 DEF AboutToLog
<1>5. AboutToLog' = AboutToLog
  BY <1>2, <1>3, <1>4
<1>6. /\ sess' \in [Writers -> Row \cup {NoRow}] /\ sess'[w] = db
      /\ \A v \in Writers : v # w => sess'[v] = sess[v]
  BY <1>1, <1>2 DEF TypeOK
<1>7. WriterInv'
  BY <1>1, <1>2, <1>3, <1>6 DEF WriterInv
<1>8. /\ UNCHANGED <<db, cache, booted, since, op, beat, streak, downFor, unlogged, alone, trusted>>
      /\ UNCHANGED <<requests, faults, crashes>>
  BY DEF Refresh, history, counters
<1>9. LogInv'
  BY <1>5, <1>8, LogKept
<1>10. TypeOK'
  BY <1>3, <1>6, <1>8 DEF TypeOK
<1>11. QED
  BY <1>7, <1>9, <1>10

LEMMA LogStepInv ==
  ASSUME GovInv, NEW w \in Writers, Log(w)
  PROVE  GovInv'
<1> USE DEF GovInv
<1>1. /\ pc[w] = "log" /\ pc' = [pc EXCEPT ![w] = "cache"] /\ UNCHANGED <<op, sess, booted>>
      /\ "cache" \in Pcs
  BY DEF Log, Pcs
<1>2. /\ pc' \in [Writers -> Pcs] /\ pc'[w] = "cache"
      /\ \A v \in Writers : v # w => pc'[v] = pc[v]
      /\ \A v \in Writers : WritesTier(v)' <=> WritesTier(v)
      /\ AboutToLog' = AboutToLog \ {w}
  BY <1>1, Moved
<1>3. w \in AboutToLog
  BY <1>1 DEF AboutToLog, WriterInv
<1>4. Cardinality(AboutToLog') = Cardinality(AboutToLog) - 1
  BY <1>2, <1>3, LogSetFinite, FS_RemoveElement
<1>5. Cardinality(AboutToLog) # 0
  BY <1>3, LogSetFinite, FS_EmptySet
<1>6. unlogged' = unlogged - 1 /\ unlogged \in Nat
      /\ UNCHANGED <<faults, crashes>>
  BY DEF Log, TypeOK, counters
<1>7. unlogged' \in Nat
  BY <1>5, <1>6, LogSetFinite DEF LogInv
<1>8. LogInv'
  BY <1>4, <1>6, LogSetFinite DEF LogInv, TierWritesAreLogged
<1>9. WriterInv'
  BY <1>1, <1>2 DEF WriterInv
<1>10. UNCHANGED <<db, cache, booted, since, sess, op, beat, streak, downFor, alone, trusted,
                   requests, faults, crashes>>
  BY DEF Log, counters
<1>11. TypeOK'
  BY <1>2, <1>7, <1>10 DEF TypeOK
<1>12. QED
  BY <1>8, <1>9, <1>11

LEMMA WriteCacheInv ==
  ASSUME GovInv, NEW w \in Writers, WriteCache(w)
  PROVE  GovInv'
<1> USE DEF GovInv
<1>1. /\ pc[w] = "cache" /\ pc' = [pc EXCEPT ![w] = "publish"] /\ UNCHANGED <<op, sess, booted>>
      /\ "publish" \in Pcs
  BY DEF WriteCache, Pcs
<1>2. booted /\ sess[w] \in Row
  BY <1>1 DEF WriterInv
<1>3. /\ pc' \in [Writers -> Pcs] /\ pc'[w] = "publish"
      /\ \A v \in Writers : v # w => pc'[v] = pc[v]
      /\ \A v \in Writers : WritesTier(v)' <=> WritesTier(v)
      /\ AboutToLog' = AboutToLog \ {w}
  BY <1>1, Moved
<1>4. AboutToLog' = AboutToLog
  BY <1>1, <1>3 DEF AboutToLog
<1>5. WriterInv'
  BY <1>1, <1>2, <1>3 DEF WriterInv
<1>6. /\ cache' = sess[w] /\ trusted' = (w \in alone) /\ alone' = alone \ {w}
      /\ UNCHANGED <<db, booted, since, sess, op, beat, streak, downFor, unlogged>>
      /\ UNCHANGED <<requests, faults, crashes>>
  BY DEF WriteCache, counters
<1>7. LogInv'
  BY <1>4, <1>6, LogKept
<1>8. TypeOK'
  <2>1. alone' \in SUBSET Writers /\ trusted' \in BOOLEAN
    BY <1>6 DEF TypeOK
  <2>2. QED
    BY <1>2, <1>3, <1>6, <2>1 DEF TypeOK
<1>9. QED
  BY <1>5, <1>7, <1>8

LEMMA PublishInv ==
  ASSUME GovInv, NEW w \in Writers, Publish(w)
  PROVE  GovInv'
<1> USE DEF GovInv
<1>1. /\ pc[w] = "publish" /\ Finish(w) /\ UNCHANGED booted
      /\ since' = IF w = Probe THEN Never ELSE since
      /\ UNCHANGED <<db, cache, beat, streak, downFor, unlogged, alone, trusted>>
      /\ UNCHANGED <<requests, faults, crashes>>
  BY DEF Publish, history, counters
<1>2. /\ pc' \in [Writers -> Pcs]
      /\ sess' \in [Writers -> Row \cup {NoRow}]
      /\ op' \in [Writers -> Op]
      /\ WriterInv' /\ AboutToLog' = AboutToLog \ {w}
  BY <1>1, Finished
<1>3. AboutToLog' = AboutToLog
  BY <1>1, <1>2 DEF AboutToLog
<1>4. LogInv'
  BY <1>1, <1>3, LogKept
<1>5. since' \in Cycles
  BY <1>1, CycleValues DEF TypeOK
<1>6. TypeOK'
  BY <1>1, <1>2, <1>5 DEF TypeOK
<1>7. QED
  BY <1>2, <1>4, <1>6

LEMMA FaultInv ==
  ASSUME GovInv, NEW w \in Writers, Fault(w)
  PROVE  GovInv'
<1> USE DEF GovInv
<1>1. /\ Finish(w) /\ UNCHANGED booted
      /\ faults' = faults + 1
      /\ trusted' = (pc[w] = "publish" /\ trusted) /\ alone' = alone \ {w}
      /\ UNCHANGED <<db, cache, since, beat, streak, downFor, unlogged, requests, crashes>>
  BY DEF Fault
<1>2. /\ pc' \in [Writers -> Pcs]
      /\ sess' \in [Writers -> Row \cup {NoRow}]
      /\ op' \in [Writers -> Op]
      /\ WriterInv' /\ AboutToLog' = AboutToLog \ {w}
  BY <1>1, Finished
<1>3. faults' + crashes' # 0 /\ faults' \in Nat
  BY <1>1 DEF TypeOK
<1>4. LogInv'
  BY <1>1, <1>2, <1>3, LogDropped
<1>5. alone' \in SUBSET Writers /\ trusted' \in BOOLEAN
  BY <1>1 DEF TypeOK
<1>6. TypeOK'
  BY <1>1, <1>2, <1>3, <1>5 DEF TypeOK
<1>7. QED
  BY <1>2, <1>4, <1>6

------------------------------------------------------------------------------
(* The steps of the operators and of the loop. *)

LEMMA RequestInv ==
  ASSUME GovInv, NEW o \in Operators, Request(o), NEW change \in Op, Load(o, change)
  PROVE  GovInv'
<1> USE DEF GovInv
<1>1. /\ booted /\ o \in Writers /\ pc[o] = "idle" /\ requests' = requests + 1
      /\ UNCHANGED <<db, cache, booted, since, beat, streak, downFor, unlogged,
                     trusted, faults, crashes>>
  BY Constants DEF Request
<1>2. /\ pc' \in [Writers -> Pcs]
      /\ sess' \in [Writers -> Row \cup {NoRow}]
      /\ op' \in [Writers -> Op]
      /\ alone' \in SUBSET Writers
      /\ WriterInv'
      /\ AboutToLog' = AboutToLog
  BY <1>1, LoadInv
<1>3. LogInv'
  BY <1>1, <1>2, LogKept
<1>4. TypeOK'
  BY <1>1, <1>2 DEF TypeOK
<1>5. QED
  BY <1>2, <1>3, <1>4

LEMMA OperatorInv ==
  ASSUME GovInv, NEW o \in Operators,
         (\E t \in Tiers : OverrideTier(o, t)) \/ (\E m \in ShadowMode : SetShadowMode(o, m))
  PROVE  GovInv'
<1>1. booted
  BY DEF OverrideTier, SetShadowMode, Request
<1>2. Request(o) /\ \E change \in Op : Load(o, change)
  BY <1>1, ChangeType DEF GovInv, OverrideTier, SetShadowMode
<1>3. QED
  BY <1>2, RequestInv

(* A cycle of the loop leaves the writers alone, or loads the row for one     *)
(* write of its own.                                                          *)
LEMMA CycleInv ==
  ASSUME GovInv, NEW h \in Health, Cycle(h), since' \in Cycles,
         Sleep \/ \E t \in Tiers : AutoWrite(t)
  PROVE  GovInv'
<1> USE DEF GovInv
<1>1. /\ booted /\ pc[Probe] = "idle" /\ beat' = ~beat /\ downFor' = Older(downFor)
      /\ streak' \in {Never, 0, Older(streak)}
      /\ UNCHANGED <<db, cache, booted, unlogged, trusted, requests, faults, crashes>>
  BY DEF Cycle, counters
<1>2. downFor' \in Cycles /\ streak' \in Cycles /\ beat' \in BOOLEAN
  BY <1>1, OlderType, CycleValues DEF TypeOK
<1>3. /\ pc' \in [Writers -> Pcs]
      /\ sess' \in [Writers -> Row \cup {NoRow}]
      /\ op' \in [Writers -> Op]
      /\ alone' \in SUBSET Writers
      /\ WriterInv'
      /\ AboutToLog' = AboutToLog
  <2>1. CASE Sleep
    <3>1. UNCHANGED <<pc, sess, op, alone, booted>>
      BY <1>1, <2>1 DEF Sleep
    <3>2. QED
      BY <3>1 DEF TypeOK, WriterInv, AboutToLog, WritesTier
  <2>2. CASE \E t \in Tiers : AutoWrite(t)
    <3>1. \E change \in Op : Load(Probe, change)
      BY <1>1, <2>2, ChangeType DEF AutoWrite
    <3>2. QED
      BY <1>1, <3>1, Constants, LoadInv
  <2>3. QED
    BY <2>1, <2>2
<1>4. LogInv'
  BY <1>1, <1>3, LogKept
<1>5. TypeOK'
  BY <1>1, <1>2, <1>3 DEF TypeOK
<1>6. QED
  BY <1>3, <1>4, <1>5

LEMMA EvaluateInv ==
  ASSUME GovInv, EvaluateAutoTransition
  PROVE  GovInv'
<1>1. PICK h \in Health :
        Downgrade(h) \/ StayDown(h) \/ WaitForRecovery(h) \/ Recover(h) \/ StayUp(h)
  BY DEF EvaluateAutoTransition
<1>2. Cycle(h) /\ (Sleep \/ \E t \in Tiers : AutoWrite(t))
  <2>1. Target(h) \in Tiers /\ 1 \in Tiers
    BY DEF Target, NoTarget, Tiers
  <2>2. QED
    BY <1>1, <2>1 DEF Downgrade, StayDown, WaitForRecovery, Recover, StayUp
<1>3. since' \in Cycles
  <2>1. since \in Cycles /\ Older(since) \in Cycles
    BY OlderType DEF GovInv, TypeOK
  <2>2. QED
    BY <1>1, <2>1, CycleValues DEF Downgrade, StayDown, WaitForRecovery, Recover, StayUp
<1>4. QED
  BY <1>2, <1>3, CycleInv

LEMMA CycleFailsInv ==
  ASSUME GovInv, CycleFails
  PROVE  GovInv'
<1> USE DEF GovInv
<1>1. /\ faults' = faults + 1 /\ since' = Older(since) /\ streak' = Never
      /\ downFor' = Older(downFor)
      /\ UNCHANGED <<db, cache, booted, pc, sess, op, beat, unlogged, alone,
                     trusted, requests, crashes>>
  BY DEF CycleFails
<1>2. since' \in Cycles /\ downFor' \in Cycles /\ streak' \in Cycles
  BY <1>1, OlderType, CycleValues DEF TypeOK
<1>3. AboutToLog' = AboutToLog /\ WriterInv'
  BY <1>1 DEF AboutToLog, WritesTier, WriterInv
<1>4. faults' + crashes' # 0 /\ faults' \in Nat
  BY <1>1 DEF TypeOK
<1>5. LogInv'
  BY <1>1, <1>3, <1>4, LogDropped
<1>6. TypeOK'
  BY <1>1, <1>2, <1>4 DEF TypeOK
<1>7. QED
  BY <1>3, <1>5, <1>6

------------------------------------------------------------------------------
(* The process. *)

LEMMA BootstrapInv ==
  ASSUME GovInv, Bootstrap
  PROVE  GovInv'
<1> USE DEF GovInv
<1>1. /\ ~booted /\ booted' /\ booted' \in BOOLEAN /\ db' \in Row /\ cache' = db' /\ trusted'
      /\ trusted' \in BOOLEAN
      /\ UNCHANGED <<since, pc, sess, op, beat, streak, downFor, unlogged, alone>>
      /\ UNCHANGED <<requests, faults, crashes>>
  BY Constants DEF Bootstrap, counters, TypeOK
<1>2. WriterInv' /\ AboutToLog' = AboutToLog
  BY <1>1 DEF WriterInv, AboutToLog, WritesTier
<1>3. LogInv'
  BY <1>1, <1>2, LogKept
<1>4. TypeOK'
  BY <1>1 DEF TypeOK
<1>5. QED
  BY <1>2, <1>3, <1>4

LEMMA CrashInv ==
  ASSUME GovInv, Crash
  PROVE  GovInv'
<1> USE DEF GovInv
<1>1. /\ crashes' = crashes + 1 /\ booted' = FALSE /\ since' = Never /\ streak' = Never
      /\ pc' = [w \in Writers |-> "idle"]
      /\ sess' = [w \in Writers |-> NoRow]
      /\ op' = [w \in Writers |-> NoOp]
      /\ alone' = {}
      /\ UNCHANGED <<db, cache, beat, downFor, unlogged, trusted, requests, faults>>
  BY DEF Crash
<1>2. AboutToLog' = {} /\ WriterInv'
  BY <1>1 DEF AboutToLog, WriterInv
<1>3. faults' + crashes' # 0 /\ crashes' \in Nat
  BY <1>1 DEF TypeOK
<1>4. LogInv'
  BY <1>1, <1>2, <1>3, LogDropped
<1>5. /\ pc' \in [Writers -> Pcs] /\ sess' \in [Writers -> Row \cup {NoRow}]
      /\ op' \in [Writers -> Op]
  BY <1>1, Constants DEF Pcs
<1>6. TypeOK'
  BY <1>1, <1>3, <1>5, CycleValues DEF TypeOK
<1>7. QED
  BY <1>2, <1>4, <1>6

LEMMA InitGov ==
  ASSUME Init
  PROVE  GovInv
<1>1. AboutToLog = {} /\ WriterInv
  BY DEF Init, AboutToLog, WriterInv
<1>2. LogInv
  BY <1>1, FS_EmptySet DEF Init, LogInv, TierWritesAreLogged
<1>3. /\ pc \in [Writers -> Pcs] /\ sess \in [Writers -> Row \cup {NoRow}]
      /\ op \in [Writers -> Op]
  BY Constants DEF Init, Pcs
<1>4. cache \in Row
  BY DEF Init, Row, Tiers, ShadowMode
<1>5. TypeOK
  BY <1>3, <1>4, CycleValues DEF Init, TypeOK
<1>6. QED
  BY <1>1, <1>2, <1>5 DEF GovInv

LEMMA GovInvStep ==
  ASSUME GovInv, [Next]_vars
  PROVE  GovInv'
<1>1. CASE (\E o \in Operators, t \in Tiers : OverrideTier(o, t))
           \/ (\E o \in Operators, m \in ShadowMode : SetShadowMode(o, m))
  BY <1>1, OperatorInv
<1>2. CASE EvaluateAutoTransition \/ CycleFails
  BY <1>2, EvaluateInv, CycleFailsInv
<1>3. CASE \E w \in Writers : WriterStep(w) \/ Fault(w)
  BY <1>3, CommitInv, RefreshInv, LogStepInv, WriteCacheInv, PublishInv, FaultInv DEF WriterStep
<1>4. CASE Bootstrap \/ Crash
  BY <1>4, BootstrapInv, CrashInv
<1>5. CASE UNCHANGED vars
  <2>1. /\ UNCHANGED <<db, cache, booted, since, pc, sess, op, beat, streak, downFor, unlogged>>
        /\ UNCHANGED <<alone, trusted, requests, faults, crashes>>
    BY <1>5 DEF vars, history, counters
  <2>2. AboutToLog' = AboutToLog /\ WriterInv'
    BY <2>1 DEF GovInv, AboutToLog, WriterInv, WritesTier
  <2>3. TypeOK'
    BY <2>1 DEF GovInv, TypeOK
  <2>4. QED
    BY <2>1, <2>2, <2>3, LogKept DEF GovInv
<1>6. QED
  BY <1>1, <1>2, <1>3, <1>4, <1>5 DEF Next

(* Every variable has its type in every reachable state; in particular no     *)
(* more transitions are logged than tiers were written.                       *)
THEOREM GovernanceTypes == Spec => []TypeOK
<1>1. Init => GovInv
  BY InitGov
<1>2. GovInv /\ [Next]_vars => GovInv'
  BY GovInvStep
<1>3. GovInv => TypeOK
  BY DEF GovInv
<1>4. QED
  BY <1>1, <1>2, <1>3, PTL DEF Spec

(* As long as nothing fails and the process lives, every tier written to the  *)
(* row is in the transition log or with the writer that is about to log it,   *)
(* for any number of operators and however they and the loop interleave       *)
(* (service.py:166-174, 264-267, 279-285).                                    *)
THEOREM TierWritesLogged == Spec => []TierWritesAreLogged
<1>1. Init => GovInv
  BY InitGov
<1>2. GovInv /\ [Next]_vars => GovInv'
  BY GovInvStep
<1>3. GovInv => TierWritesAreLogged
  BY DEF GovInv, LogInv
<1>4. QED
  BY <1>1, <1>2, <1>3, PTL DEF Spec

------------------------------------------------------------------------------
(* The wait before a recovery. *)

(* The recovery timer never runs for longer than the time since the last      *)
(* automatic downgrade, since the downgrade resets it; but it does so only at *)
(* the end of its write, which must not fail.                                 *)
TimerInv ==
  faults = 0 /\ pc[Probe] = "idle" => downFor = Never \/ since <= downFor

WaitInv == TimerInv /\ RecoveryWaitsAfterDowngrade

(* Counting one more cycle keeps the order. *)
LEMMA OlderMonotonic ==
  ASSUME NEW m \in Cycles, NEW n \in Cycles, m <= n
  PROVE  Older(m) <= Older(n)
BY Constants DEF Older, Cycles, Never

LEMMA WaitKept ==
  ASSUME GovInv, WaitInv, UNCHANGED <<since, downFor, faults>>,
         pc'[Probe] = "idle" => pc[Probe] = "idle",
         pc'[Probe] # "idle" => pc[Probe] # "idle" /\ op'[Probe] = op[Probe]
  PROVE  WaitInv'
BY DEF WaitInv, TimerInv, RecoveryWaitsAfterDowngrade

LEMMA WaitFailed ==
  ASSUME GovInv, faults' = faults + 1
  PROVE  WaitInv'
<1>1. faults' # 0
  BY DEF GovInv, TypeOK
<1>2. QED
  BY <1>1 DEF WaitInv, TimerInv, RecoveryWaitsAfterDowngrade

(* No other writer touches the timer. *)
LEMMA OthersWait ==
  ASSUME GovInv, WaitInv, NEW w \in Writers, w # Probe,
         WriterStep(w) \/ (\E change \in Op : Request(w) /\ Load(w, change))
  PROVE  WaitInv'
<1>1. UNCHANGED <<since, downFor, faults>>
  BY DEF WriterStep, Commit, Refresh, Log, WriteCache, Publish, Request, history, counters
<1>2. pc'[Probe] = pc[Probe] /\ op'[Probe] = op[Probe]
  BY Constants
  DEF WriterStep, Commit, Refresh, Log, WriteCache, Publish, Finish, Load, GovInv, TypeOK
<1>3. QED
  BY <1>1, <1>2, WaitKept

(* The loop's own write: a downgrade is not a recovery, and its end resets    *)
(* the timer.                                                                 *)
LEMMA ProbeWrites ==
  ASSUME GovInv, WaitInv, WriterStep(Probe)
  PROVE  WaitInv'
<1>1. CASE Commit(Probe)
  <2>1. /\ pc[Probe] = "commit" /\ pc'[Probe] = "refresh" /\ op'[Probe] = op[Probe]
        /\ faults' = faults
        /\ op[Probe].tier = 1 => downFor' = downFor
    BY <1>1, Constants DEF Commit, GovInv, TypeOK, counters
  <2>2. QED
    BY <2>1 DEF WaitInv, TimerInv, RecoveryWaitsAfterDowngrade
<1>2. CASE Refresh(Probe) \/ Log(Probe) \/ WriteCache(Probe)
  <2>1. /\ UNCHANGED <<since, downFor, faults>>
        /\ pc[Probe] # "idle" /\ pc'[Probe] # "idle" /\ op'[Probe] = op[Probe]
    BY <1>2, Constants DEF Refresh, Log, WriteCache, GovInv, TypeOK, history, counters
  <2>2. QED
    BY <2>1, WaitKept
<1>3. CASE Publish(Probe)
  <2>1. since' = Never /\ pc'[Probe] = "idle" /\ UNCHANGED downFor /\ downFor \in Cycles
    BY <1>3, Constants DEF Publish, Finish, GovInv, TypeOK, history
  <2>2. QED
    BY <2>1, Constants DEF WaitInv, TimerInv, RecoveryWaitsAfterDowngrade, Cycles, Never
<1>4. QED
  BY <1>1, <1>2, <1>3 DEF WriterStep

LEMMA EvaluateWait ==
  ASSUME GovInv, WaitInv, EvaluateAutoTransition
  PROVE  WaitInv'
<1>1. PICK h \in Health :
        Downgrade(h) \/ StayDown(h) \/ WaitForRecovery(h) \/ Recover(h) \/ StayUp(h)
  BY DEF EvaluateAutoTransition
<1>2. /\ pc[Probe] = "idle" /\ downFor' = Older(downFor) /\ faults' = faults
      /\ since \in Cycles /\ downFor \in Cycles
      /\ pc \in [Writers -> Pcs] /\ op \in [Writers -> Op]
  BY <1>1 DEF Downgrade, StayDown, WaitForRecovery, Recover, StayUp, Cycle, counters,
              GovInv, TypeOK
<1>3. faults = 0 => downFor = Never \/ since <= downFor
  BY <1>2 DEF WaitInv, TimerInv
<1>4. faults = 0 => downFor' = Never \/ (Older(since) <= downFor' /\ 0 <= downFor')
  BY <1>2, <1>3, OlderMonotonic, OlderType
<1>5. CASE StayDown(h) \/ WaitForRecovery(h) \/ StayUp(h)
  <2>1. pc'[Probe] = "idle" /\ since' \in {Older(since), 0, Never}
    BY <1>2, <1>5 DEF StayDown, WaitForRecovery, StayUp, Sleep
  <2>2. downFor' = Never \/ Never <= downFor'
    BY <1>2, OlderType, Constants DEF Cycles, Never
  <2>3. QED
    BY <1>2, <1>4, <2>1, <2>2 DEF WaitInv, TimerInv, RecoveryWaitsAfterDowngrade
<1>6. CASE Downgrade(h)
  <2>1. pc'[Probe] = "commit" /\ op'[Probe].tier = Target(h) /\ Target(h) # 1
    BY <1>2, <1>6, Constants DEF Downgrade, AutoWrite, Load, NoTarget
  <2>2. QED
    BY <2>1 DEF WaitInv, TimerInv, RecoveryWaitsAfterDowngrade
<1>7. CASE Recover(h)
  <2>1. pc'[Probe] = "commit" /\ Older(since) = Hysteresis
    BY <1>2, <1>7, Constants DEF Recover, AutoWrite, Load
  <2>2. downFor' \in Cycles
    BY <1>2, OlderType
  <2>3. faults = 0 => downFor' \in {Never, Hysteresis}
    BY <1>4, <2>1, <2>2, Constants DEF Cycles, Never
  <2>4. QED
    BY <1>2, <2>1, <2>3 DEF WaitInv, TimerInv, RecoveryWaitsAfterDowngrade
<1>8. QED
  BY <1>1, <1>5, <1>6, <1>7

LEMMA WaitStep ==
  ASSUME GovInv, WaitInv, [Next]_vars
  PROVE  WaitInv'
<1>1. ASSUME NEW o \in Operators,
             (\E t \in Tiers : OverrideTier(o, t)) \/ (\E m \in ShadowMode : SetShadowMode(o, m))
      PROVE  WaitInv'
  <2>1. booted
    BY <1>1 DEF OverrideTier, SetShadowMode, Request
  <2>2. o \in Writers /\ o # Probe /\ \E change \in Op : Request(o) /\ Load(o, change)
    BY <1>1, <2>1, ChangeType, Constants, GovernanceAssumption
    DEF OverrideTier, SetShadowMode, GovInv
  <2>3. QED
    BY <2>2, OthersWait
<1>2. CASE EvaluateAutoTransition
  BY <1>2, EvaluateWait
<1>3. CASE CycleFails \/ \E w \in Writers : Fault(w)
  BY <1>3, WaitFailed DEF CycleFails, Fault
<1>4. CASE \E w \in Writers : WriterStep(w)
  BY <1>4, OthersWait, ProbeWrites
<1>5. CASE Bootstrap
  <2>1. UNCHANGED <<since, downFor, faults, pc, op>>
    BY <1>5 DEF Bootstrap, counters
  <2>2. QED
    BY <2>1, WaitKept
<1>6. CASE Crash
  <2>1. since' = Never /\ pc'[Probe] = "idle" /\ downFor' \in Cycles
    BY <1>6, Constants DEF Crash, GovInv, TypeOK
  <2>2. QED
    BY <2>1, Constants DEF WaitInv, TimerInv, RecoveryWaitsAfterDowngrade, Cycles, Never
<1>7. CASE UNCHANGED vars
  <2>1. UNCHANGED <<since, downFor, faults, pc, op>>
    BY <1>7 DEF vars, history, counters
  <2>2. QED
    BY <2>1, WaitKept
<1>8. QED
  BY <1>1, <1>2, <1>3, <1>4, <1>5, <1>6, <1>7 DEF Next

(* While the loop is recovering, the last automatic downgrade is at least the *)
(* hysteresis ago, whatever operators and restarts did in between, as long as *)
(* no database operation and no publish failed (service.py:262-289).          *)
THEOREM RecoveryWaits == Spec => []RecoveryWaitsAfterDowngrade
<1>1. Init => GovInv /\ WaitInv
  <2>1. Init => WaitInv
    BY Constants DEF Init, WaitInv, TimerInv, RecoveryWaitsAfterDowngrade
  <2>2. QED
    BY <2>1, InitGov
<1>2. GovInv /\ WaitInv /\ [Next]_vars => (GovInv /\ WaitInv)'
  BY GovInvStep, WaitStep
<1>3. WaitInv => RecoveryWaitsAfterDowngrade
  BY DEF WaitInv
<1>4. QED
  BY <1>1, <1>2, <1>3, PTL DEF Spec

------------------------------------------------------------------------------
(* The cache and the row. *)

(* A writer that has run alone so far holds, once it has reloaded it, the row *)
(* as it is in the database: nobody else can have changed it.                 *)
AloneInv ==
  \A w \in alone :
    /\ Busy = {w}
    /\ pc[w] \in {"log", "cache"} => sess[w] = db

MirrorInv == AloneInv /\ CacheMirrorsSolitaryWrite

(* Who is busy after one writer has moved. *)
LEMMA BusyMoved ==
  ASSUME TypeOK, NEW w \in Writers, NEW l \in Pcs, pc' = [pc EXCEPT ![w] = l]
  PROVE  Busy' = IF l \in {"idle", "publish"} THEN Busy \ {w} ELSE Busy \cup {w}
<1>1. pc'[w] = l /\ \A v \in Writers : v # w => pc'[v] = pc[v]
  BY DEF TypeOK
<1>2. QED
  BY <1>1 DEF Busy

LEMMA MirrorKept ==
  ASSUME MirrorInv, UNCHANGED <<db, cache, booted, pc, sess, alone, trusted>>
  PROVE  MirrorInv'
BY DEF MirrorInv, AloneInv, Busy, CacheMirrorsSolitaryWrite, GetGovernance

(* While somebody is busy nothing is said of the cache. *)
LEMMA LoadMirror ==
  ASSUME TypeOK, MirrorInv, NEW w \in Writers, NEW change, Load(w, change)
  PROVE  MirrorInv'
<1>1. /\ pc' = [pc EXCEPT ![w] = "commit"] /\ "commit" \in Pcs
      /\ alone' = IF Busy = {} THEN {w} ELSE {}
  BY DEF Load, Pcs
<1>2. Busy' = Busy \cup {w}
  BY <1>1, BusyMoved
<1>3. pc'[w] = "commit"
  BY <1>1 DEF TypeOK
<1>4. AloneInv'
  BY <1>1, <1>2, <1>3 DEF AloneInv
<1>5. QED
  BY <1>2, <1>4 DEF MirrorInv, CacheMirrorsSolitaryWrite

LEMMA WriterMirror ==
  ASSUME TypeOK, MirrorInv, NEW w \in Writers, WriterStep(w) \/ Fault(w)
  PROVE  MirrorInv'
<1>a. \A v \in alone : w # v => w \notin Busy
  BY DEF MirrorInv, AloneInv
<1>b. alone \in SUBSET Writers
  BY DEF TypeOK
<1>1. CASE Commit(w)
  <2>1. /\ pc[w] = "commit" /\ pc' = [pc EXCEPT ![w] = "refresh"] /\ "refresh" \in Pcs
        /\ UNCHANGED alone
    BY <1>1 DEF Commit, Pcs
  <2>2. w \in Busy /\ Busy' = Busy /\ pc'[w] = "refresh"
    BY <2>1, BusyMoved DEF Busy, TypeOK
  <2>3. AloneInv'
    BY <1>a, <2>1, <2>2 DEF MirrorInv, AloneInv
  <2>4. QED
    BY <2>2, <2>3 DEF MirrorInv, CacheMirrorsSolitaryWrite
<1>2. CASE Refresh(w)
  <2> DEFINE l == IF WritesTier(w) THEN "log" ELSE "cache"
  <2>1. /\ pc[w] = "refresh" /\ pc' = [pc EXCEPT ![w] = l] /\ l \in Pcs \ {"idle", "publish"}
        /\ sess' = [sess EXCEPT ![w] = db]
        /\ UNCHANGED <<alone, db>>
    BY <1>2 DEF Refresh, Pcs, history
  <2> HIDE DEF l
  <2>2. w \in Busy /\ Busy' = Busy /\ sess'[w] = db
    BY <2>1, BusyMoved DEF Busy, TypeOK
  <2>3. AloneInv'
    BY <1>a, <2>1, <2>2 DEF MirrorInv, AloneInv
  <2>4. QED
    BY <2>2, <2>3 DEF MirrorInv, CacheMirrorsSolitaryWrite
<1>3. CASE Log(w)
  <2>1. /\ pc[w] = "log" /\ pc' = [pc EXCEPT ![w] = "cache"] /\ "cache" \in Pcs
        /\ UNCHANGED <<alone, db, sess>>
    BY <1>3 DEF Log, Pcs
  <2>2. w \in Busy /\ Busy' = Busy
    BY <2>1, BusyMoved DEF Busy
  <2>3. AloneInv'
    BY <1>a, <2>1, <2>2 DEF MirrorInv, AloneInv
  <2>4. QED
    BY <2>2, <2>3 DEF MirrorInv, CacheMirrorsSolitaryWrite
<1>4. CASE WriteCache(w)
  <2>1. /\ pc[w] = "cache" /\ pc' = [pc EXCEPT ![w] = "publish"] /\ "publish" \in Pcs
        /\ cache' = sess[w] /\ trusted' = (w \in alone) /\ alone' = alone \ {w}
        /\ UNCHANGED <<db, booted, sess>>
    BY <1>4 DEF WriteCache, Pcs
  <2>2. w \in Busy /\ Busy' = Busy \ {w}
    BY <2>1, BusyMoved DEF Busy
  <2>3. w \in alone => cache' = db'
    BY <2>1 DEF MirrorInv, AloneInv
  <2>4. alone' = {}
    BY <1>a, <2>1, <2>2
  <2>5. QED
    BY <2>1, <2>3, <2>4 DEF MirrorInv, AloneInv, CacheMirrorsSolitaryWrite, GetGovernance
<1>5. CASE Publish(w)
  <2>1. /\ pc[w] = "publish" /\ pc' = [pc EXCEPT ![w] = "idle"] /\ "idle" \in Pcs
        /\ sess' = [sess EXCEPT ![w] = NoRow]
        /\ UNCHANGED <<alone, db, cache, booted, trusted>>
    BY <1>5 DEF Publish, Finish, Pcs, history
  <2>2. w \notin Busy /\ Busy' = Busy
    BY <2>1, BusyMoved DEF Busy
  <2>3. \A v \in Writers : v # w => pc'[v] = pc[v] /\ sess'[v] = sess[v]
    BY <2>1 DEF TypeOK
  <2>4. w \notin alone
    BY <2>2 DEF MirrorInv, AloneInv
  <2>5. AloneInv'
    BY <1>b, <2>1, <2>2, <2>3, <2>4 DEF MirrorInv, AloneInv
  <2>6. QED
    BY <2>1, <2>2, <2>5 DEF MirrorInv, CacheMirrorsSolitaryWrite, GetGovernance
<1>6. CASE Fault(w)
  <2>1. /\ pc' = [pc EXCEPT ![w] = "idle"] /\ "idle" \in Pcs
        /\ sess' = [sess EXCEPT ![w] = NoRow]
        /\ trusted' = (pc[w] = "publish" /\ trusted) /\ alone' = alone \ {w}
        /\ UNCHANGED <<db, cache, booted>>
    BY <1>6 DEF Fault, Finish, Pcs
  <2>2. Busy' = Busy \ {w}
    BY <2>1, BusyMoved
  <2>3. \A v \in Writers : v # w => pc'[v] = pc[v] /\ sess'[v] = sess[v]
    BY <2>1 DEF TypeOK
  <2>4. AloneInv'
    BY <1>a, <1>b, <2>1, <2>2, <2>3 DEF MirrorInv, AloneInv
  <2>5. pc[w] = "publish" => Busy' = Busy
    BY <2>2 DEF Busy
  <2>6. QED
    BY <2>1, <2>4, <2>5 DEF MirrorInv, CacheMirrorsSolitaryWrite, GetGovernance
<1>7. QED
  BY <1>1, <1>2, <1>3, <1>4, <1>5, <1>6 DEF WriterStep

LEMMA MirrorStep ==
  ASSUME GovInv, MirrorInv, [Next]_vars
  PROVE  MirrorInv'
<1>0. TypeOK
  BY DEF GovInv
<1>1. CASE (\E o \in Operators, t \in Tiers : OverrideTier(o, t))
           \/ (\E o \in Operators, m \in ShadowMode : SetShadowMode(o, m))
  <2>1. \E w \in Writers : \E change : Load(w, change)
    BY <1>1, Constants DEF OverrideTier, SetShadowMode
  <2>2. QED
    BY <1>0, <2>1, LoadMirror
<1>2. CASE EvaluateAutoTransition
  <2>1. UNCHANGED <<db, cache, booted, trusted>>
    BY <1>2 DEF EvaluateAutoTransition, Downgrade, StayDown, WaitForRecovery, Recover, StayUp, Cycle
  <2>2. UNCHANGED <<pc, sess, alone>> \/ \E change : Load(Probe, change)
    BY <1>2 DEF EvaluateAutoTransition, Downgrade, StayDown, WaitForRecovery, Recover, StayUp,
                Sleep, AutoWrite
  <2>3. QED
    BY <1>0, <2>1, <2>2, Constants, LoadMirror, MirrorKept
<1>3. CASE CycleFails \/ UNCHANGED vars
  BY <1>3, MirrorKept DEF CycleFails, vars, history
<1>4. CASE \E w \in Writers : WriterStep(w) \/ Fault(w)
  BY <1>0, <1>4, WriterMirror
<1>5. CASE Bootstrap
  <2>1. /\ ~booted /\ booted' = TRUE /\ cache' = db' /\ UNCHANGED <<pc, sess, alone>>
    BY <1>5 DEF Bootstrap
  <2>2. alone = {}
    <3>1. Busy = {}
      BY <2>1 DEF GovInv, WriterInv, Busy
    <3>2. QED
      BY <3>1 DEF MirrorInv, AloneInv
  <2>3. QED
    BY <2>1, <2>2 DEF MirrorInv, AloneInv, CacheMirrorsSolitaryWrite, GetGovernance
<1>6. CASE Crash
  <2>1. booted' = FALSE /\ alone' = {}
    BY <1>6 DEF Crash
  <2>2. QED
    BY <2>1 DEF MirrorInv, AloneInv, CacheMirrorsSolitaryWrite
<1>7. QED
  BY <1>1, <1>2, <1>3, <1>4, <1>5, <1>6 DEF Next

(* When nobody is writing, and the last one who did was not overlapped, what  *)
(* get_governance() answers without asking the database is what is in the     *)
(* database; also after a restart and after a publish that failed             *)
(* (service.py:93-102, 166-183, 264-269).                                     *)
THEOREM CacheMirrors == Spec => []CacheMirrorsSolitaryWrite
<1>1. Init => GovInv /\ MirrorInv
  <2>1. Init => MirrorInv
    BY DEF Init, MirrorInv, AloneInv, CacheMirrorsSolitaryWrite
  <2>2. QED
    BY <2>1, InitGov
<1>2. GovInv /\ MirrorInv /\ [Next]_vars => (GovInv /\ MirrorInv)'
  BY GovInvStep, MirrorStep
<1>3. MirrorInv => CacheMirrorsSolitaryWrite
  BY DEF MirrorInv
<1>4. QED
  BY <1>1, <1>2, <1>3, PTL DEF Spec

==============================================================================
