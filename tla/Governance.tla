------------------------------ MODULE Governance ------------------------------
(***************************************************************************)
(* M14, the GovernanceConsole: governance/service.py and repository.py,    *)
(* the read in recommendations/governance.py and the probe loop in main.py.*)
(*                                                                         *)
(* The governance_state row of the database holds the tier and the shadow  *)
(* mode.  Every hot path reads a copy of it in memory instead, without     *)
(* touching the database.  Operators write the row through requests, and a *)
(* loop writes it when its probes ask for another tier.  Each writer works *)
(* through a database session of its own: it loads the row, commits the    *)
(* columns it changed, reloads the row, logs the transition then copies    *)
(* what it loaded to the cache and tells the dashboards; other writers run *)
(* in between.                                                             *)
(*                                                                         *)
(* Time is counted in probe cycles (30 s).                                 *)
(***************************************************************************)
EXTENDS Integers, FiniteSets

CONSTANTS
  Operators,      \* concurrent administrative requests
  Probe,          \* the m14-governance-probe task
  Settings,       \* settings.governance_tier and governance_shadow_mode
  Hysteresis,     \* RECOVERY_HYSTERESIS_SECONDS, in cycles (10 in the code)
  MaxRequests,    \* bound: operators' requests
  MaxFaults,      \* bound: database operations and publishes that raise
  MaxCrashes      \* bound: restarts of the process

Tiers == 1..3
ShadowMode == {"on", "off"}
Row == [tier : Tiers, shadow : ShadowMode]

ASSUME GovernanceAssumption ==
  /\ IsFiniteSet(Operators) /\ Probe \notin Operators
  /\ Settings \in Row
  /\ Hysteresis \in Nat \ {0}
  /\ MaxRequests \in Nat /\ MaxFaults \in Nat /\ MaxCrashes \in Nat

VARIABLES
  db,         \* the governance_state row, NoRow before it is seeded
  cache,      \* _cache
  booted,     \* _bootstrapped
  since,      \* cycles since _healthy_since, Never if it is None
  pc,         \* where each writer is
  sess,       \* the row as each writer's session holds it
  op,         \* what each writer is writing
  beat,       \* flips with every cycle: a cycle that changes nothing is still a step
  \* what the properties need to know of the past
  streak,     \* cycles for which every probe found no reason to leave tier 1
  downFor,    \* cycles since the last automatic downgrade
  unlogged,   \* tier columns written minus transitions logged
  alone,      \* the writers no other writer has overlapped
  trusted,    \* the cache was last written by such a writer
  \* counters of the bounds
  requests, faults, crashes

counters == <<requests, faults, crashes>>
history == <<streak, downFor, unlogged, alone, trusted>>
vars == <<db, cache, booted, since, pc, sess, op, beat, history, counters>>

Writers == Operators \cup {Probe}
Health == {"up", "m03_down", "m01_m02_down"}
Pcs == {"idle", "commit", "refresh", "log", "cache", "publish"}
Never == -1
Cycles == Never..Hysteresis
NoRow == [tier |-> 0, shadow |-> "off"]
KeepTier == 0
KeepShadow == "keep"
Op == [from : Tiers, tier : Tiers \cup {KeepTier}, shadow : ShadowMode \cup {KeepShadow}]
NoOp == [from |-> 1, tier |-> KeepTier, shadow |-> KeepShadow]

(* How much later one cycle is. *)
Older(n) == IF n = Never \/ n = Hysteresis THEN n ELSE n + 1

(* get_governance *)
GetGovernance == IF booted THEN cache ELSE Settings

------------------------------------------------------------------------------
(* What every write goes through. *)

(* Those who may still change the row or the cache. *)
Busy == {w \in Writers : pc[w] \notin {"idle", "publish"}}

(* The writer's session loads the row it is going to write. *)
Load(w, change) ==
  /\ pc' = [pc EXCEPT ![w] = "commit"]
  /\ sess' = [sess EXCEPT ![w] = db]
  /\ op' = [op EXCEPT ![w] = change]
  /\ alone' = IF Busy = {} THEN {w} ELSE {}

WritesTier(w) == op[w].tier \notin {KeepTier, op[w].from}

(* update_state: the UPDATE holds the columns that differ from the row as    *)
(* the session loaded it.                                                    *)
Commit(w) ==
  /\ pc[w] = "commit"
  /\ db' = [tier |-> IF op[w].tier \in {KeepTier, sess[w].tier} THEN db.tier ELSE op[w].tier,
            shadow |-> IF op[w].shadow \in {KeepShadow, sess[w].shadow} THEN db.shadow ELSE op[w].shadow]
  /\ pc' = [pc EXCEPT ![w] = "refresh"]
  /\ unlogged' = IF WritesTier(w) THEN unlogged + 1 ELSE unlogged
  /\ downFor' = IF w = Probe /\ op[w].tier > 1 THEN 0 ELSE downFor
  /\ UNCHANGED <<cache, booted, since, sess, op, beat, streak, alone, trusted, counters>>

(* Mutant: the transition is not logged. *)
RefreshWithoutLog(w) ==
  /\ pc[w] = "refresh"
  /\ sess' = [sess EXCEPT ![w] = db]
  /\ pc' = [pc EXCEPT ![w] = "cache"]
  /\ UNCHANGED <<db, cache, booted, since, op, beat, history, counters>>

(* update_state's refresh; the row stays in the session from here on. *)
Refresh(w) ==
  /\ pc[w] = "refresh"
  /\ sess' = [sess EXCEPT ![w] = db]
  /\ pc' = [pc EXCEPT ![w] = IF WritesTier(w) THEN "log" ELSE "cache"]
  /\ UNCHANGED <<db, cache, booted, since, op, beat, history, counters>>

(* log_transition, only when the tier loaded at first was another one. *)
Log(w) ==
  /\ pc[w] = "log"
  /\ pc' = [pc EXCEPT ![w] = "cache"]
  /\ unlogged' = unlogged - 1
  /\ UNCHANGED <<db, cache, booted, since, sess, op, beat,
                 streak, downFor, alone, trusted, counters>>

(* Mutant: the cache is not written. *)
WriteNoCache(w) ==
  /\ pc[w] = "cache"
  /\ pc' = [pc EXCEPT ![w] = "publish"]
  /\ trusted' = (w \in alone)
  /\ alone' = alone \ {w}
  /\ UNCHANGED <<db, cache, booted, since, sess, op, beat,
                 streak, downFor, unlogged, counters>>

(* _write_cache with the row in the session. *)
WriteCache(w) ==
  /\ pc[w] = "cache"
  /\ cache' = sess[w]
  /\ pc' = [pc EXCEPT ![w] = "publish"]
  /\ trusted' = (w \in alone)
  /\ alone' = alone \ {w}
  /\ UNCHANGED <<db, booted, since, sess, op, beat, streak, downFor, unlogged, counters>>

Finish(w) ==
  /\ pc' = [pc EXCEPT ![w] = "idle"]
  /\ op' = [op EXCEPT ![w] = NoOp]
  /\ sess' = [sess EXCEPT ![w] = NoRow]

(* Mutant: the loop does not forget since when the system has been healthy. *)
PublishStillHealthy(w) ==
  /\ pc[w] = "publish"
  /\ Finish(w)
  /\ UNCHANGED <<db, cache, booted, since, beat, history, counters>>

(* The change is sent to the dashboards; only then the loop forgets since    *)
(* when the system has been healthy.                                         *)
Publish(w) ==
  /\ pc[w] = "publish"
  /\ Finish(w)
  /\ since' = IF w = Probe THEN Never ELSE since
  /\ UNCHANGED <<db, cache, booted, beat, history, counters>>

(* A database operation or the publish raises: the request fails, or the     *)
(* loop logs the error and goes back to sleep.  What was committed stays     *)
(* committed.                                                                *)
Fault(w) ==
  /\ pc[w] \in {"commit", "refresh", "log", "publish"}
  /\ faults < MaxFaults
  /\ faults' = faults + 1
  /\ Finish(w)
  /\ trusted' = (pc[w] = "publish" /\ trusted)
  /\ alone' = alone \ {w}
  /\ UNCHANGED <<db, cache, booted, since, beat, streak, downFor, unlogged, requests, crashes>>

------------------------------------------------------------------------------
(* Operators. *)

Request(o) ==
  /\ booted /\ pc[o] = "idle"
  /\ requests < MaxRequests
  /\ requests' = requests + 1
  /\ UNCHANGED <<db, cache, booted, since, beat, streak, downFor, unlogged,
                 trusted, faults, crashes>>

OverrideTier(o, t) ==
  /\ Request(o)
  /\ Load(o, [from |-> db.tier, tier |-> t, shadow |-> KeepShadow])

SetShadowMode(o, enabled) ==
  /\ Request(o)
  /\ Load(o, [from |-> db.tier, tier |-> KeepTier, shadow |-> enabled])

------------------------------------------------------------------------------
(* The probe loop: evaluate_auto_transition once a cycle. *)

(* What the probes ask for: M01 and M02 down, M03 down, or nothing.  Any     *)
(* other module that is degraded or down asks for nothing, so it is "up".    *)
NoTarget == 1
Target(h) == CASE h = "m01_m02_down" -> 3
               [] h = "m03_down" -> 2
               [] OTHER -> NoTarget

(* The probes find h, and the row is read. *)
Cycle(h) ==
  /\ booted /\ pc[Probe] = "idle"
  /\ beat' = ~beat
  /\ streak' = IF Target(h) # NoTarget THEN Never
               ELSE IF streak = Never THEN 0 ELSE Older(streak)
  /\ downFor' = Older(downFor)
  /\ UNCHANGED <<db, cache, booted, unlogged, trusted, counters>>

AutoWrite(t) == Load(Probe, [from |-> db.tier, tier |-> t, shadow |-> KeepShadow])
Sleep == UNCHANGED <<pc, sess, op, alone>>

Downgrade(h) ==
  /\ Cycle(h)
  /\ Target(h) \notin {NoTarget, db.tier}
  /\ AutoWrite(Target(h))
  /\ since' = Older(since)

(* The tier is already the one the probes ask for. *)
StayDown(h) ==
  /\ Cycle(h)
  /\ Target(h) # NoTarget /\ Target(h) = db.tier
  /\ Sleep
  /\ since' = Older(since)

(* Mutant: the wait starts anew in every cycle. *)
WaitAnew(h) ==
  /\ Cycle(h)
  /\ Target(h) = NoTarget /\ db.tier # 1
  /\ Older(since) < Hysteresis
  /\ Sleep
  /\ since' = 0

WaitForRecovery(h) ==
  /\ Cycle(h)
  /\ Target(h) = NoTarget /\ db.tier # 1
  /\ Older(since) < Hysteresis
  /\ Sleep
  /\ since' = IF since = Never THEN 0 ELSE Older(since)

Recover(h) ==
  /\ Cycle(h)
  /\ Target(h) = NoTarget /\ db.tier # 1
  /\ Older(since) = Hysteresis
  /\ AutoWrite(1)
  /\ since' = Hysteresis

StayUp(h) ==
  /\ Cycle(h)
  /\ Target(h) = NoTarget /\ db.tier = 1
  /\ Sleep
  /\ since' = Never

EvaluateAutoTransition ==
  \E h \in Health :
    Downgrade(h) \/ StayDown(h) \/ WaitForRecovery(h) \/ Recover(h) \/ StayUp(h)

(* health() or the read of the row raises: main.py:39, the cycle is lost. *)
CycleFails ==
  /\ booted /\ pc[Probe] = "idle"
  /\ faults < MaxFaults
  /\ faults' = faults + 1
  /\ since' = Older(since)
  /\ streak' = Never
  /\ downFor' = Older(downFor)
  /\ UNCHANGED <<db, cache, booted, pc, sess, op, beat, unlogged, alone,
                 trusted, requests, crashes>>

------------------------------------------------------------------------------
(* The process. *)

(* bootstrap: seed the row if there is none, then warm the cache; no request *)
(* and no cycle runs before it is done.                                      *)
Bootstrap ==
  /\ ~booted
  /\ db' = IF db = NoRow THEN Settings ELSE db
  /\ cache' = db'
  /\ booted' = TRUE
  /\ trusted' = TRUE
  /\ UNCHANGED <<since, pc, sess, op, beat, streak, downFor, unlogged, alone, counters>>

Crash ==
  /\ booted
  /\ crashes < MaxCrashes
  /\ crashes' = crashes + 1
  /\ booted' = FALSE
  /\ since' = Never
  /\ streak' = Never
  /\ pc' = [w \in Writers |-> "idle"]
  /\ sess' = [w \in Writers |-> NoRow]
  /\ op' = [w \in Writers |-> NoOp]
  /\ alone' = {}
  /\ UNCHANGED <<db, cache, beat, downFor, unlogged, trusted,
                 requests, faults>>

Init ==
  /\ db = NoRow
  /\ cache = [tier |-> 3, shadow |-> "on"]
  /\ booted = FALSE
  /\ since = Never
  /\ pc = [w \in Writers |-> "idle"]
  /\ sess = [w \in Writers |-> NoRow]
  /\ op = [w \in Writers |-> NoOp]
  /\ beat = FALSE
  /\ streak = Never
  /\ downFor = Never
  /\ unlogged = 0
  /\ alone = {}
  /\ trusted = FALSE
  /\ requests = 0 /\ faults = 0 /\ crashes = 0

WriterStep(w) == Commit(w) \/ Refresh(w) \/ Log(w) \/ WriteCache(w) \/ Publish(w)

Next ==
  \/ \E o \in Operators, t \in Tiers : OverrideTier(o, t)
  \/ \E o \in Operators, m \in ShadowMode : SetShadowMode(o, m)
  \/ EvaluateAutoTransition
  \/ CycleFails
  \/ \E w \in Writers : WriterStep(w) \/ Fault(w)
  \/ Bootstrap
  \/ Crash

Spec == Init /\ [][Next]_vars

(* The event loop runs every writer that can run, wakes the probe loop every *)
(* 30 s, and an application that starts is bootstrapped.                     *)
Fairness ==
  /\ WF_vars(Bootstrap)
  /\ WF_vars(EvaluateAutoTransition)
  /\ \A w \in Writers : WF_vars(WriterStep(w))

FairSpec == Spec /\ Fairness

------------------------------------------------------------------------------
(* Properties. *)

(* The type of every variable. *)
TypeOK ==
  /\ db \in Row \cup {NoRow} /\ cache \in Row
  /\ booted \in BOOLEAN
  /\ booted => db \in Row
  /\ since \in Cycles /\ streak \in Cycles /\ downFor \in Cycles
  /\ pc \in [Writers -> Pcs]
  /\ sess \in [Writers -> Row \cup {NoRow}]
  /\ op \in [Writers -> Op]
  /\ beat \in BOOLEAN
  /\ unlogged \in Nat
  /\ alone \in SUBSET Writers
  /\ trusted \in BOOLEAN
  /\ requests \in Nat /\ faults \in Nat /\ crashes \in Nat

(* Between writes, what get_governance() answers is the row in the database,  *)
(* if the last writer ran alone (service.py:166-176, 181-183, 264-269).       *)
CacheMirrorsSolitaryWrite == booted /\ Busy = {} /\ trusted => GetGovernance = db

(* The writers that have committed a tier and not logged it yet. *)
AboutToLog == {w \in Writers : pc[w] \in {"refresh", "log"} /\ WritesTier(w)}

(* Every tier written to the row is in the transition log or is about to be,  *)
(* however the writers interleave (service.py:166-174, 264-267, 279-285), if  *)
(* no database operation fails and the process does not die.                  *)
TierWritesAreLogged ==
  faults + crashes = 0 => unlogged = Cardinality(AboutToLog)

(* The loop never recovers to tier 1 sooner than the hysteresis after an      *)
(* automatic downgrade (service.py:271, 276-279), unless a database operation *)
(* or the publish failed before the timer was reset (service.py:270).         *)
RecoveryWaitsAfterDowngrade ==
  faults = 0 /\ pc[Probe] # "idle" /\ op[Probe].tier = 1
    => downFor \in {Never, Hysteresis}

(* If from some time on every cycle finds nothing wrong, the row goes back to *)
(* tier 1 and stays there, whatever operators and faults did before.          *)
EventuallyTier1 == <>[](streak # Never) => <>[](db.tier = 1)

(* service.py:51-53, M14_GovernanceConsole.md:100-101: the loop upgrades only *)
(* after every probe of the last Hysteresis cycles was healthy.               *)
RecoveryNeedsHysteresis ==
  [][\A h \in Health : Recover(h) => streak' = Hysteresis]_vars

(* service.py:10-12: the live values are mirrored into the cache on every     *)
(* write and on every health-probe cycle.                                     *)
CacheIsRepaired == booted ~> GetGovernance = db

==============================================================================
