---------------------------- MODULE ModelRegistry ----------------------------
(***************************************************************************)
(* From a retrained model to the one that scores: M13 (learning/service.py *)
(* and repository.py) and the registry of M03 (impact/registry.py).        *)
(*                                                                         *)
(* A retrain trains, takes the next version number, writes the artifacts   *)
(* to that version's directory and stages a row; an operator promotes a    *)
(* staged row, which retires the row in production and makes the registry  *)
(* load the directory.  Requests interleave at their awaits, any of them   *)
(* may raise, and the process may be restarted.  A commit that raises has  *)
(* not happened.                                                           *)
(***************************************************************************)
EXTENDS Naturals, FiniteSets, FiniteSetsExt

CONSTANTS
  Trainers,    \* concurrent retrain requests
  Promoters,   \* concurrent promotions
  Epsilon,     \* settings.learning_anchor_epsilon
  MaxAnchor,   \* bound: an anchor accuracy, in steps
  MaxJobs,     \* bound: retrains
  MaxVersion,  \* bound: version numbers
  MaxFaults,   \* bound: database calls and writes that raise
  MaxRestarts  \* bound: restarts of the process

ASSUME RegistryAssumption ==
  /\ Epsilon \in Nat /\ MaxAnchor \in Nat
  /\ MaxJobs \in Nat /\ MaxVersion \in Nat \ {0}
  /\ MaxFaults \in Nat /\ MaxRestarts \in Nat

VARIABLES
  job,        \* learning_jobs
  model,      \* model_registry, by version number
  files,      \* the directories: the job whose artifacts are in models/vN
  registry,   \* the registry of M03: its directory and what it loaded from it
  tier,       \* get_governance().tier
  train,      \* the retrains under way
  promotion,  \* the promotions under way
  jobs,       \* retrains so far
  faults,     \* operations that raised so far
  restarts,   \* restarts so far
  contested,  \* history: numbers two retrains held at once
  raced,      \* history: two promotions were under way at once
  stale       \* history: nothing was loaded since a restart or a failed promotion

vars == <<job, model, files, registry, tier, train, promotion, jobs, faults, restarts,
          contested, raced, stale>>

Jobs == 1..MaxJobs
Versions == 1..MaxVersion
None == 0
Script == MaxJobs + 1    \* what the training script left in models/v1
Partial == MaxJobs + 2   \* what a write that raised left
Artifacts == {None, Script, Partial} \cup Jobs

LearningJobRow ==
  [status : {"absent", "running", "eval_complete", "promoted", "failed"},
   version : Versions \cup {None}]
Stage == {"absent", "staged", "production", "retired"}
ModelRegistryRow ==
  [stage : Stage, job : Jobs \cup {None}, good : BOOLEAN, anchor : 0..MaxAnchor]
NoModel == [stage |-> "absent", job |-> None, good |-> FALSE, anchor |-> 0]

IdleTrainer == [pc |-> "idle", job |-> None, version |-> None, good |-> FALSE, anchor |-> 0]
IdlePromoter == [pc |-> "idle", version |-> None, incumbent |-> None]

Rows == {v \in Versions : model[v].stage # "absent"}
Production == {v \in Versions : model[v].stage = "production"}

(* get_production_model: limit 1, so any of them if there are several. *)
ProductionModel(v) ==
  \/ Production = {} /\ v = None
  \/ v \in Production

(* evaluate and get_eval: the regression against the incumbent, if any *)
AnchorStable(anchor, incumbent) ==
  incumbent = None \/ model[incumbent].anchor <= anchor + Epsilon

------------------------------------------------------------------------------
(* start_retrain *)

TrainerAt(t, pc) == train[t].pc = pc
Train(t, pc) == train' = [train EXCEPT ![t].pc = pc]

(* Refused in tier 3, which is not asked for again; create_job. *)
StartRetrain(t) ==
  /\ TrainerAt(t, "idle") /\ tier # "3" /\ jobs < MaxJobs
  /\ jobs' = jobs + 1
  /\ job' = [job EXCEPT ![jobs'] = [status |-> "running", version |-> None]]
  /\ train' = [train EXCEPT ![t] = [IdleTrainer EXCEPT !.pc = "train", !.job = jobs']]
  /\ UNCHANGED <<model, files, registry, tier, promotion, faults, restarts,
                 contested, raced, stale>>

(* The buffer is built and its manifest saved, the models trained and        *)
(* evaluated: the accuracies can be anything.                                *)
Evaluate(t) ==
  /\ TrainerAt(t, "train")
  /\ \E good \in BOOLEAN, anchor \in 0..MaxAnchor :
       train' = [train EXCEPT ![t].pc = "number", ![t].good = good, ![t].anchor = anchor]
  /\ UNCHANGED <<job, model, files, registry, tier, promotion, jobs, faults, restarts,
                 contested, raced, stale>>

(* Mutant: only promoted versions are counted. *)
LatestPromoted == Max({1} \cup Production)

(* latest_model_version_number: 1 where there is no row, for models/v1. *)
LatestVersionNumber == Max({1} \cup Rows)

TakeNumber(t) ==
  LET next == LatestVersionNumber + 1
  IN /\ TrainerAt(t, "number") /\ next \in Versions
     /\ train' = [train EXCEPT ![t].pc = "write", ![t].version = next]
     /\ contested' = IF \E u \in Trainers \ {t} : train[u].version = next
                     THEN contested \cup {next} ELSE contested
     /\ UNCHANGED <<job, model, files, registry, tier, promotion, jobs, faults, restarts,
                    raced, stale>>

(* The artifacts are written, over those that may be there. *)
WriteFiles(t) ==
  /\ TrainerAt(t, "write")
  /\ files' = [files EXCEPT ![train[t].version] = train[t].job]
  /\ Train(t, "create")
  /\ UNCHANGED <<job, model, registry, tier, promotion, jobs, faults, restarts,
                 contested, raced, stale>>

(* A write raises; what the job becomes is as in RetrainFault. *)
WriteFault(t) ==
  /\ TrainerAt(t, "write") /\ faults < MaxFaults
  /\ files' = [files EXCEPT ![train[t].version] = Partial]
  /\ Train(t, "fail")
  /\ faults' = faults + 1
  /\ UNCHANGED <<job, model, registry, tier, promotion, jobs, restarts,
                 contested, raced, stale>>

(* create_model.  A row of that number makes the insert fail, and with it    *)
(* the update of the job to failed, on the same session: it stays running.   *)
CreateModel(t) ==
  LET r == train[t]
      v == r.version
  IN /\ TrainerAt(t, "create")
     /\ IF v \in Rows
        THEN train' = [train EXCEPT ![t] = IdleTrainer] /\ UNCHANGED model
        ELSE /\ model' = [model EXCEPT ![v] = [stage |-> "staged", job |-> r.job,
                                               good |-> r.good, anchor |-> r.anchor]]
             /\ Train(t, "finish")
     /\ UNCHANGED <<job, files, registry, tier, promotion, jobs, faults, restarts,
                    contested, raced, stale>>

(* update_job *)
FinishRetrain(t) ==
  LET r == train[t]
  IN /\ TrainerAt(t, "finish")
     /\ job' = [job EXCEPT ![r.job] = [status |-> "eval_complete", version |-> r.version]]
     /\ train' = [train EXCEPT ![t] = IdleTrainer]
     /\ UNCHANGED <<model, files, registry, tier, promotion, jobs, faults, restarts,
                    contested, raced, stale>>

(* A query, the training or a commit raises. *)
RetrainFault(t) ==
  /\ train[t].pc \in {"train", "number", "create", "finish"}
  /\ faults < MaxFaults /\ faults' = faults + 1
  /\ Train(t, "fail")
  /\ UNCHANGED <<job, model, files, registry, tier, promotion, jobs, restarts,
                 contested, raced, stale>>

(* The except clause, which succeeds unless the session has to be rolled     *)
(* back first.                                                               *)
FailRetrain(t) ==
  /\ TrainerAt(t, "fail")
  /\ \/ job' = [job EXCEPT ![train[t].job].status = "failed"]
     \/ UNCHANGED job
  /\ train' = [train EXCEPT ![t] = IdleTrainer]
  /\ UNCHANGED <<model, files, registry, tier, promotion, jobs, faults, restarts,
                 contested, raced, stale>>

------------------------------------------------------------------------------
(* promote *)

PromoterAt(p, pc) == promotion[p].pc = pc

(* The tier is asked for once; the row has to be staged. *)
Promote(p, v) ==
  /\ PromoterAt(p, "idle") /\ tier = "1"
  /\ model[v].stage = "staged"
  /\ promotion' = [promotion EXCEPT ![p] = [IdlePromoter EXCEPT !.pc = "check",
                                                                !.version = v]]
  /\ raced' = (raced \/ \E q \in Promoters : ~PromoterAt(q, "idle"))
  /\ UNCHANGED <<job, model, files, registry, tier, train, jobs, faults, restarts,
                 contested, stale>>

(* Mutant: the row is evaluated whatever its job says. *)
CheckRow(p) ==
  LET v == promotion[p].version
  IN /\ PromoterAt(p, "check")
     /\ \E incumbent \in Versions \cup {None} :
          /\ ProductionModel(incumbent)
          /\ promotion' = [promotion EXCEPT ![p] =
               IF model[v].good /\ AnchorStable(model[v].anchor, incumbent)
               THEN [@ EXCEPT !.pc = "incumbent"] ELSE IdlePromoter]
     /\ UNCHANGED <<job, model, files, registry, tier, train, jobs, faults, restarts,
                    contested, raced, stale>>

(* Mutant: the anchor is not compared. *)
CheckAccuracy(p) ==
  LET v == promotion[p].version
  IN /\ PromoterAt(p, "check")
     /\ promotion' = [promotion EXCEPT ![p] =
          IF job[model[v].job].version # None /\ model[v].good
          THEN [@ EXCEPT !.pc = "incumbent"] ELSE IdlePromoter]
     /\ UNCHANGED <<job, model, files, registry, tier, train, jobs, faults, restarts,
                    contested, raced, stale>>

(* get_eval: 404 unless the job names a version; then the two gates. *)
Check(p) ==
  LET v == promotion[p].version
  IN /\ PromoterAt(p, "check")
     /\ \E incumbent \in Versions \cup {None} :
          /\ ProductionModel(incumbent)
          /\ promotion' = [promotion EXCEPT ![p] =
               IF job[model[v].job].version # None /\ model[v].good
                  /\ AnchorStable(model[v].anchor, incumbent)
               THEN [@ EXCEPT !.pc = "incumbent"] ELSE IdlePromoter]
     /\ UNCHANGED <<job, model, files, registry, tier, train, jobs, faults, restarts,
                    contested, raced, stale>>

(* promote_model: the incumbent is read again, ... *)
ReadIncumbent(p) ==
  /\ PromoterAt(p, "incumbent")
  /\ \E incumbent \in Versions \cup {None} :
       /\ ProductionModel(incumbent)
       /\ promotion' = [promotion EXCEPT ![p].pc = "commit", ![p].incumbent = incumbent]
  /\ UNCHANGED <<job, model, files, registry, tier, train, jobs, faults, restarts,
                 contested, raced, stale>>

(* ... and in one commit the incumbent is retired and the row promoted. *)
PromoteModel(p) ==
  LET r == promotion[p]
  IN /\ PromoterAt(p, "commit")
     /\ model' = [v \in Versions |->
          IF v = r.version THEN [model[v] EXCEPT !.stage = "production"]
          ELSE IF v = r.incumbent THEN [model[v] EXCEPT !.stage = "retired"]
          ELSE model[v]]
     /\ promotion' = [promotion EXCEPT ![p].pc = "job"]
     /\ UNCHANGED <<job, files, registry, tier, train, jobs, faults, restarts,
                    contested, raced, stale>>

(* load: without metadata the rules score, and partial artifacts raise. *)
Load(v) == registry' = [dir |-> v, art |-> files[v]]

(* Mutant: the registry loads its own directory again. *)
PublishInPlace(p) ==
  LET v == promotion[p].version
  IN /\ PromoterAt(p, "job")
     /\ job' = [job EXCEPT ![model[v].job].status = "promoted"]
     /\ Load(registry.dir)
     /\ stale' = FALSE
     /\ promotion' = [promotion EXCEPT ![p] = IdlePromoter]
     /\ UNCHANGED <<model, files, tier, train, jobs, faults, restarts, contested, raced>>

(* update_job, and then at once reload of the promoted row's directory. *)
Publish(p) ==
  LET v == promotion[p].version
  IN /\ PromoterAt(p, "job")
     /\ job' = [job EXCEPT ![model[v].job].status = "promoted"]
     /\ Load(v)
     /\ stale' = FALSE
     /\ promotion' = [promotion EXCEPT ![p] = IdlePromoter]
     /\ UNCHANGED <<model, files, tier, train, jobs, faults, restarts, contested, raced>>

(* A query or a commit raises: once the row is promoted, without a reload. *)
PromoteFault(p) ==
  /\ ~PromoterAt(p, "idle")
  /\ faults < MaxFaults /\ faults' = faults + 1
  /\ stale' = (stale \/ PromoterAt(p, "job"))
  /\ promotion' = [promotion EXCEPT ![p] = IdlePromoter]
  /\ UNCHANGED <<job, model, files, registry, tier, train, jobs, restarts, contested, raced>>

------------------------------------------------------------------------------
(* main.py: the lifespan loads settings.models_dir, whatever is promoted. *)
Restart ==
  /\ restarts < MaxRestarts /\ restarts' = restarts + 1
  /\ train' = [t \in Trainers |-> IdleTrainer]
  /\ promotion' = [p \in Promoters |-> IdlePromoter]
  /\ Load(1)
  /\ stale' = TRUE
  /\ UNCHANGED <<job, model, files, tier, jobs, faults, contested, raced>>

(* M14 *)
SetTier ==
  /\ tier' \in {"1", "2", "3"} \ {tier}
  /\ UNCHANGED <<job, model, files, registry, train, promotion, jobs, faults, restarts,
                 contested, raced, stale>>

Init ==
  /\ job = [j \in Jobs |-> [status |-> "absent", version |-> None]]
  /\ model = [v \in Versions |-> NoModel]
  /\ \E script \in {None, Script} :
       files = [v \in Versions |-> IF v = 1 THEN script ELSE None]
  /\ registry = [dir |-> 1, art |-> files[1]]
  /\ tier = "1"
  /\ train = [t \in Trainers |-> IdleTrainer]
  /\ promotion = [p \in Promoters |-> IdlePromoter]
  /\ jobs = 0 /\ faults = 0 /\ restarts = 0
  /\ contested = {} /\ raced = FALSE /\ stale = FALSE

TrainerStep(t) ==
  \/ StartRetrain(t) \/ Evaluate(t) \/ TakeNumber(t) \/ WriteFiles(t) \/ WriteFault(t)
  \/ CreateModel(t) \/ FinishRetrain(t) \/ RetrainFault(t) \/ FailRetrain(t)

PromoterStep(p) ==
  \/ Check(p) \/ ReadIncumbent(p) \/ PromoteModel(p) \/ Publish(p) \/ PromoteFault(p)

Next ==
  \/ \E t \in Trainers : TrainerStep(t)
  \/ \E p \in Promoters : PromoterStep(p) \/ \E v \in Versions : Promote(p, v)
  \/ Restart \/ SetTier

Spec == Init /\ [][Next]_vars

------------------------------------------------------------------------------
TypeOK ==
  /\ job \in [Jobs -> LearningJobRow]
  /\ model \in [Versions -> ModelRegistryRow]
  /\ files \in [Versions -> Artifacts]
  /\ registry \in [dir : Versions, art : Artifacts]
  /\ tier \in {"1", "2", "3"}
  /\ train \in [Trainers ->
       [pc : {"idle", "train", "number", "write", "create", "finish", "fail"},
        job : Jobs \cup {None}, version : Versions \cup {None},
        good : BOOLEAN, anchor : 0..MaxAnchor]]
  /\ promotion \in [Promoters ->
       [pc : {"idle", "check", "incumbent", "commit", "job"},
        version : Versions \cup {None}, incumbent : Versions \cup {None}]]
  /\ jobs \in 0..MaxJobs /\ faults \in 0..MaxFaults /\ restarts \in 0..MaxRestarts
  /\ contested \subseteq Versions /\ raced \in BOOLEAN /\ stale \in BOOLEAN

(* A row's directory holds the artifacts of the job that staged the row:     *)
(* what is promoted is what was evaluated, whatever other retrains did       *)
(* before and after, failed ones included.  (Two retrains that hold a number *)
(* at once write the same directory, and only one gets the row.)             *)
ArtifactsMatchRow ==
  \A v \in Rows \ contested : files[v] = model[v].job

(* Where promotions do not overlap, one row at most is in production, and,   *)
(* once its promotion is through, the registry scores with the artifacts of  *)
(* the job it was evaluated with; before the first promotion it scores with  *)
(* models/v1.  (After a restart it scores with models/v1 until the next      *)
(* promotion, and a promotion that raised after its commit loads nothing.)   *)
ServedIsProduction ==
  ~raced =>
    /\ Cardinality(Production) <= 1
    /\ ~stale /\ (\A p \in Promoters : ~PromoterAt(p, "job")) =>
         /\ Production = {} => registry.dir = 1
         /\ \A v \in Production :
              registry.dir = v /\ (v \in contested \/ registry.art = model[v].job)

(* A model enters production only if it passed the accuracy gate and, where  *)
(* promotions do not overlap, its anchor accuracy is no more than Epsilon    *)
(* below that of the model that leaves it.                                   *)
PromotionPassesGates ==
  [][\A v \in Versions :
       model[v].stage # "production" /\ model'[v].stage = "production" =>
         /\ model[v].good
         /\ raced \/ \A u \in Production : model[u].anchor <= model[v].anchor + Epsilon]_vars

(* A model that is or was in production has a job that completed and names   *)
(* it: a row whose job failed or was left running is never promoted.         *)
OnlyEvaluatedPromoted ==
  \A v \in Versions :
    model[v].stage \in {"production", "retired"} =>
      /\ job[model[v].job].version = v
      /\ job[model[v].job].status \in {"eval_complete", "promoted"}

(* M13_ReplayLearningService.md:120: "`ModelRegistryRow.artifact_dir` is the  *)
(* single source of truth for "which directory is currently live"".  The      *)
(* lifespan loads the directory of the settings, whose models no row names,   *)
(* also after a promotion that was through.                                   *)
LiveIsProduction ==
  \A v \in Production : job[model[v].job].status = "promoted" => registry.dir = v

(* M13_ReplayLearningService.md:117: "Each promotion writes to a **new**      *)
(* directory".  The number is taken from the rows, and a retrain that has     *)
(* taken it has no row yet: two may write one directory.                      *)
RowOwnsDirectory == \A v \in Rows : files[v] = model[v].job

(* ML_MODULES_IMPLEMENTATION.md:1059: "Only one production closure + ICT pair *)
(* active".  Two promotions that read the same incumbent both retire it.      *)
OneProduction == Cardinality(Production) <= 1
==============================================================================
