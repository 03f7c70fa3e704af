------------------------- MODULE ModelRegistryProofs -------------------------
(***************************************************************************)
(* Proofs about ModelRegistry, for every number of retrains, promotions,   *)
(* versions, faults and restarts: the artifacts of a row are those its job *)
(* wrote, only evaluated rows that passed the gates are promoted, and the  *)
(* registry scores with what was promoted.                                 *)
(***************************************************************************)
EXTENDS ModelRegistry, FiniteSetTheorems, WellFoundedInduction, TLAPS

------------------------------------------------------------------------------
(* The inductive invariant. *)

Training == {"train", "number", "write", "create"}
Numbered == {"write", "create", "finish"}

(* A retrain under way has a job of its own that names no version; it has a   *)
(* number once it took one, and a row only once create_model is through.      *)
TrainerInv ==
  /\ \A t \in Trainers :
       /\ TrainerAt(t, "idle") => train[t].version = None
       /\ ~TrainerAt(t, "idle") =>
            train[t].job \in 1..jobs /\ job[train[t].job].version = None
       /\ train[t].pc \in Numbered => train[t].version # None
       /\ train[t].pc \in Training => \A v \in Rows : model[v].job # train[t].job
       /\ TrainerAt(t, "finish") =>
            train[t].version \in Rows /\ model[train[t].version].job = train[t].job
  /\ \A t, u \in Trainers :
       ~TrainerAt(t, "idle") /\ ~TrainerAt(u, "idle") /\ train[t].job = train[u].job => t = u

(* Rows and jobs are matched one to one as far as jobs name versions. *)
RowInv ==
  /\ \A v \in Rows : model[v].job \in 1..jobs
  /\ \A v, w \in Rows : model[v].job = model[w].job => v = w
  /\ \A j \in Jobs : job[j].version # None =>
       /\ job[j].status \in {"eval_complete", "promoted"}
       /\ job[j].version \in Rows /\ model[job[j].version].job = j

(* Two retrains share a number only where it is contested; the others have    *)
(* their directory to themselves until the row is there.                      *)
NumberInv ==
  /\ \A t, u \in Trainers :
       t # u /\ train[t].version = train[u].version /\ train[t].version # None
         => train[t].version \in contested
  /\ \A t \in Trainers : train[t].version \notin contested =>
       /\ train[t].pc \in {"write", "create"} => train[t].version \notin Rows
       /\ TrainerAt(t, "create") => files[train[t].version] = train[t].job
  /\ ArtifactsMatchRow

(* A promotion is of a row; past the check, of one that passed it. *)
PromoterInv ==
  \A p \in Promoters :
    LET r == promotion[p]
    IN /\ ~PromoterAt(p, "idle") => r.version \in Rows
       /\ r.pc \in {"incumbent", "commit", "job"} =>
            model[r.version].good /\ job[model[r.version].job].version = r.version
       /\ PromoterAt(p, "commit") /\ r.incumbent # None =>
            model[r.incumbent].stage \in {"production", "retired"}

(* While promotions do not overlap, the one under way knows what is in        *)
(* production.                                                                *)
AloneInv ==
  ~raced =>
    /\ \A p, q \in Promoters : ~PromoterAt(p, "idle") /\ ~PromoterAt(q, "idle") => p = q
    /\ \A u, v \in Production : u = v
    /\ \A p \in Promoters :
         LET r == promotion[p]
         IN /\ PromoterAt(p, "commit") =>
                 Production = IF r.incumbent = None THEN {} ELSE {r.incumbent}
            /\ PromoterAt(p, "job") => r.version \in Production
            /\ r.pc \in {"incumbent", "commit"} =>
                 \A u \in Production : AnchorStable(model[r.version].anchor, u)

RegistryInv ==
  /\ TypeOK /\ TrainerInv /\ RowInv /\ NumberInv
  /\ OnlyEvaluatedPromoted /\ PromoterInv /\ AloneInv /\ ServedIsProduction

------------------------------------------------------------------------------
(* The next version number. *)

(* Max of versions is the largest of them. *)
LEMMA MaxIsLargest ==
  ASSUME NEW S, S # {}, S \subseteq Versions
  PROVE  Max(S) \in S /\ \A x \in S : x <= Max(S)
<1> DEFINE below(x) == MaxVersion - x
           T == {below(x) : x \in S}
           Less == OpToRel(<, Nat)
<1>1. \A x \in S : x \in Nat /\ x <= MaxVersion /\ below(x) \in Nat
  BY RegistryAssumption DEF Versions
<1>2. T \subseteq Nat /\ T # {}
  BY <1>1
<1>3. PICK m \in T : \A y \in T : <<y, m>> \notin Less
  <2> HIDE DEF T, Less
  <2>1. IsWellFoundedOn(Less, Nat)
    BY NatLessThanWellFounded DEF Less
  <2>2. QED
    BY <1>2, <2>1, WFMin
<1>4. PICK x \in S : m = below(x)
  BY <1>3
<1>5. \A y \in S : ~(below(y) < m)
  <2>1. \A y \in S : below(y) \in T /\ below(y) \in Nat
    BY <1>1
  <2>2. m \in Nat
    BY <1>2, <1>3
  <2>3. \A y \in S : below(y) < m => <<below(y), m>> \in Less
    BY <2>1, <2>2 DEF OpToRel
  <2>4. QED
    BY <1>3, <2>1, <2>3
<1>6. \A y \in S : x >= y
  BY <1>1, <1>4, <1>5, RegistryAssumption
<1>7. Max(S) \in S /\ \A y \in S : Max(S) >= y
  BY <1>6 DEF Max
<1>8. QED
  BY <1>1, <1>7

(* The number a retrain takes is one that no row has. *)
LEMMA NextNumberIsFree == LatestVersionNumber + 1 \notin Rows
<1>1. {1} \cup Rows # {} /\ {1} \cup Rows \subseteq Versions
  BY RegistryAssumption DEF Rows, Versions
<1>2. /\ LatestVersionNumber \in Versions
      /\ \A x \in Rows : x <= LatestVersionNumber
  BY <1>1, MaxIsLargest DEF LatestVersionNumber
<1>3. QED
  BY <1>2, RegistryAssumption DEF Versions

------------------------------------------------------------------------------
(* The types of the requests, and of those that are not under way. *)

TrainerRow ==
  [pc : {"idle", "train", "number", "write", "create", "finish", "fail"},
   job : Jobs \cup {None}, version : Versions \cup {None},
   good : BOOLEAN, anchor : 0..MaxAnchor]
PromoterRow ==
  [pc : {"idle", "check", "incumbent", "commit", "job"},
   version : Versions \cup {None}, incumbent : Versions \cup {None}]

(* A request is of its type whatever it does, and None is no version. *)
LEMMA RowTypes ==
  /\ TypeOK => train \in [Trainers -> TrainerRow] /\ promotion \in [Promoters -> PromoterRow]
  /\ IdleTrainer \in TrainerRow /\ IdlePromoter \in PromoterRow
  /\ \A j \in Jobs : [IdleTrainer EXCEPT !.pc = "train", !.job = j] \in TrainerRow
  /\ None \notin Versions /\ None \notin Jobs /\ 1 \in Versions
<1>1. 0 \in 0..MaxAnchor /\ None \notin Versions /\ None \notin Jobs /\ 1 \in Versions
  BY RegistryAssumption DEF Versions, Jobs, None
<1>2. TypeOK => train \in [Trainers -> TrainerRow] /\ promotion \in [Promoters -> PromoterRow]
  BY DEF TypeOK, TrainerRow, PromoterRow
<1>3. IdleTrainer \in TrainerRow /\ IdlePromoter \in PromoterRow
  BY <1>1 DEF IdleTrainer, IdlePromoter, TrainerRow, PromoterRow
<1>4. \A j \in Jobs : [IdleTrainer EXCEPT !.pc = "train", !.job = j] \in TrainerRow
  BY <1>1, <1>3 DEF IdleTrainer, TrainerRow
<1>5. QED
  BY <1>1, <1>2, <1>3, <1>4

------------------------------------------------------------------------------
(* What each part of the invariant depends on. *)

(* A part is kept by a step that leaves the variables it reads alone. *)
LEMMA Frame ==
  /\ UNCHANGED model => Rows' = Rows /\ Production' = Production
  /\ UNCHANGED <<model, job, jobs>> => (RowInv => RowInv')
  /\ UNCHANGED <<model, job, jobs, train>> => (TrainerInv => TrainerInv')
  /\ UNCHANGED <<model, files, train, contested>> => (NumberInv => NumberInv')
  /\ UNCHANGED <<model, job>> => (OnlyEvaluatedPromoted => OnlyEvaluatedPromoted')
  /\ UNCHANGED <<model, job, promotion>> => (PromoterInv => PromoterInv')
  /\ UNCHANGED <<model, promotion, raced>> => (AloneInv => AloneInv')
  /\ UNCHANGED <<model, promotion, raced, registry, stale>> /\ contested \subseteq contested'
       => (ServedIsProduction => ServedIsProduction')
<1>1. UNCHANGED model => Rows' = Rows /\ Production' = Production
  BY DEF Rows, Production
<1>2. UNCHANGED <<model, job, jobs>> => (RowInv => RowInv')
  BY <1>1 DEF RowInv
<1>3. UNCHANGED <<model, job, jobs, train>> => (TrainerInv => TrainerInv')
  BY <1>1 DEF TrainerInv, TrainerAt
<1>4. UNCHANGED <<model, files, train, contested>> => (NumberInv => NumberInv')
  BY <1>1 DEF NumberInv, TrainerAt, ArtifactsMatchRow
<1>5. UNCHANGED <<model, job>> => (OnlyEvaluatedPromoted => OnlyEvaluatedPromoted')
  BY DEF OnlyEvaluatedPromoted
<1>6. UNCHANGED <<model, job, promotion>> => (PromoterInv => PromoterInv')
  BY <1>1 DEF PromoterInv, PromoterAt
<1>7. UNCHANGED <<model, promotion, raced>> => (AloneInv => AloneInv')
  BY <1>1 DEF AloneInv, PromoterAt, AnchorStable
<1>8. UNCHANGED <<model, promotion, raced, registry, stale>> /\ contested \subseteq contested'
       => (ServedIsProduction => ServedIsProduction')
  BY <1>1 DEF ServedIsProduction, PromoterAt
<1>9. QED
  BY <1>1, <1>2, <1>3, <1>4, <1>5, <1>6, <1>7, <1>8

(* start_retrain: the job is new, so no row and no other retrain has it. *)
LEMMA StartRetrainInv ==
  ASSUME RegistryInv, NEW t \in Trainers, StartRetrain(t)
  PROVE  RegistryInv'
<1> USE DEF RegistryInv
<1>0. /\ jobs \in Nat /\ jobs' = jobs + 1 /\ jobs' \in Jobs
      /\ \A j \in 1..jobs : j \in 1..jobs' /\ j # jobs' /\ j \in Jobs
  BY RegistryAssumption DEF StartRetrain, TypeOK, Jobs
<1>1. /\ train' = [train EXCEPT ![t] = [IdleTrainer EXCEPT !.pc = "train", !.job = jobs']]
      /\ UNCHANGED <<model, files, contested, promotion, raced, registry, stale>>
      /\ job' = [job EXCEPT ![jobs'] = [status |-> "running", version |-> None]]
  BY DEF StartRetrain
<1>2. /\ train'[t].pc = "train" /\ train'[t].job = jobs' /\ train'[t].version = None
      /\ \A u \in Trainers \ {t} : train'[u] = train[u]
  BY <1>1 DEF IdleTrainer, TypeOK
<1>3. /\ job'[jobs'].version = None
      /\ \A j \in Jobs : j # jobs' => job'[j] = job[j]
  BY <1>0, <1>1 DEF TypeOK
<1>4. Rows' = Rows /\ Production' = Production
  BY <1>1, Frame
<1>5. TypeOK'
  <2>1. job' \in [Jobs -> LearningJobRow]
    BY <1>1 DEF TypeOK, LearningJobRow
  <2>2. train' \in [Trainers -> TrainerRow]
    BY <1>0, <1>1, RowTypes
  <2>3. QED
    BY <1>0, <1>1, <2>1, <2>2 DEF TypeOK, StartRetrain, Jobs, TrainerRow
<1>6. TrainerInv'
  BY <1>0, <1>2, <1>3, <1>4, <1>1 DEF TrainerInv, RowInv, TrainerAt, Training, Numbered
<1>7. RowInv'
  BY <1>0, <1>1, <1>3, <1>4 DEF RowInv
<1>8. NumberInv'
  BY <1>1, <1>2, <1>4 DEF NumberInv, TrainerAt, ArtifactsMatchRow
<1>9. OnlyEvaluatedPromoted' /\ PromoterInv'
  <2>1. \A v \in Versions : model[v].stage # "absent" => v \in Rows
    BY DEF Rows
  <2>2. \A v \in Rows : model[v].job \in 1..jobs /\ job'[model[v].job] = job[model[v].job]
    BY <1>0, <1>3 DEF RowInv
  <2>3. OnlyEvaluatedPromoted'
    BY <1>1, <2>1, <2>2 DEF OnlyEvaluatedPromoted
  <2>4. PromoterInv'
    BY <1>1, <1>4, <2>2 DEF PromoterInv, PromoterAt
  <2>5. QED
    BY <2>3, <2>4
<1>10. AloneInv' /\ ServedIsProduction'
  BY <1>1, Frame
<1>11. QED
  BY <1>5, <1>6, <1>7, <1>8, <1>9, <1>10

(* What Evaluate changes: any accuracies, and the place of the retrain. *)
LEMMA EvaluateMoves ==
  ASSUME NEW t \in Trainers, train \in [Trainers -> TrainerRow], Evaluate(t)
  PROVE  /\ UNCHANGED faults /\ train[t].pc = "train"
         /\ train' \in [Trainers -> TrainerRow] /\ train'[t].pc = "number"
         /\ train'[t].job = train[t].job /\ train'[t].version = train[t].version
         /\ \A u \in Trainers \ {t} : train'[u] = train[u]
<1>1. UNCHANGED faults /\ train[t].pc = "train"
  BY DEF Evaluate, TrainerAt
<1>2. PICK good \in BOOLEAN, anchor \in 0..MaxAnchor :
        train' = [train EXCEPT ![t].pc = "number", ![t].good = good, ![t].anchor = anchor]
  BY DEF Evaluate
<1> DEFINE r == [train[t] EXCEPT !.pc = "number", !.good = good, !.anchor = anchor]
<1>3. r \in TrainerRow /\ r.pc = "number" /\ r.job = train[t].job /\ r.version = train[t].version
  BY DEF TrainerRow
<1>4. train' = [train EXCEPT ![t] = r]
  BY <1>2
<1> HIDE DEF r
<1>5. /\ train' \in [Trainers -> TrainerRow] /\ train'[t] = r
      /\ \A u \in Trainers \ {t} : train'[u] = train[u]
  BY <1>3, <1>4
<1>6. QED
  BY <1>1, <1>3, <1>5

(* The training and a fault: the retrain moves and nothing else changes. *)
LEMMA RetrainMovesInv ==
  ASSUME RegistryInv, NEW t \in Trainers, Evaluate(t) \/ RetrainFault(t)
  PROVE  RegistryInv'
<1> USE DEF RegistryInv
<1>1. /\ UNCHANGED <<job, model, files, registry, tier, promotion, jobs, restarts,
                     contested, raced, stale>>
      /\ ~TrainerAt(t, "idle")
  BY DEF Evaluate, RetrainFault, TrainerAt
<1>2. /\ train' \in [Trainers -> TrainerRow]
      /\ train'[t].job = train[t].job /\ train'[t].version = train[t].version
      /\ \/ (train'[t].pc = "number" /\ train[t].pc = "train")
         \/ train'[t].pc = "fail"
      /\ \A u \in Trainers \ {t} : train'[u] = train[u]
  <2>1. CASE Evaluate(t)
    BY <2>1, EvaluateMoves, RowTypes
  <2>2. CASE RetrainFault(t)
    BY <2>2, RowTypes DEF RetrainFault, Train, TrainerRow
  <2>3. QED
    BY <2>1, <2>2
<1>3. faults' \in 0..MaxFaults
  <2>1. faults \in 0..MaxFaults
    BY DEF TypeOK
  <2>2. faults' = faults \/ (faults < MaxFaults /\ faults' = faults + 1)
    <3>1. CASE Evaluate(t)
      BY <3>1, EvaluateMoves, RowTypes
    <3>2. CASE RetrainFault(t)
      BY <3>2 DEF RetrainFault
    <3>3. QED
      BY <3>1, <3>2
  <2>3. QED
    BY <2>1, <2>2, RegistryAssumption
<1>4. Rows' = Rows
  BY <1>1, Frame
<1>5. TypeOK'
  BY <1>1, <1>2, <1>3 DEF TypeOK, TrainerRow
<1>6. TrainerInv'
  BY <1>1, <1>2, <1>4 DEF TrainerInv, TrainerAt, Training, Numbered
<1>7. NumberInv'
  BY <1>1, <1>2, <1>4 DEF NumberInv, TrainerAt, ArtifactsMatchRow
<1>8. RowInv' /\ OnlyEvaluatedPromoted' /\ PromoterInv' /\ AloneInv' /\ ServedIsProduction'
  BY <1>1, Frame
<1>9. QED
  BY <1>5, <1>6, <1>7, <1>8

(* latest_model_version_number: no row has the number, and a retrain that     *)
(* holds it makes it contested.                                               *)
LEMMA TakeNumberInv ==
  ASSUME RegistryInv, NEW t \in Trainers, TakeNumber(t)
  PROVE  RegistryInv'
<1> USE DEF RegistryInv
<1> DEFINE next == LatestVersionNumber + 1
<1>1. next \notin Rows
  BY NextNumberIsFree
<1> HIDE DEF next
<1>2. /\ UNCHANGED <<job, model, files, registry, tier, promotion, jobs, faults, restarts,
                     raced, stale>>
      /\ train[t].pc = "number" /\ next \in Versions
      /\ train' = [train EXCEPT ![t].pc = "write", ![t].version = next]
      /\ contested' = IF \E u \in Trainers \ {t} : train[u].version = next
                      THEN contested \cup {next} ELSE contested
  BY DEF TakeNumber, TrainerAt, next
<1>3. /\ train' \in [Trainers -> TrainerRow]
      /\ train'[t].job = train[t].job /\ train'[t].version = next /\ train'[t].pc = "write"
      /\ \A u \in Trainers \ {t} : train'[u] = train[u]
  BY <1>2, RowTypes DEF TrainerRow
<1>4. contested \subseteq contested' /\ contested' \subseteq Versions /\ next # None
  BY <1>2, RowTypes DEF TypeOK
<1>5. Rows' = Rows
  BY <1>2, Frame
<1>6. TypeOK'
  BY <1>2, <1>3, <1>4 DEF TypeOK, TrainerRow
<1>7. TrainerInv'
  BY <1>2, <1>3, <1>4, <1>5 DEF TrainerInv, TrainerAt, Training, Numbered
<1>8. NumberInv'
  <2>1. \A u \in Trainers \ {t} : train[u].version = next => next \in contested'
    BY <1>2
  <2>2. (\A u, w \in Trainers :
          u # w /\ train[u].version = train[w].version /\ train[u].version # None
          => train[u].version \in contested)'
    BY <1>3, <1>4, <2>1 DEF NumberInv
  <2>3. (\A u \in Trainers : train[u].version \notin contested =>
          /\ train[u].pc \in {"write", "create"} => train[u].version \notin Rows
          /\ TrainerAt(u, "create") => files[train[u].version] = train[u].job)'
    BY <1>1, <1>2, <1>3, <1>4, <1>5 DEF NumberInv, TrainerAt
  <2>4. ArtifactsMatchRow'
    BY <1>2, <1>4, <1>5 DEF NumberInv, ArtifactsMatchRow
  <2>5. QED
    BY <2>2, <2>3, <2>4 DEF NumberInv
<1>9. RowInv' /\ OnlyEvaluatedPromoted' /\ PromoterInv' /\ AloneInv' /\ ServedIsProduction'
  BY <1>2, <1>4, Frame
<1>10. QED
  BY <1>6, <1>7, <1>8, <1>9

(* The write, or one that raises: the directory is of no row that is not      *)
(* contested, and no other retrain has it unless it is contested.             *)
LEMMA WriteInv ==
  ASSUME RegistryInv, NEW t \in Trainers, WriteFiles(t) \/ WriteFault(t)
  PROVE  RegistryInv'
<1> USE DEF RegistryInv
<1> DEFINE v == train[t].version
<1>1. /\ UNCHANGED <<job, model, registry, tier, promotion, jobs, restarts,
                     contested, raced, stale>>
      /\ train[t].pc = "write"
      /\ faults' \in 0..MaxFaults
  BY RegistryAssumption DEF WriteFiles, WriteFault, TrainerAt, TypeOK
<1>2. v \in Versions /\ train[t].job \in Jobs
  <2>1. v # None /\ train[t].job \in 1..jobs
    BY <1>1 DEF TrainerInv, TrainerAt, Numbered
  <2>2. QED
    BY <2>1, RegistryAssumption DEF TypeOK, Jobs
<1>3. /\ files' \in [Versions -> Artifacts]
      /\ \A w \in Versions \ {v} : files'[w] = files[w]
      /\ train'[t].pc = "create" => files'[v] = train[t].job
      /\ train'[t].pc \in {"create", "fail"}
  BY <1>1, <1>2 DEF WriteFiles, WriteFault, Train, TypeOK, Artifacts
<1>4. /\ train' \in [Trainers -> TrainerRow]
      /\ train'[t].job = train[t].job /\ train'[t].version = v
      /\ \A u \in Trainers \ {t} : train'[u] = train[u]
  <2>1. train \in [Trainers -> TrainerRow]
    BY RowTypes
  <2>2. \E l \in {"create", "fail"} : train' = [train EXCEPT ![t].pc = l]
    BY DEF WriteFiles, WriteFault, Train
  <2>3. QED
    BY <2>1, <2>2 DEF TrainerRow
<1>5. Rows' = Rows /\ None \notin Versions
  BY <1>1, Frame, RowTypes
<1>6. TypeOK'
  BY <1>1, <1>3, <1>4 DEF TypeOK, TrainerRow
<1>7. TrainerInv'
  BY <1>1, <1>2, <1>3, <1>4, <1>5 DEF TrainerInv, TrainerAt, Training, Numbered
<1>8. NumberInv'
  <2>1. v \notin contested => v \notin Rows /\ \A u \in Trainers \ {t} : train[u].version # v
    BY <1>1, <1>2, <1>5 DEF NumberInv
  <2>2. (\A u, w \in Trainers :
          u # w /\ train[u].version = train[w].version /\ train[u].version # None
          => train[u].version \in contested)'
    BY <1>1, <1>4 DEF NumberInv
  <2>3. (train[t].version \notin contested =>
          /\ train[t].pc \in {"write", "create"} => train[t].version \notin Rows
          /\ TrainerAt(t, "create") => files[train[t].version] = train[t].job)'
    BY <1>1, <1>3, <1>4, <1>5, <2>1 DEF TrainerAt
  <2>4. \A u \in Trainers \ {t} : (train[u].version \notin contested =>
          /\ train[u].pc \in {"write", "create"} => train[u].version \notin Rows
          /\ TrainerAt(u, "create") => files[train[u].version] = train[u].job)'
    <3> TAKE u \in Trainers \ {t}
    <3>1. train[u].pc = "create" => train[u].version \in Versions
      BY DEF TrainerInv, Numbered, TypeOK
    <3>2. train[u].version = v => v \in contested
      BY <2>1
    <3>3. QED
      BY <1>1, <1>3, <1>4, <1>5, <3>1, <3>2 DEF NumberInv, TrainerAt
  <2>5. ArtifactsMatchRow'
    <3>1. \A w \in Rows \ contested : w \in Versions /\ w # v
      BY <2>1 DEF Rows
    <3>2. QED
      BY <1>1, <1>3, <1>5, <3>1 DEF NumberInv, ArtifactsMatchRow
  <2>6. QED
    BY <2>2, <2>3, <2>4, <2>5 DEF NumberInv
<1>9. RowInv' /\ OnlyEvaluatedPromoted' /\ PromoterInv' /\ AloneInv' /\ ServedIsProduction'
  BY <1>1, Frame
<1>10. QED
  BY <1>6, <1>7, <1>8, <1>9

(* A retrain that is over has no number left. *)
LEMMA TrainerEnds ==
  ASSUME train \in [Trainers -> TrainerRow], NEW t \in Trainers,
         train' = [train EXCEPT ![t] = IdleTrainer]
  PROVE  /\ train' \in [Trainers -> TrainerRow]
         /\ train'[t].pc = "idle" /\ train'[t].version = None
         /\ \A u \in Trainers \ {t} : train'[u] = train[u]
BY RowTypes DEF IdleTrainer

(* create_model where the number has a row by now: the retrain is over, and   *)
(* its job stays as it is.                                                    *)
LEMMA CreateRefusedInv ==
  ASSUME RegistryInv, NEW t \in Trainers, CreateModel(t), train[t].version \in Rows
  PROVE  RegistryInv'
<1> USE DEF RegistryInv
<1>1. /\ UNCHANGED <<job, model, files, registry, tier, promotion, jobs, faults, restarts,
                     contested, raced, stale>>
      /\ train' = [train EXCEPT ![t] = IdleTrainer]
  BY DEF CreateModel
<1>2. /\ train' \in [Trainers -> TrainerRow]
      /\ train'[t].pc = "idle" /\ train'[t].version = None
      /\ \A u \in Trainers \ {t} : train'[u] = train[u]
  BY <1>1, TrainerEnds, RowTypes
<1>3. Rows' = Rows
  BY <1>1, Frame
<1>4. TypeOK'
  BY <1>1, <1>2 DEF TypeOK, TrainerRow
<1>5. TrainerInv'
  BY <1>1, <1>2, <1>3 DEF TrainerInv, TrainerAt, Training, Numbered
<1>6. NumberInv'
  BY <1>1, <1>2, <1>3 DEF NumberInv, TrainerAt, ArtifactsMatchRow
<1>7. RowInv' /\ OnlyEvaluatedPromoted' /\ PromoterInv' /\ AloneInv' /\ ServedIsProduction'
  BY <1>1, Frame
<1>8. QED
  BY <1>4, <1>5, <1>6, <1>7

(* create_model: a row of a new number, for a job that has none. *)
LEMMA CreateModelInv ==
  ASSUME RegistryInv, NEW t \in Trainers, CreateModel(t), train[t].version \notin Rows
  PROVE  RegistryInv'
<1> USE DEF RegistryInv
<1> DEFINE v == train[t].version
           r == [stage |-> "staged", job |-> train[t].job,
                 good |-> train[t].good, anchor |-> train[t].anchor]
<1>1. /\ UNCHANGED <<job, files, registry, tier, promotion, jobs, faults, restarts,
                     contested, raced, stale>>
      /\ train[t].pc = "create"
      /\ model' = [model EXCEPT ![v] = r]
      /\ train' = [train EXCEPT ![t].pc = "finish"]
  BY DEF CreateModel, Train, TrainerAt
<1>2. /\ v \in Versions /\ train[t].job \in 1..jobs /\ train[t] \in TrainerRow
      /\ job[train[t].job].version = None
      /\ \A w \in Rows : model[w].job # train[t].job
  <2>1. train[t] \in TrainerRow
    BY RowTypes
  <2>2. QED
    BY <1>1, <2>1 DEF TrainerInv, TrainerAt, Numbered, Training, TrainerRow
<1>3. /\ model' \in [Versions -> ModelRegistryRow]
      /\ model'[v].stage = "staged" /\ model'[v].job = train[t].job
      /\ \A w \in Versions \ {v} : model'[w] = model[w]
  <2>1. r \in ModelRegistryRow
    BY <1>2 DEF TrainerRow, ModelRegistryRow, Stage
  <2>2. model \in [Versions -> ModelRegistryRow]
    BY DEF TypeOK
  <2>3. r.stage = "staged" /\ r.job = train[t].job
    OBVIOUS
  <2> HIDE DEF r
  <2>4. QED
    BY <1>1, <1>2, <2>1, <2>2, <2>3
<1>4. /\ Rows' = Rows \cup {v} /\ v \notin Rows /\ Rows \subseteq Versions
      /\ \A w \in Rows : w # v /\ model'[w] = model[w]
  BY <1>2, <1>3 DEF Rows
<1>5. Production' = Production /\ v \notin Production /\ Production \subseteq Rows
  BY <1>2, <1>3, <1>4 DEF Production, Rows
<1>6. /\ train' \in [Trainers -> TrainerRow]
      /\ train'[t].pc = "finish" /\ train'[t].job = train[t].job /\ train'[t].version = v
      /\ \A u \in Trainers \ {t} : train'[u] = train[u]
  BY <1>1, <1>2, RowTypes DEF TrainerRow
<1>7. TypeOK'
  BY <1>1, <1>3, <1>6 DEF TypeOK, TrainerRow
<1>8. TrainerInv'
  <2>1. \A u \in Trainers \ {t} : ~TrainerAt(u, "idle") => train[u].job # train[t].job
    BY <1>1 DEF TrainerInv, TrainerAt
  <2>2. \A u \in Trainers \ {t} : train[u].pc \in Training =>
          \A w \in Rows' : model'[w].job # train[u].job
    BY <1>3, <1>4, <2>1 DEF TrainerInv, TrainerAt, Training
  <2>3. \A u \in Trainers \ {t} : TrainerAt(u, "finish") =>
          train[u].version \in Rows' /\ model'[train[u].version].job = train[u].job
    BY <1>4 DEF TrainerInv
  <2>4. v # None
    BY <1>2, RowTypes
  <2>5. QED
    BY <1>1, <1>2, <1>3, <1>4, <1>6, <2>2, <2>3, <2>4
       DEF TrainerInv, TrainerAt, Training, Numbered
<1>9. RowInv'
  BY <1>1, <1>2, <1>3, <1>4 DEF RowInv
<1>10. NumberInv'
  <2>1. v \notin contested => files[v] = train[t].job
    BY <1>1 DEF NumberInv, TrainerAt
  <2>2. \A u \in Trainers \ {t} : train[u].version = v => v \in contested
    BY <1>2, RowTypes DEF NumberInv
  <2>3. (\A u, w \in Trainers :
          u # w /\ train[u].version = train[w].version /\ train[u].version # None
          => train[u].version \in contested)'
    BY <1>1, <1>6 DEF NumberInv
  <2>4. (\A u \in Trainers : train[u].version \notin contested =>
          /\ train[u].pc \in {"write", "create"} => train[u].version \notin Rows
          /\ TrainerAt(u, "create") => files[train[u].version] = train[u].job)'
    BY <1>1, <1>4, <1>6, <2>2 DEF NumberInv, TrainerAt
  <2>5. ArtifactsMatchRow'
    BY <1>1, <1>3, <1>4, <2>1 DEF NumberInv, ArtifactsMatchRow
  <2>6. QED
    BY <2>3, <2>4, <2>5 DEF NumberInv
<1>11. OnlyEvaluatedPromoted'
  BY <1>1, <1>3 DEF OnlyEvaluatedPromoted
<1>12. PromoterInv'
  <2>1. \A w \in Versions : model[w].stage \in {"production", "retired"} =>
          model'[w].stage = model[w].stage
    BY <1>4 DEF Rows
  <2>2. \A p \in Promoters : promotion[p].incumbent # None => promotion[p].incumbent \in Versions
    BY DEF TypeOK
  <2>3. QED
    BY <1>1, <1>4, <2>1, <2>2 DEF PromoterInv, PromoterAt
<1>13. AloneInv'
  <2>1. \A u \in Production : model'[u] = model[u] /\ u # None
    BY <1>4, <1>5, RowTypes
  <2>2. \A p \in Promoters : promotion[p].pc \in {"incumbent", "commit"} =>
          model'[promotion[p].version] = model[promotion[p].version]
    BY <1>4 DEF PromoterInv, PromoterAt
  <2>3. QED
    BY <1>1, <1>5, <2>1, <2>2 DEF AloneInv, PromoterAt, AnchorStable
<1>14. ServedIsProduction'
  BY <1>1, <1>4, <1>5 DEF ServedIsProduction, PromoterAt
<1>15. QED
  BY <1>7, <1>8, <1>9, <1>10, <1>11, <1>12, <1>13, <1>14

(* update_job: the row of the job is the one it comes to name. *)
LEMMA FinishRetrainInv ==
  ASSUME RegistryInv, NEW t \in Trainers, FinishRetrain(t)
  PROVE  RegistryInv'
<1> USE DEF RegistryInv
<1> DEFINE v == train[t].version
           k == train[t].job
<1>1. /\ UNCHANGED <<model, files, registry, tier, promotion, jobs, faults, restarts,
                     contested, raced, stale>>
      /\ train[t].pc = "finish"
      /\ job' = [job EXCEPT ![k] = [status |-> "eval_complete", version |-> v]]
      /\ train' = [train EXCEPT ![t] = IdleTrainer]
  BY DEF FinishRetrain, TrainerAt
<1>2. v \in Rows /\ model[v].job = k /\ k \in 1..jobs /\ job[k].version = None /\ v \in Versions
  BY <1>1 DEF TrainerInv, TrainerAt, Rows
<1>3. k \in Jobs
  BY <1>2, RegistryAssumption DEF TypeOK, Jobs
<1>4. /\ job' \in [Jobs -> LearningJobRow]
      /\ job'[k].status = "eval_complete" /\ job'[k].version = v
      /\ \A j \in Jobs \ {k} : job'[j] = job[j]
  BY <1>1, <1>2, <1>3 DEF TypeOK, LearningJobRow
<1>5. /\ train' \in [Trainers -> TrainerRow]
      /\ train'[t].pc = "idle" /\ train'[t].version = None
      /\ \A u \in Trainers \ {t} : train'[u] = train[u]
  BY <1>1, TrainerEnds, RowTypes
<1>6. Rows' = Rows /\ (\A w \in Rows : model[w].job = k => w = v) /\ v # None
      /\ \A w \in Rows : model[w].job \in Jobs
  <2>1. \A w \in Rows : model[w].job \in 1..jobs
    BY DEF RowInv
  <2>2. \A j \in 1..jobs : j \in Jobs
    BY RegistryAssumption DEF TypeOK, Jobs
  <2>3. Rows' = Rows /\ v # None
    BY <1>1, <1>2, Frame, RowTypes
  <2>4. \A w \in Rows : model[w].job = k => w = v
    BY <1>2 DEF RowInv
  <2>5. QED
    BY <2>1, <2>2, <2>3, <2>4
<1>7. TypeOK'
  BY <1>1, <1>4, <1>5 DEF TypeOK, TrainerRow
<1>8. TrainerInv'
  <2>1. \A u \in Trainers \ {t} : ~TrainerAt(u, "idle") =>
          train[u].job # k /\ train[u].job \in Jobs
    BY <1>1, RegistryAssumption DEF TrainerInv, TrainerAt, TypeOK, Jobs
  <2>2. QED
    BY <1>1, <1>4, <1>5, <1>6, <2>1 DEF TrainerInv, TrainerAt, Training, Numbered
<1>9. RowInv'
  BY <1>1, <1>2, <1>4, <1>6 DEF RowInv
<1>10. NumberInv'
  BY <1>1, <1>5, <1>6 DEF NumberInv, TrainerAt, ArtifactsMatchRow
<1>11. OnlyEvaluatedPromoted'
  BY <1>1, <1>2, <1>4, <1>6 DEF OnlyEvaluatedPromoted, Rows
<1>12. PromoterInv'
  BY <1>1, <1>2, <1>4, <1>6 DEF PromoterInv, PromoterAt
<1>13. AloneInv' /\ ServedIsProduction'
  BY <1>1, Frame
<1>14. QED
  BY <1>7, <1>8, <1>9, <1>10, <1>11, <1>12, <1>13

(* The except clause: the job that becomes failed names no version. *)
LEMMA FailRetrainInv ==
  ASSUME RegistryInv, NEW t \in Trainers, FailRetrain(t)
  PROVE  RegistryInv'
<1> USE DEF RegistryInv
<1> DEFINE k == train[t].job
<1>1. /\ UNCHANGED <<model, files, registry, tier, promotion, jobs, faults, restarts,
                     contested, raced, stale>>
      /\ train[t].pc = "fail"
      /\ job' = [job EXCEPT ![k].status = "failed"] \/ job' = job
      /\ train' = [train EXCEPT ![t] = IdleTrainer]
  BY DEF FailRetrain, TrainerAt
<1>2. k \in 1..jobs /\ job[k].version = None
  BY <1>1 DEF TrainerInv, TrainerAt
<1>3. k \in Jobs
  BY <1>2, RegistryAssumption DEF TypeOK, Jobs
<1>4. /\ job' \in [Jobs -> LearningJobRow]
      /\ \A j \in Jobs : job'[j].version = job[j].version
      /\ \A j \in Jobs \ {k} : job'[j] = job[j]
  <2>1. CASE job' = job
    BY <2>1 DEF TypeOK
  <2>2. CASE job' = [job EXCEPT ![k].status = "failed"]
    BY <1>3, <2>2 DEF TypeOK, LearningJobRow
  <2>3. QED
    BY <1>1, <2>1, <2>2
<1>5. /\ train' \in [Trainers -> TrainerRow]
      /\ train'[t].pc = "idle" /\ train'[t].version = None
      /\ \A u \in Trainers \ {t} : train'[u] = train[u]
  BY <1>1, TrainerEnds, RowTypes
<1>6. Rows' = Rows /\ \A j \in 1..jobs : j \in Jobs
  BY <1>1, Frame, RegistryAssumption DEF TypeOK, Jobs
<1>7. TypeOK'
  BY <1>1, <1>4, <1>5 DEF TypeOK, TrainerRow
<1>8. TrainerInv'
  BY <1>1, <1>4, <1>5, <1>6 DEF TrainerInv, TrainerAt, Training, Numbered
<1>9. RowInv'
  BY <1>1, <1>2, <1>4, <1>6 DEF RowInv
<1>10. NumberInv'
  BY <1>1, <1>5, <1>6 DEF NumberInv, TrainerAt, ArtifactsMatchRow
<1>11. OnlyEvaluatedPromoted' /\ PromoterInv'
  <2>1. \A w \in Rows : model[w].job \in Jobs
    BY <1>6 DEF RowInv
  <2>2. \A w \in Versions : model[w].stage \in {"production", "retired"} =>
          w \in Rows /\ model[w].job # k
    BY <1>2, RowTypes DEF OnlyEvaluatedPromoted, Rows
  <2>3. OnlyEvaluatedPromoted'
    BY <1>1, <1>4, <2>1, <2>2 DEF OnlyEvaluatedPromoted
  <2>4. PromoterInv'
    BY <1>1, <1>4, <1>6, <2>1 DEF PromoterInv, PromoterAt
  <2>5. QED
    BY <2>3, <2>4
<1>12. AloneInv' /\ ServedIsProduction'
  BY <1>1, Frame
<1>13. QED
  BY <1>7, <1>8, <1>9, <1>10, <1>11, <1>12

(* promote: the row is staged; a second promotion makes it raced. *)
LEMMA PromoteInv ==
  ASSUME RegistryInv, NEW p \in Promoters, NEW v \in Versions, Promote(p, v)
  PROVE  RegistryInv'
<1> USE DEF RegistryInv
<1>1. /\ UNCHANGED <<job, model, files, registry, tier, train, jobs, faults, restarts,
                     contested, stale>>
      /\ promotion[p].pc = "idle" /\ model[v].stage = "staged"
      /\ promotion' = [promotion EXCEPT ![p] =
           [IdlePromoter EXCEPT !.pc = "check", !.version = v]]
      /\ raced' = (raced \/ \E q \in Promoters : ~PromoterAt(q, "idle"))
  BY DEF Promote, PromoterAt
<1>2. /\ promotion' \in [Promoters -> PromoterRow]
      /\ promotion'[p].pc = "check" /\ promotion'[p].version = v
      /\ \A q \in Promoters \ {p} : promotion'[q] = promotion[q]
  <2> DEFINE r == [IdlePromoter EXCEPT !.pc = "check", !.version = v]
  <2>1. r \in PromoterRow /\ r.pc = "check" /\ r.version = v
    BY DEF IdlePromoter, PromoterRow
  <2> HIDE DEF r
  <2>2. promotion' = [promotion EXCEPT ![p] = r]
    BY <1>1 DEF r
  <2>3. QED
    BY <2>1, <2>2, RowTypes
<1>3. Rows' = Rows /\ Production' = Production /\ v \in Rows
  BY <1>1, Frame DEF Rows
<1>4. TypeOK'
  BY <1>1, <1>2 DEF TypeOK, PromoterRow
<1>5. PromoterInv'
  BY <1>1, <1>2, <1>3 DEF PromoterInv, PromoterAt
<1>6. ~raced' => ~raced /\ \A q \in Promoters : promotion[q].pc = "idle"
  BY <1>1 DEF PromoterAt
<1>7. AloneInv'
  BY <1>1, <1>2, <1>3, <1>6 DEF AloneInv, PromoterAt
<1>8. ServedIsProduction'
  <2>1. ~raced' => \A q \in Promoters : ~PromoterAt(q, "job")
    BY <1>6 DEF PromoterAt
  <2>2. QED
    BY <1>1, <1>3, <1>6, <2>1 DEF ServedIsProduction
<1>9. RowInv' /\ TrainerInv' /\ NumberInv' /\ OnlyEvaluatedPromoted'
  BY <1>1, Frame
<1>10. QED
  BY <1>4, <1>5, <1>7, <1>8, <1>9

(* A promotion that ends early, or before its commit, changes nothing but     *)
(* itself.                                                                    *)
LEMMA PromoterEnds ==
  ASSUME promotion \in [Promoters -> PromoterRow], NEW p \in Promoters,
         promotion' = [promotion EXCEPT ![p] = IdlePromoter]
  PROVE  /\ promotion' \in [Promoters -> PromoterRow] /\ promotion'[p].pc = "idle"
         /\ \A q \in Promoters \ {p} : promotion'[q] = promotion[q]
BY RowTypes DEF IdlePromoter

(* get_eval passes a row whose job names it, whose accuracy is good, and that *)
(* is stable against a row in production if there is one.                     *)
LEMMA CheckInv ==
  ASSUME RegistryInv, NEW p \in Promoters, Check(p)
  PROVE  RegistryInv'
<1> USE DEF RegistryInv
<1> DEFINE v == promotion[p].version
<1>1. /\ UNCHANGED <<job, model, files, registry, tier, train, jobs, faults, restarts,
                     contested, raced, stale>>
      /\ promotion[p].pc = "check"
  BY DEF Check, PromoterAt
<1>2. PICK incumbent \in Versions \cup {None} :
        /\ ProductionModel(incumbent)
        /\ promotion' = [promotion EXCEPT ![p] =
             IF job[model[v].job].version # None /\ model[v].good
                /\ AnchorStable(model[v].anchor, incumbent)
             THEN [@ EXCEPT !.pc = "incumbent"] ELSE IdlePromoter]
  BY DEF Check
<1>3. v \in Rows /\ v \in Versions
  BY <1>1 DEF PromoterInv, PromoterAt, Rows
<1>4. Rows' = Rows /\ Production' = Production
  BY <1>1, Frame
<1>5. CASE promotion' = [promotion EXCEPT ![p] = IdlePromoter]
  <2>1. /\ promotion' \in [Promoters -> PromoterRow] /\ promotion'[p].pc = "idle"
        /\ \A q \in Promoters \ {p} : promotion'[q] = promotion[q]
    BY <1>5, PromoterEnds, RowTypes
  <2>2. TypeOK'
    BY <1>1, <2>1 DEF TypeOK, PromoterRow
  <2>3. PromoterInv'
    BY <1>1, <1>4, <2>1 DEF PromoterInv, PromoterAt
  <2>4. AloneInv'
    BY <1>1, <1>4, <2>1 DEF AloneInv, PromoterAt
  <2>5. ServedIsProduction'
    BY <1>1, <1>4, <2>1 DEF ServedIsProduction, PromoterAt
  <2>6. RowInv' /\ TrainerInv' /\ NumberInv' /\ OnlyEvaluatedPromoted'
    BY <1>1, Frame
  <2>7. QED
    BY <2>2, <2>3, <2>4, <2>5, <2>6
<1>6. CASE /\ promotion' = [promotion EXCEPT ![p].pc = "incumbent"]
           /\ job[model[v].job].version # None /\ model[v].good
           /\ AnchorStable(model[v].anchor, incumbent)
  <2>1. /\ promotion' \in [Promoters -> PromoterRow]
        /\ promotion'[p].pc = "incumbent" /\ promotion'[p].version = v
        /\ \A q \in Promoters \ {p} : promotion'[q] = promotion[q]
    BY <1>6, RowTypes DEF PromoterRow
  <2>2. job[model[v].job].version = v
    <3> DEFINE j == model[v].job
               w == job[j].version
    <3>1. j \in Jobs
      BY <1>3, RegistryAssumption DEF RowInv, TypeOK, Jobs
    <3>2. w # None
      BY <1>6
    <3>3. w \in Rows /\ model[w].job = j
      BY <3>1, <3>2 DEF RowInv
    <3>4. QED
      BY <1>3, <3>3 DEF RowInv
  <2>3. TypeOK'
    BY <1>1, <2>1 DEF TypeOK, PromoterRow
  <2>4. PromoterInv'
    BY <1>1, <1>3, <1>4, <1>6, <2>1, <2>2 DEF PromoterInv, PromoterAt
  <2>5. AloneInv'
    <3>1. ~raced => \A u \in Production : u = incumbent
      BY <1>2 DEF AloneInv, ProductionModel
    <3>2. ~raced => \A u \in Production : AnchorStable(model[v].anchor, u)
      BY <1>6, <3>1
    <3>3. \A q \in Promoters \ {p} : ~raced => promotion[q].pc = "idle"
      BY <1>1 DEF AloneInv, PromoterAt
    <3>4. (~raced =>
             /\ \A q, s \in Promoters : ~PromoterAt(q, "idle") /\ ~PromoterAt(s, "idle") => q = s
             /\ \A u, w \in Production : u = w)'
      BY <1>1, <1>4, <2>1, <3>3 DEF AloneInv, PromoterAt
    <3>5. (~raced => \A u \in Production : AnchorStable(model[v].anchor, u))'
      BY <1>1, <1>4, <2>1, <3>2 DEF AnchorStable
    <3>6. QED
      BY <1>1, <1>4, <2>1, <3>3, <3>4, <3>5 DEF AloneInv, PromoterAt
  <2>6. ServedIsProduction'
    BY <1>1, <1>4, <2>1 DEF ServedIsProduction, PromoterAt
  <2>7. RowInv' /\ TrainerInv' /\ NumberInv' /\ OnlyEvaluatedPromoted'
    BY <1>1, Frame
  <2>8. QED
    BY <2>3, <2>4, <2>5, <2>6, <2>7
<1>7. QED
  <2>1. CASE /\ job[model[v].job].version # None /\ model[v].good
             /\ AnchorStable(model[v].anchor, incumbent)
    BY <1>2, <1>6, <2>1
  <2>2. QED
    BY <1>2, <1>5, <2>1

(* promote_model reads the row in production again. *)
LEMMA ReadIncumbentInv ==
  ASSUME RegistryInv, NEW p \in Promoters, ReadIncumbent(p)
  PROVE  RegistryInv'
<1> USE DEF RegistryInv
<1>1. /\ UNCHANGED <<job, model, files, registry, tier, train, jobs, faults, restarts,
                     contested, raced, stale>>
      /\ promotion[p].pc = "incumbent"
  BY DEF ReadIncumbent, PromoterAt
<1>2. PICK incumbent \in Versions \cup {None} :
        /\ ProductionModel(incumbent)
        /\ promotion' = [promotion EXCEPT ![p].pc = "commit", ![p].incumbent = incumbent]
  BY DEF ReadIncumbent
<1>3. /\ promotion' \in [Promoters -> PromoterRow]
      /\ promotion'[p].pc = "commit" /\ promotion'[p].incumbent = incumbent
      /\ promotion'[p].version = promotion[p].version
      /\ \A q \in Promoters \ {p} : promotion'[q] = promotion[q]
  <2> DEFINE r == [promotion[p] EXCEPT !.pc = "commit", !.incumbent = incumbent]
  <2>1. promotion \in [Promoters -> PromoterRow]
    BY RowTypes
  <2>2. /\ r \in PromoterRow /\ r.pc = "commit" /\ r.incumbent = incumbent
        /\ r.version = promotion[p].version
    BY <2>1 DEF PromoterRow
  <2>3. promotion' = [promotion EXCEPT ![p] = r]
    BY <1>2
  <2> HIDE DEF r
  <2>4. QED
    BY <2>1, <2>2, <2>3
<1>4. Rows' = Rows /\ Production' = Production
  BY <1>1, Frame
<1>5. TypeOK'
  BY <1>1, <1>3 DEF TypeOK, PromoterRow
<1>6. PromoterInv'
  <2>1. incumbent # None => model[incumbent].stage = "production"
    BY <1>2 DEF ProductionModel, Production
  <2>2. QED
    BY <1>1, <1>3, <1>4, <2>1 DEF PromoterInv, PromoterAt
<1>7. AloneInv'
  <2>1. ~raced => Production = IF incumbent = None THEN {} ELSE {incumbent}
    BY <1>2, RowTypes DEF AloneInv, ProductionModel, Production
  <2>2. QED
    BY <1>1, <1>3, <1>4, <2>1 DEF AloneInv, PromoterAt, AnchorStable
<1>8. ServedIsProduction'
  BY <1>1, <1>3, <1>4 DEF ServedIsProduction, PromoterAt
<1>9. RowInv' /\ TrainerInv' /\ NumberInv' /\ OnlyEvaluatedPromoted'
  BY <1>1, Frame
<1>10. QED
  BY <1>5, <1>6, <1>7, <1>8, <1>9

(* The commit of promote_model: only stages change, and where promotions do   *)
(* not overlap the row is the only one in production.                         *)
LEMMA PromoteModelEffect ==
  ASSUME RegistryInv, NEW p \in Promoters, PromoteModel(p)
  PROVE  LET v == promotion[p].version
             i == promotion[p].incumbent
         IN /\ model' \in [Versions -> ModelRegistryRow]
            /\ v \in Rows /\ v \in Versions
            /\ model'[v].stage = "production"
            /\ i # None /\ i # v => i \in Versions /\ model'[i].stage = "retired"
            /\ \A w \in Versions :
                 /\ model'[w].job = model[w].job /\ model'[w].good = model[w].good
                 /\ model'[w].anchor = model[w].anchor
                 /\ w # v /\ w # i => model'[w].stage = model[w].stage
            /\ Rows' = Rows
            /\ Production' = (Production \ {i}) \cup {v}
<1> USE DEF RegistryInv
<1> DEFINE v == promotion[p].version
           i == promotion[p].incumbent
<1>1. /\ v \in Rows /\ v \in Versions
      /\ i # None => i \in Versions /\ model[i].stage \in {"production", "retired"}
  BY DEF PromoteModel, PromoterInv, PromoterAt, Rows, TypeOK
<1>2. model' = [w \in Versions |->
           IF w = v THEN [model[w] EXCEPT !.stage = "production"]
           ELSE IF w = i THEN [model[w] EXCEPT !.stage = "retired"]
           ELSE model[w]]
  BY DEF PromoteModel
<1>3. \A w \in Versions : model[w] \in ModelRegistryRow
  BY DEF TypeOK
<1> HIDE DEF v, i
<1>4. \A w \in Versions :
        /\ model'[w] \in ModelRegistryRow
        /\ model'[w].job = model[w].job /\ model'[w].good = model[w].good
        /\ model'[w].anchor = model[w].anchor
        /\ model'[w].stage = IF w = v THEN "production" ELSE IF w = i THEN "retired"
                             ELSE model[w].stage
  BY <1>2, <1>3 DEF ModelRegistryRow, Stage
<1>5. model' \in [Versions -> ModelRegistryRow]
  BY <1>2, <1>4
<1>6. Rows' = Rows
  BY <1>1, <1>4, RowTypes DEF Rows
<1>7. Production' = (Production \ {i}) \cup {v}
  BY <1>1, <1>4 DEF Production
<1>8. QED
  BY <1>1, <1>4, <1>5, <1>6, <1>7 DEF v, i

(* The invariant after that commit. *)
LEMMA PromoteModelInv ==
  ASSUME RegistryInv, NEW p \in Promoters, PromoteModel(p)
  PROVE  RegistryInv'
<1> USE DEF RegistryInv
<1> DEFINE v == promotion[p].version
           i == promotion[p].incumbent
<1>1. /\ UNCHANGED <<job, files, registry, tier, train, jobs, faults, restarts,
                     contested, raced, stale>>
      /\ promotion[p].pc = "commit"
      /\ promotion' = [promotion EXCEPT ![p].pc = "job"]
  BY DEF PromoteModel, PromoterAt
<1>2. /\ promotion' \in [Promoters -> PromoterRow]
      /\ promotion'[p].pc = "job" /\ promotion'[p].version = v
      /\ \A q \in Promoters \ {p} : promotion'[q] = promotion[q]
  BY <1>1, RowTypes DEF PromoterRow
<1>3. /\ model' \in [Versions -> ModelRegistryRow]
      /\ v \in Rows /\ v \in Versions
      /\ model'[v].stage = "production"
      /\ i # None /\ i # v => i \in Versions /\ model'[i].stage = "retired"
      /\ \A w \in Versions :
           /\ model'[w].job = model[w].job /\ model'[w].good = model[w].good
           /\ model'[w].anchor = model[w].anchor
           /\ w # v /\ w # i => model'[w].stage = model[w].stage
      /\ Rows' = Rows
      /\ Production' = (Production \ {i}) \cup {v}
  BY PromoteModelEffect
<1>4. /\ i # None => i \in Versions /\ model[i].stage \in {"production", "retired"}
      /\ Rows \subseteq Versions
  BY <1>1 DEF PromoterInv, PromoterAt, TypeOK, Rows
<1>5. job[model[v].job].version = v
  BY <1>1 DEF PromoterInv
<1> HIDE DEF v, i
<1>6. TypeOK'
  BY <1>1, <1>2, <1>3 DEF TypeOK, PromoterRow
<1>7. TrainerInv'
  <2>1. \A t \in Trainers : TrainerAt(t, "finish") =>
          train[t].version \in Versions
    BY <1>4 DEF TrainerInv
  <2>2. QED
    BY <1>1, <1>3, <1>4, <2>1 DEF TrainerInv, TrainerAt, Training, Numbered
<1>8. RowInv' /\ NumberInv'
  BY <1>1, <1>3, <1>4 DEF RowInv, NumberInv, TrainerAt, ArtifactsMatchRow
<1>9. OnlyEvaluatedPromoted'
  <2>1. \A w \in Versions : model'[w].stage \in {"production", "retired"} =>
          w = v \/ model[w].stage \in {"production", "retired"}
    BY <1>3, <1>4, RowTypes
  <2>2. job[model[v].job].status \in {"eval_complete", "promoted"}
    <3>1. model[v].job \in 1..jobs
      BY <1>3 DEF RowInv
    <3>2. model[v].job \in Jobs
      BY <3>1, RegistryAssumption DEF TypeOK, Jobs
    <3>3. job[model[v].job].version # None
      BY <1>3, <1>5, RowTypes
    <3>4. QED
      BY <3>2, <3>3 DEF RowInv
  <2>3. SUFFICES ASSUME NEW w \in Versions, model'[w].stage \in {"production", "retired"}
                 PROVE  /\ job[model[w].job].version = w
                        /\ job[model[w].job].status \in {"eval_complete", "promoted"}
    BY <1>1, <1>3 DEF OnlyEvaluatedPromoted
  <2>4. CASE w = v
    BY <1>5, <2>2, <2>4
  <2>5. CASE w # v
    BY <2>1, <2>3, <2>5 DEF OnlyEvaluatedPromoted
  <2>6. QED
    BY <2>4, <2>5
<1>10. PromoterInv'
  <2>1. \A w \in Versions : model[w].stage \in {"production", "retired"} =>
          model'[w].stage \in {"production", "retired"}
    BY <1>3, RowTypes
  <2>2. \A q \in Promoters : promotion[q].incumbent # None => promotion[q].incumbent \in Versions
    BY DEF TypeOK
  <2>3. QED
    BY <1>1, <1>2, <1>3, <1>4, <1>5, <2>1, <2>2 DEF PromoterInv, PromoterAt
<1>11. AloneInv'
  <2>1. ~raced => Production = IF i = None THEN {} ELSE {i}
    BY <1>1 DEF AloneInv, PromoterAt, v, i
  <2>2. ~raced => Production' = {v}
    BY <1>3, <2>1
  <2>3. ~raced => \A q \in Promoters \ {p} : promotion[q].pc = "idle"
    BY <1>1 DEF AloneInv, PromoterAt
  <2>4. QED
    BY <1>1, <1>2, <2>2, <2>3 DEF AloneInv, PromoterAt
<1>12. ServedIsProduction'
  <2>1. ~raced => Cardinality(Production') <= 1
    <3>1. ~raced => Production = IF i = None THEN {} ELSE {i}
      BY <1>1 DEF AloneInv, PromoterAt, v, i
    <3>2. ~raced => Production' = {v}
      BY <1>3, <3>1
    <3>3. Cardinality({v}) = 1
      BY FS_Singleton
    <3>4. QED
      BY <3>2, <3>3
  <2>2. PromoterAt(p, "job")'
    BY <1>2 DEF PromoterAt
  <2>3. QED
    BY <1>1, <2>1, <2>2 DEF ServedIsProduction
<1>13. QED
  BY <1>6, <1>7, <1>8, <1>9, <1>10, <1>11, <1>12

(* update_job and reload: the registry scores with the promoted row. *)
LEMMA PublishInv ==
  ASSUME RegistryInv, NEW p \in Promoters, Publish(p)
  PROVE  RegistryInv'
<1> USE DEF RegistryInv
<1> DEFINE v == promotion[p].version
           k == model[v].job
<1>1. /\ UNCHANGED <<model, files, tier, train, jobs, faults, restarts, contested, raced>>
      /\ promotion[p].pc = "job"
      /\ job' = [job EXCEPT ![k].status = "promoted"]
      /\ registry' = [dir |-> v, art |-> files[v]]
      /\ stale' = FALSE
      /\ promotion' = [promotion EXCEPT ![p] = IdlePromoter]
  BY DEF Publish, PromoterAt, Load
<1>2. /\ promotion' \in [Promoters -> PromoterRow] /\ promotion'[p].pc = "idle"
      /\ \A q \in Promoters \ {p} : promotion'[q] = promotion[q]
  BY <1>1, PromoterEnds, RowTypes
<1>3. v \in Rows /\ v \in Versions /\ job[k].version = v
  BY <1>1 DEF PromoterInv, PromoterAt, Rows
<1>4. k \in Jobs
  BY <1>3, RegistryAssumption DEF RowInv, TypeOK, Jobs
<1>5. /\ job' \in [Jobs -> LearningJobRow]
      /\ \A j \in Jobs : /\ job'[j].version = job[j].version
                         /\ job'[j].status \in {job[j].status, "promoted"}
  BY <1>1, <1>4 DEF TypeOK, LearningJobRow
<1>6. /\ Rows' = Rows /\ Production' = Production
      /\ \A j \in 1..jobs : j \in Jobs
      /\ \A w \in Rows : model[w].job \in Jobs
  <2>1. \A j \in 1..jobs : j \in Jobs
    BY RegistryAssumption DEF TypeOK, Jobs
  <2>2. QED
    BY <1>1, <2>1, Frame DEF RowInv
<1>7. TypeOK'
  <2>1. registry' \in [dir : Versions, art : Artifacts]
    BY <1>1, <1>3 DEF TypeOK
  <2>2. QED
    BY <1>1, <1>2, <1>5, <2>1 DEF TypeOK, PromoterRow
<1>8. TrainerInv' /\ RowInv'
  <2>1. TrainerInv'
    BY <1>1, <1>5, <1>6 DEF TrainerInv, TrainerAt, Training, Numbered
  <2>2. \A j \in Jobs : job[j].version # None =>
          job'[j].status \in {"eval_complete", "promoted"}
    BY <1>5 DEF RowInv
  <2>3. \A j \in Jobs : job'[j].version = job[j].version
    BY <1>5
  <2>4. \A j \in Jobs : job[j].version # None =>
          job[j].version \in Rows /\ model[job[j].version].job = j
    BY DEF RowInv
  <2>5. (\A j \in Jobs : job[j].version # None =>
          /\ job[j].status \in {"eval_complete", "promoted"}
          /\ job[j].version \in Rows /\ model[job[j].version].job = j)'
    BY <1>1, <1>6, <2>2, <2>3, <2>4
  <2>6. RowInv'
    BY <1>1, <1>6, <2>5 DEF RowInv
  <2>7. QED
    BY <2>1, <2>6
<1>9. NumberInv'
  BY <1>1, Frame
<1>10. OnlyEvaluatedPromoted' /\ PromoterInv'
  <2>1. \A w \in Versions : model[w].stage \in {"production", "retired"} => w \in Rows
    BY DEF Rows
  <2>2. OnlyEvaluatedPromoted'
    BY <1>1, <1>5, <1>6, <2>1 DEF OnlyEvaluatedPromoted
  <2>3. PromoterInv'
    BY <1>1, <1>2, <1>5, <1>6 DEF PromoterInv, PromoterAt
  <2>4. QED
    BY <2>2, <2>3
<1>11. AloneInv'
  BY <1>1, <1>2, <1>6 DEF AloneInv, PromoterAt
<1>12. ServedIsProduction'
  <2>1. ~raced => Production = {v}
    BY <1>1 DEF AloneInv, PromoterAt
  <2>2. v \in contested \/ files[v] = model[v].job
    BY <1>3 DEF NumberInv, ArtifactsMatchRow
  <2>3. QED
    BY <1>1, <1>6, <2>1, <2>2 DEF ServedIsProduction
<1>13. QED
  BY <1>7, <1>8, <1>9, <1>10, <1>11, <1>12

(* A promotion that raises: after its commit, what is loaded is stale. *)
LEMMA PromoteFaultInv ==
  ASSUME RegistryInv, NEW p \in Promoters, PromoteFault(p)
  PROVE  RegistryInv'
<1> USE DEF RegistryInv
<1>1. /\ UNCHANGED <<job, model, files, registry, tier, train, jobs, restarts, contested, raced>>
      /\ promotion[p].pc # "idle"
      /\ stale' = (stale \/ PromoterAt(p, "job"))
      /\ promotion' = [promotion EXCEPT ![p] = IdlePromoter]
      /\ faults < MaxFaults /\ faults' = faults + 1
  BY DEF PromoteFault, PromoterAt
<1>2. /\ promotion' \in [Promoters -> PromoterRow] /\ promotion'[p].pc = "idle"
      /\ \A q \in Promoters \ {p} : promotion'[q] = promotion[q]
  BY <1>1, PromoterEnds, RowTypes
<1>3. Rows' = Rows /\ Production' = Production
  BY <1>1, Frame
<1>4. TypeOK'
  <2>1. faults' \in 0..MaxFaults
    BY <1>1, RegistryAssumption DEF TypeOK
  <2>2. stale' \in BOOLEAN
    BY <1>1 DEF TypeOK, PromoterAt
  <2>3. QED
    BY <1>1, <1>2, <2>1, <2>2 DEF TypeOK, PromoterRow
<1>5. PromoterInv' /\ AloneInv'
  BY <1>1, <1>2, <1>3 DEF PromoterInv, AloneInv, PromoterAt
<1>6. ServedIsProduction'
  <2>1. (~stale /\ \A q \in Promoters : ~PromoterAt(q, "job"))' =>
          ~stale /\ \A q \in Promoters : ~PromoterAt(q, "job")
    BY <1>1, <1>2 DEF PromoterAt
  <2>2. QED
    BY <1>1, <1>3, <2>1 DEF ServedIsProduction
<1>7. RowInv' /\ TrainerInv' /\ NumberInv' /\ OnlyEvaluatedPromoted'
  BY <1>1, Frame
<1>8. QED
  BY <1>4, <1>5, <1>6, <1>7

(* The requests do not survive a restart, which loads models/v1. *)
LEMMA RestartInv ==
  ASSUME RegistryInv, Restart
  PROVE  RegistryInv'
<1> USE DEF RegistryInv
<1>1. /\ UNCHANGED <<job, model, files, tier, jobs, faults, contested, raced>>
      /\ train' = [t \in Trainers |-> IdleTrainer]
      /\ promotion' = [p \in Promoters |-> IdlePromoter]
      /\ registry' = [dir |-> 1, art |-> files[1]] /\ stale' = TRUE
      /\ restarts < MaxRestarts /\ restarts' = restarts + 1
  BY DEF Restart, Load
<1>2. /\ train' \in [Trainers -> TrainerRow]
      /\ \A t \in Trainers : train'[t].pc = "idle" /\ train'[t].version = None
  BY <1>1, RowTypes DEF IdleTrainer
<1>3. /\ promotion' \in [Promoters -> PromoterRow]
      /\ \A p \in Promoters : promotion'[p].pc = "idle"
  BY <1>1, RowTypes DEF IdlePromoter
<1>4. Rows' = Rows /\ Production' = Production
  BY <1>1, Frame
<1>5. TypeOK'
  <2>1. registry' \in [dir : Versions, art : Artifacts] /\ stale' \in BOOLEAN
    BY <1>1, RowTypes DEF TypeOK
  <2>2. restarts' \in 0..MaxRestarts
    BY <1>1, RegistryAssumption DEF TypeOK
  <2>3. QED
    BY <1>1, <1>2, <1>3, <2>1, <2>2 DEF TypeOK, TrainerRow, PromoterRow
<1>6. TrainerInv'
  BY <1>2 DEF TrainerInv, TrainerAt, Training, Numbered
<1>7. NumberInv'
  BY <1>1, <1>2, <1>4 DEF NumberInv, TrainerAt, ArtifactsMatchRow
<1>8. PromoterInv' /\ AloneInv'
  BY <1>1, <1>3, <1>4 DEF PromoterInv, AloneInv, PromoterAt
<1>9. ServedIsProduction'
  BY <1>1, <1>4 DEF ServedIsProduction
<1>10. RowInv' /\ OnlyEvaluatedPromoted'
  BY <1>1, Frame
<1>11. QED
  BY <1>5, <1>6, <1>7, <1>8, <1>9, <1>10

------------------------------------------------------------------------------
(* The theorems. *)

(* Before the first retrain there is no row and nothing is in production. *)
LEMMA RegistryInit == Init => RegistryInv
<1> SUFFICES ASSUME Init PROVE RegistryInv
  OBVIOUS
<1>1. /\ \A v \in Versions : model[v].stage = "absent"
      /\ \A j \in Jobs : job[j].version = None
      /\ \A t \in Trainers : train[t].pc = "idle" /\ train[t].version = None
      /\ \A p \in Promoters : promotion[p].pc = "idle"
  BY DEF Init, NoModel, IdleTrainer, IdlePromoter
<1>2. Rows = {} /\ Production = {}
  BY <1>1 DEF Rows, Production
<1>3. TypeOK
  <2>1. job \in [Jobs -> LearningJobRow]
    BY DEF Init, LearningJobRow
  <2>2. model \in [Versions -> ModelRegistryRow]
    <3>1. NoModel \in ModelRegistryRow
      BY RegistryAssumption DEF NoModel, ModelRegistryRow, Stage
    <3>2. QED
      BY <3>1 DEF Init
  <2>3. files \in [Versions -> Artifacts] /\ registry \in [dir : Versions, art : Artifacts]
    <3>1. PICK script \in {None, Script} :
            files = [v \in Versions |-> IF v = 1 THEN script ELSE None]
      BY DEF Init
    <3>2. files \in [Versions -> Artifacts]
      BY <3>1 DEF Artifacts
    <3>3. registry = [dir |-> 1, art |-> files[1]]
      BY DEF Init
    <3>4. QED
      BY <3>2, <3>3, RowTypes
  <2>4. train \in [Trainers -> TrainerRow] /\ promotion \in [Promoters -> PromoterRow]
    BY RowTypes DEF Init
  <2>5. /\ jobs \in 0..MaxJobs /\ faults \in 0..MaxFaults /\ restarts \in 0..MaxRestarts
    <3>1. jobs = 0 /\ faults = 0 /\ restarts = 0
      BY DEF Init
    <3>2. QED
      BY <3>1, RegistryAssumption
  <2>6. /\ contested \subseteq Versions /\ raced \in BOOLEAN /\ stale \in BOOLEAN
        /\ tier \in {"1", "2", "3"}
    BY DEF Init
  <2>7. QED
    BY <2>1, <2>2, <2>3, <2>4, <2>5, <2>6 DEF TypeOK, TrainerRow, PromoterRow
<1>4. TrainerInv /\ RowInv
  BY <1>1, <1>2 DEF TrainerInv, RowInv, TrainerAt, Training, Numbered
<1>5. NumberInv
  BY <1>1, <1>2 DEF NumberInv, TrainerAt, ArtifactsMatchRow
<1>6. OnlyEvaluatedPromoted /\ PromoterInv /\ AloneInv
  BY <1>1, <1>2 DEF OnlyEvaluatedPromoted, PromoterInv, AloneInv, PromoterAt
<1>7. ServedIsProduction
  BY <1>2, FS_EmptySet DEF ServedIsProduction, Init
<1>8. QED
  BY <1>3, <1>4, <1>5, <1>6, <1>7 DEF RegistryInv

(* One case per action. *)
LEMMA RegistryNext == RegistryInv /\ [Next]_vars => RegistryInv'
<1> SUFFICES ASSUME RegistryInv, [Next]_vars PROVE RegistryInv'
  OBVIOUS
<1>1. ASSUME NEW t \in Trainers, TrainerStep(t) PROVE RegistryInv'
  <2>1. CASE StartRetrain(t)
    BY <2>1, StartRetrainInv
  <2>2. CASE Evaluate(t) \/ RetrainFault(t)
    BY <2>2, RetrainMovesInv
  <2>3. CASE TakeNumber(t)
    BY <2>3, TakeNumberInv
  <2>4. CASE WriteFiles(t) \/ WriteFault(t)
    BY <2>4, WriteInv
  <2>5. CASE CreateModel(t)
    BY <2>5, CreateModelInv, CreateRefusedInv
  <2>6. CASE FinishRetrain(t)
    BY <2>6, FinishRetrainInv
  <2>7. CASE FailRetrain(t)
    BY <2>7, FailRetrainInv
  <2>8. QED
    BY <1>1, <2>1, <2>2, <2>3, <2>4, <2>5, <2>6, <2>7 DEF TrainerStep
<1>2. ASSUME NEW p \in Promoters, PromoterStep(p) PROVE RegistryInv'
  <2>1. CASE Check(p)
    BY <2>1, CheckInv
  <2>2. CASE ReadIncumbent(p)
    BY <2>2, ReadIncumbentInv
  <2>3. CASE PromoteModel(p)
    BY <2>3, PromoteModelInv
  <2>4. CASE Publish(p)
    BY <2>4, PublishInv
  <2>5. CASE PromoteFault(p)
    BY <2>5, PromoteFaultInv
  <2>6. QED
    BY <1>2, <2>1, <2>2, <2>3, <2>4, <2>5 DEF PromoterStep
<1>3. ASSUME NEW p \in Promoters, NEW v \in Versions, Promote(p, v) PROVE RegistryInv'
  BY <1>3, PromoteInv
<1>4. CASE SetTier
  <2>1. UNCHANGED <<job, model, files, registry, train, promotion, jobs, faults, restarts,
                    contested, raced, stale>>
        /\ tier' \in {"1", "2", "3"}
    BY <1>4 DEF SetTier
  <2>2. TypeOK'
    BY <2>1 DEF RegistryInv, TypeOK
  <2>3. QED
    BY <2>1, <2>2, Frame DEF RegistryInv
<1>5. CASE UNCHANGED vars
  <2>1. UNCHANGED <<job, model, files, registry, tier, train, promotion, jobs, faults,
                    restarts, contested, raced, stale>>
    BY <1>5 DEF vars
  <2>2. TypeOK'
    BY <2>1 DEF RegistryInv, TypeOK
  <2>3. QED
    BY <2>1, <2>2, Frame DEF RegistryInv
<1>6. QED
  BY <1>1, <1>2, <1>3, <1>4, <1>5, RestartInv DEF Next

(* Every reachable state satisfies the invariant, types included. *)
THEOREM RegistryTypes == Spec => []TypeOK
<1>1. RegistryInv => TypeOK
  BY DEF RegistryInv
<1>2. QED
  BY <1>1, RegistryInit, RegistryNext, PTL DEF Spec

(* However retrains overlap, fail or are cut off by a restart, the directory  *)
(* of a row holds the artifacts of the job that staged it, unless two         *)
(* retrains held its number at once.                                          *)
THEOREM ArtifactsMatch == Spec => []ArtifactsMatchRow
<1>1. RegistryInv => ArtifactsMatchRow
  BY DEF RegistryInv, NumberInv
<1>2. QED
  BY <1>1, RegistryInit, RegistryNext, PTL DEF Spec

(* A row that is or was in production is named by a job that completed: the   *)
(* lookups of get_eval identify the job and the row with one another.         *)
THEOREM OnlyEvaluated == Spec => []OnlyEvaluatedPromoted
<1>1. RegistryInv => OnlyEvaluatedPromoted
  BY DEF RegistryInv
<1>2. QED
  BY <1>1, RegistryInit, RegistryNext, PTL DEF Spec

(* Where promotions do not overlap, at most one row is in production, and     *)
(* what the registry scores with is that row's directory and artifacts.       *)
THEOREM ServedProduction == Spec => []ServedIsProduction
<1>1. RegistryInv => ServedIsProduction
  BY DEF RegistryInv
<1>2. QED
  BY <1>1, RegistryInit, RegistryNext, PTL DEF Spec

(* The one step that puts a row into production is the commit of a promotion  *)
(* whose row passed both gates, the second against the row that leaves.       *)
LEMMA GatesStep ==
  ASSUME RegistryInv, [Next]_vars, NEW v \in Versions,
         model[v].stage # "production", model'[v].stage = "production"
  PROVE  /\ model[v].good
         /\ raced \/ \A u \in Production : model[u].anchor <= model[v].anchor + Epsilon
<1>1. model' # model
  OBVIOUS
<1>2. CASE \E p \in Promoters : PromoteModel(p)
  <2>1. PICK p \in Promoters : PromoteModel(p)
    BY <1>2
  <2>2. promotion[p].pc = "commit"
    BY <2>1 DEF PromoteModel, PromoterAt
  <2>3. promotion[p].version = v
    <3>1. \A w \in Versions : w # promotion[p].version =>
            model'[w].stage \in {"retired", model[w].stage}
      BY <2>1, PromoteModelEffect, RowTypes
    <3>2. QED
      BY <3>1
  <2>4. model[v].good
    BY <2>2, <2>3 DEF RegistryInv, PromoterInv
  <2>5. ~raced => \A u \in Production : AnchorStable(model[v].anchor, u)
    BY <2>2, <2>3 DEF RegistryInv, AloneInv
  <2>6. \A u \in Production : u # None
    BY RowTypes DEF Production
  <2>7. QED
    BY <2>4, <2>5, <2>6 DEF AnchorStable
<1>3. CASE \E t \in Trainers : CreateModel(t) /\ train[t].version \notin Rows
  <2>1. PICK t \in Trainers : CreateModel(t) /\ train[t].version \notin Rows
    BY <1>3
  <2>2. model' = [model EXCEPT ![train[t].version] =
          [stage |-> "staged", job |-> train[t].job,
           good |-> train[t].good, anchor |-> train[t].anchor]]
    BY <2>1 DEF CreateModel
  <2>3. model'[v].stage \in {"staged", model[v].stage}
    BY <2>2 DEF RegistryInv, TypeOK
  <2>4. QED
    BY <2>3
<1>4. QED
  <2>1. ASSUME NEW t \in Trainers, TrainerStep(t)
        PROVE  model' = model \/ (CreateModel(t) /\ train[t].version \notin Rows)
    BY <2>1 DEF TrainerStep, StartRetrain, Evaluate, TakeNumber, WriteFiles, WriteFault,
       CreateModel, FinishRetrain, RetrainFault, FailRetrain
  <2>2. ASSUME NEW p \in Promoters, PromoterStep(p)
        PROVE  model' = model \/ PromoteModel(p)
    BY <2>2 DEF PromoterStep, Check, ReadIncumbent, Publish, PromoteFault
  <2>3. ASSUME NEW p \in Promoters, NEW w \in Versions, Promote(p, w)
        PROVE  model' = model
    BY <2>3 DEF Promote
  <2>4. Restart \/ SetTier \/ UNCHANGED vars => model' = model
    BY DEF Restart, SetTier, vars
  <2>5. QED
    BY <1>1, <1>2, <1>3, <2>1, <2>2, <2>3, <2>4 DEF Next

(* A row enters production only past the accuracy gate and, where promotions  *)
(* do not overlap, within Epsilon of the anchor accuracy of the row it        *)
(* replaces: the check and the commit are awaits apart.                       *)
THEOREM GatesPass == Spec => PromotionPassesGates
<1> DEFINE A == \A v \in Versions :
       model[v].stage # "production" /\ model'[v].stage = "production" =>
         /\ model[v].good
         /\ raced \/ \A u \in Production : model[u].anchor <= model[v].anchor + Epsilon
<1>1. RegistryInv /\ [Next]_vars => [A]_vars
  BY GatesStep
<1>2. QED
  BY <1>1, RegistryInit, RegistryNext, PTL DEF Spec, PromotionPassesGates
==============================================================================
