------------------------------- MODULE Packages ------------------------------
(* The packages of M06 (planned/): what is staged for a planned event, made   *)
(* once and kept in planned_packages until the attributes of the event, which *)
(* re-ingestion may change at any time, are others.  One event, and several   *)
(* requests for it at once.  Likelihoods are in hundredths.                   *)
EXTENDS Integers, Sequences, FiniteSets

CONSTANTS
    Planners,           \* the requests
    Attributes,         \* sets of [cause, corridor, weekend, hour, duration]
    ClosureOf,          \* [causes -> p_closure of M03, in hundredths]
    MaxUpdates

ASSUME PackageAssumption ==
    /\ Attributes \subseteq [cause : DOMAIN ClosureOf, corridor : STRING, weekend : BOOLEAN,
                             hour : STRING, duration : STRING]
    /\ MaxUpdates \in Nat

VARIABLES
    plan,               \* the row of the event: its attributes, is_planned
    featuresOf,         \* the attributes its features were made from, if there are any
    packageRow,         \* its row in planned_packages
    planner,            \* [Planners -> what generate_package() holds]
    overlapped,         \* two requests have been saving at once (history)
    updates

packageVars == <<plan, featuresOf, packageRow, planner, overlapped, updates>>

NoAttributes == [cause |-> "none"]
NoOverlay == [closure |-> 0, source |-> "none"]
NoPackage == [template |-> 0, low |-> FALSE, barricades |-> 0, staging |-> FALSE,
              corridor |-> "", overlay |-> NoOverlay]
NoRow == [hash |-> NoAttributes, package |-> NoPackage]
Asleep == [phase |-> "none", event |-> NoAttributes, loaded |-> NoRow,
           overlay |-> NoOverlay, package |-> NoPackage]

PackagesInit ==
    /\ plan = [event |-> NoAttributes, planned |-> FALSE]
    /\ featuresOf = NoAttributes /\ packageRow = NoRow
    /\ planner = [p \in Planners |-> Asleep]
    /\ overlapped = FALSE /\ updates = 0

------------------------------------------------------------------------------
(* Templates and rules.                                                       *)

MvpCauses == {"construction", "public_event", "procession", "vip_movement", "protest"}

Seed(cause, duration, barricades) ==
    [cause |-> cause, corridor |-> "", weekend |-> FALSE, hour |-> "any",
     duration |-> duration, barricades |-> barricades]

\* TEMPLATE_SEEDS: all but the first are for any corridor, day and hour.
Seeds ==
    <<[Seed("construction", "24-48h", 8) EXCEPT
            !.corridor = "Mysore Road", !.weekend = TRUE, !.hour = "morning"],
      Seed("construction", "24-48h", 6), Seed("vip_movement", "0-24h", 16),
      Seed("procession", "4-12h", 8), Seed("public_event", "4-12h", 6),
      Seed("protest", "4-12h", 10)>>

\* A template for another cause does not count; points are in halves.
Points(seed, a) ==
    LET worth(points, holds) == IF holds THEN points ELSE 0
    IN  IF seed.cause # a.cause THEN -1
        ELSE 20 + worth(10, seed.corridor # "" /\ seed.corridor = a.corridor)
                + worth(2, seed.corridor = "")
                + worth(4, seed.weekend => a.weekend)
                + worth(3, seed.hour \in {a.hour, "any"})
                + worth(2, seed.duration \in {a.duration, "unknown"})

\* match_template: the first of the best, the generic construction one for a cause
\* that has none.
MatchTemplate(a) ==
    LET best == {n \in DOMAIN Seeds : Points(Seeds[n], a) > -1 /\
                    \A m \in DOMAIN Seeds : Points(Seeds[m], a) <= Points(Seeds[n], a)}
    IN  IF best = {} THEN 2 ELSE CHOOSE n \in best : \A m \in best : n <= m

LowConfidence(a) == Points(Seeds[MatchTemplate(a)], a) < 24 \/ a.cause \notin MvpCauses

Vip(a) == a.cause = "vip_movement"

Barricades(a) ==
    LET matrix == Seeds[MatchTemplate(a)].barricades
    IN  IF Vip(a) /\ matrix < 12 THEN 12 ELSE matrix

Staging(a, overlay) == Vip(a) \/ overlay.closure >= 35

Package(a, overlay) ==
    [template |-> MatchTemplate(a), low |-> LowConfidence(a), barricades |-> Barricades(a),
     staging |-> Staging(a, overlay), corridor |-> a.corridor, overlay |-> overlay]

\* [mutant] The corridor is not hashed.
HashWithoutCorridor(a) == [a EXCEPT !.corridor = ""]

\* attributes_hash: the weekday and the hour come from the start.
AttributesHash(a) == a

------------------------------------------------------------------------------
\* The event is ingested, and again with other attributes; M02 follows in its own time.
UpdatePlan ==
    /\ updates < MaxUpdates /\ updates' = updates + 1
    /\ plan' \in [event : Attributes, planned : BOOLEAN] \ {plan}
    /\ UNCHANGED <<featuresOf, packageRow, planner, overlapped>>

MaterialisePlan ==
    /\ plan.event # NoAttributes
    /\ featuresOf' = plan.event
    /\ UNCHANGED <<plan, packageRow, planner, overlapped, updates>>

Waits(p, phase) == planner[p].phase = phase

Rests(p) == planner[p].phase \in {"none", "answered", "refused"}

\* generate_package: the event is read once; force_refresh passes the cache and the
\* stored overlay by.  The request's place is used again by later ones.
Ask(p) ==
    /\ Rests(p)
    /\ \E phase \in IF plan.planned THEN {"cache", "features"} ELSE {"refused"} :
        planner' = [planner EXCEPT ![p] = [Asleep EXCEPT !.phase = phase, !.event = plan.event]]
    /\ UNCHANGED <<plan, featuresOf, packageRow, overlapped, updates>>

\* get_cached_package.
LookUp(p) ==
    /\ Waits(p, "cache")
    /\ planner' = [planner EXCEPT ![p] =
            IF packageRow # NoRow /\ packageRow.hash = AttributesHash(planner[p].event)
            THEN [@ EXCEPT !.phase = "answered", !.package = packageRow.package]
            ELSE [@ EXCEPT !.phase = "overlay"]]
    /\ UNCHANGED <<plan, featuresOf, packageRow, overlapped, updates>>

\* _impact_overlay: that of the stored package, whatever attributes it was made for.
ReuseOverlay(p) ==
    /\ Waits(p, "overlay")
    /\ planner' = [planner EXCEPT ![p] =
            IF packageRow = NoRow THEN [@ EXCEPT !.phase = "features"]
            ELSE [@ EXCEPT !.phase = "load", !.overlay = packageRow.package.overlay]]
    /\ UNCHANGED <<plan, featuresOf, packageRow, overlapped, updates>>

Score(a) == [closure |-> ClosureOf[a.cause], source |-> "model"]

PriorOverlay == [closure |-> 36, source |-> "rule_fallback"]

\* Features that are not there are asked for again a quarter of a second later.
ScoreOverlay(p) ==
    /\ planner[p].phase \in {"features", "features again"}
    /\ planner' = [planner EXCEPT ![p] =
            IF featuresOf # NoAttributes
            THEN [@ EXCEPT !.phase = "load", !.overlay = Score(planner[p].event)]
            ELSE IF Waits(p, "features") THEN [@ EXCEPT !.phase = "features again"]
            ELSE [@ EXCEPT !.phase = "load", !.overlay = PriorOverlay]]
    /\ UNCHANGED <<plan, featuresOf, packageRow, overlapped, updates>>

\* save_package: the row is loaded ...
LoadPackage(p) ==
    /\ Waits(p, "load")
    /\ planner' = [planner EXCEPT ![p] = [@ EXCEPT !.phase = "save", !.loaded = packageRow]]
    /\ UNCHANGED <<plan, featuresOf, packageRow, overlapped, updates>>

\* ... and written: an insert fails when another request was first, an update writes
\* the hash only where it differs from the one that was loaded.
SavePackage(p) ==
    LET q == planner[p]
        new == Package(q.event, q.overlay)
        hash == AttributesHash(q.event)
        fails == q.loaded = NoRow /\ packageRow # NoRow
        kept == q.loaded # NoRow /\ q.loaded.hash = hash
    IN  /\ Waits(p, "save")
        /\ packageRow' = IF fails THEN packageRow
                         ELSE [hash |-> IF kept THEN packageRow.hash ELSE hash, package |-> new]
        /\ planner' = [planner EXCEPT ![p] =
                IF fails THEN [Asleep EXCEPT !.phase = "refused"]
                ELSE [@ EXCEPT !.phase = "answered", !.package = new, !.loaded = NoRow]]
        /\ overlapped' = (overlapped \/ \E o \in Planners \ {p} : Waits(o, "save"))
        /\ UNCHANGED <<plan, featuresOf, updates>>

PackagesNext ==
    \/ UpdatePlan \/ MaterialisePlan
    \/ \E p \in Planners :
        \/ Ask(p) \/ LookUp(p) \/ ReuseOverlay(p) \/ ScoreOverlay(p)
        \/ LoadPackage(p) \/ SavePackage(p)

PackagesSpec == PackagesInit /\ [][PackagesNext]_packageVars

------------------------------------------------------------------------------
\* Whatever is answered, out of the cache or not, fits the event as the request read
\* it: the template, the diversions and the barricades of these attributes (a VIP has
\* twelve at least), and barricades staged when the overlay or the cause asks for it.
\* This relates rows other requests wrote, for other attributes, to this request.  It
\* is lost for good when two requests save at once, since the hash of one may then
\* stand beside the package of the other.
PackageFitsEvent ==
    ~overlapped => \A p \in Planners : Waits(p, "answered") =>
        LET a == planner[p].event
            package == planner[p].package
        IN  /\ package.template = MatchTemplate(a) /\ package.corridor = a.corridor
            /\ Vip(a) => package.barricades >= 12 /\ package.staging
            /\ package.overlay.closure >= 35 => package.staging
            /\ ~Vip(a) => package.barricades = Seeds[package.template].barricades
==============================================================================
