----------------------------- MODULE MCAnalytics -----------------------------
(* Small instances of the analytic modules, and the corridor graph of         *)
(* features/constants.py as it is.                                            *)
EXTENDS Analytics, TLC

MCRci == <<8, 2, 5>>
MCBias == <<1, 3, 2>>
MCCascade == <<8, 2, 6>>
MCCentrality == <<9, 2, 5>>
MCEta == [p \in Units \X Incidents |-> IF p[1] = 1 THEN 2 ELSE p[2]]

MCDecay == <<705, 497, 350, 247, 174>>

MCNear == {{"cell1", "cell2"}}
MCCorridorOf == [c \in Cells |-> IF c = "cell2" THEN "B" ELSE "A"]
MCHistory == [c \in {"cell1", "cell2"} |-> IF c = "cell1" THEN 24 ELSE 2]

MCPlan(cause, corridor, weekend, hour, duration) ==
    [cause |-> cause, corridor |-> corridor, weekend |-> weekend, hour |-> hour,
     duration |-> duration]
MCAttributes ==
    {MCPlan("construction", "Mysore Road", TRUE, "morning", "unknown"),
     MCPlan("construction", "Hosur Road", TRUE, "morning", "unknown"),
     MCPlan("vip_movement", "Hosur Road", FALSE, "night", "0-24h"),
     MCPlan("other", "Hosur Road", FALSE, "night", "0-24h")}
MCClosureOf ==
    [c \in {"construction", "vip_movement", "other"} |->
        IF c = "construction" THEN 40 ELSE 20]

MCStratumOf == [e \in Closing |-> IF e = "e3" THEN "s2" ELSE "s1"]
MCCorpusSizes == [Strata -> 0 .. 3]

MCSymmetry == Permutations(Recs) \cup Permutations(Planners)

MCCentr == [c \in {"ORR East 1", "ORR East 2", "ORR North 1", "ORR North 2", "ORR West 1",
        "Bellary Road 1", "Bellary Road 2", "Old Airport Road", "CBD 1", "CBD 2", "Hosur Road",
        "Mysore Road", "Tumkur Road", "Old Madras Road", "Bannerghata Road", "Magadi Road",
        "West of Chord Road", "Varthur Road", "Hennur Main Road", "IRR(Thanisandra road)",
        "Airport New South Road", "Non-corridor"} |->
    CASE c = "ORR East 1" -> 95
      [] c = "ORR East 2" -> 93
      [] c = "ORR North 1" -> 92
      [] c = "ORR North 2" -> 90
      [] c = "ORR West 1" -> 91
      [] c = "Bellary Road 1" -> 88
      [] c = "Bellary Road 2" -> 86
      [] c = "Old Airport Road" -> 85
      [] c = "CBD 1" -> 85
      [] c = "CBD 2" -> 83
      [] c = "Hosur Road" -> 82
      [] c = "Mysore Road" -> 80
      [] c = "Tumkur Road" -> 78
      [] c = "Old Madras Road" -> 77
      [] c = "Bannerghata Road" -> 75
      [] c = "Magadi Road" -> 72
      [] c = "West of Chord Road" -> 70
      [] c = "Varthur Road" -> 68
      [] c = "Hennur Main Road" -> 65
      [] c = "IRR(Thanisandra road)" -> 64
      [] c = "Airport New South Road" -> 80
      [] c = "Non-corridor" -> 15]
MCLists == [c \in {"ORR East 1", "ORR East 2", "ORR North 1", "ORR North 2", "ORR West 1",
        "Mysore Road", "Tumkur Road", "Old Airport Road", "Hosur Road", "Bellary Road 1",
        "Bellary Road 2", "Non-corridor"} |->
    CASE c = "ORR East 1" -> <<"ORR East 2", "Old Airport Road", "Hosur Road">>
      [] c = "ORR East 2" -> <<"ORR East 1", "ORR North 2", "Old Madras Road">>
      [] c = "ORR North 1" -> <<"ORR North 2", "Bellary Road 1", "Hebbal">>
      [] c = "ORR North 2" -> <<"ORR North 1", "ORR East 2", "ORR West 1">>
      [] c = "ORR West 1" -> <<"ORR North 2", "Mysore Road", "Tumkur Road">>
      [] c = "Mysore Road" -> <<"ORR West 1", "Bannerghata Road">>
      [] c = "Tumkur Road" -> <<"ORR West 1", "West of Chord Road">>
      [] c = "Old Airport Road" -> <<"ORR East 1", "CBD 1">>
      [] c = "Hosur Road" -> <<"ORR East 1", "Bannerghata Road">>
      [] c = "Bellary Road 1" -> <<"ORR North 1", "Bellary Road 2">>
      [] c = "Bellary Road 2" -> <<"Bellary Road 1", "CBD 2">>
      [] c = "Non-corridor" -> <<>>]
MCCorridors == DOMAIN MCCentr \cup {"Hebbal"}
MCDefault == <<"ORR West 1", "Bannerghata Road", "Tumkur Road">>
MCStub == <<"ORR East 1", "Old Airport Road">>
MCJunctions == [j \in {"junction:Mysore-NICE", "junction:Mysore-Vijayanagar",
        "junction:Mysore-Gnanabharathi",
    "junction:ORR-Sarjapur", "junction:ORR-OldAirport", "junction:ORR-Hosur",
        "junction:Hebbal-flyover",
    "junction:Manyata", "junction:RTNagar", "junction:generic-1", "junction:generic-2",
        "junction:generic-3"} |->
    CASE j \in {"junction:Mysore-NICE", "junction:Mysore-Vijayanagar",
        "junction:Mysore-Gnanabharathi"} -> "Mysore Road"
      [] j \in {"junction:ORR-Sarjapur", "junction:ORR-OldAirport",
        "junction:ORR-Hosur"} -> "ORR East 1"
      [] j \in {"junction:Hebbal-flyover", "junction:Manyata",
        "junction:RTNagar"} -> "Bellary Road 1"
      [] OTHER -> "Non-corridor"]
=============================================================================
