------------------------------ MODULE Analytics ------------------------------
(* The analytic modules of the backend side by side: dispatch (M07),          *)
(* diversions (M08), the ripple (M04), the hotspot monitor (M05), the planned *)
(* packages (M06) and the replay buffer (M13).  They share the corridor       *)
(* graph, which never changes, and no state, so a behaviour of all six is one *)
(* of each: it is enough to let one of them run from the common initial state.*)
EXTENDS Dispatch, Diversions, Ripples, Hotspots, Packages, ReplayBuffer

VARIABLE running        \* the one that runs

vars == <<running, dispatchVars, diversion, ripple, hotspotVars, packageVars, bufferVars>>

Init ==
    /\ DispatchInit /\ DiversionInit /\ RippleInit /\ HotspotInit
    /\ PackagesInit /\ BufferInit
    /\ running \in {"dispatch", "diversions", "ripple", "hotspots", "packages", "buffer"}

OnlyDispatch ==
    /\ running = "dispatch" /\ DispatchNext
    /\ UNCHANGED <<running, diversion, ripple, hotspotVars, packageVars, bufferVars>>

OnlyDiversions ==
    /\ running = "diversions" /\ DiversionNext
    /\ UNCHANGED <<running, dispatchVars, ripple, hotspotVars, packageVars, bufferVars>>

OnlyRipple ==
    /\ running = "ripple" /\ RippleNext
    /\ UNCHANGED <<running, dispatchVars, diversion, hotspotVars, packageVars, bufferVars>>

OnlyHotspots ==
    /\ running = "hotspots" /\ HotspotNext
    /\ UNCHANGED <<running, dispatchVars, diversion, ripple, packageVars, bufferVars>>

OnlyPackages ==
    /\ running = "packages" /\ PackagesNext
    /\ UNCHANGED <<running, dispatchVars, diversion, ripple, hotspotVars, bufferVars>>

OnlyBuffer ==
    /\ running = "buffer" /\ BufferNext
    /\ UNCHANGED <<running, dispatchVars, diversion, ripple, hotspotVars, packageVars>>

Next ==
    OnlyDispatch \/ OnlyDiversions \/ OnlyRipple \/ OnlyHotspots \/ OnlyPackages \/ OnlyBuffer

Spec == Init /\ [][Next]_vars
==============================================================================
