--------------------------- MODULE MCAppsEmulator ---------------------------
EXTENDS AppsEmulatorProperties, TLC

CONSTANTS n1, n2

MCSlots == (n1 :> 1) @@ (n2 :> 2)

MCApp(r, N, p) == [replicas |-> r, nodes |-> N, priority |-> p]

(* A mirrored pod that apps of positive priority outrank.                  *)
MCMirrored == { << [run |-> 0, index |-> 2, nodes |-> {}, priority |-> 0], n2 >> }

(* No app at all; an app that fits with one that takes what is left; one   *)
(* too large; one without a positive replica count; one no node may take;  *)
(* and one between two of its inferiors.                                   *)
MCGroups == { << >>,
              << MCApp(1, {n1, n2}, 0), MCApp(2, {n1, n2}, 0) >>,
              << MCApp(4, {n1, n2}, 0) >>,
              << MCApp(0, {n2}, 0), MCApp(1, {n1}, 0) >>,
              << MCApp(1, {}, 0) >>,
              << MCApp(1, {n1}, 0), MCApp(2, {n1, n2}, 1), MCApp(1, {n1}, 0) >> }

(* Nobody outranks anybody.                                                *)
MCEqualGroups == { g \in MCGroups : \A i \in DOMAIN g : g[i].priority = 0 }
=============================================================================
