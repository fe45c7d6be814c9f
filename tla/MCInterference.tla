--------------------------- MODULE MCInterference ---------------------------
EXTENDS Interference, TLC

CONSTANTS n1, n2

MCSlots == [n \in Node |-> 1]

MCMirrored == {}

MCApp(r, N, p) == [replicas |-> r, nodes |-> N, priority |-> p]

(* Two apps for the slot of n1: the first is rejected half-way and evicted *)
(* by the second, or is done, using n2 too, and the second is rejected.    *)
MCGroups == { << MCApp(2, {n1}, 0), MCApp(1, {n1}, 1) >>,
              << MCApp(2, {n1, n2}, 0), MCApp(1, {n1}, 0) >> }

MCVisitorApps == { << MCApp(2, {n1}, 1) >> }

(* Two whole jobs beside a single interference, fewer apps where it can    *)
(* go on for long: one of the worker and one of the visitor.               *)
MCMaxRuns == [kind \in Kinds |->
                CASE kind \in {"prediction", "apps"} -> 2
                  [] kind = "foreign" -> 2
                  [] OTHER -> 4]
=============================================================================
