----------------------------- MODULE MCEventBus -----------------------------
(* An instance of EventBus: who publishes, who reads, and with which policy.*)
EXTENDS EventBus

\* Two streams and two loops.  The two policies that components use: one loop
\* reads reports from a blocking queue and publishes positions, as the loops of
\* execution/component.py do, another reads a queue that keeps the newest.
\* The policies no component uses are subscribed to instead of these two, with
\* the same loops for their readers.
MCTasks == {"stream", "feed", "report_loop", "position_loop"}
MCKinds == {"report", "position"}
Used == {"reports", "positions"}
Offers == {"raising", "newest"}
MCSubscriptions == Used \union Offers
MCMatches ==
  [s \in MCSubscriptions |-> IF s = "positions" THEN {"report", "position"} ELSE {"report"}]
MCReader ==
  [reports |-> "report_loop", positions |-> "position_loop",
   raising |-> "report_loop", newest |-> "position_loop"]
MCPublishes ==
  [t \in MCTasks |-> CASE t \in {"stream", "feed"} -> {"report"}
                       [] t = "report_loop" -> {"position"}
                       [] OTHER -> {}]
MCEvents ==
  [t \in MCTasks |-> CASE t = "stream" -> 2 [] t \in {"feed", "report_loop"} -> 1 [] OTHER -> 0]
MCPolicy ==
  [reports |-> "block", positions |-> "drop_oldest",
   raising |-> "raise", newest |-> "drop_newest"]
MCSize == [s \in MCSubscriptions |-> 1]

\* Constraint: either the first two are subscribed to, or the others.  Nothing
\* obliges a component to subscribe, so the rest of such a run is fair.
OneSet == Range(subscriptions) \subseteq Used \/ Range(subscriptions) \subseteq Offers
=============================================================================
