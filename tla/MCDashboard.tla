---------------------------- MODULE MCDashboard ----------------------------
(* Two polls at a time, and the two runs of the effect under StrictMode.   *)
EXTENDS Dashboard

\* The router before and after a request to gpu-b, which then went down.  (That
\* the overview stays the same leaves the torn snapshots of the other two.)
MCOverview == [cache |-> {[id |-> "gpu-b", used |-> 3, capacity |-> 4]}]
Cold == [backend |-> "gpu-a", matched |-> 0, total |-> 6, ttft |-> 0]
Warm == [backend |-> "gpu-b", matched |-> 5, total |-> 6, ttft |-> 120]
Before == [overview |-> MCOverview,
           backends |-> <<[id |-> "gpu-a", healthy |-> TRUE, inflight |-> 0],
                          [id |-> "gpu-b", healthy |-> TRUE, inflight |-> 0]>>,
           recent |-> <<Cold>>]
After == [overview |-> MCOverview,
          backends |-> <<[id |-> "gpu-a", healthy |-> TRUE, inflight |-> 9],
                         [id |-> "gpu-b", healthy |-> FALSE, inflight |-> 1]>>,
          recent |-> <<Warm, Cold>>]
MCWorlds == {Before, After}
=============================================================================
