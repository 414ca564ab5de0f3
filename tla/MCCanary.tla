------------------------------ MODULE MCCanary ------------------------------
EXTENDS Canary, TLC

SetWeight(w) == [kind |-> "setWeight", value |-> w]
SetCanaryScale(n) == [kind |-> "setScale", value |-> n]
MatchTrafficWeight == [kind |-> "matchWeight", value |-> 0]
PauseStep == [kind |-> "pause", value |-> 0]
WaitStep == [kind |-> "wait", value |-> 0]
AnalysisStep == [kind |-> "analysis", value |-> 0]

AllOfThem == [kind |-> "none", value |-> 0]

Plain == [steps |-> << SetWeight(50), PauseStep >>, dynamic |-> FALSE, abortDelay |-> "nil",
          background |-> FALSE, startingStep |-> 0, threshold |-> AllOfThem]
Scaling == [Plain EXCEPT !.steps = << SetCanaryScale(3), SetWeight(75), MatchTrafficWeight >>,
                         !.abortDelay = "zero"]
Dynamic == [Plain EXCEPT !.steps = << SetWeight(25), SetWeight(75) >>, !.dynamic = TRUE]
DynamicDelayed == [Dynamic EXCEPT !.abortDelay = "set"]
WithAnalysis == [Plain EXCEPT !.steps = << SetWeight(50), AnalysisStep, PauseStep >>]
WithBackground == [Plain EXCEPT !.steps = << SetWeight(50), WaitStep >>,
                                !.background = TRUE, !.startingStep = 1]

Routed == {Scaling, Dynamic, DynamicDelayed}
Analysed == {WithAnalysis, WithBackground}

(* The hashes are interchangeable: start from one of them.  A behaviour has *)
(* either failing pods (the last pod of one, without dynamicStableScale),   *)
(* or a crash and, where it is not small enough for both, another user      *)
(* action.                                                                  *)
FirstHash == CHOOSE h \in Hash : TRUE
Full == [user |-> MaxUserActions, pods |-> MaxPodFailures, passes |-> MaxPassFailures]
Fewer == [Full EXCEPT !.user = @ - 1]
Few == Min(ReplicaCounts)
Most == Max(ReplicaCounts)
Allowance ==
    CASE strategy = WithAnalysis -> \/ budget = [Full EXCEPT !.passes = 0] /\ spec.replicas = Most
                                    \/ budget = Fewer /\ spec.replicas = Most
      [] strategy = WithBackground -> budget = [Fewer EXCEPT !.passes = 0] /\ spec.replicas = Few
      [] strategy = Scaling -> \/ budget = [Fewer EXCEPT !.passes = 0] /\ spec.replicas = Few
                               \/ budget = [Full EXCEPT !.pods = 0] /\ spec.replicas = Most
      [] strategy = Dynamic -> \/ budget = [Fewer EXCEPT !.passes = 0] /\ spec.replicas = Most
                               \/ budget = [Full EXCEPT !.pods = 0] /\ spec.replicas = Most
      [] strategy = DynamicDelayed -> budget = Fewer /\ spec.replicas = Most
MCInit == Init /\ Allowance /\ status.stableRS = FirstHash
MCSpec == MCInit /\ [][Next]_vars
MCFairSpec == MCSpec /\ Fairness
=============================================================================
