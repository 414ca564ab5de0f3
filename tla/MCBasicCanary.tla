--------------------------- MODULE MCBasicCanary ---------------------------
EXTENDS BasicCanary, TLC

Number(n) == [percent |-> FALSE, value |-> n]
Percent(n) == [percent |-> TRUE, value |-> n]
MCSetWeights == <<30, 50>>
One == Number(1)
Zero == Number(0)
TwoFifths == Percent(40)
AllOfThem == [kind |-> "none", value |-> 0]
Most == [kind |-> "percent", value |-> 60]

(* The hashes are interchangeable: start from one of them.                 *)
FirstHash == CHOOSE h \in Hash : TRUE
MCInit == Init /\ Stable = FirstHash
MCSpec == MCInit /\ [][Next]_vars
MCFairSpec == MCSpec /\ Fairness
=============================================================================
