------------------------------- MODULE Trial -------------------------------
(***************************************************************************)
(* What an experiment promises to whoever started it, whatever the way it  *)
(* gets there: pods and analyses are taken up only as long as there is no  *)
(* verdict, the verdict is given once, and from then on pods and analyses  *)
(* are only given back.  The promise may become void.                      *)
(***************************************************************************)
CONSTANTS
    Template,    \* what may have pods
    Analysis,    \* what may be analysed
    Verdict      \* the phases that end it

VARIABLES
    phase,       \* a verdict, or how far it is
    pods,        \* the templates that have pods
    analyses,    \* the analyses under way
    void         \* nothing is promised any more

vars == <<phase, pods, analyses, void>>

Decided == phase \in Verdict

Init == ~Decided /\ pods = {} /\ analyses = {} /\ void = FALSE

(* Before the verdict anything may start and end. *)
Proceed ==
    /\ ~Decided /\ phase' \notin Verdict
    /\ pods' \subseteq Template /\ analyses' \subseteq Analysis
    /\ UNCHANGED void

(* The verdict is stored while everything goes on. *)
Decide == ~Decided /\ phase' \in Verdict /\ UNCHANGED <<pods, analyses, void>>

(* What is left is given back. *)
Release ==
    /\ Decided /\ UNCHANGED <<phase, void>>
    /\ pods' \subseteq pods /\ analyses' \subseteq analyses

Lapse == ~void /\ void' = TRUE /\ UNCHANGED <<phase, pods, analyses>>

Next == Proceed \/ Decide \/ Release \/ Lapse \/ void

Spec == Init /\ [][Next]_vars
=============================================================================
