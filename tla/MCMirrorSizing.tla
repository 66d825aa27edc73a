--------------------------- MODULE MCMirrorSizing ---------------------------
(***************************************************************************)
(* Every volume policy over small numbers: mirror, a fixed size, and two    *)
(* multipliers that do not divide; steps of one to three units; limits that *)
(* are, and limits that are not, multiples of the step.                     *)
(***************************************************************************)
EXTENDS MirrorSizing

MCAccount == {"M", "F"}

Policy(sizing, size, min, max, step) ==
    [id |-> "r", source |-> "M", target |-> "F", enabled |-> TRUE,
     sizing |-> sizing, size |-> size, min |-> min, max |-> max, step |-> step,
     sides |-> {}, allow |-> {}, deny |-> {}, maxAge |-> 0]

MCRules == <<Policy("mirror", <<1, 1>>, 0, 1, 1)>>

MCPolicies ==
    {Policy(s[1], s[2], min, max, step) :
        s \in {<<"mirror", <<1, 1>>>>, <<"fixed", <<5, 2>>>>,
               <<"multiplier", <<2, 3>>>>, <<"multiplier", <<7, 2>>>>},
        min \in {0, 2}, max \in {4, 7, 30}, step \in 1..3}
=============================================================================
