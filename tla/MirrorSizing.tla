---------------------------- MODULE MirrorSizing ----------------------------
(***************************************************************************)
(* The volumes of one copied position over its whole life: the master opens *)
(* it, reduces it any number of times and closes it, one route sizes the    *)
(* follower's commands (routing.rs), and each is executed and acknowledged  *)
(* before the next event (mirror_mutation, runtime.rs).  What can go wrong  *)
(* here is arithmetic, not concurrency: the follower's volume is derived    *)
(* from the volumes at the opening, rounded at every step, never from what  *)
(* the master has left.                                                     *)
(***************************************************************************)
EXTENDS Routing

CONSTANTS
    Policies,       \* routes, alike but for their volume policy
    MaxVolume       \* bound: the largest volume the master opens

ASSUME SizingAssumption ==
    /\ Policies \subseteq RuleType
    /\ \A r \in Policies : ValidRule(r) /\ r.enabled /\ ~ClampPanics(r)
    /\ MaxVolume \in Nat \ {0}

VARIABLES
    route,      \* the route the position is copied by
    master,     \* volume the master holds
    mirror,     \* the binding, once the follower has opened
    follower,   \* volume the follower holds
    reduces     \* reduces of the master since it opened, at most MaxVolume

vars == <<route, master, mirror, follower, reduces>>

(* The parts of an event and of a command that volumes depend on.           *)
Executed(volume, sourceVolume, remaining) ==
    [route |-> route.id, source |-> route.source, order |-> "o", target |-> route.target,
     volume |-> volume, sourceVolume |-> sourceVolume, sourceRemaining |-> remaining]

Init ==
    /\ route \in Policies
    /\ master = 0
    /\ mirror = NoBinding
    /\ follower = 0
    /\ reduces = 0

(* build_command sends nothing for an open that rounds to nothing.          *)
Open(v) ==
    /\ master = 0 /\ mirror = NoBinding
    /\ master' = v
    /\ reduces' = 0
    /\ LET volume == OpenVolume(route, v)
       IN  IF volume > 0
           THEN /\ mirror' = NewBinding(Executed(volume, v, v), <<"p">>)
                /\ follower' = volume
           ELSE UNCHANGED <<mirror, follower>>
    /\ UNCHANGED route

(* Without a binding, or with a share that rounds to nothing, nothing is    *)
(* sent and the binding is not touched.                                     *)
Reduce(v) ==
    /\ v < master
    /\ master' = master - v
    /\ reduces' = reduces + 1
    /\ IF mirror # NoBinding /\ ReduceVolume(route, mirror, v) > 0
       THEN LET volume == ReduceVolume(route, mirror, v)
            IN  /\ mirror' = Reduced(mirror, Executed(volume, v, master - v))
                /\ follower' = NotNegative(follower - volume)
       ELSE UNCHANGED <<mirror, follower>>
    /\ UNCHANGED route

Close ==
    /\ master > 0
    /\ master' = 0
    /\ reduces' = 0
    /\ mirror' = NoBinding
    /\ follower' = IF mirror = NoBinding THEN follower
                   ELSE NotNegative(follower - mirror.targetRemaining)
    /\ UNCHANGED route

Next ==
    \/ \E v \in 1..MaxVolume : Open(v) \/ Reduce(v)
    \/ Close

Spec == Init /\ [][Next]_vars

-----------------------------------------------------------------------------
TypeOK ==
    /\ route \in Policies
    /\ master \in 0..MaxVolume
    /\ mirror = NoBinding \/
       mirror \in [route : RuleId, source : Account, order : {"o"}, target : Account,
                   position : {<<"p">>}, sourceOpen : Nat, sourceRemaining : Nat,
                   targetOpen : Nat, targetRemaining : Nat]
    /\ follower \in Nat
    /\ reduces \in 0..MaxVolume

(* The follower's volume and the binding that stands for it never part, and *)
(* both stay multiples of the route's volume step, so that rounding a       *)
(* proportional reduce can never ask for more than is left of the position. *)
StepAligned ==
    /\ follower % route.step = 0
    /\ follower = IF mirror = NoBinding THEN 0 ELSE mirror.targetRemaining

NeverOverReduced ==
    mirror # NoBinding =>
        \A v \in 1..MaxVolume : ReduceVolume(route, mirror, v) <= follower

(* A close takes all that is left, whatever the rounding of the reduces     *)
(* before it: the follower is flat whenever the master is.                  *)
FlatTogether == master = 0 => follower = 0

(* Every reduce rounds by half a step at most, and the errors of several    *)
(* reduces add up to no more than that each: the follower's share of its    *)
(* position stays within reduces / 2 steps of the master's.                 *)
Distance(a, b) == IF a >= b THEN a - b ELSE b - a
DriftBounded ==
    mirror # NoBinding =>
        2 * Distance(follower * mirror.sourceOpen, mirror.targetOpen * master)
            <= reduces * route.step * mirror.sourceOpen
=============================================================================
