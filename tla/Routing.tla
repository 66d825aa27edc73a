------------------------------ MODULE Routing ------------------------------
(***************************************************************************)
(* The copy engine (crates/copier-core/src/routing.rs and model.rs): what   *)
(* a route makes of a master's trade event, as operators without state.     *)
(*                                                                          *)
(* Volumes are integers: multiples of the 10^-8 lot to which normalize_step *)
(* rounds.  A volume not rounded yet (a multiplied or proportional one) is  *)
(* a fraction <<n, d>> with d > 0; the code computes it in f64, here it is  *)
(* exact.  Prices, stop losses, take profits and the name the symbol has on *)
(* the follower are not modelled: they are copied from the event and        *)
(* nothing depends on them.                                                 *)
(***************************************************************************)
EXTENDS Integers, Sequences, FiniteSets

CONSTANTS
    Account,    \* account ids of the configuration
    Rules,      \* the configured routes in order, a sequence of RuleType records
    Event       \* the trade events that can occur, a set of EventType records

Action  == {"open", "modify", "reduce", "close"}
Sizing  == {"mirror", "fixed", "multiplier"}
Side    == {"buy", "sell", "none"}
NoVolume == -1                  \* remaining_volume: None

RuleId  == {Rules[i].id : i \in DOMAIN Rules}
EventId == {e.id : e \in Event}
OrderId == {e.order : e \in Event}
Symbol  == {e.symbol : e \in Event}

EventType ==
    [id : EventId, source : Account, order : OrderId, action : Action,
     side : Side, symbol : Symbol, volume : Nat, remaining : Nat \cup {NoVolume},
     copied : BOOLEAN,          \* origin_command_id.is_some()
     age : Nat]                 \* now - timestamp_unix_ns when it is handled

RuleType ==
    [id : RuleId, source : Account, target : Account, enabled : BOOLEAN,
     sizing : Sizing, size : Nat \X (Nat \ {0}),
     min : Nat, max : Nat \ {0}, step : Nat \ {0},
     sides : SUBSET {"buy", "sell"},        \* allow_buy, allow_sell
     allow : SUBSET Symbol, deny : SUBSET Symbol,
     maxAge : Nat]

(***************************************************************************)
(* TradeEvent::validate and RouteRule::validate: nothing that fails them    *)
(* reaches the engine.  A route is not required to have min <= max, nor an  *)
(* id of its own; the second is assumed here (README, hazards).             *)
(***************************************************************************)
ValidEvent(e) ==
    /\ e.action \in {"open", "reduce"} => e.volume > 0
    /\ e.action = "open" => e.side # "none"

ValidRule(r) ==
    /\ r.source # r.target
    /\ r.sizing # "mirror" => r.size[1] > 0

ASSUME RulesAssumption ==
    /\ Rules \in Seq(RuleType)
    /\ \A i \in DOMAIN Rules : ValidRule(Rules[i])
    /\ \A i, j \in DOMAIN Rules : Rules[i].id = Rules[j].id => i = j

ASSUME EventAssumption ==
    /\ Event \subseteq EventType
    /\ \A e \in Event : ValidEvent(e)

-----------------------------------------------------------------------------
(* Identifiers.                                                             *)

(* command_id: the hash of event id, route id and target account, here the  *)
(* triple itself.                                                           *)
CommandIdOf(e, r) == <<e.id, r.id, r.target>>

CommandId == {<<e.id, Rules[i].id, Rules[i].target>> : e \in Event, i \in DOMAIN Rules}

EventOf(c)  == c[1]             \* the event a command id was made from
TargetOf(c) == c[3]             \* the account it is for

(* MirrorBinding::key: the route is not part of it.                         *)
KeyOf(source, order, target) == <<source, order, target>>

Key == Account \X OrderId \X Account

(* The id a follower gives a position is chosen by its terminal; here it is *)
(* named by the command that opened it.                                     *)
NoPosition == <<>>
Position   == CommandId

BindingType ==
    [route : RuleId, source : Account, order : OrderId, target : Account,
     position : Position, sourceOpen : Nat, sourceRemaining : Nat,
     targetOpen : Nat, targetRemaining : Nat]

NoBinding == [position |-> NoPosition]

BindingKey(b) == KeyOf(b.source, b.order, b.target)

CommandType ==
    [id : CommandId, event : EventId, route : RuleId, source : Account,
     order : OrderId, target : Account, action : Action,
     position : Position \cup {NoPosition}, volume : Nat,
     sourceVolume : Nat, sourceRemaining : Nat \cup {NoVolume}]

-----------------------------------------------------------------------------
(* Volumes.                                                                 *)

NotNegative(a) == IF a >= 0 THEN a ELSE 0

(* Faulty: the volume step is ignored; always rounded down.                 *)
UnroundedStep(n, d, step) == IF n <= 0 THEN 0 ELSE n \div d
RoundedDownStep(n, d, step) == IF n <= 0 THEN 0 ELSE (n \div (d * step)) * step

(* normalize_step: the multiple of step nearest to n / d, a half rounded up. *)
NormalizeStep(n, d, step) ==
    IF n <= 0 THEN 0
    ELSE ((2 * n + d * step) \div (2 * (d * step))) * step

(* f64::clamp aborts the task when its bounds are the wrong way round.      *)
ClampPanics(r) == r.min > r.max

NormalizeOpen(r, n, d) ==
    IF n < r.min * d THEN NormalizeStep(r.min, 1, r.step)
    ELSE IF n > r.max * d THEN NormalizeStep(r.max, 1, r.step)
    ELSE NormalizeStep(n, d, r.step)

OpenVolume(r, volume) ==
    CASE r.sizing = "mirror"     -> NormalizeOpen(r, volume, 1)
      [] r.sizing = "fixed"      -> NormalizeOpen(r, r.size[1], r.size[2])
      [] r.sizing = "multiplier" -> NormalizeOpen(r, volume * r.size[1], r.size[2])

(* Faulty: not capped by what is left.                                      *)
UncappedReduceVolume(r, b, volume) ==
    NormalizeStep(b.targetOpen * volume, b.sourceOpen, r.step)

(* The share volume / b.sourceOpen of the follower's position, no more than *)
(* what is left of it.                                                      *)
ReduceVolume(r, b, volume) ==
    IF b.targetOpen * volume <= b.targetRemaining * b.sourceOpen
    THEN NormalizeStep(b.targetOpen * volume, b.sourceOpen, r.step)
    ELSE NormalizeStep(b.targetRemaining, 1, r.step)

-----------------------------------------------------------------------------
(* One route and one event.                                                 *)

Allows(r, e) ==
    /\ r.enabled
    /\ r.allow # {} => e.symbol \in r.allow
    /\ e.symbol \notin r.deny
    /\ r.sides \in {{"buy"}, {"sell"}} /\ e.side # "none" => e.side \in r.sides

TooOld(r, e) == r.maxAge > 0 /\ e.age > r.maxAge

Copies(r, e) == Allows(r, e) /\ ~TooOld(r, e)

(* RouteError::MissingMirror, RouteError::InvalidMirror and the panic.      *)
MirrorMissing(r, e, b) == Copies(r, e) /\ e.action # "open" /\ b = NoBinding
MirrorInvalid(r, e, b) ==
    Copies(r, e) /\ e.action = "reduce" /\ b # NoBinding /\ b.sourceOpen = 0
Panics(r, e) == Copies(r, e) /\ e.action = "open" /\ ClampPanics(r)

CommandVolume(r, e, b) ==
    CASE e.action = "open"   -> OpenVolume(r, e.volume)
      [] e.action = "reduce" -> ReduceVolume(r, b, e.volume)
      [] OTHER               -> b.targetRemaining

(* build_command returns a command: none of its errors or early returns.    *)
Builds(r, e, b) ==
    /\ Copies(r, e)
    /\ ~MirrorMissing(r, e, b)
    /\ ~MirrorInvalid(r, e, b)
    /\ ~Panics(r, e)
    /\ e.action \in {"open", "reduce"} => CommandVolume(r, e, b) > 0

BuiltCommand(r, e, b) ==
    [id |-> CommandIdOf(e, r), event |-> e.id, route |-> r.id,
     source |-> e.source, order |-> e.order, target |-> r.target,
     action |-> e.action,
     position |-> IF e.action = "open" THEN NoPosition ELSE b.position,
     volume |-> CommandVolume(r, e, b),
     sourceVolume |-> e.volume, sourceRemaining |-> e.remaining]

(* CopyEngine::routes_for, as positions of Rules.                           *)
RoutesFor(a) == {i \in DOMAIN Rules : Rules[i].source = a}
-----------------------------------------------------------------------------
(* What mirror_mutation (runtime.rs) makes of a binding when the follower   *)
(* has executed an open, or a reduce.                                       *)

(* Faulty: an event that does not report a remaining volume leaves the      *)
(* marker of its absence in the binding; the volume opened is taken from    *)
(* what is reported as remaining; the follower's volume is the master's.    *)
NewBindingRaw(c, position) ==
    [route |-> c.route, source |-> c.source, order |-> c.order, target |-> c.target,
     position |-> position,
     sourceOpen |-> c.sourceVolume, sourceRemaining |-> c.sourceRemaining,
     targetOpen |-> c.volume, targetRemaining |-> c.volume]
NewBindingFromRemaining(c, position) ==
    [NewBindingRaw(c, position) EXCEPT
        !.sourceOpen = IF c.sourceRemaining = NoVolume THEN 0 ELSE c.sourceRemaining]
NewBindingBySource(c, position) ==
    [NewBindingRaw(c, position) EXCEPT !.targetRemaining = c.sourceVolume]

NewBinding(c, position) ==
    [route |-> c.route, source |-> c.source, order |-> c.order, target |-> c.target,
     position |-> position,
     sourceOpen |-> c.sourceVolume,
     sourceRemaining |-> IF c.sourceRemaining = NoVolume THEN c.sourceVolume
                         ELSE c.sourceRemaining,
     targetOpen |-> c.volume, targetRemaining |-> c.volume]

(* Faulty: the follower's volume is left as it was; it is reduced by the    *)
(* master's volume, below zero if need be.                                  *)
ReducedSourceOnly(b, c) ==
    [b EXCEPT !.sourceRemaining = NotNegative(@ - c.sourceVolume)]
ReducedBySource(b, c) ==
    [b EXCEPT !.targetRemaining = @ - c.sourceVolume]

Reduced(b, c) ==
    [b EXCEPT !.sourceRemaining = IF c.sourceRemaining = NoVolume
                                  THEN NotNegative(@ - c.sourceVolume)
                                  ELSE c.sourceRemaining,
              !.targetRemaining = NotNegative(@ - c.volume)]
=============================================================================
