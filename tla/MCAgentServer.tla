--------------------------- MODULE MCAgentServer ---------------------------
(***************************************************************************)
(* Small instances of AgentServer: a master, its followers, the routes and  *)
(* the events its terminal can report.                                      *)
(***************************************************************************)
EXTENDS AgentServer

Route(id, source, target) ==
    [id |-> id, source |-> source, target |-> target, enabled |-> TRUE,
     sizing |-> "mirror", size |-> <<1, 1>>, min |-> 0, max |-> 10, step |-> 1,
     sides |-> {}, allow |-> {}, deny |-> {}, maxAge |-> 0]

TradeEvent(id, source, action, volume) ==
    [id |-> id, source |-> source, order |-> "o1", action |-> action,
     side |-> "buy", symbol |-> "EURUSD", volume |-> volume, remaining |-> NoVolume,
     copied |-> FALSE, age |-> 0]

MCAccount == {"M", "F"}
MCRules == <<Route("r1", "M", "F")>>
MCTask == {"tM", "tF"}
MCOwner == [k \in MCTask |-> IF k = "tM" THEN "M" ELSE "F"]
MCPublishers == {"M"}

Opened == TradeEvent("e1", "M", "open", 2)
ReducedHalf == TradeEvent("e2", "M", "reduce", 1)
Closed == TradeEvent("e3", "M", "close", 0)

MCOpen == {Opened}
MCOpenReduce == {Opened, ReducedHalf}

(* A second route, for gold only, whose volume limits are the wrong way     *)
(* round; events of two symbols, one of them sent late.                     *)
MCGoldRoute ==
    <<[Route("r1", "M", "F") EXCEPT !.deny = {"XAUUSD"}, !.maxAge = 1],
      [Route("r2", "M", "F") EXCEPT !.allow = {"XAUUSD"}, !.min = 20]>>
MCGoldEvents ==
    {Opened, [Closed EXCEPT !.age = 2],
     [TradeEvent("e4", "M", "open", 1) EXCEPT !.symbol = "XAUUSD", !.order = "o2"]}

(* Two connections of the follower's account can overlap.  The daemon has   *)
(* been restarted on a journal in which the master's open is still queued.  *)
MCTaskOverlap == {"tF", "tG"}
MCOwnerOverlap == [k \in MCTaskOverlap |-> "F"]

(* Two connections of the master's account can overlap.                     *)
MCTaskTwoMasters == {"tM", "tN", "tF"}
MCOwnerTwoMasters == [k \in MCTaskTwoMasters |-> IF k = "tF" THEN "F" ELSE "M"]

Backlog ==
    Apply(EmptyReplay, EventPlanned("e1", {BuiltCommand(Rules[1], Opened, NoBinding)}))

BacklogInit ==
    /\ mem = Backlog /\ file = Backlog
    /\ FreshTasks
    /\ handed = [c \in CommandId |-> 0]
    /\ settled = {}
    /\ faults = 0
    /\ up = [s \in Session |-> FALSE]
    /\ outcome = [c \in CommandId |-> "none"]
    /\ book = [c \in CommandId |-> 0]
    /\ old = {}
    /\ crashes = 0

BacklogSpec == BacklogInit /\ [][Next]_vars
=============================================================================
