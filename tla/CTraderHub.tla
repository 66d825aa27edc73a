----------------------------- MODULE CTraderHub -----------------------------
(***************************************************************************)
(* Accounts attached through the cTrader Open API                           *)
(* (crates/copier-daemon/src/venues/ctrader.rs): the accounts of one        *)
(* environment share one task, the hub, and one websocket.  The hub runs    *)
(* the handlers of Runtime, for one account at a time; task k of Runtime    *)
(* stands for what the hub does for account Owner[k], and all of them rest  *)
(* (AtRest) before the hub turns to its next message or command.            *)
(*                                                                          *)
(* Where the hub stands:                                                    *)
(*   "startup"   setting up its accounts one after the other                *)
(*   "loop"      waiting for a command or a message                         *)
(*   "update"    a message's outcome handled, its position still to compare *)
(*   "leaving"   unregistering its accounts                                 *)
(*   "stopped"   run_hub has returned, or panicked; nothing restarts it     *)
(*                                                                          *)
(* The broker is external.  It answers the requests of an account in any    *)
(* order, or never, fills an open in parts, and reports what happens to     *)
(* positions over the websocket in order.  The positions its own trader     *)
(* holds are named by OrderId, those that commands opened by the command.   *)
(***************************************************************************)
EXTENDS Runtime

CONSTANTS
    Line,           \* the hub's accounts (their tasks) in the order of the configuration
    Protected,      \* orders their trader opens with a stop loss or take profit
    MaxVolume,      \* bound: the largest volume the trader holds
    MaxMoves,       \* bound: changes of the trader's positions
    MaxCrash        \* bound: restarts of the daemon

ASSUME HubAssumption ==
    /\ Line \in Seq(Task)
    /\ \A k \in Task : \E i \in DOMAIN Line : Line[i] = k
    /\ \A i, j \in DOMAIN Line : Owner[Line[i]] = Owner[Line[j]] => i = j
    /\ Protected \subseteq OrderId
    /\ MaxVolume \in Nat \ {0}
    /\ {MaxMoves, MaxCrash} \subseteq Nat
    /\ Rebroadcasters = {}
    /\ \A e \in Event : \E k \in Task : Owner[k] = e.source

(* An event about the trader's position o, the n-th that is reported.  The  *)
(* account, symbol and side of a position never change.                     *)
Report(o, action, n, volume, remaining) ==
    LET like == CHOOSE e \in Event : e.order = o
    IN  [id |-> <<o, action, n>>,
         source |-> like.source, order |-> o, action |-> action,
         side |-> like.side, symbol |-> like.symbol, volume |-> volume,
         remaining |-> remaining, copied |-> FALSE, age |-> 0]

(* Event has everything that can be reported, and an id (emit_event) names  *)
(* the position and the action.                                             *)
ASSUME ReportAssumption ==
    /\ \A e \in Event : e.id[1] = e.order /\ e.id[2] = e.action
    /\ \A o \in OrderId, action \in Action, n \in 0..(MaxMoves - 1),
          volume \in 0..MaxVolume, remaining \in 0..MaxVolume :
            LET e == Report(o, action, n, volume, remaining)
            IN  ValidEvent(e) => e \in Event

VARIABLES
    phase,      \* where the hub stands
    ready,      \* accounts set up so far
    forward,    \* the command each account's forwarder holds
    commands,   \* the channel in which the forwarders collect commands
    pending, protecting,    \* commands whose request, or protection, is unanswered
    known,      \* the hub's snapshots of the traders' positions
    copies,     \* its snapshots of the positions that commands opened: their volume
    message,    \* the message being handled
    inbox,      \* messages of the broker the hub has not read
    requests,   \* requests the broker has not finished
    held,       \* the traders' positions at the broker
    traded,     \* positions the traders have opened so far
    moves,      \* changes the traders have made so far
    book,       \* volume of the position each opening command opened
    guarded,    \* those of them that got their protection
    clock,      \* events reported so far: unix_time_ns, which no two events share
    missed,     \* history: a message about an account set up was thrown away
    refused,    \* history: commands the hub acknowledged as rejected
    crashes     \* restarts so far

hubVars == <<phase, ready, forward, commands, pending, protecting, known, copies, message>>
brokerVars == <<inbox, requests, held, traded, moves, book, guarded>>
historyVars == <<clock, missed, refused, crashes>>
vars == <<runtimeVars, hubVars, brokerVars, historyVars>>

Snapshot == [volume : 0..MaxVolume, stop : BOOLEAN]
Unlisted == [volume |-> -1, stop |-> FALSE]     \* not in the map of positions
Idle == [id |-> NoPosition]
NoMessage == [type |-> "none"]

ExecutionType ==
    {"accepted", "filled", "replaced", "cancelled", "rejected", "partial", "other"}

(* An answer carries the client message id of its request: the command's,   *)
(* or for the protection of an open that id behind "p:".  It names the      *)
(* position it is about, or not.  "error" is ORDER_ERROR_EVENT, ERROR_RES.  *)
MessageType ==
    [about : {"trader"}, type : {"accepted", "filled"}, order : OrderId,
     snapshot : Snapshot \cup {Unlisted}]
    \cup [about : {"request"}, type : ExecutionType \cup {"error"}, id : CommandId,
          protection : BOOLEAN, position : CommandId \cup {NoPosition}, volume : Nat]

RequestType == [command : CommandType, protection : BOOLEAN, volume : Nat]

TypeOK ==
    /\ RuntimeTypeOK
    /\ phase \in {"startup", "loop", "update", "leaving", "stopped"}
    /\ ready \in 0..Len(Line)
    /\ forward \in [Task -> CommandType \cup {Idle}]
    /\ commands \in Seq(CommandType) /\ Len(commands) <= 2 * Capacity
    /\ pending \subseteq CommandType /\ protecting \subseteq CommandType
    /\ known \in [OrderId -> Snapshot \cup {Unlisted}]
    /\ copies \in [CommandId -> Nat]
    /\ message \in MessageType \cup {NoMessage}
    /\ inbox \in Seq(MessageType)
    /\ requests \subseteq RequestType
    /\ held \in [OrderId -> Snapshot \cup {Unlisted}]
    /\ traded \subseteq OrderId
    /\ moves \in 0..MaxMoves
    /\ book \in [CommandId -> Nat]
    /\ guarded \subseteq CommandId
    /\ clock \in 0..MaxMoves
    /\ missed \in BOOLEAN
    /\ refused \subseteq CommandId
    /\ crashes \in 0..MaxCrash

Init ==
    /\ RuntimeInit
    /\ phase = "startup"
    /\ ready = 0
    /\ forward = [k \in Task |-> Idle]
    /\ commands = <<>>
    /\ pending = {} /\ protecting = {}
    /\ known = [o \in OrderId |-> Unlisted]
    /\ copies = [c \in CommandId |-> 0]
    /\ message = NoMessage
    /\ inbox = <<>>
    /\ requests = {}
    /\ held = [o \in OrderId |-> Unlisted]
    /\ traded = {}
    /\ moves = 0
    /\ book = [c \in CommandId |-> 0]
    /\ guarded = {}
    /\ clock = 0
    /\ missed = FALSE
    /\ refused = {}
    /\ crashes = 0

-----------------------------------------------------------------------------
(* Accounts.                                                                *)

SetUp == {Line[i] : i \in 1..ready}
AtRest == \A k \in Task : pc[k] \in {"off", "idle"}
Running == phase \in {"startup", "loop", "update"}

TaskOf(a) == CHOOSE k \in Task : Owner[k] = a
AccountOf(o) == (CHOOSE e \in Event : e.order = o).source
OrderOf(c) == (CHOOSE e \in Event : e.id = EventOf(c)).order

(* An open whose stop loss or take profit has to be set once it is filled.  *)
NeedsProtection(c) == c.action = "open" /\ c.order \in Protected

-----------------------------------------------------------------------------
(* The broker and its traders.                                              *)

(* The websocket carries what concerns an account that is authenticated on  *)
(* it: a message about another is read by wait_for and dropped.             *)
Tell(a, messages) ==
    inbox' = IF Running /\ TaskOf(a) \in SetUp THEN inbox \o messages ELSE inbox

(* A trader opens a position under a new id, changes its volume or its stop *)
(* loss, or closes it.  The order of an open may first be reported as       *)
(* accepted, its position as created with nothing filled.                   *)
Trader(o) ==
    /\ moves < MaxMoves
    /\ \E new \in (Snapshot \cup {Unlisted}) \ {held[o]}, announced \in BOOLEAN :
         LET opening == held[o] = Unlisted
             report(type, snapshot) ==
                [about |-> "trader", type |-> type, order |-> o, snapshot |-> snapshot]
         IN /\ new.volume # 0
            /\ opening => o \notin traded /\ (new.stop <=> o \in Protected)
            /\ announced => opening
            /\ held' = [held EXCEPT ![o] = new]
            /\ Tell(AccountOf(o),
                    (IF announced THEN <<report("accepted", [new EXCEPT !.volume = 0])>>
                     ELSE <<>>) \o <<report("filled", new)>>)
    /\ traded' = traded \cup {o}
    /\ moves' = moves + 1
    /\ UNCHANGED <<runtimeVars, hubVars, requests, book, guarded, historyVars>>

Reply(r, type, position, volume) ==
    Tell(r.command.target,
         <<[about |-> "request", type |-> type, id |-> r.command.id,
            protection |-> r.protection, position |-> position, volume |-> volume]>>)

(* A fill, in full; its report may fail to name the position.               *)
Fill(r) ==
    LET c == r.command
        p == IF c.action = "open" THEN c.id ELSE c.position
        left == IF c.action = "open" THEN r.volume ELSE NotNegative(book[p] - r.volume)
    IN  /\ ~r.protection /\ c.action # "modify" /\ r.volume > 0
        /\ c.action # "open" => book[p] > 0
        /\ book' = [book EXCEPT ![p] = left]
        /\ requests' = requests \ {r}
        /\ \/ Reply(r, "filled", p, left)
           \/ c.action = "open" /\ Reply(r, "filled", NoPosition, 0)
        /\ UNCHANGED guarded

(* A first part of an open is filled; the rest follows or is cancelled.     *)
PartialFill(r) ==
    /\ ~r.protection /\ r.command.action = "open"
    /\ book[r.command.id] = 0 /\ r.volume > 1
    /\ book' = [book EXCEPT ![r.command.id] = 1]
    /\ Reply(r, "partial", r.command.id, 1)
    /\ UNCHANGED <<requests, guarded>>

(* The stop loss or take profit of a position is set.                       *)
Amend(r) ==
    LET p == IF r.protection THEN r.command.id ELSE r.command.position
    IN  /\ r.protection \/ r.command.action = "modify"
        /\ book[p] > 0
        /\ requests' = requests \ {r}
        /\ guarded' = guarded \cup {p}
        /\ Reply(r, "replaced", p, book[p])
        /\ UNCHANGED book

(* The request, or what is left of it, is not executed.                     *)
Refuse(r) ==
    LET c == r.command
        p == IF c.action = "open" THEN c.id ELSE c.position
    IN  /\ requests' = requests \ {r}
        /\ IF book[p] > 0 /\ c.action = "open"
           THEN \E type \in (IF r.protection THEN {"rejected", "error"} ELSE {"cancelled"}) :
                  Reply(r, type, p, book[p])
           ELSE \E type \in {"rejected", "error", "other"} : Reply(r, type, NoPosition, 0)
        /\ UNCHANGED <<book, guarded>>

Broker(r) ==
    /\ Fill(r) \/ PartialFill(r) \/ Amend(r) \/ Refuse(r)
    /\ UNCHANGED <<runtimeVars, hubVars, held, traded, moves, historyVars>>

-----------------------------------------------------------------------------
(* run_hub: setting up.                                                     *)

OfAccount(a, o) == AccountOf(o) = a

(* Faulty: the positions found are not kept.                                *)
ReconcileNothing(a) == known' = known /\ copies' = copies

(* parse_reconcile_positions.                                               *)
ReconcilePositions(a) ==
    /\ known' = [o \in OrderId |-> IF OfAccount(a, o) THEN held[o] ELSE known[o]]
    /\ copies' = [c \in CommandId |-> IF TargetOf(c) = a THEN book[c] ELSE copies[c]]

(* The next account: wait_for reads the websocket up to the answer with its *)
(* positions and drops whatever else it meets, the messages about accounts  *)
(* set up before included.  Then the session is registered.                 *)
SetUpNext ==
    /\ phase = "startup" /\ AtRest
    /\ ready < Len(Line)
    /\ DrawSessionId(Line[ready + 1])
    /\ ReconcilePositions(Owner[Line[ready + 1]])
    /\ ready' = ready + 1
    /\ missed' = (missed \/ inbox # <<>>)
    /\ inbox' = <<>>
    /\ UNCHANGED <<phase, forward, commands, pending, protecting, message, requests,
                   held, traded, moves, book, guarded, clock, refused, crashes>>

(* Authentication or a request fails: run_hub returns at once, and leaves   *)
(* the accounts it has set up registered.                                   *)
StartupFails ==
    /\ phase = "startup" /\ AtRest
    /\ ready < Len(Line)
    /\ phase' = "stopped"
    /\ commands' = <<>>
    /\ UNCHANGED <<runtimeVars, ready, forward, pending, protecting, known, copies, message,
                   brokerVars, historyVars>>

EnterLoop ==
    /\ phase = "startup" /\ AtRest
    /\ ready = Len(Line)
    /\ phase' = "loop"
    /\ UNCHANGED <<runtimeVars, ready, forward, commands, pending, protecting, known, copies,
                   message, brokerVars, historyVars>>

-----------------------------------------------------------------------------
(* The forwarder of an account: from its session's channel to the hub's.    *)

ForwarderTakes(k) ==
    /\ sid[k] # 0
    /\ chan[sid[k]].open /\ chan[sid[k]].queue # <<>>
    /\ forward[k] = Idle
    /\ forward' = [forward EXCEPT ![k] = Head(chan[sid[k]].queue)]
    /\ chan' = [chan EXCEPT ![sid[k]].queue = Tail(@)]
    /\ UNCHANGED <<mem, file, sessions, nextId, taskVars, handed, settled, faults,
                   phase, ready, commands, pending, protecting, known, copies, message,
                   brokerVars, historyVars>>

ForwarderSends(k) ==
    /\ forward[k] # Idle
    /\ phase # "stopped"
    /\ Len(commands) < 2 * Capacity
    /\ commands' = Append(commands, forward[k])
    /\ forward' = [forward EXCEPT ![k] = Idle]
    /\ UNCHANGED <<runtimeVars, phase, ready, pending, protecting, known, copies, message,
                   brokerVars, historyVars>>

(* The hub has gone: the forwarder ends, and its receiver is dropped with   *)
(* the command it held and those behind it.                                 *)
ForwarderEnds(k) ==
    /\ forward[k] # Idle
    /\ phase = "stopped"
    /\ forward' = [forward EXCEPT ![k] = Idle]
    /\ chan' = [chan EXCEPT ![sid[k]] = [open |-> FALSE, queue |-> <<>>]]
    /\ UNCHANGED <<mem, file, sessions, nextId, taskVars, handed, settled, faults,
                   phase, ready, commands, pending, protecting, known, copies, message,
                   brokerVars, historyVars>>

-----------------------------------------------------------------------------
(* run_hub: the loop.                                                       *)

(* handle_frame of an acknowledgement; one that is no longer tracked        *)
(* changes nothing.                                                         *)
Acknowledge(c, status, position) ==
    /\ IF Tracked(mem, c.id)
       THEN HandleAck(TaskOf(c.target), [id |-> c.id, status |-> status, position |-> position])
       ELSE UNCHANGED runtimeVars
    /\ refused' = IF status = "rejected" THEN refused \cup {c.id} ELSE refused

(* The volume command_message asks for: of a close that of the position as  *)
(* the hub knows it.                                                        *)
RequestVolume(c) ==
    IF c.action = "close" /\ copies[c.position] > 0 THEN copies[c.position] ELSE c.volume

(* Faulty: only opens are expected to be answered.                          *)
AwaitOpen(c) == pending' = IF c.action = "open" THEN pending \cup {c} ELSE pending

Await(c) == pending' = pending \cup {c}

(* command_rx.recv(): the request is sent, or command_message fails (the    *)
(* account does not list the symbol, or the volume is less than a cent: the *)
(* table of symbols is not modelled) and the command is rejected.           *)
TakeCommand ==
    /\ phase = "loop" /\ AtRest
    /\ commands # <<>>
    /\ commands' = Tail(commands)
    /\ LET c == Head(commands)
       IN \/ /\ requests' = requests \cup
                    {[command |-> c, protection |-> FALSE, volume |-> RequestVolume(c)]}
             /\ Await(c)
             /\ UNCHANGED <<runtimeVars, refused>>
          \/ /\ c.action # "modify"
             /\ Acknowledge(c, "rejected", NoPosition)
             /\ UNCHANGED <<requests, pending>>
    /\ UNCHANGED <<phase, ready, forward, protecting, known, copies, message,
                   inbox, held, traded, moves, book, guarded, clock, missed, crashes>>

NonFinal == {"accepted", "partial"}

(* The status an execution type stands for.                                 *)
Outcome(type) ==
    CASE type \in {"filled", "replaced"}    -> "filled"
      [] type \in {"cancelled", "rejected"} -> "rejected"
      [] OTHER                              -> "unknown"

IsFor(m, c) == m.about = "request" /\ m.id = c.id

(* A protection is answered: now the open is acknowledged.                  *)
HandleProtection(m) ==
    \E c \in protecting :
        /\ IsFor(m, c) /\ m.protection
        /\ protecting' = protecting \ {c}
        /\ Acknowledge(c, IF m.type = "error" THEN "unknown" ELSE Outcome(m.type), c.id)
        /\ UNCHANGED <<pending, requests>>

(* Faulty: an open is acknowledged without waiting for its protection.      *)
HandleOutcomeEarly(m) ==
    \E c \in pending :
        /\ IsFor(m, c) /\ ~m.protection
        /\ pending' = pending \ {c}
        /\ Acknowledge(c, IF m.type = "error" THEN "rejected" ELSE Outcome(m.type), m.position)
        /\ UNCHANGED <<requests, protecting>>

(* A request is answered.  An open that is filled and needs protection is   *)
(* acknowledged only when it has it.                                        *)
HandleOutcome(m) ==
    \E c \in pending :
        /\ IsFor(m, c) /\ ~m.protection
        /\ pending' = pending \ {c}
        /\ IF NeedsProtection(c) /\ Outcome(m.type) = "filled"
           THEN IF m.position # NoPosition
                THEN /\ requests' = requests \cup
                            {[command |-> c, protection |-> TRUE, volume |-> 0]}
                     /\ protecting' = protecting \cup {c}
                     /\ UNCHANGED <<runtimeVars, refused>>
                ELSE /\ Acknowledge(c, "unknown", NoPosition)
                     /\ UNCHANGED <<requests, protecting>>
           ELSE /\ Acknowledge(c, IF m.type = "error" THEN "rejected" ELSE Outcome(m.type),
                               m.position)
                /\ UNCHANGED <<requests, protecting>>

(* Neither: a trader's message, a first part, an answer to a request of an  *)
(* earlier connection.                                                      *)
HandleUnmatched(m) ==
    /\ m.about = "request" /\ m.type \notin NonFinal =>
            ~\E c \in (IF m.protection THEN protecting ELSE pending) : IsFor(m, c)
    /\ UNCHANGED <<runtimeVars, refused, pending, protecting, requests>>

HandleMessage ==
    /\ phase = "loop" /\ AtRest
    /\ inbox # <<>>
    /\ inbox' = Tail(inbox)
    /\ LET m == Head(inbox)
       IN /\ \/ m.type \notin NonFinal /\ HandleProtection(m)
             \/ m.type \notin NonFinal /\ HandleOutcome(m)
             \/ HandleUnmatched(m)
          /\ IF m.type = "error" THEN UNCHANGED <<phase, message>>
             ELSE phase' = "update" /\ message' = m
    /\ UNCHANGED <<ready, forward, commands, known, copies,
                   held, traded, moves, book, guarded, clock, missed, crashes>>

(* What update_position_from_execution reports of a position; a growing one *)
(* is only logged, and one never known that is closed is not looked at.     *)
Difference(old, new) ==
    CASE old = Unlisted /\ new = Unlisted -> "none"
      [] old = Unlisted /\ new # Unlisted -> "open"
      [] old # Unlisted /\ new = Unlisted -> "close"
      [] old # Unlisted /\ new # Unlisted /\ new.volume < old.volume -> "reduce"
      [] old # Unlisted /\ new # Unlisted /\ new.volume > old.volume -> "scale-in"
      [] old # Unlisted /\ new # Unlisted /\ new.volume = old.volume ->
            IF new.stop # old.stop THEN "modify" ELSE "none"

(* emit_event, with the volumes that its callers pass.                      *)
EventFor(o, old, new) ==
    LET action == Difference(old, new)
    IN  Report(o, action, clock,
               CASE action = "reduce" -> old.volume - new.volume
                 [] action = "close"  -> old.volume
                 [] OTHER             -> new.volume,
               IF action = "close" THEN 0 ELSE new.volume)

(* Faulty: a position is forgotten when it is reduced; the change of the    *)
(* volume is kept in place of the volume.                                   *)
KeepChange(o, new) ==
    known' = [known EXCEPT ![o] = [new EXCEPT !.volume = new.volume - known[o].volume]]
KeepPositionUnlessReduced(o, new) ==
    known' = [known EXCEPT ![o] = IF Difference(known[o], new) = "reduce" THEN Unlisted ELSE new]

KeepPosition(o, new) == known' = [known EXCEPT ![o] = new]

(* update_position_from_execution of a trader's position: an event that     *)
(* does not pass TradeEvent::validate ends the hub.                         *)
UpdatePosition ==
    /\ phase = "update" /\ AtRest
    /\ message.about = "trader"
    /\ LET o == message.order
           new == message.snapshot
           action == Difference(known[o], new)
           e == EventFor(o, known[o], new)
           k == TaskOf(AccountOf(o))
       IN /\ KeepPosition(o, new)
          /\ IF action \in Action /\ Owner[k] \in Publishers
             THEN IF ValidEvent(e)
                  THEN /\ clock < MaxMoves
                       /\ clock' = clock + 1
                       /\ HandleEvent(k, e)
                       /\ phase' = "loop"
                  ELSE phase' = "leaving" /\ UNCHANGED <<runtimeVars, clock>>
             ELSE phase' = "loop" /\ UNCHANGED <<runtimeVars, clock>>
    /\ message' = NoMessage
    /\ UNCHANGED <<ready, forward, commands, pending, protecting, copies, brokerVars,
                   missed, refused, crashes>>

(* Faulty: a volume that is known is kept.                                  *)
KeepFirstCopy(p, volume) ==
    copies' = IF p = NoPosition \/ copies[p] # 0 THEN copies ELSE [copies EXCEPT ![p] = volume]

KeepCopy(p, volume) ==
    copies' = IF p = NoPosition THEN copies ELSE [copies EXCEPT ![p] = volume]

(* The same of a position that CopierR opened: its events carry the         *)
(* command's id and are suppressed.                                         *)
UpdateCopy ==
    /\ phase = "update" /\ AtRest
    /\ message.about = "request"
    /\ KeepCopy(message.position, message.volume)
    /\ phase' = "loop"
    /\ message' = NoMessage
    /\ UNCHANGED <<runtimeVars, ready, forward, commands, pending, protecting, known,
                   brokerVars, historyVars>>

-----------------------------------------------------------------------------
(* The end of the hub.                                                      *)

(* The websocket is closed, a write fails, or a message cannot be read.     *)
ConnectionEnds ==
    /\ phase \in {"loop", "update"} /\ AtRest
    /\ phase' = "leaving"
    /\ message' = NoMessage
    /\ UNCHANGED <<runtimeVars, ready, forward, commands, pending, protecting, known, copies,
                   brokerVars, historyVars>>

LeaveNext(k) ==
    /\ phase = "leaving" /\ AtRest
    /\ pc[k] = "idle"
    /\ Goto(k, "leave")
    /\ UNCHANGED <<mem, file, sessions, nextId, chan, ev, routes, rec, ret, todo, sess, sid,
                   handed, settled, faults, hubVars, brokerVars, historyVars>>

(* Its maps and its channel are dropped, with what is in them.              *)
Stop ==
    /\ phase' = "stopped"
    /\ commands' = <<>>
    /\ pending' = {} /\ protecting' = {}
    /\ message' = NoMessage
    /\ UNCHANGED <<ready, forward, known, copies>>

HubEnds ==
    /\ phase = "leaving"
    /\ \A k \in SetUp : pc[k] = "off"
    /\ Stop
    /\ UNCHANGED <<runtimeVars, brokerVars, historyVars>>

TaskStep(k) ==
    /\ HandlerStep(k)
    /\ IF pc'[k] = "dead" THEN Stop ELSE UNCHANGED hubVars
    /\ UNCHANGED <<brokerVars, historyVars>>

(* An error of a handler ends the hub: from the loop through the end of     *)
(* every session, before it or on the way out at once.                      *)
JournalError(k) ==
    /\ IF phase \in {"loop", "update"}
       THEN /\ AppendFails(k, "idle")
            /\ phase' = "leaving" /\ message' = NoMessage
            /\ UNCHANGED <<ready, forward, commands, pending, protecting, known, copies>>
       ELSE AppendFails(k, IF phase = "leaving" THEN "off" ELSE "dead") /\ Stop
    /\ UNCHANGED <<brokerVars, historyVars>>

(* The daemon stops at any point and is started again.                      *)
Crash ==
    /\ crashes < MaxCrash
    /\ crashes' = crashes + 1
    /\ mem' = Finalize(file)
    /\ sessions' = [a \in Account |-> 0]
    /\ nextId' = 1
    /\ chan' = [s \in Session |-> [open |-> FALSE, queue |-> <<>>]]
    /\ pc' = [k \in Task |-> "off"]
    /\ ev' = [k \in Task |-> NoEvent]
    /\ routes' = [k \in Task |-> {}]
    /\ rec' = [k \in Task |-> NoRecord]
    /\ ret' = [k \in Task |-> "idle"]
    /\ todo' = [k \in Task |-> {}]
    /\ sess' = [k \in Task |-> 0]
    /\ sid' = [k \in Task |-> 0]
    /\ phase' = "startup"
    /\ ready' = 0
    /\ forward' = [k \in Task |-> Idle]
    /\ commands' = <<>>
    /\ pending' = {} /\ protecting' = {}
    /\ known' = [o \in OrderId |-> Unlisted]
    /\ copies' = [c \in CommandId |-> 0]
    /\ message' = NoMessage
    /\ inbox' = <<>>
    /\ missed' = FALSE
    /\ UNCHANGED <<file, handed, settled, faults, requests, held, traded, moves, book, guarded,
                   clock, refused>>

Next ==
    \/ SetUpNext \/ StartupFails \/ EnterLoop
    \/ TakeCommand \/ HandleMessage \/ UpdatePosition \/ UpdateCopy
    \/ ConnectionEnds \/ HubEnds
    \/ \E k \in Task :
         \/ ForwarderTakes(k) \/ ForwarderSends(k) \/ ForwarderEnds(k)
         \/ TaskStep(k) \/ JournalError(k) \/ LeaveNext(k)
    \/ \E o \in OrderId : Trader(o)
    \/ \E r \in requests : Broker(r)
    \/ Crash

Spec == Init /\ [][Next]_vars

-----------------------------------------------------------------------------
(* Properties.                                                              *)

BoundTo(c) == \E key \in Key : mem.mirrors[key].position = c

(* A position the broker opened for a command, in part or in full, is bound *)
(* to its source position or the command is still tracked, unless the hub   *)
(* acknowledged the open as rejected (see RejectedHoldsNothing).            *)
FillsNeverLost ==
    \A c \in CommandId : book[c] > 0 => Tracked(mem, c) \/ BoundTo(c) \/ c \in refused

(* When it has read everything and no handler runs, the hub knows the       *)
(* traders' positions as the broker has them: what it reports next is the   *)
(* difference that a trader made.                                           *)
InStep == phase = "loop" /\ AtRest /\ inbox = <<>> /\ ~missed => known = held

(* The same of the positions that are bound: the volume of a close is what  *)
(* is left of the position.                                                 *)
CopiesInStep ==
    phase = "loop" /\ AtRest /\ inbox = <<>> /\ ~missed =>
        \A c \in CommandId : BoundTo(c) => copies[c] = book[c]

(* An open whose stop loss or take profit must be set is bound only when    *)
(* the broker has set it.                                                   *)
BoundIsProtected ==
    \A c \in CommandId : BoundTo(c) /\ OrderOf(c) \in Protected => c \in guarded

(* While the hub runs, no command is called dispatched that nobody pursues: *)
(* it is in one of the channels, about to be sent, awaits an answer, or is  *)
(* being acknowledged.                                                      *)
OnItsWay(c) ==
    \/ \E k \in Task :
         \/ rec[k].kind \in {"CommandDispatched", "CommandUnknown", "AckApplied"} /\ rec[k].id = c
         \/ forward[k].id = c
         \/ sid[k] # 0 /\ \E i \in DOMAIN chan[sid[k]].queue : chan[sid[k]].queue[i].id = c
    \/ \E i \in DOMAIN commands : commands[i].id = c
    \/ \E d \in pending \cup protecting : d.id = c

DispatchedIsPursued ==
    Running => \A c \in CommandId : StateOf(mem, c) = "dispatched" => OnItsWay(c)

(* A command is put on a channel once in its life, restarts included: the   *)
(* hub is done with its backlog before it reports the first event.          *)
SentOnce == \A c \in CommandId : handed[c] <= 1

ReportsOf(o, action) == {id \in file.seen : id[1] = o /\ id[2] = action}

(* The positions found at a start are the baseline: a position is reported  *)
(* as opened, and copied, once in its life.                                 *)
OpenedOnce == \A o \in OrderId : Cardinality(ReportsOf(o, "open")) <= 1

-----------------------------------------------------------------------------
(* What the documents say and the code does not do.                         *)

(* README.md:108, "durable source-to-follower position bindings": what the  *)
(* hub acknowledges as rejected has opened nothing that needs a binding.    *)
RejectedHoldsNothing == \A c \in refused : book[c] = 0
=============================================================================
