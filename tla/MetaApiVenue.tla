---------------------------- MODULE MetaApiVenue ----------------------------
(***************************************************************************)
(* Accounts attached through MetaApi (crates/copier-daemon/src/venues):     *)
(* one task per account, started with the daemon and never again, that runs *)
(* the handlers of Runtime, executes the account's commands over HTTP, and  *)
(* finds a master's events by comparing snapshots of its positions.         *)
(*                                                                          *)
(* Where task k stands in run_account:                                      *)
(*   "startup"   registering, dispatching what is queued, first snapshot    *)
(*   "select"    in the loop, waiting for a command or the poll timer       *)
(*   "trade"     a command taken, its request on the way                    *)
(*   "executed", "refused"   the broker has decided, no answer yet          *)
(*   "diff"      reporting the differences between two snapshots            *)
(*                                                                          *)
(* The broker is external: the positions its own trader holds at an account *)
(* are named by OrderId, the positions CopierR's commands opened by the     *)
(* command.  It executes every request it gets, the same command's twice if *)
(* asked twice, and may do so after the request has timed out.  Positions   *)
(* opened by CopierR are reported with their clientId, as copied, and       *)
(* suppressed (Suppressed): they are left out of the snapshots.             *)
(***************************************************************************)
EXTENDS Runtime

CONSTANTS
    MaxVolume,      \* bound: the largest volume the trader holds
    MaxMoves,       \* bound: changes of the trader's positions
    MaxReports,     \* bound: events reported
    MaxCrash        \* bound: restarts of the daemon

ASSUME VenueAssumption ==
    /\ MaxVolume \in Nat \ {0}
    /\ {MaxMoves, MaxReports, MaxCrash} \subseteq Nat
    /\ Rebroadcasters = {}
    /\ \A j, k \in Task : Owner[j] = Owner[k] => j = k
    /\ \A e \in Event : e.side # "none"     \* a position is a buy or a sell

(* An event about the trader's position o, the n-th that is reported.  The  *)
(* account, symbol and side of a position never change.                     *)
Report(o, action, n, volume, remaining) ==
    LET like == CHOOSE e \in Event : e.order = o
    IN  [id |-> <<o, action, n>>,
         source |-> like.source, order |-> o, action |-> action,
         side |-> like.side, symbol |-> like.symbol, volume |-> volume,
         remaining |-> remaining, copied |-> FALSE, age |-> 0]

(* Event has everything that can be reported, and an id (to_event) names    *)
(* the position and the action.                                             *)
ASSUME ReportAssumption ==
    /\ \A e \in Event : e.id[1] = e.order /\ e.id[2] = e.action
    /\ \A o \in OrderId, action \in Action, n \in 0..(MaxReports - 1),
          volume \in 0..MaxVolume, remaining \in 0..MaxVolume :
            LET e == Report(o, action, n, volume, remaining)
            IN  ValidEvent(e) => e \in Event

VARIABLES
    phase, doing, known, current,   \* the venue tasks
    held,       \* the trader's positions at the broker
    traded,     \* positions the trader has opened so far
    moves,      \* changes the trader has made so far
    book,       \* volume of the position each opening command opened
    fills,      \* how often the broker executed a command (2: twice or more)
    late,       \* requests the broker may still execute, their outcome given up
    clock,      \* events reported so far: unix_time_ns, which no two events share
    blind,      \* history: a publisher's first snapshot failed
    crashes     \* restarts so far

venueVars == <<phase, doing, known, current>>
brokerVars == <<held, traded, moves, book, fills, late>>
vars == <<runtimeVars, venueVars, brokerVars, clock, blind, crashes>>

Snapshot == [volume : 0..MaxVolume, stop : BOOLEAN]
Flat == [volume |-> 0, stop |-> FALSE]      \* not in the list of positions
NoPositions == [o \in OrderId |-> Flat]
Idle == [id |-> NoPosition]

TypeOK ==
    /\ RuntimeTypeOK
    /\ phase \in [Task -> {"startup", "select", "trade", "executed", "refused", "diff"}]
    /\ doing \in [Task -> CommandType \cup {Idle}]
    /\ known \in [Task -> [OrderId -> Snapshot]]
    /\ current \in [Task -> [OrderId -> Snapshot]]
    /\ held \in [OrderId -> Snapshot]
    /\ traded \in SUBSET OrderId
    /\ moves \in 0..MaxMoves
    /\ book \in [CommandId -> Nat]
    /\ fills \in [CommandId -> 0..2]
    /\ late \in SUBSET CommandType
    /\ clock \in 0..MaxReports
    /\ blind \in BOOLEAN
    /\ crashes \in 0..MaxCrash

FreshVenues ==
    /\ phase = [k \in Task |-> "startup"]
    /\ doing = [k \in Task |-> Idle]
    /\ known = [k \in Task |-> NoPositions]
    /\ current = [k \in Task |-> NoPositions]

Init ==
    /\ RuntimeInit
    /\ FreshVenues
    /\ held = NoPositions
    /\ traded = {}
    /\ moves = 0
    /\ book = [c \in CommandId |-> 0]
    /\ fills = [c \in CommandId |-> 0]
    /\ late = {}
    /\ clock = 0
    /\ blind = FALSE
    /\ crashes = 0

-----------------------------------------------------------------------------
(* The broker and its trader.                                               *)

AccountOf(o) == (CHOOSE e \in Event : e.order = o).source

(* The trader opens a position under a new id and without a stop loss,      *)
(* changes its volume or its stop loss, or closes it.                       *)
Trader(o) ==
    /\ moves < MaxMoves
    /\ \E new \in Snapshot \ {held[o]} :
         /\ new.volume = 0 \/ held[o] = Flat => ~new.stop
         /\ held[o] = Flat => o \notin traded
         /\ held' = [held EXCEPT ![o] = new]
    /\ traded' = traded \cup {o}
    /\ moves' = moves + 1
    /\ UNCHANGED <<runtimeVars, venueVars, book, fills, late, clock, blind, crashes>>

CanExecute(c) == c.action # "open" => book[c.position] > 0

Execute(c) ==
    /\ CanExecute(c)
    /\ fills' = [fills EXCEPT ![c.id] = IF @ = 2 THEN 2 ELSE @ + 1]
    /\ book' = CASE c.action = "open"   -> [book EXCEPT ![c.id] = @ + c.volume]
                 [] c.action = "modify" -> book
                 [] c.action = "reduce" -> [book EXCEPT ![c.position] = NotNegative(@ - c.volume)]
                 [] c.action = "close"  -> [book EXCEPT ![c.position] = 0]

(* A request given up is executed after all; or it never is.                *)
ExecuteLate(c) ==
    /\ late' = late \ {c}
    /\ Execute(c)
    /\ UNCHANGED <<runtimeVars, venueVars, held, traded, moves, clock, blind, crashes>>

-----------------------------------------------------------------------------
(* run_account.                                                             *)

Enter(k, p) == phase' = [phase EXCEPT ![k] = p]
AtLoop(k) == pc[k] = "idle" /\ phase[k] = "select"

(* venues::spawn starts one task per account, which registers its session   *)
(* and dispatches what is queued before it reads from its channel.          *)
Start(k) ==
    /\ sid[k] = 0
    /\ DrawSessionId(k)
    /\ UNCHANGED <<venueVars, brokerVars, clock, blind, crashes>>

(* Faulty: a request that fails is taken for an account without positions.  *)
FetchEmptyOnError(a) ==
    {NoPositions, [o \in OrderId |-> IF AccountOf(o) = a THEN held[o] ELSE Flat]}

(* fetch_positions, when it succeeds, and index_positions.                  *)
FetchPositions(a) ==
    {[o \in OrderId |-> IF AccountOf(o) = a THEN held[o] ELSE Flat]}

(* Faulty: there is no first snapshot.                                      *)
BaselineEmpty(k) ==
    /\ pc[k] = "idle" /\ phase[k] = "startup"
    /\ Enter(k, "select")
    /\ UNCHANGED <<runtimeVars, doing, known, current, brokerVars, clock, blind, crashes>>

(* The positions found at the start are the baseline, not events.  When     *)
(* they cannot be fetched the task starts empty.                            *)
Baseline(k) ==
    /\ pc[k] = "idle" /\ phase[k] = "startup"
    /\ \/ /\ \E positions \in FetchPositions(Owner[k]) : known' = [known EXCEPT ![k] = positions]
          /\ UNCHANGED blind
       \/ /\ UNCHANGED known
          /\ blind' = (blind \/ Owner[k] \in Publishers)
    /\ Enter(k, "select")
    /\ UNCHANGED <<runtimeVars, doing, current, brokerVars, clock, crashes>>

(* A poll of an account that can publish.  One that fails changes nothing.  *)
Poll(k) ==
    /\ AtLoop(k)
    /\ Owner[k] \in Publishers
    /\ \E positions \in FetchPositions(Owner[k]) :
         /\ positions # known[k]
         /\ current' = [current EXCEPT ![k] = positions]
    /\ Enter(k, "diff")
    /\ UNCHANGED <<runtimeVars, doing, known, brokerVars, clock, blind, crashes>>

(* What emit_position_diffs reports of a position that changed; a growing   *)
(* one is only logged.                                                      *)
Difference(old, new) ==
    CASE old.volume = 0                                 -> "open"
      [] old.volume > 0 /\ new.volume = 0               -> "close"
      [] old.volume > new.volume /\ new.volume > 0      -> "reduce"
      [] old.volume > 0 /\ new.volume > old.volume      -> "scale-in"
      [] old.volume > 0 /\ new.volume = old.volume      -> "modify"

(* Faulty: the reduction is taken the wrong way round.                      *)
ToEventBackwards(o, old, new) ==
    LET action == Difference(old, new)
    IN  Report(o, action, clock,
               CASE action = "reduce" -> new.volume - old.volume
                 [] action = "close"  -> old.volume
                 [] OTHER             -> new.volume,
               new.volume)

(* to_event, with the volume and remaining_volume that its callers pass.    *)
ToEvent(o, old, new) ==
    LET action == Difference(old, new)
    IN  Report(o, action, clock,
               CASE action = "reduce" -> old.volume - new.volume
                 [] action = "close"  -> old.volume
                 [] OTHER             -> new.volume,
               new.volume)

Remaining(k) == {o \in OrderId : known[k][o] # current[k][o]}

(* One position of emit_position_diffs, in any order but the closed ones    *)
(* last.  `known = current` after the last of them is the same as taking    *)
(* over one position after the other: an error in between ends the task.    *)
EmitDiff(k) ==
    /\ pc[k] = "idle" /\ phase[k] = "diff"
    /\ \E o \in Remaining(k) :
         LET old == known[k][o]
             new == current[k][o]
         IN  /\ new.volume = 0 => \A p \in Remaining(k) : current[k][p].volume = 0
             /\ known' = [known EXCEPT ![k][o] = new]
             /\ IF Remaining(k) = {o}
                THEN Enter(k, "select") /\ current' = [current EXCEPT ![k] = NoPositions]
                ELSE UNCHANGED <<phase, current>>
             /\ IF Difference(old, new) = "scale-in"
                THEN UNCHANGED <<runtimeVars, clock>>
                ELSE /\ clock < MaxReports
                     /\ clock' = clock + 1
                     /\ HandleEvent(k, ToEvent(o, old, new))
    /\ UNCHANGED <<doing, brokerVars, blind, crashes>>

(* rx.recv(): the next command of the channel.                              *)
TakeCommand(k) ==
    /\ AtLoop(k)
    /\ chan[sid[k]].queue # <<>>
    /\ doing' = [doing EXCEPT ![k] = Head(chan[sid[k]].queue)]
    /\ chan' = [chan EXCEPT ![sid[k]].queue = Tail(@)]
    /\ Enter(k, "trade")
    /\ UNCHANGED <<mem, file, sessions, nextId, taskVars, handed, settled, faults,
                   known, current, brokerVars, clock, blind, crashes>>

(* The broker gets the request and executes it or not.                      *)
Trade(k) ==
    /\ phase[k] = "trade"
    /\ \/ Execute(doing[k]) /\ Enter(k, "executed")
       \/ UNCHANGED <<fills, book>> /\ Enter(k, "refused")
    /\ UNCHANGED <<runtimeVars, doing, known, current, held, traded, moves, late,
                   clock, blind, crashes>>

Acknowledge(c, status, position) == [id |-> c.id, status |-> status, position |-> position]

(* Faulty: an answer that says nothing is taken for a refusal.              *)
AnswersDefinite(c, executed) ==
    {Acknowledge(c, "rejected", NoPosition)}
    \cup IF executed THEN {Acknowledge(c, "filled", c.id)} ELSE {}

(* What execute makes of the response to the request for c: an error of the *)
(* transport, a 5xx status, an answer that is no JSON, a placed, partial or *)
(* timed-out order are UNKNOWN; a fill may come without a position id.      *)
Answers(c, executed) ==
    {Acknowledge(c, "unknown", NoPosition)}
    \cup IF executed THEN {Acknowledge(c, "filled", p) : p \in {c.id, NoPosition}}
         ELSE {Acknowledge(c, "rejected", NoPosition)}

(* The acknowledgement goes to handle_ack.  A request whose outcome is      *)
(* unknown may still be on its way.                                         *)
Answer(k) ==
    /\ phase[k] \in {"executed", "refused"}
    /\ \E ack \in Answers(doing[k], phase[k] = "executed") :
         /\ IF Tracked(mem, ack.id) THEN HandleAck(k, ack) ELSE UNCHANGED runtimeVars
         /\ late' = IF ack.status = "unknown" /\ phase[k] = "refused"
                    THEN late \cup {doing[k]} ELSE late
    /\ doing' = [doing EXCEPT ![k] = Idle]
    /\ Enter(k, "select")
    /\ UNCHANGED <<known, current, held, traded, moves, book, fills, clock, blind, crashes>>

TaskStep(k) ==
    /\ HandlerStep(k)
    /\ UNCHANGED <<venueVars, brokerVars, clock, blind, crashes>>

(* An error of a handler ends the task: from the loop through               *)
(* unregister_session, before the loop at once.                             *)
JournalError(k) ==
    /\ AppendFails(k, IF ret[k] = "orphans" THEN "off"
                      ELSE IF phase[k] = "startup" THEN "dead" ELSE "leave")
    /\ UNCHANGED <<venueVars, brokerVars, clock, blind, crashes>>

(* The task has ended: its receiver is dropped.                             *)
DropReceiver(k) ==
    /\ sid[k] # 0
    /\ pc[k] \in {"off", "dead"}
    /\ chan[sid[k]].open
    /\ chan' = [chan EXCEPT ![sid[k]] = [open |-> FALSE, queue |-> <<>>]]
    /\ UNCHANGED <<mem, file, sessions, nextId, taskVars, handed, settled, faults,
                   venueVars, brokerVars, clock, blind, crashes>>

(* The daemon stops at any point and is started again.  A request on its    *)
(* way may be executed later.                                               *)
Crash ==
    /\ crashes < MaxCrash
    /\ crashes' = crashes + 1
    /\ mem' = Finalize(file)
    /\ sessions' = [a \in Account |-> 0]
    /\ nextId' = 1
    /\ chan' = [s \in Session |-> [open |-> FALSE, queue |-> <<>>]]
    /\ pc' = [k \in Task |-> "off"]
    /\ ev' = [k \in Task |-> NoEvent]
    /\ routes' = [k \in Task |-> {}]
    /\ rec' = [k \in Task |-> NoRecord]
    /\ ret' = [k \in Task |-> "idle"]
    /\ todo' = [k \in Task |-> {}]
    /\ sess' = [k \in Task |-> 0]
    /\ sid' = [k \in Task |-> 0]
    /\ phase' = [k \in Task |-> "startup"]
    /\ doing' = [k \in Task |-> Idle]
    /\ known' = [k \in Task |-> NoPositions]
    /\ current' = [k \in Task |-> NoPositions]
    /\ late' = late \cup {doing[k] : k \in {j \in Task : phase[j] = "trade"}}
    /\ UNCHANGED <<file, handed, settled, faults, held, traded, moves, book, fills,
                   clock, blind>>

Next ==
    \/ \E k \in Task :
         \/ Start(k) \/ TaskStep(k) \/ Baseline(k)
         \/ Poll(k) \/ EmitDiff(k)
         \/ TakeCommand(k) \/ Trade(k) \/ Answer(k)
         \/ JournalError(k) \/ DropReceiver(k)
    \/ \E o \in OrderId : Trader(o)
    \/ \E c \in late : ExecuteLate(c)
    \/ Crash

Spec == Init /\ [][Next]_vars

-----------------------------------------------------------------------------
(* Properties.                                                              *)

ReportsOf(o, action) == {id \in file.seen : id[1] = o /\ id[2] = action}

(* A restart takes the positions it finds as its baseline: a position is    *)
(* reported as opened, and copied, once in its life, however often the      *)
(* daemon restarts, unless a first snapshot failed.                         *)
OpenedOnce == ~blind => \A o \in OrderId : Cardinality(ReportsOf(o, "open")) <= 1

(* A poll that fails, and a snapshot that is already old when it is         *)
(* compared, never make followers close what the master still holds.        *)
ClosesOnlyTheClosed == \A o \in OrderId : ReportsOf(o, "close") # {} => held[o] = Flat

(* Whatever the broker answers, or fails to answer, and however late it     *)
(* executes a request: a position it opened for a command is bound to its   *)
(* source position or the command is still tracked.  A command sent twice   *)
(* is excluded, see ExecutedAtMostOnce, and so is a first snapshot that     *)
(* failed, after which what the account held is reported as opened anew.    *)
FillsNeverLost ==
    ~blind =>
        \A c \in CommandId :
            book[c] > 0 /\ handed[c] = 1 =>
                Tracked(mem, c) \/ \E key \in Key : mem.mirrors[key].position = c

-----------------------------------------------------------------------------
(* What the documents say and the code does not do.                         *)

(* README.md:90, "rather than blindly retrying and risking a duplicate      *)
(* financial transaction": the broker executes a command at most once.      *)
ExecutedAtMostOnce == \A c \in CommandId : fills[c] <= 1
=============================================================================
