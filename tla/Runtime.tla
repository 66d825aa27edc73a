------------------------------ MODULE Runtime ------------------------------
(***************************************************************************)
(* AppState (crates/copier-daemon/src/runtime.rs): the state every          *)
(* connection and venue task of the daemon shares, and the handlers those   *)
(* tasks run on it.                                                         *)
(*                                                                          *)
(* A task runs one handler at a time.  A handler releases the lock of the   *)
(* shared state before every await, so it is split where another task can   *)
(* run: pc[k] is where task k stands,                                       *)
(*   "off"       no connection, or its handler has returned                 *)
(*   "register"  register_session has drawn an id and not inserted it yet   *)
(*   "queued"    about to take the snapshot of dispatch_queued_for          *)
(*   "idle"      waiting for a frame                                        *)
(*   "route"     handle_event, in the loop over the routes                  *)
(*   "mirror"    handle_ack of a reduce, about to read the binding          *)
(*   "append"    about to append rec[k] to the journal                      *)
(*   "apply"     about to apply rec[k] to the memory, then at ret[k]        *)
(*   "dispatch"  in a loop of dispatch_if_connected over todo[k]            *)
(*   "send"      about to send on the session captured in sess[k]           *)
(*   "leave"     about to unregister its session                            *)
(*   "lost"      unregister_session, about to look for dispatched commands  *)
(*   "orphans"   marking the commands of todo[k] UNKNOWN                    *)
(*   "dead"      ended by a panic, or before its loop, its session left in  *)
(*               the map                                                    *)
(***************************************************************************)
EXTENDS ReplayState

CONSTANTS
    Task,           \* connection tasks (reused by successive connections)
    Owner,          \* the account a task's connections are authenticated for
    Publishers,     \* accounts whose role can publish
    Rebroadcasters, \* accounts with allow_rebroadcast
    Capacity,       \* queue_capacity
    MaxSession,     \* bound: sessions registered before a restart
    MaxFaults       \* bound: journal appends that fail

ASSUME RuntimeAssumption ==
    /\ Owner \in [Task -> Account]
    /\ Publishers \subseteq Account
    /\ Rebroadcasters \subseteq Account
    /\ Capacity \in Nat \ {0}
    /\ MaxSession \in Nat
    /\ MaxFaults \in Nat

VARIABLES
    mem,        \* runtime: Mutex<ReplayState>
    file,       \* the state a replay of the journal would yield
    sessions,   \* the session registered for each account, 0 for none
    nextId,     \* next_session_id
    chan,       \* the channel of each session
    pc, ev, routes, rec, ret, todo, sess, sid,  \* the tasks
    handed,     \* history: how often a command was put on a channel (2: twice or more)
    settled,    \* history: commands with a terminal acknowledgement in the journal
    faults      \* journal appends that failed so far

taskVars == <<pc, ev, routes, rec, ret, todo, sess, sid>>
runtimeVars == <<mem, file, sessions, nextId, chan, taskVars, handed, settled, faults>>

Session == 1..MaxSession
NoEvent == [id |-> "none"]
NoRecord == [kind |-> "none"]

Label == {"off", "register", "queued", "idle", "route", "mirror", "append", "apply",
          "dispatch", "send", "leave", "lost", "orphans", "dead"}

RuntimeTypeOK ==
    /\ mem \in ReplayType
    /\ file \in ReplayType
    /\ sessions \in [Account -> 0..MaxSession]
    /\ nextId \in 1..(MaxSession + 1)
    /\ chan \in [Session -> [open : BOOLEAN, queue : Seq(CommandType)]]
    /\ pc \in [Task -> Label]
    /\ ev \in [Task -> Event \cup {NoEvent}]
    /\ routes \in [Task -> SUBSET DOMAIN Rules]
    /\ rec \in [Task -> RecordType \cup {NoRecord}]
    /\ ret \in [Task -> {"idle", "dispatch", "send", "orphans"}]
    /\ todo \in [Task -> SUBSET CommandType]
    /\ sess \in [Task -> 0..MaxSession]
    /\ sid \in [Task -> 0..MaxSession]
    /\ handed \in [CommandId -> 0..2]
    /\ settled \in SUBSET CommandId
    /\ faults \in 0..MaxFaults

(* AppState::new, at every start of the daemon: no session, no task, and    *)
(* session ids counted from 1 again.                                        *)
FreshTasks ==
    /\ sessions = [a \in Account |-> 0]
    /\ nextId = 1
    /\ chan = [s \in Session |-> [open |-> FALSE, queue |-> <<>>]]
    /\ pc = [k \in Task |-> "off"]
    /\ ev = [k \in Task |-> NoEvent]
    /\ routes = [k \in Task |-> {}]
    /\ rec = [k \in Task |-> NoRecord]
    /\ ret = [k \in Task |-> "idle"]
    /\ todo = [k \in Task |-> {}]
    /\ sess = [k \in Task |-> 0]
    /\ sid = [k \in Task |-> 0]

RuntimeInit ==
    /\ mem = EmptyReplay
    /\ file = EmptyReplay
    /\ FreshTasks
    /\ handed = [c \in CommandId |-> 0]
    /\ settled = {}
    /\ faults = 0

-----------------------------------------------------------------------------
(* Control of a task.                                                       *)

Goto(k, label) == pc' = [pc EXCEPT ![k] = label]

(* A handler returns an error with `?`: what it still had to do is dropped  *)
(* and the connection ends; during unregister_session the task just stops.  *)
Fail(k, label) ==
    /\ Goto(k, label)
    /\ ev' = [ev EXCEPT ![k] = NoEvent]
    /\ routes' = [routes EXCEPT ![k] = {}]
    /\ rec' = [rec EXCEPT ![k] = NoRecord]
    /\ ret' = [ret EXCEPT ![k] = "idle"]
    /\ todo' = [todo EXCEPT ![k] = {}]
    /\ sess' = [sess EXCEPT ![k] = 0]
    /\ UNCHANGED sid

(* The next round of a loop over commands, or its end.                      *)
Loop(k, loop, rest) ==
    /\ todo' = [todo EXCEPT ![k] = rest]
    /\ pc' = [pc EXCEPT ![k] = IF rest # {} THEN loop
                               ELSE IF loop = "dispatch" THEN "idle" ELSE "off"]
    /\ ev' = [ev EXCEPT ![k] = IF rest # {} THEN @ ELSE NoEvent]

(* Journal first: append(&record).await?, then apply it and go on.          *)
Journal(k, record, return) ==
    /\ Goto(k, "append")
    /\ rec' = [rec EXCEPT ![k] = record]
    /\ ret' = [ret EXCEPT ![k] = return]

(* Faulty: an event without commands is not written.                        *)
AppendRecordUnlessEmpty(k) ==
    /\ pc[k] = "append"
    /\ file' = IF rec[k].kind = "EventPlanned" /\ rec[k].commands = {} THEN file
               ELSE Apply(file, rec[k])
    /\ Goto(k, "apply")
    /\ UNCHANGED <<mem, sessions, nextId, chan, ev, routes, rec, ret, todo, sess, sid,
                   handed, settled, faults>>

(* Journal::append succeeds.                                                *)
AppendRecord(k) ==
    /\ pc[k] = "append"
    /\ file' = Apply(file, rec[k])
    /\ settled' = IF rec[k].kind = "AckApplied" /\ rec[k].status # "unknown"
                  THEN settled \cup {rec[k].id} ELSE settled
    /\ Goto(k, "apply")
    /\ UNCHANGED <<mem, sessions, nextId, chan, ev, routes, rec, ret, todo, sess, sid,
                   handed, faults>>

(* Journal::append returns an error.  When flush or sync_data fails the     *)
(* record is in the file all the same.  The handler's caller goes to exit.  *)
AppendFails(k, exit) ==
    /\ pc[k] = "append"
    /\ faults < MaxFaults
    /\ faults' = faults + 1
    /\ \/ UNCHANGED <<file, settled>>
       \/ /\ file' = Apply(file, rec[k])
          /\ settled' = IF rec[k].kind = "AckApplied" /\ rec[k].status # "unknown"
                        THEN settled \cup {rec[k].id} ELSE settled
    /\ Fail(k, exit)
    /\ UNCHANGED <<mem, sessions, nextId, chan, handed>>

(* runtime.lock().await.apply(&record)                                      *)
ApplyRecord(k) ==
    /\ pc[k] = "apply"
    /\ mem' = Apply(mem, rec[k])
    /\ IF ret[k] \in {"dispatch", "orphans"}
       THEN Loop(k, ret[k], todo[k])
       ELSE Goto(k, ret[k]) /\ UNCHANGED <<ev, todo>>
    /\ rec' = [rec EXCEPT ![k] = IF ret[k] = "send" THEN @ ELSE NoRecord]
    /\ ret' = [ret EXCEPT ![k] = "idle"]
    /\ UNCHANGED <<file, sessions, nextId, chan, routes, sess, sid,
                   handed, settled, faults>>

-----------------------------------------------------------------------------
(* Sessions.                                                                *)

(* register_session draws an id ...                                         *)
DrawSessionId(k) ==
    /\ pc[k] = "off"
    /\ nextId <= MaxSession
    /\ nextId' = nextId + 1
    /\ sid' = [sid EXCEPT ![k] = nextId]
    /\ chan' = [chan EXCEPT ![nextId] = [open |-> TRUE, queue |-> <<>>]]
    /\ Goto(k, "register")
    /\ UNCHANGED <<mem, file, sessions, ev, routes, rec, ret, todo, sess,
                   handed, settled, faults>>

(* ... and inserts the session under the lock, replacing an older one.      *)
InsertSession(k) ==
    /\ pc[k] = "register"
    /\ sessions' = [sessions EXCEPT ![Owner[k]] = sid[k]]
    /\ Goto(k, "queued")
    /\ UNCHANGED <<mem, file, nextId, chan, ev, routes, rec, ret, todo, sess, sid,
                   handed, settled, faults>>

CommandsIn(state, a) ==
    {mem.commands[c].command : c \in {d \in CommandId :
        StateOf(mem, d) = state /\ mem.commands[d].command.target = a}}

(* Faulty: UNKNOWN commands are retried; queued ones are left alone.        *)
SnapshotUnresolved(k) ==
    /\ pc[k] = "queued"
    /\ Loop(k, "dispatch", CommandsIn("queued", Owner[k]) \cup CommandsIn("unknown", Owner[k]))
    /\ UNCHANGED <<mem, file, sessions, nextId, chan, routes, rec, ret, sess, sid,
                   handed, settled, faults>>
SnapshotNothing(k) ==
    /\ pc[k] = "queued"
    /\ Loop(k, "dispatch", {})
    /\ UNCHANGED <<mem, file, sessions, nextId, chan, routes, rec, ret, sess, sid,
                   handed, settled, faults>>

(* dispatch_queued_for: the snapshot of what is queued for the account.     *)
SnapshotQueued(k) ==
    /\ pc[k] = "queued"
    /\ Loop(k, "dispatch", CommandsIn("queued", Owner[k]))
    /\ UNCHANGED <<mem, file, sessions, nextId, chan, routes, rec, ret, sess, sid,
                   handed, settled, faults>>

(* unregister_session removes the session unless another replaced it.       *)
Unregister(k) ==
    /\ pc[k] = "leave"
    /\ IF sessions[Owner[k]] = sid[k]
       THEN sessions' = [sessions EXCEPT ![Owner[k]] = 0] /\ Goto(k, "lost")
       ELSE UNCHANGED sessions /\ Goto(k, "off")
    /\ UNCHANGED <<mem, file, nextId, chan, ev, routes, rec, ret, todo, sess, sid,
                   handed, settled, faults>>

SnapshotDispatched(k) ==
    /\ pc[k] = "lost"
    /\ Loop(k, "orphans", CommandsIn("dispatched", Owner[k]))
    /\ UNCHANGED <<mem, file, sessions, nextId, chan, routes, rec, ret, sess, sid,
                   handed, settled, faults>>

MarkOrphan(k) ==
    /\ pc[k] = "orphans"
    /\ \E c \in todo[k] :
         /\ todo' = [todo EXCEPT ![k] = @ \ {c}]
         /\ Journal(k, CommandUnknown(c.id), "orphans")
    /\ UNCHANGED <<mem, file, sessions, nextId, chan, ev, routes, sess, sid,
                   handed, settled, faults>>

-----------------------------------------------------------------------------
(* handle_event.                                                            *)

Refused(k, e) == e.source # Owner[k] \/ e.source \notin Publishers
Suppressed(e) == e.copied /\ e.source \notin Rebroadcasters
AlreadySeen(e) == e.id \in mem.seen

(* An event of another account, or of one that may not publish, ends the    *)
(* connection.                                                              *)
RefuseEvent(k, e) ==
    /\ pc[k] = "idle"
    /\ Refused(k, e)
    /\ Fail(k, "leave")
    /\ UNCHANGED <<mem, file, sessions, nextId, chan, handed, settled, faults>>

(* Faulty: an event seen before is planned again.                           *)
HandleEventAgain(k, e) ==
    /\ pc[k] = "idle"
    /\ ~Refused(k, e)
    /\ ~Suppressed(e)
    /\ Goto(k, "route")
    /\ ev' = [ev EXCEPT ![k] = e]
    /\ routes' = [routes EXCEPT ![k] = RoutesFor(e.source)]
    /\ UNCHANGED <<mem, file, sessions, nextId, chan, rec, ret, todo, sess, sid,
                   handed, settled, faults>>

(* A suppressed event and one seen before change nothing.                   *)
HandleEvent(k, e) ==
    /\ pc[k] = "idle"
    /\ ~Refused(k, e)
    /\ ~Suppressed(e)
    /\ ~AlreadySeen(e)
    /\ IF RoutesFor(e.source) = {}
       THEN Journal(k, EventPlanned(e.id, {}), "dispatch") /\ UNCHANGED <<ev, routes>>
       ELSE /\ Goto(k, "route")
            /\ ev' = [ev EXCEPT ![k] = e]
            /\ routes' = [routes EXCEPT ![k] = RoutesFor(e.source)]
            /\ UNCHANGED <<rec, ret>>
    /\ UNCHANGED <<mem, file, sessions, nextId, chan, todo, sess, sid,
                   handed, settled, faults>>

(* One round of the loop: the first route left reads its binding and asks   *)
(* the engine, whose panic aborts the task.  Without a binding the route is *)
(* skipped.  An invalid binding would be an error of the handler; there is  *)
(* none (MirrorsAreValid), so that way out is not an action.                *)
RouteEvent(k) ==
    /\ pc[k] = "route"
    /\ \E i \in routes[k] :
         LET e == ev[k]
             r == Rules[i]
             b == mem.mirrors[KeyOf(e.source, e.order, r.target)]
             planned == todo[k] \cup IF Builds(r, e, b) THEN {BuiltCommand(r, e, b)} ELSE {}
         IN /\ \A j \in routes[k] : i <= j
            /\ ~Panics(r, e)
            /\ routes' = [routes EXCEPT ![k] = @ \ {i}]
            /\ todo' = [todo EXCEPT ![k] = planned]
            /\ IF routes[k] = {i}
               THEN Journal(k, EventPlanned(e.id, planned), "dispatch")
               ELSE UNCHANGED <<pc, rec, ret>>
    /\ UNCHANGED <<mem, file, sessions, nextId, chan, ev, sess, sid,
                   handed, settled, faults>>

RoutePanics(k) ==
    /\ pc[k] = "route"
    /\ \E i \in routes[k] :
         /\ \A j \in routes[k] : i <= j
         /\ Panics(Rules[i], ev[k])
    /\ Fail(k, "dead")
    /\ UNCHANGED <<mem, file, sessions, nextId, chan, handed, settled, faults>>

-----------------------------------------------------------------------------
(* dispatch_if_connected, for one command of todo[k]: those planned for an  *)
(* event in the order of their routes, those of a snapshot in any order.    *)

RuleOf(c) == CHOOSE i \in DOMAIN Rules : Rules[i].id = c.route

IsNext(k, c) ==
    ev[k] # NoEvent => \A d \in todo[k] : RuleOf(c) <= RuleOf(d)

(* Faulty: the command is sent before anything is written.                  *)
DispatchUnwritten(k) ==
    /\ pc[k] = "dispatch"
    /\ \E c \in todo[k] :
         /\ IsNext(k, c)
         /\ IF sessions[c.target] = 0
            THEN Loop(k, "dispatch", todo[k] \ {c}) /\ UNCHANGED <<rec, sess>>
            ELSE /\ sess' = [sess EXCEPT ![k] = sessions[c.target]]
                 /\ rec' = [rec EXCEPT ![k] = CommandDispatched(c.id)]
                 /\ Goto(k, "send")
                 /\ UNCHANGED <<todo, ev>>
    /\ UNCHANGED <<mem, file, sessions, nextId, chan, routes, ret, sid,
                   handed, settled, faults>>

(* No session: the command stays queued.  Otherwise the session is captured *)
(* here, and used after the journal append.                                 *)
DispatchNext(k) ==
    /\ pc[k] = "dispatch"
    /\ \E c \in todo[k] :
         /\ IsNext(k, c)
         /\ IF sessions[c.target] = 0
            THEN Loop(k, "dispatch", todo[k] \ {c}) /\ UNCHANGED <<rec, ret, sess>>
            ELSE /\ sess' = [sess EXCEPT ![k] = sessions[c.target]]
                 /\ Journal(k, CommandDispatched(c.id), "send")
                 /\ UNCHANGED <<todo, ev>>
    /\ UNCHANGED <<mem, file, sessions, nextId, chan, routes, sid,
                   handed, settled, faults>>

(* session.tx.send(..).await waits for room in the channel.                 *)
Send(k) ==
    /\ pc[k] = "send"
    /\ chan[sess[k]].open
    /\ Len(chan[sess[k]].queue) < Capacity
    /\ \E c \in todo[k] :
         /\ c.id = rec[k].id
         /\ chan' = [chan EXCEPT ![sess[k]].queue = Append(@, c)]
         /\ handed' = [handed EXCEPT ![c.id] = IF @ = 2 THEN 2 ELSE @ + 1]
         /\ Loop(k, "dispatch", todo[k] \ {c})
    /\ rec' = [rec EXCEPT ![k] = NoRecord]
    /\ sess' = [sess EXCEPT ![k] = 0]
    /\ UNCHANGED <<mem, file, sessions, nextId, routes, ret, sid, settled, faults>>

(* The receiver is gone: mark_unknown.                                      *)
SendFails(k) ==
    /\ pc[k] = "send"
    /\ ~chan[sess[k]].open
    /\ todo' = [todo EXCEPT ![k] = {c \in @ : c.id # rec[k].id}]
    /\ Journal(k, CommandUnknown(rec[k].id), "dispatch")
    /\ sess' = [sess EXCEPT ![k] = 0]
    /\ UNCHANGED <<mem, file, sessions, nextId, chan, ev, routes, sid,
                   handed, settled, faults>>

-----------------------------------------------------------------------------
(* handle_ack, for an acknowledgement [id, status, position] of the task's  *)
(* own account; one for a command that is no longer tracked changes         *)
(* nothing.                                                                 *)

Success == {"accepted", "filled"}

(* Faulty: an open that failed to name its position is taken for executed.  *)
AckRecordUnbound(c, ack) ==
    AckApplied(c.id, ack.status,
        IF ack.status \in Success /\ c.action = "open" /\ ack.position # NoPosition
        THEN [kind |-> "upsert", binding |-> NewBinding(c, ack.position)]
        ELSE IF ack.status \in Success /\ c.action = "close"
        THEN [kind |-> "remove", key |-> KeyOf(c.source, c.order, c.target)]
        ELSE NoMutation)

(* The record of an acknowledgement of c whose binding need not be read: an *)
(* unknown outcome, a rejection, an open that failed to name its position,  *)
(* and the mirror_mutation of an open, a modify and a close.                *)
AckRecord(c, ack) ==
    CASE ack.status \notin Success -> AckApplied(c.id, ack.status, NoMutation)
      [] ack.status \in Success /\ c.action = "open" ->
            IF ack.position = NoPosition THEN CommandUnknown(c.id)
            ELSE AckApplied(c.id, ack.status,
                            [kind |-> "upsert", binding |-> NewBinding(c, ack.position)])
      [] ack.status \in Success /\ c.action = "close" ->
            AckApplied(c.id, ack.status,
                       [kind |-> "remove", key |-> KeyOf(c.source, c.order, c.target)])
      [] ack.status \in Success /\ c.action \in {"modify", "reduce"} ->
            AckApplied(c.id, ack.status, NoMutation)

IsReduced(c, ack) == ack.status \in Success /\ c.action = "reduce"

HandleAck(k, ack) ==
    /\ pc[k] = "idle"
    /\ Tracked(mem, ack.id)
    /\ LET c == mem.commands[ack.id].command
       IN  /\ c.target = Owner[k]
           /\ IF IsReduced(c, ack)
              THEN /\ Goto(k, "mirror")
                   /\ rec' = [rec EXCEPT ![k] = AckRecord(c, ack)]
                   /\ todo' = [todo EXCEPT ![k] = {c}]
                   /\ UNCHANGED ret
              ELSE Journal(k, AckRecord(c, ack), "idle") /\ UNCHANGED todo
    /\ UNCHANGED <<mem, file, sessions, nextId, chan, ev, routes, sess, sid,
                   handed, settled, faults>>

(* mirror_mutation of a reduce locks the state again to read the binding.   *)
MutateReduced(k) ==
    /\ pc[k] = "mirror"
    /\ \E c \in todo[k] :
         LET key == KeyOf(c.source, c.order, c.target)
             b == mem.mirrors[key]
         IN  Journal(k,
                 IF b = NoBinding THEN rec[k]
                 ELSE AckApplied(c.id, rec[k].status,
                                 [kind |-> "upsert", binding |-> Reduced(b, c)]),
                 "idle")
    /\ todo' = [todo EXCEPT ![k] = {}]
    /\ UNCHANGED <<mem, file, sessions, nextId, chan, ev, routes, sess, sid,
                   handed, settled, faults>>

(* An acknowledgement for another account's command ends the connection.    *)
RefuseAck(k, ack) ==
    /\ pc[k] = "idle"
    /\ Tracked(mem, ack.id)
    /\ mem.commands[ack.id].command.target # Owner[k]
    /\ Fail(k, "leave")
    /\ UNCHANGED <<mem, file, sessions, nextId, chan, handed, settled, faults>>

(* The steps a handler takes by itself once it has started.                 *)
HandlerStep(k) ==
    \/ InsertSession(k) \/ SnapshotQueued(k)
    \/ RouteEvent(k) \/ RoutePanics(k)
    \/ AppendRecord(k) \/ ApplyRecord(k)
    \/ DispatchNext(k) \/ Send(k) \/ SendFails(k)
    \/ MutateReduced(k)
    \/ Unregister(k) \/ SnapshotDispatched(k) \/ MarkOrphan(k)

-----------------------------------------------------------------------------
(* Properties, whichever way the accounts are attached.                     *)

(* README.md:90, "Commands are journaled before live dispatch": a command   *)
(* that was ever put on a channel is in the journal as dispatched or        *)
(* UNKNOWN, or its terminal acknowledgement is; no crash can make the next  *)
(* start find it new or still queued, and send it again.                    *)
WriteAhead ==
    \A c \in CommandId :
        handed[c] > 0 =>
            /\ EventOf(c) \in file.seen
            /\ StateOf(file, c) # "queued"
            /\ Tracked(file, c) \/ c \in settled

(* RouteError::InvalidMirror never happens: a binding comes from an open    *)
(* with a positive volume, and no reduce changes the volume it started with.*)
MirrorsAreValid ==
    \A key \in Key : mem.mirrors[key] # NoBinding => mem.mirrors[key].sourceOpen > 0

(* The daemon implements CommandLedger: the stage of a command is what the  *)
(* journal says of it, so that a restart is invisible, no stage is ever     *)
(* left backwards, and what is handed to a follower is on record first.     *)
Stage ==
    [c \in CommandId |->
        IF c \in settled THEN "done"
        ELSE CASE StateOf(file, c) = "absent" -> "new"
               [] StateOf(file, c) = "queued" -> "queued"
               [] OTHER -> "issued"]

Ledger == INSTANCE CommandLedger WITH Command <- CommandId, stage <- Stage
ImplementsLedger == Ledger!LedgerSpec

(* Between a record's append and its application only the task that appends *)
(* it knows of it; when no task is there, a restart would find what the     *)
(* memory holds, up to the commands it would call UNKNOWN.                  *)
RecoveryEquivalence ==
    faults = 0 /\ (\A k \in Task : pc[k] # "apply") => Finalize(mem) = Finalize(file)

-----------------------------------------------------------------------------
(* What the documents say and the code does not do.                         *)

(* docs/protocol.md:48, "Duplicate master events therefore do not create    *)
(* duplicate commands": a command whose terminal acknowledgement is in the  *)
(* journal is not planned again.                                            *)
SettledIsFinal == \A c \in settled : ~Tracked(file, c)
=============================================================================
