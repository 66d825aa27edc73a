---------------------------- MODULE ReplayState ----------------------------
(***************************************************************************)
(* The recovery journal (crates/copier-daemon/src/journal.rs): its records, *)
(* and the state that applying them one after the other builds.  The daemon *)
(* keeps that state in memory, and rebuilds it from the file when it starts;*)
(* the file is therefore represented by the state its replay yields, and    *)
(* appending a record to it by applying the record.                         *)
(*                                                                          *)
(* The two hash maps are total functions here: a command id that is not in  *)
(* the map has the value Absent, a binding key NoBinding.                   *)
(***************************************************************************)
EXTENDS Routing

CommandState == {"queued", "dispatched", "unknown"}

StoredType == [command : CommandType, state : CommandState]
Absent     == [state |-> "absent"]

ReplayType ==
    [seen : SUBSET EventId,
     commands : [CommandId -> StoredType \cup {Absent}],
     mirrors : [Key -> BindingType \cup {NoBinding}]]

EmptyReplay ==
    [seen |-> {},
     commands |-> [c \in CommandId |-> Absent],
     mirrors |-> [k \in Key |-> NoBinding]]

AckStatus == {"accepted", "filled", "rejected", "unknown"}

NoMutation == [kind |-> "none"]
MutationType ==
    {NoMutation}
    \cup [kind : {"upsert"}, binding : BindingType]
    \cup [kind : {"remove"}, key : Key]

EventPlanned(event, commands) ==
    [kind |-> "EventPlanned", event |-> event, commands |-> commands]
CommandDispatched(c) == [kind |-> "CommandDispatched", id |-> c]
CommandUnknown(c)    == [kind |-> "CommandUnknown", id |-> c]
AckApplied(c, status, mutation) ==
    [kind |-> "AckApplied", id |-> c, status |-> status, mutation |-> mutation]

RecordType ==
    [kind : {"EventPlanned"}, event : EventId, commands : SUBSET CommandType]
    \cup [kind : {"CommandDispatched", "CommandUnknown"}, id : CommandId]
    \cup [kind : {"AckApplied"}, id : CommandId, status : AckStatus, mutation : MutationType]

-----------------------------------------------------------------------------
StateOf(s, c)  == s.commands[c].state
Tracked(s, c)  == StateOf(s, c) # "absent"

(* Faulty: a command with an unknown outcome is dropped.                    *)
SetStateDropping(commands, c, state) ==
    [commands EXCEPT ![c] = IF @.state = "absent" \/ state = "unknown" THEN Absent
                            ELSE [@ EXCEPT !.state = state]]

(* The state of a command that is in the map; nothing otherwise.            *)
SetState(commands, c, state) ==
    [commands EXCEPT ![c] = IF @.state = "absent" THEN @ ELSE [@ EXCEPT !.state = state]]

(* entry(..).or_insert_with(..): a command already there is left alone.     *)
InsertQueued(commands, planned) ==
    [c \in CommandId |->
        IF commands[c].state = "absent" /\ \E p \in planned : p.id = c
        THEN [command |-> CHOOSE p \in planned : p.id = c, state |-> "queued"]
        ELSE commands[c]]

Mutate(mirrors, m) ==
    CASE m.kind = "upsert" -> [mirrors EXCEPT ![BindingKey(m.binding)] = m.binding]
      [] m.kind = "remove" -> [mirrors EXCEPT ![m.key] = NoBinding]
      [] m.kind = "none"   -> mirrors

(* ReplayState::apply                                                       *)
Apply(s, r) ==
    CASE r.kind = "EventPlanned" ->
            [seen |-> s.seen \cup {r.event},
             commands |-> InsertQueued(s.commands, r.commands),
             mirrors |-> s.mirrors]
      [] r.kind = "CommandDispatched" ->
            [s EXCEPT !.commands = SetState(@, r.id, "dispatched")]
      [] r.kind = "CommandUnknown" ->
            [s EXCEPT !.commands = SetState(@, r.id, "unknown")]
      [] r.kind = "AckApplied" ->
            [seen |-> s.seen,
             commands |-> IF r.status = "unknown"
                          THEN SetState(s.commands, r.id, "unknown")
                          ELSE [s.commands EXCEPT ![r.id] = Absent],
             mirrors |-> Mutate(s.mirrors, r.mutation)]

(* Faulty: what was dispatched is queued again; it is forgotten.            *)
FinalizeRequeueing(s) ==
    [s EXCEPT !.commands =
        [c \in CommandId |->
            IF StateOf(s, c) = "dispatched" THEN [s.commands[c] EXCEPT !.state = "queued"]
            ELSE s.commands[c]]]
FinalizeForgetting(s) ==
    [s EXCEPT !.commands =
        [c \in CommandId |-> IF StateOf(s, c) = "dispatched" THEN Absent ELSE s.commands[c]]]

(* ReplayState::finalize_after_replay: what was dispatched when the daemon  *)
(* stopped has an uncertain outcome.                                        *)
Finalize(s) ==
    [s EXCEPT !.commands =
        [c \in CommandId |->
            IF StateOf(s, c) = "dispatched" THEN [s.commands[c] EXCEPT !.state = "unknown"]
            ELSE s.commands[c]]]
=============================================================================
