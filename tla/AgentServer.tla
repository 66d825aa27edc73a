---------------------------- MODULE AgentServer ----------------------------
(***************************************************************************)
(* The TCP server of the agents (crates/copier-daemon/src/server.rs) on the *)
(* shared state of Runtime, with the terminals at the other end of its      *)
(* connections and the restarts of the daemon (main.rs).                    *)
(*                                                                          *)
(* A connection is a task, which reads frames and runs their handlers, and  *)
(* a writer task, which drains the session's channel into the socket.  The  *)
(* terminals are external: one executes a command when it first receives it,*)
(* recognises it by its id when it receives it again, and acknowledges it   *)
(* at any time and any number of times.                                     *)
(***************************************************************************)
EXTENDS Runtime

CONSTANT MaxCrash       \* bound: restarts of the daemon

ASSUME ServerAssumption == MaxCrash \in Nat

VARIABLES
    up,         \* the peer of the session's connection is still there
    outcome,    \* what the terminal made of each command
    book,       \* volume of the position each opening command opened
    old,        \* history: commands found not queued, or finished, at a restart
    crashes     \* restarts so far

worldVars == <<up, outcome, book, old, crashes>>
vars == <<runtimeVars, worldVars>>

TypeOK ==
    /\ RuntimeTypeOK
    /\ up \in [Session -> BOOLEAN]
    /\ outcome \in [CommandId -> {"none", "filled", "rejected"}]
    /\ book \in [CommandId -> Nat]
    /\ old \in SUBSET CommandId
    /\ crashes \in 0..MaxCrash

Init ==
    /\ RuntimeInit
    /\ up = [s \in Session |-> FALSE]
    /\ outcome = [c \in CommandId |-> "none"]
    /\ book = [c \in CommandId |-> 0]
    /\ old = {}
    /\ crashes = 0

-----------------------------------------------------------------------------
(* The connection task.                                                     *)

Connect(k) ==
    /\ DrawSessionId(k)
    /\ up' = [up EXCEPT ![nextId] = TRUE]
    /\ UNCHANGED <<outcome, book, old, crashes>>

(* Faulty: the task ends without unregistering its session.                 *)
EndOfStreamOnly(k) ==
    /\ pc[k] = "idle"
    /\ ~up[sid[k]]
    /\ Fail(k, "off")
    /\ UNCHANGED <<mem, file, sessions, nextId, chan, handed, settled, faults, worldVars>>

(* Nothing more to read: the loop ends, the writer is aborted, the session  *)
(* is unregistered.                                                         *)
EndOfStream(k) ==
    /\ pc[k] = "idle"
    /\ ~up[sid[k]]
    /\ Fail(k, "leave")
    /\ UNCHANGED <<mem, file, sessions, nextId, chan, handed, settled, faults, worldVars>>

ReceiveEvent(k, e) ==
    /\ HandleEvent(k, e) \/ RefuseEvent(k, e)
    /\ UNCHANGED worldVars

(* What a terminal may say of a command it received: how it ended, or that  *)
(* it does not know.                                                        *)
Acks(a) ==
    {ack \in [id : CommandId, status : AckStatus, position : Position \cup {NoPosition}] :
        /\ TargetOf(ack.id) = a
        /\ outcome[ack.id] # "none"
        /\ ack.status \in Success => outcome[ack.id] = "filled"
        /\ ack.status = "rejected" => outcome[ack.id] = "rejected"
        /\ ack.position \in {ack.id, NoPosition}}

ReceiveAck(k) ==
    /\ \E ack \in Acks(Owner[k]) : HandleAck(k, ack)
    /\ UNCHANGED worldVars

(* An acknowledgement under the right account of a command for another.     *)
ReceiveStrayAck(k) ==
    /\ \E c \in CommandId :
         RefuseAck(k, [id |-> c, status |-> "rejected", position |-> NoPosition])
    /\ UNCHANGED worldVars

TaskStep(k) == HandlerStep(k) /\ UNCHANGED worldVars

JournalError(k) ==
    /\ AppendFails(k, IF ret[k] = "orphans" THEN "off" ELSE "leave")
    /\ UNCHANGED worldVars

-----------------------------------------------------------------------------
(* The writer task and the terminal.                                        *)

(* The terminal executes a command the first time it receives it.           *)
Execute(c, result) ==
    /\ outcome' = [outcome EXCEPT ![c.id] = result]
    /\ CASE result = "rejected" -> UNCHANGED book
         [] result = "filled" /\ c.action = "open" ->
              book' = [book EXCEPT ![c.id] = c.volume]
         [] result = "filled" /\ c.action = "modify" ->
              book[c.position] > 0 /\ UNCHANGED book
         [] result = "filled" /\ c.action = "reduce" ->
              book[c.position] > 0
              /\ book' = [book EXCEPT ![c.position] = NotNegative(@ - c.volume)]
         [] result = "filled" /\ c.action = "close" ->
              book[c.position] > 0 /\ book' = [book EXCEPT ![c.position] = 0]

(* The writer takes a frame off the channel and writes it to the socket; it *)
(* is lost if the peer is gone.                                             *)
Deliver(s) ==
    /\ chan[s].open
    /\ chan[s].queue # <<>>
    /\ chan' = [chan EXCEPT ![s].queue = Tail(@)]
    /\ LET c == Head(chan[s].queue)
       IN  IF up[s] /\ outcome[c.id] = "none"
           THEN \E result \in {"filled", "rejected"} : Execute(c, result)
           ELSE UNCHANGED <<outcome, book>>
    /\ UNCHANGED <<mem, file, sessions, nextId, taskVars, handed, settled, faults,
                   up, old, crashes>>

(* Task k still reads frames for its session, or was killed doing so: its   *)
(* writer has not been aborted.                                             *)
Serving(k) ==
    /\ pc[k] \notin {"off", "leave", "lost", "orphans"}
    /\ pc[k] \in {"append", "apply"} => ret[k] # "orphans"

(* A failed write, or the abort, ends the writer: the receiver is dropped   *)
(* with what is left in the channel, and the socket is closed.              *)
WriterStops(s) ==
    /\ chan[s].open
    /\ \/ ~up[s] /\ chan[s].queue # <<>>
       \/ ~\E k \in Task : sid[k] = s /\ Serving(k)
    /\ chan' = [chan EXCEPT ![s] = [open |-> FALSE, queue |-> <<>>]]
    /\ up' = [up EXCEPT ![s] = FALSE]
    /\ UNCHANGED <<mem, file, sessions, nextId, taskVars, handed, settled, faults,
                   outcome, book, old, crashes>>

PeerLeaves(s) ==
    /\ up[s]
    /\ up' = [up EXCEPT ![s] = FALSE]
    /\ UNCHANGED <<runtimeVars, outcome, book, old, crashes>>

-----------------------------------------------------------------------------
(* The daemon stops at any point and is started again: Journal::open        *)
(* replays the file, AppState::new starts from the replayed state.          *)
Crash ==
    /\ crashes < MaxCrash
    /\ crashes' = crashes + 1
    /\ mem' = Finalize(file)
    /\ old' = old \cup {c \in CommandId : EventOf(c) \in file.seen /\ StateOf(file, c) # "queued"}
    /\ sessions' = [a \in Account |-> 0]
    /\ nextId' = 1
    /\ chan' = [s \in Session |-> [open |-> FALSE, queue |-> <<>>]]
    /\ pc' = [k \in Task |-> "off"]
    /\ ev' = [k \in Task |-> NoEvent]
    /\ routes' = [k \in Task |-> {}]
    /\ rec' = [k \in Task |-> NoRecord]
    /\ ret' = [k \in Task |-> "idle"]
    /\ todo' = [k \in Task |-> {}]
    /\ sess' = [k \in Task |-> 0]
    /\ sid' = [k \in Task |-> 0]
    /\ up' = [s \in Session |-> FALSE]
    /\ UNCHANGED <<file, handed, settled, faults, outcome, book>>

Next ==
    \/ \E k \in Task :
         \/ Connect(k)
         \/ TaskStep(k)
         \/ JournalError(k)
         \/ EndOfStream(k)
         \/ ReceiveAck(k)
         \/ ReceiveStrayAck(k)
         \/ \E e \in Event : ReceiveEvent(k, e)
    \/ \E s \in Session : Deliver(s) \/ WriterStops(s) \/ PeerLeaves(s)
    \/ Crash

Spec == Init /\ [][Next]_vars

(* Every handler is eventually scheduled, and a frame written to a socket   *)
(* is eventually read or its connection breaks.                             *)
Fairness ==
    /\ \A k \in Task : WF_vars(TaskStep(k))
    /\ \A s \in Session : WF_vars(Deliver(s)) /\ WF_vars(WriterStops(s))

FairSpec == Spec /\ Fairness

-----------------------------------------------------------------------------
(* Properties.                                                              *)

(* README.md:90, "rather than blindly retrying": a command that a restart   *)
(* found dispatched, UNKNOWN or finished is never put on a channel again,   *)
(* whatever its master resends and however often its follower reconnects.   *)
NoResendAfterRestart ==
    \A s \in Session : \A i \in DOMAIN chan[s].queue : chan[s].queue[i].id \notin old

(* README.md:108, "durable source-to-follower position bindings": a         *)
(* position the follower holds is never forgotten: it is bound to its       *)
(* source position, or the command that opened it is still tracked.         *)
NeverForgotten ==
    \A c \in CommandId :
        book[c] > 0 =>
            Tracked(mem, c) \/ \E key \in Key : mem.mirrors[key].position = c

(* The follower volume of a binding, from which mirror_mutation and         *)
(* build_command compute closes and reduces, is the volume the follower     *)
(* holds, unless a command for that position has no known outcome yet.  (An *)
(* append that fails after its line was written leaves the volume reduced   *)
(* in the journal and not in the memory; the next acknowledgement of that   *)
(* position writes what the memory holds over it.)                          *)
MirrorAgrees ==
    faults = 0 =>
        \A key \in Key :
            LET b == mem.mirrors[key]
            IN  b # NoBinding =>
                    \/ b.targetRemaining = book[b.position]
                    \/ \E c \in CommandId :
                         Tracked(mem, c) /\ mem.commands[c].command.position = b.position

(* unregister_session compares the session's id: a registered session       *)
(* always belongs to a connection task that will still unregister it, even  *)
(* when connections of one account overlap.                                 *)
SessionsAreServed ==
    \A a \in Account :
        sessions[a] # 0 =>
            \E k \in Task :
                /\ Owner[k] = a /\ sid[k] = sessions[a]
                /\ pc[k] \notin {"off", "register", "lost", "orphans", "dead"}

(* README.md:90, "safe to send when a venue reconnects": a queued command   *)
(* whose follower is connected does not stay queued, whichever of the two   *)
(* dispatch loops has to notice.                                            *)
ConnectedQueueDrains ==
    \A c \in CommandId :
        StateOf(mem, c) = "queued" /\ sessions[TargetOf(c)] # 0
            ~> StateOf(mem, c) # "queued" \/ sessions[TargetOf(c)] = 0
=============================================================================
