------------------------- MODULE AgentServerProofs -------------------------
(***************************************************************************)
(* Theorems about the agent server, for every configuration, every number   *)
(* of connections, restarts and journal errors.                             *)
(***************************************************************************)
EXTENDS AgentServer, RecoveryProofs, FiniteSetTheorems

-----------------------------------------------------------------------------
(* Every step of the server is one of the steps of Runtime, and only what   *)
(* a terminal has executed is acknowledged, with how it ended and, if any,  *)
(* the position it opened.                                                  *)

Executed ==
    {ack \in AckType :
        /\ outcome[ack.id] # "none"
        /\ ack.status \in Success => outcome[ack.id] = "filled"
        /\ ack.status = "rejected" => outcome[ack.id] = "rejected"
        /\ ack.position \in {ack.id, NoPosition}}

LEMMA StepMapped ==
    ASSUME [Next]_vars
    PROVE  RuntimeStep(Executed)
<1>1. ASSUME NEW k \in Task, TaskStep(k) PROVE RuntimeStep(Executed)
  BY <1>1 DEF TaskStep, RuntimeStep
<1>2. ASSUME NEW k \in Task, Connect(k) PROVE RuntimeStep(Executed)
  BY <1>2 DEF Connect, RuntimeStep
<1>3. ASSUME NEW k \in Task, JournalError(k) PROVE RuntimeStep(Executed)
  BY <1>3 DEF JournalError, RuntimeStep, Exit
<1>4. ASSUME NEW k \in Task, EndOfStream(k) PROVE RuntimeStep(Executed)
  BY <1>4 DEF EndOfStream, RuntimeStep, Ends, Exit
<1>5. ASSUME NEW k \in Task, ReceiveAck(k) PROVE RuntimeStep(Executed)
  <2>1. PICK ack \in Acks(Owner[k]) : HandleAck(k, ack)
    BY <1>5 DEF ReceiveAck
  <2>2. ack \in Executed
    BY DEF Acks, Executed, AckType
  <2>3. QED
    BY <2>1, <2>2 DEF RuntimeStep
<1>6. ASSUME NEW k \in Task, ReceiveStrayAck(k) PROVE RuntimeStep(Executed)
  <2>1. Ends(k, "leave") /\ "leave" \in Exit
    BY <1>6, RefusedEnds DEF ReceiveStrayAck, Exit
  <2>2. QED
    BY <2>1 DEF RuntimeStep
<1>7. ASSUME NEW k \in Task, NEW e \in Event, ReceiveEvent(k, e) PROVE RuntimeStep(Executed)
  <2>1. HandleEvent(k, e) \/ (Ends(k, "leave") /\ "leave" \in Exit)
    BY <1>7, RefusedEnds DEF ReceiveEvent, Exit
  <2>2. QED
    BY <2>1 DEF RuntimeStep
<1>8. ASSUME NEW s \in Session, Deliver(s) \/ WriterStops(s) PROVE RuntimeStep(Executed)
  BY <1>8 DEF Deliver, WriterStops, RuntimeStep, Takes, Closes
<1>9. ASSUME NEW s \in Session, PeerLeaves(s) PROVE RuntimeStep(Executed)
  BY <1>9 DEF PeerLeaves, RuntimeStep
<1>10. CASE Crash
  BY <1>10 DEF Crash, RuntimeStep, Restarts, FreshTasks
<1>11. CASE UNCHANGED vars
  BY <1>11 DEF vars, RuntimeStep
<1>12. QED
  BY <1>1, <1>2, <1>3, <1>4, <1>5, <1>6, <1>7, <1>8, <1>9, <1>10, <1>11 DEF Next

LEMMA AnyStep ==
    ASSUME [Next]_vars
    PROVE  RuntimeStep(AckType)
BY StepMapped, FewerAcks DEF Executed

-----------------------------------------------------------------------------
(* Type correctness.                                                        *)

TypeInv == TypeOK /\ RuntimeTypeInv

LEMMA TypeInit ==
    ASSUME Init
    PROVE  TypeInv
BY RuntimeTypeInit, ServerAssumption, SMT DEF Init, TypeInv, RuntimeTypeInv, TypeOK

LEMMA ExecuteTyped ==
    ASSUME TypeOK, NEW c \in CommandType, NEW result \in {"filled", "rejected"},
           Execute(c, result)
    PROVE  /\ outcome' \in [CommandId -> {"none", "filled", "rejected"}]
           /\ book' \in [CommandId -> Nat]
<1> USE DEF TypeOK
<1>1. c.id \in CommandId /\ c.volume \in Nat /\ c.action \in Action
  BY SMT DEF CommandType
<1>2. outcome' \in [CommandId -> {"none", "filled", "rejected"}]
  BY DEF Execute
<1>3. CASE result = "rejected" \/ c.action = "modify"
  BY <1>3 DEF Execute
<1>4. CASE result = "filled" /\ c.action = "open"
  <2>1. book' = [book EXCEPT ![c.id] = c.volume]
    BY <1>4 DEF Execute
  <2>2. QED
    BY <1>1, <1>2, <2>1
<1>5. CASE result = "filled" /\ c.action = "reduce"
  <2> DEFINE n == NotNegative(book[c.position] - c.volume)
  <2>1. book' = [book EXCEPT ![c.position] = n]
    BY <1>5 DEF Execute
  <2>2. c.position \in CommandId => n \in Nat
    BY <1>1, SMT DEF NotNegative
  <2> HIDE DEF n
  <2>3. QED
    BY <1>2, <2>1, <2>2
<1>6. CASE result = "filled" /\ c.action = "close"
  <2>1. book' = [book EXCEPT ![c.position] = 0]
    BY <1>6 DEF Execute
  <2>2. QED
    BY <1>2, <2>1
<1>7. QED
  BY <1>1, <1>3, <1>4, <1>5, <1>6 DEF Action

LEMMA WorldTyped ==
    ASSUME TypeInv, [Next]_vars
    PROVE  /\ up' \in [Session -> BOOLEAN]
           /\ outcome' \in [CommandId -> {"none", "filled", "rejected"}]
           /\ book' \in [CommandId -> Nat]
           /\ old' \in SUBSET CommandId
           /\ crashes' \in 0..MaxCrash
<1> USE DEF TypeInv, TypeOK
<1>1. CASE UNCHANGED worldVars
  BY <1>1 DEF worldVars
<1>2. ASSUME NEW k \in Task, Connect(k)
      PROVE  up' \in [Session -> BOOLEAN] /\ UNCHANGED <<outcome, book, old, crashes>>
  BY <1>2, UpdateTyped DEF Connect
<1>3. ASSUME NEW s \in Session, WriterStops(s) \/ PeerLeaves(s)
      PROVE  up' \in [Session -> BOOLEAN] /\ UNCHANGED <<outcome, book, old, crashes>>
  BY <1>3, UpdateTyped DEF WriterStops, PeerLeaves
<1>4. ASSUME NEW s \in Session, Deliver(s)
      PROVE  /\ UNCHANGED <<up, old, crashes>>
             /\ outcome' \in [CommandId -> {"none", "filled", "rejected"}]
             /\ book' \in [CommandId -> Nat]
  <2>1. Takes(s)
    BY <1>4 DEF Deliver, Takes
  <2>2. Head(chan[s].queue) \in CommandType
    BY <2>1, ChannelTyped
  <2>3. QED
    BY <1>4, <2>2, ExecuteTyped DEF Deliver
<1>5. CASE Crash
  BY <1>5, ServerAssumption, SMT DEF Crash
<1>6. CASE \E k \in Task : \/ TaskStep(k) \/ JournalError(k) \/ EndOfStream(k)
                           \/ ReceiveAck(k) \/ ReceiveStrayAck(k)
                           \/ \E e \in Event : ReceiveEvent(k, e)
  BY <1>1, <1>6 DEF TaskStep, JournalError, EndOfStream, ReceiveAck, ReceiveStrayAck,
                    ReceiveEvent
<1>7. CASE UNCHANGED vars
  BY <1>1, <1>7 DEF vars
<1>8. QED
  BY <1>2, <1>3, <1>4, <1>5, <1>6, <1>7 DEF Next

LEMMA TypeStep ==
    ASSUME TypeInv, [Next]_vars
    PROVE  TypeInv'
<1>1. RuntimeTypeInv'
  BY AnyStep, StepTyped DEF TypeInv
<1>2. QED
  BY <1>1, WorldTyped DEF TypeInv, TypeOK, RuntimeTypeInv

(* TypeOK, for every configuration: no handler of any task, in any          *)
(* interleaving, crash or journal error, leaves the state malformed.        *)
THEOREM TypeCorrect == Spec => []TypeOK
<1>1. Init => TypeInv
  BY TypeInit
<1>2. TypeInv /\ [Next]_vars => TypeInv'
  BY TypeStep
<1>3. TypeInv => TypeOK
  BY DEF TypeInv
<1>4. QED
  BY <1>1, <1>2, <1>3, PTL DEF Spec

-----------------------------------------------------------------------------
(* No command is sent again after a restart: what it found dispatched,      *)
(* UNKNOWN or ended, old, is past and no task holds it to dispatch.         *)

FreshTask(k) ==
    /\ Resumes(k) => FreshCommands(todo[k], old)
    /\ pc[k] = "route" => \A c \in old : EventOf(c) # ev[k].id
    /\ pc[k] \in {"append", "apply"} => FreshRecord(rec[k], old)

ResendInv ==
    /\ TypeInv
    /\ WellKeyed(mem) /\ WellKeyed(file)
    /\ PastState(mem, old) /\ PastState(file, old)
    /\ \A k \in Task : FreshTask(k)
    /\ NoResendAfterRestart

LEMMA ResendInit == Init => ResendInv
<1> SUFFICES ASSUME Init PROVE ResendInv
  OBVIOUS
<1> USE DEF Init, RuntimeInit, FreshTasks
<1>1. TypeInv
  BY TypeInit
<1>2. WellKeyed(mem) /\ WellKeyed(file)
  BY EmptyTyped
<1>3. PastState(mem, old) /\ PastState(file, old)
  BY DEF PastState
<1>4. \A k \in Task : FreshTask(k)
  BY DEF FreshTask, FreshCommands
<1>5. NoResendAfterRestart
  BY DEF NoResendAfterRestart
<1>6. QED
  BY <1>1, <1>2, <1>3, <1>4, <1>5 DEF ResendInv

(* A step of task k leaves the other tasks where they were.                 *)
LEMMA OthersFresh ==
    ASSUME ResendInv, NEW k \in Task, old' = old, FreshTask(k)',
           \A j \in Task \ {k} :
               /\ pc'[j] = pc[j] /\ ret'[j] = ret[j] /\ ev'[j] = ev[j]
               /\ rec'[j] = rec[j] /\ todo'[j] = todo[j]
    PROVE  \A j \in Task : FreshTask(j)'
<1> SUFFICES ASSUME NEW j \in Task \ {k} PROVE FreshTask(j)'
  OBVIOUS
<1>1. FreshTask(j)
  BY DEF ResendInv
<1>2. QED
  BY <1>1 DEF FreshTask, Resumes

(* What the common ways to move on change, of task k and of the others.     *)
LEMMA ResendTypes ==
    ASSUME ResendInv
    PROVE  /\ mem \in ReplayType /\ file \in ReplayType /\ old \in SUBSET CommandId
           /\ DOMAIN pc = Task /\ DOMAIN ret = Task /\ DOMAIN ev = Task
           /\ DOMAIN rec = Task /\ DOMAIN todo = Task
           /\ pc = [j \in Task |-> pc[j]] /\ ret = [j \in Task |-> ret[j]]
           /\ ev = [j \in Task |-> ev[j]] /\ rec = [j \in Task |-> rec[j]]
           /\ todo = [j \in Task |-> todo[j]]
           /\ \A j \in Task : todo[j] \in SUBSET CommandType /\ Owner[j] \in Account
BY Types DEF ResendInv, KeyedInv, TypeInv, TypeOK

LEMMA FailFresh ==
    ASSUME ResendInv, NEW k \in Task, old' = old,
           NEW label \in {"off", "leave", "dead"}, Fail(k, label)
    PROVE  \A j \in Task : FreshTask(j)'
<1>1. /\ pc'[k] = label /\ todo'[k] = {}
      /\ \A j \in Task \ {k} :
           /\ pc'[j] = pc[j] /\ ret'[j] = ret[j] /\ ev'[j] = ev[j]
           /\ rec'[j] = rec[j] /\ todo'[j] = todo[j]
  BY ResendTypes DEF Fail, Goto
<1>2. FreshTask(k)'
  BY <1>1 DEF FreshTask, FreshCommands
<1>3. QED
  BY <1>1, <1>2, OthersFresh

LEMMA JournalFresh ==
    ASSUME ResendInv, NEW k \in Task, old' = old, ev' = ev,
           NEW record, FreshRecord(record, old), NEW return,
           Journal(k, record, return),
           NEW rest, todo' = [todo EXCEPT ![k] = rest],
           return # "orphans" => FreshCommands(rest, old)
    PROVE  \A j \in Task : FreshTask(j)'
<1>1. /\ pc'[k] = "append" /\ rec'[k] = record /\ ret'[k] = return /\ todo'[k] = rest
      /\ \A j \in Task \ {k} :
           /\ pc'[j] = pc[j] /\ ret'[j] = ret[j] /\ ev'[j] = ev[j]
           /\ rec'[j] = rec[j] /\ todo'[j] = todo[j]
  BY ResendTypes DEF Journal, Goto
<1>2. FreshTask(k)'
  BY <1>1 DEF FreshTask, Resumes
<1>3. QED
  BY <1>1, <1>2, OthersFresh

LEMMA LoopFresh ==
    ASSUME ResendInv, NEW k \in Task, old' = old,
           NEW loop \in {"dispatch", "orphans"}, NEW rest, Loop(k, loop, rest),
           loop = "dispatch" => FreshCommands(rest, old),
           \A j \in Task \ {k} : rec'[j] = rec[j] /\ ret'[j] = ret[j]
    PROVE  \A j \in Task : FreshTask(j)'
<1>1. /\ todo'[k] = rest
      /\ pc'[k] = IF rest # {} THEN loop ELSE IF loop = "dispatch" THEN "idle" ELSE "off"
      /\ \A j \in Task \ {k} : pc'[j] = pc[j] /\ ev'[j] = ev[j] /\ todo'[j] = todo[j]
  BY ResendTypes DEF Loop
<1>2. FreshTask(k)'
  BY <1>1 DEF FreshTask, Resumes, FreshCommands
<1>3. QED
  BY <1>1, <1>2, OthersFresh

(* A step that only moves task k to a label where it holds nothing new.     *)
LEMMA GotoFresh ==
    ASSUME ResendInv, NEW k \in Task, old' = old, Resumes(k),
           NEW label \in Label \ {"route", "append", "apply"}, Goto(k, label),
           UNCHANGED <<ret, ev, rec, todo>>
    PROVE  \A j \in Task : FreshTask(j)'
<1>1. pc'[k] = label /\ \A j \in Task \ {k} : pc'[j] = pc[j]
  BY ResendTypes DEF Goto
<1>2. FreshTask(k)
  BY DEF ResendInv
<1>3. FreshTask(k)'
  BY <1>1, <1>2 DEF FreshTask
<1>4. QED
  BY <1>1, <1>3, OthersFresh

(* A step that leaves the two states, the queues and the past commands be.  *)
LEMMA ResendFrame ==
    ASSUME ResendInv, TypeInv', UNCHANGED <<mem, file, old>>,
           \A j \in Task : FreshTask(j)',
           \A s \in Session : \A i \in DOMAIN chan'[s].queue :
               chan'[s].queue[i].id \notin old
    PROVE  ResendInv'
BY DEF ResendInv, NoResendAfterRestart

LEMMA AppendFresh ==
    ASSUME ResendInv, TypeInv', NEW k \in Task, UNCHANGED worldVars,
           AppendRecord(k) \/ JournalError(k)
    PROVE  ResendInv'
<1>1. rec[k] \in RecordType /\ FreshRecord(rec[k], old) /\ pc[k] = "append"
  BY DEF ResendInv, TypeInv, RuntimeTypeInv, Standing, FreshTask, AppendRecord, AppendFails, JournalError
<1>2. old' = old /\ mem' = mem /\ chan' = chan
  BY DEF worldVars, AppendRecord, AppendFails, JournalError
<1>3. PastState(file', old') /\ WellKeyed(file')
  <2>1. file' \in {file, Apply(file, rec[k])}
    BY DEF AppendRecord, AppendFails, JournalError
  <2>2. PastState(Apply(file, rec[k]), old) /\ WellKeyed(Apply(file, rec[k]))
    BY <1>1, ResendTypes, PastApplied, ApplyWellKeyed DEF ResendInv
  <2>3. QED
    BY <1>2, <2>1, <2>2 DEF ResendInv
<1>4. PastState(mem', old') /\ WellKeyed(mem')
  BY <1>2 DEF ResendInv
<1>5. NoResendAfterRestart'
  BY <1>2 DEF ResendInv, NoResendAfterRestart
<1>6. \A j \in Task : FreshTask(j)'
  <2>1. CASE AppendRecord(k)
    <3>1. pc' = [pc EXCEPT ![k] = "apply"] /\ UNCHANGED <<ret, ev, rec, todo>>
      BY <2>1 DEF AppendRecord, Goto
    <3>2. pc'[k] = "apply" /\ \A j \in Task \ {k} : pc'[j] = pc[j]
      BY <3>1, ResendTypes
    <3>3. FreshTask(k)
      BY DEF ResendInv
    <3>4. FreshTask(k)'
      BY <1>1, <1>2, <3>1, <3>2, <3>3 DEF FreshTask, Resumes
    <3>5. QED
      BY <1>2, <3>1, <3>2, <3>4, OthersFresh
  <2>2. CASE JournalError(k)
    <3>1. PICK label \in {"off", "leave"} : Fail(k, label)
      BY <2>2 DEF AppendFails, JournalError
    <3>2. QED
      BY <1>2, <3>1, FailFresh
  <2>3. QED
    BY <2>1, <2>2
<1>7. QED
  BY <1>3, <1>4, <1>5, <1>6 DEF ResendInv

LEMMA ApplyFresh ==
    ASSUME ResendInv, TypeInv', NEW k \in Task, UNCHANGED worldVars, ApplyRecord(k)
    PROVE  ResendInv'
<1>1. /\ rec[k] \in RecordType /\ FreshRecord(rec[k], old) /\ pc[k] = "apply"
      /\ ret[k] \in {"idle", "dispatch", "send", "orphans"}
  BY DEF ResendInv, TypeInv, RuntimeTypeInv, RuntimeTypeOK, Standing, FreshTask, ApplyRecord
<1>2. old' = old /\ file' = file /\ chan' = chan /\ mem' = Apply(mem, rec[k])
  BY DEF worldVars, ApplyRecord
<1>3. PastState(mem', old') /\ WellKeyed(mem')
  BY <1>1, <1>2, ResendTypes, PastApplied, ApplyWellKeyed DEF ResendInv
<1>4. PastState(file', old') /\ WellKeyed(file')
  BY <1>2 DEF ResendInv
<1>5. NoResendAfterRestart'
  BY <1>2 DEF ResendInv, NoResendAfterRestart
<1>6. FreshTask(k)
  BY DEF ResendInv
<1>7. \A j \in Task \ {k} : rec'[j] = rec[j] /\ ret'[j] = ret[j]
  BY ResendTypes DEF ApplyRecord
<1>8. \A j \in Task : FreshTask(j)'
  <2>1. CASE ret[k] \in {"dispatch", "orphans"}
    <3>1. Loop(k, ret[k], todo[k])
      BY <2>1 DEF ApplyRecord
    <3>2. ret[k] = "dispatch" => FreshCommands(todo[k], old)
      BY <1>1, <1>6 DEF FreshTask, Resumes
    <3>3. QED
      BY <1>2, <1>7, <2>1, <3>1, <3>2, LoopFresh
  <2>2. CASE ret[k] \in {"idle", "send"}
    <3>1. pc' = [pc EXCEPT ![k] = ret[k]] /\ UNCHANGED <<ev, todo>>
      BY <2>2 DEF ApplyRecord, Goto
    <3>2. pc'[k] = ret[k] /\ \A j \in Task \ {k} : pc'[j] = pc[j]
      BY <3>1, ResendTypes
    <3>3. FreshTask(k)'
      BY <1>1, <1>2, <1>6, <2>2, <3>1, <3>2 DEF FreshTask, Resumes
    <3>4. QED
      BY <1>2, <1>7, <3>1, <3>2, <3>3, OthersFresh
  <2>3. QED
    BY <1>1, <2>1, <2>2
<1>9. QED
  BY <1>3, <1>4, <1>5, <1>8 DEF ResendInv

LEMMA SnapshotFresh ==
    ASSUME ResendInv, NEW a \in Account
    PROVE  FreshCommands(CommandsIn("queued", a), old)
<1> SUFFICES ASSUME NEW c \in CommandId, StateOf(mem, c) = "queued"
             PROVE  mem.commands[c].command.id \notin old
  BY DEF FreshCommands, CommandsIn
<1>1. mem.commands[c].command.id = c
  BY DEF ResendInv, WellKeyed, Tracked
<1>2. c \notin old
  BY DEF ResendInv, PastState
<1>3. QED
  BY <1>1, <1>2

LEMMA SessionStepFresh ==
    ASSUME ResendInv, TypeInv', NEW k \in Task,
           \/ DrawSessionId(k) \/ InsertSession(k) \/ SnapshotQueued(k)
           \/ Unregister(k) \/ SnapshotDispatched(k) \/ MarkOrphan(k),
           old' = old
    PROVE  ResendInv'
<1>1. /\ UNCHANGED <<mem, file>>
      /\ chan' = chan \/ chan' = [chan EXCEPT ![nextId] = [open |-> TRUE, queue |-> <<>>]]
  BY DEF DrawSessionId, InsertSession, SnapshotQueued, Unregister, SnapshotDispatched,
         MarkOrphan
<1>2. ASSUME NEW s \in Session, NEW i \in DOMAIN chan'[s].queue
      PROVE  chan'[s].queue[i].id \notin old
  <2>1. DOMAIN chan = Session
    BY DEF ResendInv, TypeInv, RuntimeTypeInv, RuntimeTypeOK
  <2>2. chan'[s] = chan[s] \/ chan'[s].queue = <<>>
    BY <1>1, <2>1
  <2>3. chan'[s] = chan[s]
    BY <2>2
  <2>4. QED
    BY <2>3 DEF ResendInv, NoResendAfterRestart
<1>3. \A j \in Task : FreshTask(j)'
  <2>1. CASE DrawSessionId(k)
    <3>1. Resumes(k) /\ Goto(k, "register") /\ UNCHANGED <<ret, ev, rec, todo>>
      BY <2>1 DEF DrawSessionId, Resumes
    <3>2. QED
      BY <3>1, GotoFresh DEF Label
  <2>2. CASE InsertSession(k)
    <3>1. Resumes(k) /\ Goto(k, "queued") /\ UNCHANGED <<ret, ev, rec, todo>>
      BY <2>2 DEF InsertSession, Resumes
    <3>2. QED
      BY <3>1, GotoFresh DEF Label
  <2>3. CASE SnapshotQueued(k)
    <3>1. /\ Loop(k, "dispatch", CommandsIn("queued", Owner[k]))
          /\ UNCHANGED <<rec, ret>>
      BY <2>3 DEF SnapshotQueued
    <3>2. FreshCommands(CommandsIn("queued", Owner[k]), old)
      BY ResendTypes, SnapshotFresh
    <3>3. QED
      BY <3>1, <3>2, LoopFresh
  <2>4. CASE Unregister(k)
    <3>1. /\ Resumes(k)
          /\ Goto(k, "lost") \/ Goto(k, "off")
          /\ UNCHANGED <<ret, ev, rec, todo>>
      BY <2>4 DEF Unregister, Resumes
    <3>2. QED
      BY <3>1, GotoFresh DEF Label
  <2>5. CASE SnapshotDispatched(k)
    <3>1. /\ Loop(k, "orphans", CommandsIn("dispatched", Owner[k]))
          /\ UNCHANGED <<rec, ret>>
      BY <2>5 DEF SnapshotDispatched
    <3>2. QED
      BY <3>1, LoopFresh
  <2>6. CASE MarkOrphan(k)
    <3>1. PICK c \in todo[k] : /\ todo' = [todo EXCEPT ![k] = @ \ {c}]
                               /\ Journal(k, CommandUnknown(c.id), "orphans")
      BY <2>6 DEF MarkOrphan
    <3>2. FreshRecord(CommandUnknown(c.id), old)
      BY DEF FreshRecord, IsPlanned, CommandUnknown
    <3>3. ev' = ev /\ todo' = [todo EXCEPT ![k] = todo[k] \ {c}]
      BY <2>6, <3>1 DEF MarkOrphan
    <3>4. QED
      BY <3>1, <3>2, <3>3, JournalFresh
  <2>7. QED
    BY <2>1, <2>2, <2>3, <2>4, <2>5, <2>6
<1>4. QED
  BY <1>1, <1>2, <1>3, ResendFrame

LEMMA EventFresh ==
    ASSUME ResendInv, TypeInv', NEW k \in Task, NEW e \in Event, ReceiveEvent(k, e)
    PROVE  ResendInv'
<1>1. UNCHANGED <<mem, file, chan, old>>
  BY DEF ReceiveEvent, HandleEvent, RefuseEvent, worldVars
<1>2. \A j \in Task : FreshTask(j)'
  <2>1. CASE RefuseEvent(k, e)
    BY <1>1, <2>1, FailFresh DEF RefuseEvent
  <2>2. CASE HandleEvent(k, e)
    <3>1. /\ pc[k] = "idle" /\ todo' = todo /\ FreshCommands(todo[k], old)
          /\ \A c \in old : EventOf(c) # e.id
      BY <2>2 DEF HandleEvent, AlreadySeen, ResendInv, PastState, FreshTask, Resumes
    <3>2. CASE RoutesFor(e.source) = {}
      <4>1. Journal(k, EventPlanned(e.id, {}), "dispatch") /\ ev' = ev
        BY <2>2, <3>2 DEF HandleEvent
      <4>2. FreshRecord(EventPlanned(e.id, {}), old)
        BY DEF FreshRecord, IsPlanned, FreshCommands, EventPlanned
      <4>3. todo' = [todo EXCEPT ![k] = todo[k]]
        BY <3>1, ResendTypes
      <4>4. QED
        BY <1>1, <3>1, <4>1, <4>2, <4>3, JournalFresh
    <3>3. CASE RoutesFor(e.source) # {}
      <4>1. /\ pc' = [pc EXCEPT ![k] = "route"] /\ ev' = [ev EXCEPT ![k] = e]
            /\ rec' = rec /\ ret' = ret
        BY <2>2, <3>3 DEF HandleEvent, Goto
      <4>2. /\ pc'[k] = "route" /\ ev'[k] = e
            /\ \A j \in Task \ {k} : pc'[j] = pc[j] /\ ev'[j] = ev[j]
        BY <4>1, ResendTypes
      <4>3. FreshTask(k)'
        BY <1>1, <3>1, <4>2 DEF FreshTask
      <4>4. QED
        BY <1>1, <3>1, <4>1, <4>2, <4>3, OthersFresh
    <3>4. QED
      BY <3>2, <3>3
  <2>3. QED
    BY <2>1, <2>2 DEF ReceiveEvent
<1>3. QED
  BY <1>1, <1>2, ResendFrame DEF ResendInv, NoResendAfterRestart

LEMMA RouteFresh ==
    ASSUME ResendInv, TypeInv', NEW k \in Task, RouteEvent(k) \/ RoutePanics(k),
           UNCHANGED worldVars
    PROVE  ResendInv'
<1>1. UNCHANGED <<mem, file, chan, old>>
  BY DEF RouteEvent, RoutePanics, worldVars
<1>2. \A j \in Task : FreshTask(j)'
  <2>1. CASE RoutePanics(k)
    BY <1>1, <2>1, FailFresh DEF RoutePanics
  <2>2. CASE RouteEvent(k)
    <3> DEFINE e == ev[k]
               b(i) == mem.mirrors[KeyOf(e.source, e.order, Rules[i].target)]
               planned(i) == todo[k] \cup IF Builds(Rules[i], e, b(i))
                                           THEN {BuiltCommand(Rules[i], e, b(i))} ELSE {}
    <3>1. PICK i \in routes[k] :
            /\ todo' = [todo EXCEPT ![k] = planned(i)]
            /\ IF routes[k] = {i}
               THEN Journal(k, EventPlanned(e.id, planned(i)), "dispatch")
               ELSE UNCHANGED <<pc, rec, ret>>
      BY <2>2 DEF RouteEvent
    <3>2. pc[k] = "route" /\ ev' = ev
      BY <2>2 DEF RouteEvent
    <3>3. FreshCommands(todo[k], old) /\ \A c \in old : EventOf(c) # e.id
      BY <3>2 DEF ResendInv, FreshTask, Resumes
    <3>4. BuiltCommand(Rules[i], e, b(i)).id \notin old
      <4>1. EventOf(BuiltCommand(Rules[i], e, b(i)).id) = e.id
        BY DEF BuiltCommand, CommandIdOf, EventOf
      <4>2. QED
        BY <3>3, <4>1
    <3>5. FreshCommands(planned(i), old)
      BY <3>3, <3>4 DEF FreshCommands
    <3> HIDE DEF planned, b
    <3>6. CASE routes[k] = {i}
      <4>1. Journal(k, EventPlanned(e.id, planned(i)), "dispatch")
        BY <3>1, <3>6
      <4>2. FreshRecord(EventPlanned(e.id, planned(i)), old)
        BY <3>5 DEF FreshRecord, IsPlanned, EventPlanned
      <4>3. QED
        BY <1>1, <3>1, <3>2, <3>5, <4>1, <4>2, JournalFresh
    <3>7. CASE routes[k] # {i}
      <4>1. UNCHANGED <<pc, rec, ret>>
        BY <3>1, <3>7
      <4>2. todo'[k] = planned(i) /\ \A j \in Task \ {k} : todo'[j] = todo[j]
        BY <3>1, ResendTypes
      <4>3. FreshTask(k)'
        BY <1>1, <3>2, <3>3, <3>5, <4>1, <4>2 DEF FreshTask
      <4>4. QED
        BY <1>1, <3>2, <4>1, <4>2, <4>3, OthersFresh
    <3>8. QED
      BY <3>6, <3>7
  <2>3. QED
    BY <2>1, <2>2
<1>3. QED
  BY <1>1, <1>2, ResendFrame DEF ResendInv, NoResendAfterRestart

LEMMA DispatchFresh ==
    ASSUME ResendInv, TypeInv', NEW k \in Task, DispatchNext(k) \/ SendFails(k),
           UNCHANGED worldVars
    PROVE  ResendInv'
<1>1. UNCHANGED <<mem, file, chan, old>>
  BY DEF DispatchNext, SendFails, worldVars
<1>2. FreshCommands(todo[k], old)
  BY DEF ResendInv, FreshTask, Resumes, DispatchNext, SendFails
<1>3. \A j \in Task : FreshTask(j)'
  <2>1. CASE DispatchNext(k)
    <3>1. PICK c \in todo[k] :
            IF sessions[c.target] = 0
            THEN Loop(k, "dispatch", todo[k] \ {c}) /\ UNCHANGED <<rec, ret, sess>>
            ELSE /\ Journal(k, CommandDispatched(c.id), "send")
                 /\ UNCHANGED <<todo, ev>>
      BY <2>1 DEF DispatchNext
    <3>2. CASE sessions[c.target] = 0
      <4>1. FreshCommands(todo[k] \ {c}, old)
        BY <1>2 DEF FreshCommands
      <4>2. QED
        BY <1>1, <3>1, <3>2, <4>1, LoopFresh
    <3>3. CASE sessions[c.target] # 0
      <4>1. FreshRecord(CommandDispatched(c.id), old)
        BY <1>2 DEF FreshRecord, IsPlanned, FreshCommands, CommandDispatched
      <4>2. todo' = [todo EXCEPT ![k] = todo[k]]
        BY <3>1, <3>3, ResendTypes
      <4>3. QED
        BY <1>1, <1>2, <3>1, <3>3, <4>1, <4>2, JournalFresh
    <3>4. QED
      BY <3>2, <3>3
  <2>2. CASE SendFails(k)
    <3> DEFINE rest == {c \in todo[k] : c.id # rec[k].id}
    <3>1. /\ todo' = [todo EXCEPT ![k] = rest]
          /\ Journal(k, CommandUnknown(rec[k].id), "dispatch") /\ ev' = ev
      BY <2>2 DEF SendFails
    <3>2. FreshRecord(CommandUnknown(rec[k].id), old)
      BY DEF FreshRecord, IsPlanned, CommandUnknown
    <3>3. FreshCommands(rest, old)
      BY <1>2 DEF FreshCommands
    <3>4. QED
      BY <1>1, <3>1, <3>2, <3>3, JournalFresh
  <2>3. QED
    BY <2>1, <2>2
<1>4. QED
  BY <1>1, <1>3, ResendFrame DEF ResendInv, NoResendAfterRestart

LEMMA SendFresh ==
    ASSUME ResendInv, TypeInv', NEW k \in Task, Send(k), UNCHANGED worldVars
    PROVE  ResendInv'
<1>1. UNCHANGED <<mem, file, old>>
  BY DEF Send, worldVars
<1>2. FreshCommands(todo[k], old)
  BY DEF ResendInv, FreshTask, Resumes, Send
<1>3. PICK c \in todo[k] :
        /\ chan' = [chan EXCEPT ![sess[k]].queue = Append(@, c)]
        /\ Loop(k, "dispatch", todo[k] \ {c})
  BY DEF Send
<1>4. \A j \in Task : FreshTask(j)'
  <2>1. FreshCommands(todo[k] \ {c}, old)
    BY <1>2 DEF FreshCommands
  <2>2. \A j \in Task \ {k} : rec'[j] = rec[j] /\ ret'[j] = ret[j]
    BY ResendTypes DEF Send
  <2>3. QED
    BY <1>1, <1>3, <2>1, <2>2, LoopFresh
<1>5. ASSUME NEW s \in Session, NEW i \in DOMAIN chan'[s].queue
      PROVE  chan'[s].queue[i].id \notin old
  <2>1. chan \in [Session -> [open : BOOLEAN, queue : Seq(CommandType)]]
    BY DEF ResendInv, TypeInv, RuntimeTypeInv, RuntimeTypeOK
  <2>2. CASE s # sess[k]
    <3>1. chan'[s] = chan[s]
      BY <1>3, <2>1, <2>2
    <3>2. QED
      BY <3>1 DEF ResendInv, NoResendAfterRestart
  <2>3. CASE s = sess[k]
    <3> DEFINE q == chan[s].queue
    <3>1. q \in Seq(CommandType) /\ chan'[s].queue = Append(q, c) /\ c \in CommandType
      BY <1>3, <2>1, <2>3, ResendTypes
    <3>2. \A n \in DOMAIN q : q[n].id \notin old
      BY DEF ResendInv, NoResendAfterRestart
    <3> HIDE DEF q
    <3>3. i \in 1..(Len(q) + 1)
      BY <3>1, SMT
    <3>4. CASE i \in 1..Len(q)
      <4>1. Append(q, c)[i] = q[i] /\ i \in DOMAIN q
        BY <3>1, <3>4, SMT
      <4>2. QED
        BY <3>1, <3>2, <4>1
    <3>5. CASE i = Len(q) + 1
      <4>1. Append(q, c)[i] = c
        BY <3>1, <3>5, SMT
      <4>2. QED
        BY <1>2, <3>1, <4>1 DEF FreshCommands
    <3>6. QED
      <4>1. Len(q) \in Nat
        BY <3>1, SMT
      <4>2. QED
        BY <3>3, <3>4, <3>5, <4>1, SMT
  <2>4. QED
    BY <2>2, <2>3
<1>6. QED
  BY <1>1, <1>4, <1>5, ResendFrame

LEMMA AckRecordFresh ==
    ASSUME NEW c \in CommandType, NEW ack
    PROVE  FreshRecord(AckRecord(c, ack), old)
<1>1. c.action \in Action
  BY SMT DEF CommandType
<1>2. AckRecord(c, ack).kind \in {"AckApplied", "CommandUnknown"}
  <2>1. CASE ack.status \notin Success
    BY <2>1 DEF AckRecord, AckApplied
  <2>2. CASE ack.status \in Success /\ c.action = "open"
    BY <2>2 DEF AckRecord, AckApplied, CommandUnknown
  <2>3. CASE ack.status \in Success /\ c.action = "close"
    BY <2>3 DEF AckRecord, AckApplied
  <2>4. CASE ack.status \in Success /\ c.action \in {"modify", "reduce"}
    BY <2>4 DEF AckRecord, AckApplied
  <2>5. QED
    BY <1>1, <2>1, <2>2, <2>3, <2>4 DEF Action
<1>3. QED
  BY <1>2 DEF FreshRecord, IsPlanned

LEMMA AckFresh ==
    ASSUME ResendInv, TypeInv', NEW k \in Task, ReceiveAck(k) \/ ReceiveStrayAck(k)
    PROVE  ResendInv'
<1>1. UNCHANGED <<mem, file, chan, old>>
  BY DEF ReceiveAck, ReceiveStrayAck, HandleAck, RefuseAck, worldVars
<1>2. \A j \in Task : FreshTask(j)'
  <2>1. CASE ReceiveStrayAck(k)
    BY <1>1, <2>1, FailFresh DEF ReceiveStrayAck, RefuseAck
  <2>2. CASE ReceiveAck(k)
    <3>1. PICK ack \in Acks(Owner[k]) : HandleAck(k, ack)
      BY <2>2 DEF ReceiveAck
    <3> DEFINE c == mem.commands[ack.id].command
               r == AckRecord(c, ack)
    <3>2. /\ pc[k] = "idle" /\ ev' = ev /\ ack.id \in CommandId /\ Tracked(mem, ack.id)
          /\ IF IsReduced(c, ack)
             THEN /\ Goto(k, "mirror") /\ rec' = [rec EXCEPT ![k] = r]
                  /\ todo' = [todo EXCEPT ![k] = {c}] /\ ret' = ret
             ELSE Journal(k, r, "idle") /\ todo' = todo
      BY <3>1 DEF HandleAck, Acks
    <3>3. FreshRecord(r, old)
      BY <3>2, ResendTypes, StoredTyped, AckRecordFresh
    <3>4. FreshCommands(todo[k], old)
      BY <3>2 DEF ResendInv, FreshTask, Resumes
    <3>5. CASE IsReduced(c, ack)
      <4>1. /\ Goto(k, "mirror") /\ rec' = [rec EXCEPT ![k] = r]
            /\ todo' = [todo EXCEPT ![k] = {c}] /\ ret' = ret
        BY <3>2, <3>5
      <4> HIDE DEF c, r
      <4>2. /\ pc'[k] = "mirror"
            /\ \A j \in Task \ {k} :
                 pc'[j] = pc[j] /\ rec'[j] = rec[j] /\ todo'[j] = todo[j]
        BY <4>1, ResendTypes DEF Goto
      <4>3. FreshTask(k)'
        BY <4>2 DEF FreshTask, Resumes
      <4>4. QED
        BY <1>1, <3>2, <4>1, <4>2, <4>3, OthersFresh
    <3>6. CASE ~IsReduced(c, ack)
      <4>1. Journal(k, r, "idle") /\ todo' = todo
        BY <3>2, <3>6
      <4>2. todo' = [todo EXCEPT ![k] = todo[k]]
        BY <4>1, ResendTypes
      <4> HIDE DEF r
      <4>3. QED
        BY <1>1, <3>2, <3>3, <3>4, <4>1, <4>2, JournalFresh
    <3>7. QED
      BY <3>5, <3>6
  <2>3. QED
    BY <2>1, <2>2
<1>3. QED
  BY <1>1, <1>2, ResendFrame DEF ResendInv, NoResendAfterRestart

LEMMA MutateFresh ==
    ASSUME ResendInv, TypeInv', NEW k \in Task, MutateReduced(k), UNCHANGED worldVars
    PROVE  ResendInv'
<1>1. UNCHANGED <<mem, file, chan, old>>
  BY DEF MutateReduced, worldVars
<1>2. PICK c \in todo[k] :
        LET b == mem.mirrors[KeyOf(c.source, c.order, c.target)]
        IN  Journal(k, IF b = NoBinding THEN rec[k]
                       ELSE AckApplied(c.id, rec[k].status,
                                       [kind |-> "upsert", binding |-> Reduced(b, c)]),
                    "idle")
  BY DEF MutateReduced
<1> DEFINE b == mem.mirrors[KeyOf(c.source, c.order, c.target)]
           r == IF b = NoBinding THEN rec[k]
                ELSE AckApplied(c.id, rec[k].status,
                                [kind |-> "upsert", binding |-> Reduced(b, c)])
<1>3. Journal(k, r, "idle")
  BY <1>2
<1>4. rec[k].kind = "AckApplied"
  BY DEF ResendInv, TypeInv, RuntimeTypeInv, Standing, MutateReduced
<1>5. r.kind = "AckApplied"
  BY <1>4 DEF AckApplied
<1>6. FreshRecord(r, old)
  BY <1>5 DEF FreshRecord, IsPlanned
<1>7. todo' = [todo EXCEPT ![k] = {}] /\ ev' = ev /\ FreshCommands({}, old)
  BY DEF MutateReduced, FreshCommands
<1> HIDE DEF r
<1>8. \A j \in Task : FreshTask(j)'
  BY <1>1, <1>3, <1>6, <1>7, JournalFresh
<1>9. QED
  BY <1>1, <1>8, ResendFrame DEF ResendInv, NoResendAfterRestart

LEMMA EndOfStreamFresh ==
    ASSUME ResendInv, TypeInv', NEW k \in Task, EndOfStream(k)
    PROVE  ResendInv'
<1>1. UNCHANGED <<mem, file, chan, old>> /\ Fail(k, "leave")
  BY DEF EndOfStream, worldVars
<1>2. \A j \in Task : FreshTask(j)'
  BY <1>1, FailFresh
<1>3. QED
  BY <1>1, <1>2, ResendFrame DEF ResendInv, NoResendAfterRestart

LEMMA WriterFresh ==
    ASSUME ResendInv, TypeInv', NEW s \in Session,
           Deliver(s) \/ WriterStops(s) \/ PeerLeaves(s)
    PROVE  ResendInv'
<1>1. /\ UNCHANGED <<mem, file, old>>
      /\ pc' = pc /\ ev' = ev /\ rec' = rec /\ ret' = ret /\ todo' = todo
  BY DEF Deliver, WriterStops, PeerLeaves, taskVars, runtimeVars
<1>2. \A j \in Task : FreshTask(j)'
  BY <1>1 DEF ResendInv, FreshTask, Resumes
<1>3. chan \in [Session -> [open : BOOLEAN, queue : Seq(CommandType)]]
  BY DEF ResendInv, TypeInv, RuntimeTypeInv, RuntimeTypeOK
<1>4. ASSUME NEW t \in Session, NEW i \in DOMAIN chan'[t].queue
      PROVE  chan'[t].queue[i].id \notin old
  <2>1. CASE chan'[t] = chan[t] \/ chan'[t].queue = <<>>
    BY <2>1 DEF ResendInv, NoResendAfterRestart
  <2>2. CASE Deliver(s) /\ t = s
    <3> DEFINE q == chan[s].queue
    <3>1. q \in Seq(CommandType) /\ q # <<>> /\ chan'[t].queue = Tail(q)
      BY <1>3, <2>2 DEF Deliver
    <3>2. \A n \in DOMAIN q : q[n].id \notin old
      BY DEF ResendInv, NoResendAfterRestart
    <3> HIDE DEF q
    <3>3. i + 1 \in DOMAIN q /\ Tail(q)[i] = q[i + 1]
      BY <3>1, SMT
    <3>4. QED
      BY <3>1, <3>2, <3>3
  <2>3. QED
    BY <1>3, <2>1, <2>2 DEF Deliver, WriterStops, PeerLeaves, runtimeVars
<1>5. QED
  BY <1>1, <1>2, <1>4, ResendFrame

LEMMA CrashFresh ==
    ASSUME ResendInv, TypeInv', Crash
    PROVE  ResendInv'
<1>1. /\ mem' = Finalize(file) /\ file' = file
      /\ old' = old \cup {c \in CommandId : EventOf(c) \in file.seen
                                             /\ StateOf(file, c) # "queued"}
  BY DEF Crash
<1>2. PastState(file', old') /\ WellKeyed(file')
  BY <1>1 DEF ResendInv, PastState
<1>3. PastState(mem', old') /\ WellKeyed(mem')
  <2>1. ASSUME NEW c \in old' PROVE EventOf(c) \in mem'.seen /\ StateOf(mem', c) # "queued"
    <3>1. EventOf(c) \in file.seen /\ StateOf(file, c) # "queued" /\ c \in CommandId
      BY <1>1, <1>2, ResendTypes DEF PastState
    <3>2. QED
      BY <1>1, <3>1, ResendTypes, FinalizeEffect
  <2>2. WellKeyed(mem')
    BY <1>1, ResendTypes, FinalizeEffect DEF ResendInv
  <2>3. QED
    BY <2>1, <2>2 DEF PastState
<1>4. \A k \in Task : FreshTask(k)'
  BY DEF Crash, FreshTask, FreshCommands
<1>5. NoResendAfterRestart'
  BY DEF Crash, NoResendAfterRestart
<1>6. QED
  BY <1>2, <1>3, <1>4, <1>5 DEF ResendInv

LEMMA StutterFresh ==
    ASSUME ResendInv, TypeInv', UNCHANGED vars
    PROVE  ResendInv'
BY DEF ResendInv, FreshTask, Resumes, NoResendAfterRestart, vars, runtimeVars, taskVars,
       worldVars

LEMMA ResendStep ==
    ASSUME ResendInv, [Next]_vars
    PROVE  ResendInv'
<1>1. TypeInv'
  BY TypeStep DEF ResendInv
<1>2. ASSUME NEW k \in Task, TaskStep(k) PROVE ResendInv'
  <2>1. UNCHANGED worldVars /\ old' = old
    BY <1>2 DEF TaskStep, HandlerStep, worldVars
  <2>2. CASE \/ InsertSession(k) \/ SnapshotQueued(k)
             \/ Unregister(k) \/ SnapshotDispatched(k) \/ MarkOrphan(k)
    BY <1>1, <2>1, <2>2, SessionStepFresh
  <2>3. CASE RouteEvent(k) \/ RoutePanics(k)
    BY <1>1, <2>1, <2>3, RouteFresh
  <2>4. CASE AppendRecord(k)
    BY <1>1, <2>1, <2>4, AppendFresh
  <2>5. CASE ApplyRecord(k)
    BY <1>1, <2>1, <2>5, ApplyFresh
  <2>6. CASE DispatchNext(k) \/ SendFails(k)
    BY <1>1, <2>1, <2>6, DispatchFresh
  <2>7. CASE Send(k)
    BY <1>1, <2>1, <2>7, SendFresh
  <2>8. CASE MutateReduced(k)
    BY <1>1, <2>1, <2>8, MutateFresh
  <2>9. QED
    BY <1>2, <2>2, <2>3, <2>4, <2>5, <2>6, <2>7, <2>8 DEF TaskStep, HandlerStep
<1>3. ASSUME NEW k \in Task, Connect(k) PROVE ResendInv'
  BY <1>1, <1>3, SessionStepFresh DEF Connect
<1>4. ASSUME NEW k \in Task, JournalError(k) PROVE ResendInv'
  <2>1. UNCHANGED worldVars
    BY <1>4 DEF JournalError
  <2>2. QED
    BY <1>1, <1>4, <2>1, AppendFresh
<1>5. ASSUME NEW k \in Task, EndOfStream(k) PROVE ResendInv'
  BY <1>1, <1>5, EndOfStreamFresh
<1>6. ASSUME NEW k \in Task, ReceiveAck(k) \/ ReceiveStrayAck(k) PROVE ResendInv'
  BY <1>1, <1>6, AckFresh
<1>7. ASSUME NEW k \in Task, NEW e \in Event, ReceiveEvent(k, e) PROVE ResendInv'
  BY <1>1, <1>7, EventFresh
<1>8. ASSUME NEW s \in Session, Deliver(s) \/ WriterStops(s) \/ PeerLeaves(s)
      PROVE  ResendInv'
  BY <1>1, <1>8, WriterFresh
<1>9. CASE Crash
  BY <1>1, <1>9, CrashFresh
<1>10. CASE UNCHANGED vars
  BY <1>1, <1>10, StutterFresh
<1>11. QED
  BY <1>2, <1>3, <1>4, <1>5, <1>6, <1>7, <1>8, <1>9, <1>10 DEF Next

(* NoResendAfterRestart, for every configuration, any number of connections *)
(* per account, restarts and failed journal writes: what a restart found    *)
(* dispatched, UNKNOWN or finished is on no channel ever again.             *)
THEOREM NeverResent == Spec => []NoResendAfterRestart
<1>1. Init => ResendInv
  BY ResendInit
<1>2. ResendInv /\ [Next]_vars => ResendInv'
  BY ResendStep
<1>3. ResendInv => NoResendAfterRestart
  BY DEF ResendInv
<1>4. QED
  BY <1>1, <1>2, <1>3, PTL DEF Spec
-----------------------------------------------------------------------------
(* The invariant.  A session id is drawn once, so the connection that finds *)
(* its own id in the map is the one that put it there; the connection that  *)
(* put it there has still to come to Unregister.                            *)

Holds(k) ==
    /\ pc[k] \notin {"off", "register", "lost", "orphans", "dead"}
    /\ pc[k] \in {"append", "apply"} => ret[k] # "orphans"

DrawnOnce ==
    /\ \A k \in Task : sid[k] < nextId
    /\ \A j, k \in Task : sid[j] # 0 /\ sid[j] = sid[k] => j = k

HeldBy(a, k) == Owner[k] = a /\ sid[k] = sessions[a] /\ Holds(k)

SessionInv ==
    /\ TypeInv
    /\ DrawnOnce
    /\ \A a \in Account : sessions[a] # 0 => \E k \in Task : HeldBy(a, k)

LEMMA SessionStart == Init => SessionInv
BY TypeInit DEF Init, RuntimeInit, FreshTasks, SessionInv, DrawnOnce

(* A task moves on and keeps its session to unregister, if it had one.      *)
LEMMA HoldsOn ==
    ASSUME SessionInv, TypeInv', NEW k \in Task, UNCHANGED <<sessions, nextId, sid>>,
           \A j \in Task \ {k} : pc'[j] = pc[j] /\ ret'[j] = ret[j],
           Holds(k) => Holds(k)'
    PROVE  SessionInv'
<1>1. ASSUME NEW j \in Task, Holds(j) PROVE Holds(j)'
  <2>1. CASE j = k
    BY <1>1, <2>1
  <2>2. CASE j # k
    BY <1>1, <2>2 DEF Holds
  <2>3. QED
    BY <2>1, <2>2
<1>2. ASSUME NEW a \in Account, sessions'[a] # 0 PROVE \E j \in Task : HeldBy(a, j)'
  <2>1. PICK j \in Task : HeldBy(a, j)
    BY <1>2 DEF SessionInv
  <2>2. HeldBy(a, j)'
    BY <1>1, <2>1 DEF HeldBy
  <2>3. QED
    BY <2>2
<1>3. QED
  BY <1>2 DEF SessionInv, DrawnOnce

LEMMA Tasks ==
    ASSUME SessionInv
    PROVE  /\ pc = [j \in Task |-> pc[j]] /\ ret = [j \in Task |-> ret[j]]
           /\ sid = [j \in Task |-> sid[j]] /\ sessions = [a \in Account |-> sessions[a]]
           /\ \A j \in Task : Owner[j] \in Account /\ sid[j] \in Nat
           /\ \A j \in Task : ret[j] \in {"idle", "dispatch", "send", "orphans"}
           /\ nextId \in Nat \ {0}
BY RuntimeAssumption, SMT DEF SessionInv, TypeInv, RuntimeTypeInv, RuntimeTypeOK

LEMMA FailHolds ==
    ASSUME SessionInv, TypeInv', NEW k \in Task, UNCHANGED <<sessions, nextId>>,
           NEW label, Fail(k, label), label = "leave" \/ ~Holds(k)
    PROVE  SessionInv'
<1>1. /\ \A j \in Task \ {k} : pc'[j] = pc[j] /\ ret'[j] = ret[j]
      /\ pc'[k] = label /\ sid' = sid
  BY Tasks DEF Fail, Goto
<1>2. Holds(k) => Holds(k)'
  BY <1>1 DEF Holds
<1>3. QED
  BY <1>1, <1>2, HoldsOn

LEMMA JournalHolds ==
    ASSUME SessionInv, TypeInv', NEW k \in Task, UNCHANGED <<sessions, nextId, sid>>,
           NEW record, NEW return, Journal(k, record, return),
           return # "orphans" \/ ~Holds(k)
    PROVE  SessionInv'
<1>1. /\ \A j \in Task \ {k} : pc'[j] = pc[j] /\ ret'[j] = ret[j]
      /\ pc'[k] = "append" /\ ret'[k] = return
  BY Tasks DEF Journal, Goto
<1>2. Holds(k) => Holds(k)'
  BY <1>1 DEF Holds
<1>3. QED
  BY <1>1, <1>2, HoldsOn

LEMMA LoopHolds ==
    ASSUME SessionInv, TypeInv', NEW k \in Task, UNCHANGED <<sessions, nextId, sid>>,
           \A j \in Task \ {k} : ret'[j] = ret[j],
           NEW loop, NEW rest, Loop(k, loop, rest), loop = "dispatch" \/ ~Holds(k)
    PROVE  SessionInv'
<1>1. /\ \A j \in Task \ {k} : pc'[j] = pc[j] /\ ret'[j] = ret[j]
      /\ loop = "dispatch" => pc'[k] \in {"dispatch", "idle"}
  BY Tasks DEF Loop
<1>2. Holds(k) => Holds(k)'
  BY <1>1 DEF Holds
<1>3. QED
  BY <1>1, <1>2, HoldsOn

-----------------------------------------------------------------------------
(* Drawing an id, inserting it and removing it.                             *)

LEMMA ConnectHolds ==
    ASSUME SessionInv, TypeInv', NEW k \in Task, Connect(k)
    PROVE  SessionInv'
<1>1. /\ pc[k] = "off" /\ nextId' = nextId + 1 /\ sessions' = sessions
      /\ sid'[k] = nextId
      /\ \A j \in Task \ {k} : sid'[j] = sid[j] /\ pc'[j] = pc[j] /\ ret'[j] = ret[j]
  BY Tasks DEF Connect, DrawSessionId, Goto
<1>2. DrawnOnce'
  BY <1>1, Tasks DEF SessionInv, DrawnOnce
<1>3. ASSUME NEW a \in Account, sessions'[a] # 0 PROVE \E j \in Task : HeldBy(a, j)'
  <2>1. PICK j \in Task : HeldBy(a, j)
    BY <1>1, <1>3 DEF SessionInv
  <2>2. j # k
    BY <1>1, <2>1 DEF HeldBy, Holds
  <2>3. HeldBy(a, j)'
    BY <1>1, <2>1, <2>2 DEF HeldBy, Holds
  <2>4. QED
    BY <2>3
<1>4. QED
  BY <1>2, <1>3 DEF SessionInv

LEMMA InsertHolds ==
    ASSUME SessionInv, TypeInv', NEW k \in Task, InsertSession(k)
    PROVE  SessionInv'
<1>1. /\ sessions' = [sessions EXCEPT ![Owner[k]] = sid[k]]
      /\ UNCHANGED <<nextId, sid, ret>> /\ pc'[k] = "queued"
      /\ \A j \in Task \ {k} : pc'[j] = pc[j]
  BY Tasks DEF InsertSession, Goto
<1>2. ASSUME NEW a \in Account, sessions'[a] # 0 PROVE \E j \in Task : HeldBy(a, j)'
  <2>1. CASE a = Owner[k]
    <3>1. HeldBy(a, k)'
      BY <1>1, <2>1, Tasks DEF HeldBy, Holds
    <3>2. QED
      BY <3>1
  <2>2. CASE a # Owner[k]
    <3>1. sessions'[a] = sessions[a]
      BY <1>1, <2>2, Tasks
    <3>2. PICK j \in Task : HeldBy(a, j)
      BY <1>2, <3>1 DEF SessionInv
    <3>3. j # k
      BY <2>2, <3>2 DEF HeldBy
    <3>4. HeldBy(a, j)'
      BY <1>1, <3>1, <3>2, <3>3 DEF HeldBy, Holds
    <3>5. QED
      BY <3>4
  <2>3. QED
    BY <2>1, <2>2
<1>3. QED
  BY <1>1, <1>2 DEF SessionInv, DrawnOnce

(* Where another connection has replaced the session, the id in the map is  *)
(* not k's, so its holder is another task.                                  *)
LEMMA UnregisterHolds ==
    ASSUME SessionInv, TypeInv', NEW k \in Task, Unregister(k)
    PROVE  SessionInv'
<1>1. /\ UNCHANGED <<nextId, sid, ret>>
      /\ \A j \in Task \ {k} : pc'[j] = pc[j]
      /\ IF sessions[Owner[k]] = sid[k]
         THEN sessions' = [sessions EXCEPT ![Owner[k]] = 0] ELSE sessions' = sessions
  BY Tasks DEF Unregister, Goto
<1>2. ASSUME NEW a \in Account, sessions'[a] # 0 PROVE \E j \in Task : HeldBy(a, j)'
  <2>1. sessions'[a] = sessions[a] /\ (a = Owner[k] => sessions[a] # sid[k])
    BY <1>1, <1>2, Tasks
  <2>2. PICK j \in Task : HeldBy(a, j)
    BY <1>2, <2>1 DEF SessionInv
  <2>3. j # k
    BY <2>1, <2>2 DEF HeldBy
  <2>4. HeldBy(a, j)'
    BY <1>1, <2>1, <2>2, <2>3 DEF HeldBy, Holds
  <2>5. QED
    BY <2>4
<1>3. QED
  BY <1>1, <1>2 DEF SessionInv, DrawnOnce

-----------------------------------------------------------------------------
(* The other steps of a task.                                               *)

LEMMA OrphanHolds ==
    ASSUME SessionInv, TypeInv', NEW k \in Task,
           SnapshotQueued(k) \/ SnapshotDispatched(k) \/ MarkOrphan(k)
    PROVE  SessionInv'
<1>1. UNCHANGED <<sessions, nextId, sid>>
  BY DEF SnapshotQueued, SnapshotDispatched, MarkOrphan
<1>2. CASE SnapshotQueued(k)
  BY <1>1, <1>2, LoopHolds DEF SnapshotQueued
<1>3. CASE SnapshotDispatched(k)
  BY <1>1, <1>3, LoopHolds DEF SnapshotDispatched, Holds
<1>4. CASE MarkOrphan(k)
  BY <1>1, <1>4, JournalHolds DEF MarkOrphan, Holds
<1>5. QED
  BY <1>2, <1>3, <1>4

LEMMA EventHolds ==
    ASSUME SessionInv, TypeInv', NEW k \in Task, NEW e \in Event, ReceiveEvent(k, e)
    PROVE  SessionInv'
<1>1. UNCHANGED <<sessions, nextId, sid>>
  BY DEF ReceiveEvent, HandleEvent, RefuseEvent, Fail
<1>2. CASE RefuseEvent(k, e)
  BY <1>1, <1>2, FailHolds DEF RefuseEvent
<1>3. CASE HandleEvent(k, e) /\ RoutesFor(e.source) = {}
  BY <1>1, <1>3, JournalHolds DEF HandleEvent
<1>4. CASE HandleEvent(k, e) /\ RoutesFor(e.source) # {}
  <2>1. pc' = [pc EXCEPT ![k] = "route"] /\ ret' = ret
    BY <1>4 DEF HandleEvent, Goto
  <2>2. Holds(k)' /\ \A j \in Task \ {k} : pc'[j] = pc[j] /\ ret'[j] = ret[j]
    BY <2>1, Tasks DEF Holds
  <2>3. QED
    BY <1>1, <2>2, HoldsOn
<1>5. QED
  BY <1>2, <1>3, <1>4 DEF ReceiveEvent

LEMMA RouteHolds ==
    ASSUME SessionInv, TypeInv', NEW k \in Task, RouteEvent(k)
    PROVE  SessionInv'
<1>1. /\ UNCHANGED <<sessions, nextId, sid>> /\ pc[k] = "route"
      /\ \/ UNCHANGED <<pc, ret>>
         \/ \E record : Journal(k, record, "dispatch")
  BY DEF RouteEvent
<1>2. CASE UNCHANGED <<pc, ret>>
  BY <1>1, <1>2, HoldsOn DEF Holds
<1>3. CASE \E record : Journal(k, record, "dispatch")
  BY <1>1, <1>3, JournalHolds
<1>4. QED
  BY <1>1, <1>2, <1>3

LEMMA JournalStepHolds ==
    ASSUME SessionInv, TypeInv', NEW k \in Task,
           AppendRecord(k) \/ ApplyRecord(k) \/ JournalError(k)
    PROVE  SessionInv'
<1>1. CASE AppendRecord(k)
  <2>1. /\ UNCHANGED <<sessions, nextId, sid, ret>> /\ pc[k] = "append" /\ pc'[k] = "apply"
        /\ \A j \in Task \ {k} : pc'[j] = pc[j]
    BY <1>1, Tasks DEF AppendRecord, Goto
  <2>2. Holds(k) => Holds(k)'
    BY <2>1 DEF Holds
  <2>3. QED
    BY <2>1, <2>2, HoldsOn
<1>2. CASE ApplyRecord(k)
  <2>1. /\ UNCHANGED <<sessions, nextId, sid>> /\ pc[k] = "apply"
        /\ \A j \in Task \ {k} : ret'[j] = ret[j]
    BY <1>2, Tasks DEF ApplyRecord
  <2>2. CASE ret[k] \in {"dispatch", "orphans"}
    <3>1. Loop(k, ret[k], todo[k]) /\ (ret[k] = "dispatch" \/ ~Holds(k))
      BY <1>2, <2>1, <2>2 DEF ApplyRecord, Holds
    <3>2. QED
      BY <2>1, <3>1, LoopHolds
  <2>3. CASE ret[k] \in {"idle", "send"}
    <3>1. Holds(k)' /\ \A j \in Task \ {k} : pc'[j] = pc[j]
      BY <1>2, <2>3, Tasks DEF ApplyRecord, Goto, Holds
    <3>2. QED
      BY <2>1, <3>1, HoldsOn
  <2>4. QED
    BY <2>2, <2>3, Tasks
<1>3. CASE JournalError(k)
  <2>1. /\ UNCHANGED <<sessions, nextId>> /\ pc[k] = "append"
        /\ Fail(k, IF ret[k] = "orphans" THEN "off" ELSE "leave")
    BY <1>3 DEF JournalError, AppendFails
  <2>2. ret[k] # "orphans" \/ ~Holds(k)
    BY <2>1 DEF Holds
  <2>3. QED
    BY <2>1, <2>2, FailHolds
<1>4. QED
  BY <1>1, <1>2, <1>3

LEMMA DispatchHolds ==
    ASSUME SessionInv, TypeInv', NEW k \in Task,
           DispatchNext(k) \/ Send(k) \/ SendFails(k)
    PROVE  SessionInv'
<1>1. UNCHANGED <<sessions, nextId, sid>>
  BY DEF DispatchNext, Send, SendFails
<1>2. CASE DispatchNext(k)
  <2>1. \/ (\E rest : Loop(k, "dispatch", rest)) /\ ret' = ret
        \/ \E record : Journal(k, record, "send")
    BY <1>2 DEF DispatchNext
  <2>2. QED
    BY <1>1, <2>1, LoopHolds, JournalHolds
<1>3. CASE Send(k)
  <2>1. (\E rest : Loop(k, "dispatch", rest)) /\ ret' = ret
    BY <1>3 DEF Send
  <2>2. QED
    BY <1>1, <2>1, LoopHolds
<1>4. CASE SendFails(k)
  BY <1>1, <1>4, JournalHolds DEF SendFails
<1>5. QED
  BY <1>2, <1>3, <1>4

LEMMA AckHolds ==
    ASSUME SessionInv, TypeInv', NEW k \in Task,
           ReceiveAck(k) \/ ReceiveStrayAck(k) \/ MutateReduced(k)
    PROVE  SessionInv'
<1>1. UNCHANGED <<sessions, nextId, sid>>
  BY DEF ReceiveAck, ReceiveStrayAck, HandleAck, RefuseAck, MutateReduced, Fail
<1>2. CASE ReceiveStrayAck(k)
  BY <1>1, <1>2, FailHolds DEF ReceiveStrayAck, RefuseAck
<1>3. CASE MutateReduced(k)
  <2>1. \E record : Journal(k, record, "idle")
    BY <1>3 DEF MutateReduced
  <2>2. QED
    BY <1>1, <2>1, JournalHolds
<1>4. CASE ReceiveAck(k)
  <2>1. \/ Goto(k, "mirror") /\ ret' = ret
        \/ \E record : Journal(k, record, "idle")
    BY <1>4 DEF ReceiveAck, HandleAck
  <2>2. CASE Goto(k, "mirror") /\ ret' = ret
    <3>1. Holds(k)' /\ \A j \in Task \ {k} : pc'[j] = pc[j] /\ ret'[j] = ret[j]
      BY <2>2, Tasks DEF Goto, Holds
    <3>2. QED
      BY <1>1, <3>1, HoldsOn
  <2>3. QED
    BY <1>1, <2>1, <2>2, JournalHolds
<1>5. QED
  BY <1>2, <1>3, <1>4

-----------------------------------------------------------------------------
(* Every step, when no route has its minimum above its maximum.             *)

NoRoutePanics == \A i \in DOMAIN Rules : \A e \in Event : ~Panics(Rules[i], e)

LEMMA SessionStep ==
    ASSUME NoRoutePanics, SessionInv, [Next]_vars
    PROVE  SessionInv'
<1>1. TypeInv'
  BY TypeStep DEF SessionInv
<1>2. ASSUME NEW k \in Task, TaskStep(k) PROVE SessionInv'
  <2>1. CASE InsertSession(k)
    BY <1>1, <2>1, InsertHolds
  <2>2. CASE Unregister(k)
    BY <1>1, <2>2, UnregisterHolds
  <2>3. CASE SnapshotQueued(k) \/ SnapshotDispatched(k) \/ MarkOrphan(k)
    BY <1>1, <2>3, OrphanHolds
  <2>4. CASE RouteEvent(k)
    BY <1>1, <2>4, RouteHolds
  <2>5. ~RoutePanics(k)
    <3>1. routes[k] \subseteq DOMAIN Rules /\ (pc[k] = "route" => ev[k] \in Event)
      BY DEF SessionInv, TypeInv, RuntimeTypeInv, RuntimeTypeOK, Standing
    <3>2. QED
      BY <3>1 DEF RoutePanics, NoRoutePanics
  <2>6. CASE AppendRecord(k) \/ ApplyRecord(k)
    BY <1>1, <2>6, JournalStepHolds
  <2>7. CASE DispatchNext(k) \/ Send(k) \/ SendFails(k)
    BY <1>1, <2>7, DispatchHolds
  <2>8. CASE MutateReduced(k)
    BY <1>1, <2>8, AckHolds
  <2>9. QED
    BY <1>2, <2>1, <2>2, <2>3, <2>4, <2>5, <2>6, <2>7, <2>8 DEF TaskStep, HandlerStep
<1>3. ASSUME NEW k \in Task, Connect(k) PROVE SessionInv'
  BY <1>1, <1>3, ConnectHolds
<1>4. ASSUME NEW k \in Task, JournalError(k) PROVE SessionInv'
  BY <1>1, <1>4, JournalStepHolds
<1>5. ASSUME NEW k \in Task, EndOfStream(k) PROVE SessionInv'
  BY <1>1, <1>5, FailHolds DEF EndOfStream
<1>6. ASSUME NEW k \in Task, ReceiveAck(k) \/ ReceiveStrayAck(k) PROVE SessionInv'
  BY <1>1, <1>6, AckHolds
<1>7. ASSUME NEW k \in Task, NEW e \in Event, ReceiveEvent(k, e) PROVE SessionInv'
  BY <1>1, <1>7, EventHolds
<1>8. CASE \/ UNCHANGED vars
           \/ \E s \in Session : Deliver(s) \/ WriterStops(s) \/ PeerLeaves(s)
  <2>1. UNCHANGED <<sessions, nextId, sid, pc, ret>>
    BY <1>8 DEF vars, Deliver, WriterStops, PeerLeaves, taskVars, runtimeVars
  <2>2. QED
    BY <1>1, <2>1 DEF SessionInv, DrawnOnce, HeldBy, Holds
<1>9. CASE Crash
  <2>1. /\ sessions' = [a \in Account |-> 0] /\ nextId' = 1
        /\ sid' = [k \in Task |-> 0]
    BY <1>9 DEF Crash
  <2>2. QED
    BY <1>1, <2>1 DEF SessionInv, DrawnOnce
<1>10. QED
  BY <1>2, <1>3, <1>4, <1>5, <1>6, <1>7, <1>8, <1>9 DEF Next

(* A registered session belongs to a connection that will unregister it:    *)
(* register_session and unregister_session may interleave in any way, a     *)
(* connection never removes or leaves behind the session of another.        *)
THEOREM SessionsServed ==
    ASSUME NoRoutePanics
    PROVE  Spec => []SessionsAreServed
<1>1. Init => SessionInv
  BY SessionStart
<1>2. SessionInv /\ [Next]_vars => SessionInv'
  BY SessionStep
<1>3. SessionInv => SessionsAreServed
  BY DEF SessionInv, HeldBy, Holds, SessionsAreServed
<1>4. QED
  BY <1>1, <1>2, <1>3, PTL DEF Spec

-----------------------------------------------------------------------------
(* The bindings, and the refinement of the command ledger.                  *)

(* A binding's opening volume is positive, so that the reduced share of it  *)
(* is defined: RouteError::InvalidMirror never ends a connection, and no    *)
(* division by zero reaches ReduceVolume.                                   *)
THEOREM BindingsAreValid == Spec => []MirrorsAreValid
<1>1. Init => MirrorInv
  BY MirrorStart DEF Init
<1>2. MirrorInv /\ [Next]_vars => MirrorInv'
  BY AnyStep, MirrorStep
<1>3. MirrorInv => MirrorsAreValid
  BY MirrorValid
<1>4. QED
  BY <1>1, <1>2, <1>3, PTL DEF Spec

(* What a terminal made something of was issued: it came off a channel.     *)
AgentLedger ==
    /\ TypeInv
    /\ LedgerInv
    /\ \A c \in CommandId : outcome[c] # "none" => Issued(c)

LEMMA StepAcknowledged ==
    ASSUME AgentLedger, [Next]_vars
    PROVE  RuntimeStep(IssuedAcks)
<1>1. Executed \subseteq IssuedAcks
  BY DEF Executed, IssuedAcks, AckType, AgentLedger
<1>2. QED
  BY <1>1, StepMapped, FewerAcks

LEMMA AgentLedgerStep ==
    ASSUME AgentLedger, [Next]_vars
    PROVE  AgentLedger' /\ [Ledger!LedgerNext]_Ledger!ledgerVars
<1>1. RuntimeStep(IssuedAcks)
  BY StepAcknowledged
<1>2. LedgerInv' /\ Onward /\ [Ledger!LedgerNext]_Ledger!ledgerVars
  BY <1>1, LedgerStep DEF AgentLedger
<1>3. ASSUME NEW c \in CommandId, outcome'[c] # "none" PROVE Issued(c)'
  <2>1. CASE outcome'[c] = outcome[c]
    BY <1>2, <1>3, <2>1 DEF AgentLedger, Onward
  <2>2. CASE outcome'[c] # outcome[c]
    <3>1. PICK s \in Session : Deliver(s)
      BY <2>2 DEF Next, Connect, TaskStep, JournalError, EndOfStream, ReceiveAck,
                  ReceiveStrayAck, ReceiveEvent, WriterStops, PeerLeaves, Crash, vars,
                  worldVars
    <3> DEFINE h == Head(chan[s].queue)
    <3>2. h \in CommandType /\ Issued(h.id)
      BY <3>1, TakenIssued DEF Deliver, AgentLedger
    <3>3. \E result : outcome' = [outcome EXCEPT ![h.id] = result]
      BY <2>2, <3>1 DEF Deliver, Execute
    <3>4. h.id = c
      BY <2>2, <3>3 DEF AgentLedger, TypeInv, TypeOK
    <3>5. QED
      BY <1>2, <3>2, <3>4 DEF Onward
  <2>3. QED
    BY <2>1, <2>2
<1>4. QED
  BY <1>2, <1>3, TypeStep DEF AgentLedger

(* The daemon implements CommandLedger: whatever tasks, journal errors and  *)
(* restarts do, a command's record only moves forward, and what is put on a *)
(* channel is on record as issued first.                                    *)
THEOREM LedgerImplemented == Spec => ImplementsLedger
<1>1. Init => AgentLedger /\ Ledger!LedgerInit
  BY TypeInit, LedgerStart DEF Init, AgentLedger
<1>2. AgentLedger /\ [Next]_vars => AgentLedger' /\ [Ledger!LedgerNext]_Ledger!ledgerVars
  BY AgentLedgerStep
<1>3. QED
  BY <1>1, <1>2, PTL DEF Spec, ImplementsLedger, Ledger!LedgerSpec

-----------------------------------------------------------------------------
(* What needs a master to be connected once at a time.  While an older      *)
(* connection of its account is still planning an event, a newer one can    *)
(* plan it as well, and a command is planned again after it has ended.      *)

(* docs/protocol.md:48: a command whose terminal acknowledgement is in the  *)
(* journal is never tracked by it again, whatever is resent, however the    *)
(* handlers of the accounts interleave and whichever append fails.          *)
THEOREM SettledFinal ==
    ASSUME OnePublisher
    PROVE  Spec => []SettledIsFinal
<1>1. Init => FinalInv
  BY FinalStart DEF Init
<1>2. FinalInv /\ [Next]_vars => FinalInv'
  BY AnyStep, FinalStep
<1>3. FinalInv => SettledIsFinal
  BY FinalSettled
<1>4. QED
  BY <1>1, <1>2, <1>3, PTL DEF Spec

(* README.md:90: what was ever put on a channel is in the journal as        *)
(* dispatched or UNKNOWN, or ended there; no restart can find it new.       *)
THEOREM WrittenAhead ==
    ASSUME OnePublisher
    PROVE  Spec => []WriteAhead
<1>1. Init => AgentLedger /\ HandedInv /\ FinalInv
  BY TypeInit, LedgerStart, HandedStart, FinalStart DEF Init, AgentLedger
<1>2. AgentLedger /\ HandedInv /\ FinalInv /\ [Next]_vars
        => AgentLedger' /\ HandedInv' /\ FinalInv'
  <2> SUFFICES ASSUME AgentLedger, HandedInv, FinalInv, [Next]_vars
               PROVE  AgentLedger' /\ HandedInv' /\ FinalInv'
    OBVIOUS
  <2>1. RuntimeStep(IssuedAcks)
    BY StepAcknowledged
  <2>2. HandedInv'
    BY <2>1, HandedStep DEF AgentLedger
  <2>3. FinalInv'
    BY AnyStep, FinalStep
  <2>4. QED
    BY <2>2, <2>3, AgentLedgerStep
<1>3. AgentLedger /\ HandedInv /\ FinalInv => WriteAhead
  BY AheadWritten DEF AgentLedger
<1>4. QED
  BY <1>1, <1>2, <1>3, PTL DEF Spec

(* With one connection to an account at a time, a restart after any prefix  *)
(* of a run in which no append failed finds what the memory held, up to the *)
(* commands it calls UNKNOWN.  Two overlapping connections of a follower    *)
(* can acknowledge two reduces of a binding, each against the binding it    *)
(* read, and apply them in another order than they appended them.           *)
THEOREM RestartFindsMemory ==
    ASSUME OneTask
    PROVE  Spec => []RecoveryEquivalence
<1>1. Init => LevelInv
  BY LevelStart DEF Init
<1>2. LevelInv /\ [Next]_vars => LevelInv'
  BY AnyStep, LevelStep
<1>3. LevelInv => RecoveryEquivalence
  BY LevelEquivalent
<1>4. QED
  BY <1>1, <1>2, <1>3, PTL DEF Spec

-----------------------------------------------------------------------------
(* What a follower holds is accounted for.  A terminal acknowledges only    *)
(* what it executed, or does not know.  So the commands that were executed  *)
(* and those that left no position are the A and E of the verdicts:         *)
(* whatever a record binds was executed, and it removes a binding only when *)
(* nothing is left of the position.                                         *)

(* The terminals tell the opening of a position by one event, and one route *)
(* copies it to a follower: a binding key has no route in it, and a second  *)
(* opening under the key of the first would take its binding.               *)
OneOpening ==
    \A e, f \in Event : \A i, j \in DOMAIN Rules :
        /\ e.action = "open" /\ f.action = "open"
        /\ e.source = f.source /\ e.order = f.order
        /\ Rules[i].source = e.source /\ Copies(Rules[i], e)
        /\ Rules[j].source = f.source /\ Copies(Rules[j], f)
        /\ Rules[i].target = Rules[j].target
        => e.id = f.id /\ i = j

Answered == {c \in CommandId : outcome[c] # "none"}
Emptied  == {c \in CommandId : outcome[c] # "none" /\ book[c] = 0}

Told(c) ==
    /\ outcome[c] # "none" => Built(c)
    /\ c \in settled => outcome[c] # "none"
    /\ book[c] > 0 => outcome[c] = "filled" /\ Opens(c)
    /\ outcome[c] = "filled" /\ ActionOf(c) = "close" =>
         \E x \in Emptied : Opens(x) /\ KeyOfId(x) = KeyOfId(c)

Linked == References(mem, file, rec, todo, chan, OpenRefs(Answered))
Judged == Verdicts(pc, rec, Answered, Emptied)
Kept(s) == \A c \in CommandId : book[c] > 0 => Safe(s, c)

Ground == AgentLedger /\ ShelvedInv /\ ReachInv

KeepInv ==
    /\ Ground
    /\ WithinInv(Answered)
    /\ \A c \in CommandId : Told(c)
    /\ Linked /\ Judged
    /\ Kept(mem) /\ Kept(file)

LEMMA KeepStart ==
    ASSUME Init
    PROVE  KeepInv
<1>1. RuntimeInit /\ AgentLedger /\ ShelvedInv /\ ReachInv
  BY TypeInit, LedgerStart, ShelvedStart, ReachStart DEF Init, AgentLedger
<1>2. PICK S : S = Answered
  OBVIOUS
<1>3. WithinInv(Answered)
  BY <1>1, <1>2, WithinStart
<1>4. \A c \in CommandId : outcome[c] = "none" /\ book[c] = 0 /\ c \notin settled
  BY DEF Init, RuntimeInit
<1>5. Judged
  BY <1>1 DEF RuntimeInit, FreshTasks, Judged, Verdicts, Verdict, NoRecord
<1>6. PICK P : P = OpenRefs(Answered)
  OBVIOUS
<1>7. Linked
  BY <1>1, <1>6, ReferencesStart DEF Linked
<1>8. QED
  BY <1>1, <1>3, <1>4, <1>5, <1>7 DEF KeepInv, Ground, Told, Kept

(* The head of a queue: the engine built it, it names a position that was   *)
(* opened, and until it is executed it is tracked, in the journal too.      *)
LEMMA HeadFacts ==
    ASSUME KeepInv, NEW s \in Session, chan[s].queue # <<>>
    PROVE  LET d == Head(chan[s].queue)
           IN  /\ d \in CommandType /\ d.id \in CommandId
               /\ SoundCommand(d) /\ Refers(d, OpenRefs(Answered))
               /\ outcome[d.id] = "none" => Tracked(mem, d.id) /\ Tracked(file, d.id)
<1> DEFINE q == chan[s].queue
<1>1. q \in Seq(CommandType)
  BY DEF KeepInv, Ground, AgentLedger, TypeInv, RuntimeTypeInv, RuntimeTypeOK
<1>2. \A i \in DOMAIN q : /\ Refers(q[i], OpenRefs(Answered))
                          /\ Within(Answered, q[i].id)
  BY DEF KeepInv, Linked, References, Mentions, Among, InQueue, Referring, WithinInv
<1>3. SoundCommand(Head(q)) /\ Issued(Head(q).id)
  BY TakenCarried, TakenIssued DEF KeepInv, Ground, Carried, AgentLedger
<1> HIDE DEF q
<1>4. q # <<>>
  BY DEF q
<1>5. 1 \in DOMAIN q /\ Head(q) = q[1] /\ Head(q) \in CommandType
  BY <1>1, <1>4, SMT
<1>6. PICK d \in CommandType : d = Head(q)
  BY <1>5
<1>7. d.id \in CommandId
  BY SMT DEF CommandType
<1>8. ASSUME outcome[d.id] = "none" PROVE Tracked(mem, d.id) /\ Tracked(file, d.id)
  <2>1. d.id \notin Answered /\ d.id \notin settled
    BY <1>7, <1>8 DEF Answered, KeepInv, Told
  <2>2. Tracked(mem, d.id)
    BY <1>2, <1>5, <1>6, <2>1 DEF Within
  <2>3. file \in ReplayType /\ StageIn(file, settled, d.id) \in {"issued", "done"}
    BY <1>3, <1>6, <1>7, StageIsStageIn, Types
       DEF Issued, KeepInv, Ground, AgentLedger, LedgerInv, KeyedInv
  <2>4. StateOf(file, d.id) \in {"dispatched", "unknown"}
    BY <1>7, <2>1, <2>3, StageValues
  <2>5. QED
    BY <2>2, <2>4 DEF Tracked
<1>9. Refers(d, OpenRefs(Answered)) /\ SoundCommand(d)
  BY <1>2, <1>3, <1>5, <1>6
<1>10. QED
  BY <1>6, <1>7, <1>8, <1>9 DEF q

(* What the terminals make of the commands changes by one command at a      *)
(* time, the head of a queue; nothing the daemon goes by changes with it.   *)
Executing(d, result) ==
    /\ outcome[d.id] = "none"
    /\ Execute(d, result)
    /\ UNCHANGED <<mem, file, pc, rec, settled>>

LEMMA OutcomesMove ==
    ASSUME [Next]_vars
    PROVE  \/ UNCHANGED <<outcome, book>>
           \/ \E s \in Session, result \in {"filled", "rejected"} :
                chan[s].queue # <<>> /\ Executing(Head(chan[s].queue), result)
<1>1. ASSUME NEW s \in Session, Deliver(s)
      PROVE  \/ UNCHANGED <<outcome, book>>
             \/ \E result \in {"filled", "rejected"} :
                  chan[s].queue # <<>> /\ Executing(Head(chan[s].queue), result)
  BY <1>1 DEF Deliver, Executing, taskVars
<1>2. QED
  BY <1>1 DEF Next, Connect, TaskStep, JournalError, EndOfStream, ReceiveAck, ReceiveStrayAck,
              ReceiveEvent, WriterStops, PeerLeaves, Crash, vars, worldVars

LEMMA ExecuteBook ==
    ASSUME TypeOK, NEW d \in CommandType, NEW result \in {"filled", "rejected"},
           Execute(d, result), NEW c \in CommandId
    PROVE  /\ outcome'[c] = IF c = d.id THEN result ELSE outcome[c]
           /\ book[c] \in Nat /\ book'[c] \in Nat
           /\ \/ book'[c] = book[c]
              \/ result = "filled" /\ d.action = "open" /\ c = d.id
              \/ result = "filled" /\ d.action # "open" /\ c = d.position /\ book[c] > 0
           /\ result = "filled" /\ d.action = "close" /\ c = d.position => book'[c] = 0
<1>1. /\ outcome \in [CommandId -> {"none", "filled", "rejected"}]
      /\ book \in [CommandId -> Nat] /\ book' \in [CommandId -> Nat]
      /\ d.id \in CommandId /\ d.action \in Action
  BY ExecuteTyped, SMT DEF TypeOK, CommandType
<1>2. outcome'[c] = IF c = d.id THEN result ELSE outcome[c]
  BY <1>1 DEF Execute
<1>3. CASE result = "rejected" \/ d.action = "modify"
  BY <1>1, <1>2, <1>3 DEF Execute
<1>4. CASE result = "filled" /\ d.action = "open"
  <2>1. book' = [book EXCEPT ![d.id] = d.volume]
    BY <1>4 DEF Execute
  <2>2. QED
    BY <1>1, <1>2, <1>4, <2>1
<1>5. CASE result = "filled" /\ d.action = "reduce"
  <2>1. /\ book' = [book EXCEPT ![d.position] = NotNegative(book[d.position] - d.volume)]
        /\ book[d.position] > 0
    BY <1>5 DEF Execute
  <2>2. QED
    BY <1>1, <1>2, <1>5, <2>1
<1>6. CASE result = "filled" /\ d.action = "close"
  <2>1. book' = [book EXCEPT ![d.position] = 0] /\ book[d.position] > 0
    BY <1>6 DEF Execute
  <2>2. QED
    BY <1>1, <1>2, <1>6, <2>1
<1>7. QED
  BY <1>1, <1>3, <1>4, <1>5, <1>6 DEF Action

(* Answered and Emptied only grow: a terminal executes a command once.      *)
LEMMA BookStep ==
    ASSUME IdsTell, KeepInv, [Next]_vars, NEW c \in CommandId
    PROVE  /\ book[c] \in Nat /\ book'[c] \in Nat
           /\ c \in Answered => outcome'[c] = outcome[c]
           /\ c \in Emptied => c \in Emptied'
           /\ book'[c] > 0 =>
                \/ book[c] > 0
                \/ /\ outcome'[c] = "filled" /\ Opens(c) /\ UNCHANGED <<mem, file>>
                   /\ Tracked(mem, c) /\ Tracked(file, c)
<1>1. TypeOK /\ book \in [CommandId -> Nat]
  BY DEF KeepInv, Ground, AgentLedger, TypeInv, TypeOK
<1>2. CASE UNCHANGED <<outcome, book>>
  BY <1>1, <1>2 DEF Emptied
<1>3. ASSUME NEW s \in Session, NEW result \in {"filled", "rejected"}, chan[s].queue # <<>>,
             Executing(Head(chan[s].queue), result)
      PROVE  /\ book[c] \in Nat /\ book'[c] \in Nat
             /\ c \in Answered => outcome'[c] = outcome[c]
             /\ c \in Emptied => c \in Emptied'
             /\ book'[c] > 0 =>
                  \/ book[c] > 0
                  \/ /\ outcome'[c] = "filled" /\ Opens(c) /\ UNCHANGED <<mem, file>>
                     /\ Tracked(mem, c) /\ Tracked(file, c)
  <2>1. PICK d : d = Head(chan[s].queue)
    OBVIOUS
  <2>2. /\ d \in CommandType /\ d.id \in CommandId /\ SoundCommand(d)
        /\ outcome[d.id] = "none" => Tracked(mem, d.id) /\ Tracked(file, d.id)
    BY <1>3, <2>1, HeadFacts
  <2>3. outcome[d.id] = "none" /\ Execute(d, result) /\ UNCHANGED <<mem, file>>
    BY <1>3, <2>1 DEF Executing
  <2>4. /\ outcome'[c] = IF c = d.id THEN result ELSE outcome[c]
        /\ book[c] \in Nat /\ book'[c] \in Nat
        /\ \/ book'[c] = book[c]
           \/ result = "filled" /\ d.action = "open" /\ c = d.id
           \/ result = "filled" /\ d.action # "open" /\ c = d.position /\ book[c] > 0
    BY <1>1, <2>2, <2>3, ExecuteBook
  <2>5. d.action = "open" => Opens(d.id)
    BY <2>2, IdTells
  <2>6. c \in Emptied => c \in Emptied'
    BY <2>3, <2>4, SMT DEF Emptied
  <2>7. book'[c] > 0 /\ ~(book[c] > 0) =>
          c = d.id /\ outcome'[c] = "filled" /\ d.action = "open"
    BY <2>4, SMT
  <2>8. QED
    BY <2>2, <2>3, <2>4, <2>5, <2>6, <2>7 DEF Answered
<1>4. QED
  BY <1>2, <1>3, OutcomesMove

LEMMA SetsGrow ==
    ASSUME IdsTell, KeepInv, [Next]_vars
    PROVE  Answered \subseteq Answered' /\ Emptied \subseteq Emptied'
BY BookStep DEF Answered, Emptied

(* What the terminals acknowledge fits what they executed.                  *)
LEMMA ExecutedFits ==
    ASSUME IdsTell, KeepInv, NEW ack \in Executed
    PROVE  ack \in AckType /\ Fits(ack, Answered, Emptied)
<1> DEFINE c == mem.commands[ack.id].command
<1>1. ack \in AckType /\ ack.id \in CommandId /\ ack.id \in Answered
  BY SMT DEF Executed, AckType, Answered
<1> SUFFICES ASSUME Tracked(mem, ack.id), ack.status # "unknown"
             PROVE  /\ ack.status \in Success /\ c.action = "close" =>
                         \E x \in CommandId :
                            Opens(x) /\ KeyOfId(x) = KeyOf(c.source, c.order, c.target)
                              /\ x \in Emptied
                    /\ c.action = "open" =>
                         /\ ack.status \notin Success => ack.id \in Emptied
                         /\ ack.status \in Success => ack.position \in {NoPosition, ack.id}
  BY <1>1 DEF Fits
<1>2. MirrorInv /\ KeyedInv
  BY DEF KeepInv, Ground, ReachInv, MirrorInv, OrderlyInv
<1>3. c.id = ack.id /\ SoundCommand(c)
  BY <1>1, <1>2 DEF MirrorInv, SoundState, KeyedInv, WellKeyed
<1>4. c.action = ActionOf(ack.id) /\ KeyOf(c.source, c.order, c.target) = KeyOfId(ack.id)
  BY <1>3, IdTells
<1> HIDE DEF c
<1>5. Told(ack.id) /\ book[ack.id] \in Nat
  BY <1>1 DEF KeepInv, Ground, AgentLedger, TypeInv, TypeOK
<1>6. ASSUME ack.status \in Success, c.action = "close"
      PROVE  \E x \in CommandId :
               Opens(x) /\ KeyOfId(x) = KeyOf(c.source, c.order, c.target) /\ x \in Emptied
  BY <1>4, <1>5, <1>6 DEF Executed, Told, Emptied
<1>7. ASSUME ack.status \notin Success PROVE ack.id \in Emptied
  <2>1. ack.status = "rejected"
    BY <1>1, <1>7, SMT DEF AckType, AckStatus, Success
  <2>2. outcome[ack.id] = "rejected"
    BY <2>1 DEF Executed
  <2>3. book[ack.id] = 0
    BY <1>5, <2>2, SMT DEF Told
  <2>4. QED
    BY <1>1, <2>3 DEF Emptied, Answered
<1>8. QED
  BY <1>6, <1>7 DEF Executed

LEMMA LinkedStep ==
    ASSUME IdsTell, KeepInv, [Next]_vars
    PROVE  Linked' /\ Judged'
<1>1. PICK A \in SUBSET CommandId : A = Answered
  BY DEF Answered
<1>2. PICK E : E = Emptied
  OBVIOUS
<1>3. PICK acks \in SUBSET AckType : acks = Executed
  BY DEF Executed
<1>4. RuntimeStep(acks) /\ \A ack \in acks : Fits(ack, A, E)
  BY <1>1, <1>2, <1>3, StepMapped, ExecutedFits
<1>5. /\ References(mem', file', rec', todo', chan', OpenRefs(A))
      /\ Verdicts(pc', rec', A, E)
  BY <1>1, <1>2, <1>4, FittingStep DEF KeepInv, Ground, Linked, Judged
<1>6. A \subseteq Answered' /\ E \subseteq Emptied'
  BY <1>1, <1>2, SetsGrow
<1>7. PICK B \in SUBSET CommandId : B = Answered'
  BY DEF Answered
<1>8. PICK F : F = Emptied'
  OBVIOUS
<1>9. OpenRefs(A) \subseteq OpenRefs(B)
  BY <1>6, <1>7 DEF OpenRefs
<1>10. References(mem', file', rec', todo', chan', OpenRefs(B))
  BY <1>5, <1>9, ReferencesMore
<1>11. Verdicts(pc', rec', B, F)
  BY <1>5, <1>6, <1>7, <1>8, VerdictsMore
<1>12. QED
  BY <1>7, <1>8, <1>10, <1>11 DEF Linked, Judged

LEMMA WithinAnswered ==
    ASSUME IdsTell, KeepInv, [Next]_vars
    PROVE  WithinInv(Answered)'
<1>1. PICK A : A = Answered
  OBVIOUS
<1>2. MirrorInv /\ RuntimeStep(AckType)
  BY AnyStep DEF KeepInv, Ground, ReachInv
<1>3. \A k \in Task : IsFinalAck(rec[k]) => rec[k].id \in A
  BY <1>1 DEF KeepInv, Judged, Verdicts, Verdict, IsFinalAck
<1>4. WithinInv(A)'
  BY <1>1, <1>2, <1>3, WithinStep DEF KeepInv
<1>5. A \subseteq Answered'
  BY <1>1, SetsGrow
<1>6. QED
  BY <1>4, <1>5 DEF WithinInv, WithinTask, Within

LEMMA ToldStep ==
    ASSUME IdsTell, KeepInv, [Next]_vars, NEW c \in CommandId
    PROVE  Told(c)'
<1>1. TypeOK /\ Told(c)
  BY DEF KeepInv, Ground, AgentLedger, TypeInv
<1>2. /\ book[c] \in Nat /\ book'[c] \in Nat
      /\ c \in Answered => outcome'[c] = outcome[c]
      /\ book'[c] > 0 => book[c] > 0 \/ (outcome'[c] = "filled" /\ Opens(c))
  BY BookStep
<1>3. c \in settled' => outcome'[c] # "none"
  <2>1. ASSUME c \in settled' PROVE c \in settled \/ c \in Answered
    <3>1. RuntimeStep(AckType) /\ \A k \in Task : IsFinalAck(rec[k]) => rec[k].id \in Answered
      BY AnyStep DEF KeepInv, Judged, Verdicts, Verdict, IsFinalAck
    <3>2. QED
      BY <2>1, <3>1, SettledMoves
  <2>2. c \in settled => c \in Answered
    BY <1>1 DEF Told, Answered
  <2>3. QED
    BY <1>2, <2>1, <2>2 DEF Answered
<1>4. book'[c] > 0 => outcome'[c] = "filled" /\ Opens(c)
  BY <1>1, <1>2 DEF Told, Answered
<1>5. CASE outcome'[c] = outcome[c]
  <2>1. outcome'[c] = "filled" /\ ActionOf(c) = "close" =>
          \E x \in Emptied' : Opens(x) /\ KeyOfId(x) = KeyOfId(c)
    BY <1>1, <1>5, SetsGrow DEF Told
  <2>2. QED
    BY <1>1, <1>3, <1>4, <1>5, <2>1 DEF Told
<1>6. CASE outcome'[c] # outcome[c]
  <2>1. PICK s \in Session, result \in {"filled", "rejected"} :
          chan[s].queue # <<>> /\ Executing(Head(chan[s].queue), result)
    BY <1>6, OutcomesMove
  <2>2. PICK d : d = Head(chan[s].queue)
    OBVIOUS
  <2>3. /\ d \in CommandType /\ d.id \in CommandId /\ SoundCommand(d)
        /\ Refers(d, OpenRefs(Answered)) /\ Execute(d, result)
    BY <2>1, <2>2, HeadFacts DEF Executing
  <2>4. c = d.id /\ outcome'[c] = result
    BY <1>1, <1>6, <2>3, ExecuteBook
  <2>5. Built(c)
    BY <2>3, <2>4 DEF Built
  <2>6. ASSUME outcome'[c] = "filled", ActionOf(c) = "close"
        PROVE  \E x \in Emptied' : Opens(x) /\ KeyOfId(x) = KeyOfId(c)
    <3>1. d.action = "close" /\ KeyOf(d.source, d.order, d.target) = KeyOfId(c)
      BY <2>3, <2>4, <2>6, IdTells
    <3>2. PICK x : x = d.position
      OBVIOUS
    <3>3. x \in CommandId /\ Opens(x) /\ KeyOfId(x) = KeyOfId(c) /\ x \in Answered
      BY <2>3, <3>1, <3>2 DEF Refers, OpenRefs
    <3>4. book'[x] = 0
      BY <1>1, <2>3, <2>4, <2>6, <3>1, <3>2, <3>3, ExecuteBook
    <3>5. x \in Answered'
      BY <3>3, SetsGrow
    <3>6. x \in Emptied'
      BY <3>3, <3>4, <3>5 DEF Emptied, Answered
    <3>7. QED
      BY <3>3, <3>6
  <2>7. QED
    BY <1>3, <1>4, <2>5, <2>6 DEF Told
<1>7. QED
  BY <1>5, <1>6

(* No two commands open a position under one key.                           *)
LEMMA OpenedOnce ==
    ASSUME IdsTell, OneOpening, NEW x, NEW y, Built(x), Built(y), Opens(x), Opens(y),
           KeyOfId(x) = KeyOfId(y)
    PROVE  x = y
<1>1. PICK e \in Event, i \in DOMAIN Rules :
        /\ x = <<e.id, Rules[i].id, Rules[i].target>>
        /\ e.action = "open" /\ Rules[i].source = e.source /\ Copies(Rules[i], e)
        /\ KeyOfId(x) = KeyOf(e.source, e.order, Rules[i].target)
  BY BuiltId
<1>2. PICK f \in Event, j \in DOMAIN Rules :
        /\ y = <<f.id, Rules[j].id, Rules[j].target>>
        /\ f.action = "open" /\ Rules[j].source = f.source /\ Copies(Rules[j], f)
        /\ KeyOfId(y) = KeyOf(f.source, f.order, Rules[j].target)
  BY BuiltId
<1>3. e.source = f.source /\ e.order = f.order /\ Rules[i].target = Rules[j].target
  BY <1>1, <1>2 DEF KeyOf
<1>4. e.id = f.id /\ i = j
  BY <1>1, <1>2, <1>3 DEF OneOpening
<1>5. QED
  BY <1>1, <1>2, <1>4

LEMMA KeptStep ==
    ASSUME IdsTell, OneOpening, KeepInv, [Next]_vars
    PROVE  Kept(mem)' /\ Kept(file)'
<1>1. /\ RuntimeStep(AckType) /\ RuntimeTypeInv
      /\ mem \in ReplayType /\ file \in ReplayType
  <2>1. RuntimeStep(AckType) /\ RuntimeTypeInv /\ KeyedInv
    BY AnyStep DEF KeepInv, Ground, AgentLedger, TypeInv, LedgerInv
  <2>2. QED
    BY <2>1, Types
<1> SUFFICES ASSUME NEW c \in CommandId, book'[c] > 0 PROVE Safe(mem', c) /\ Safe(file', c)
  BY DEF Kept
<1>2. /\ book[c] \in Nat
      /\ \/ book[c] > 0
         \/ UNCHANGED <<mem, file>> /\ Tracked(mem, c) /\ Tracked(file, c)
  BY BookStep
<1>3. CASE ~(book[c] > 0)
  BY <1>2, <1>3 DEF Safe
<1>4. CASE book[c] > 0
  <2>1. Safe(mem, c) /\ Safe(file, c)
    BY <1>4 DEF KeepInv, Kept
  <2>2. c \notin Emptied /\ Opens(c) /\ Built(c)
    BY <1>4 DEF Emptied, KeepInv, Told
  <2>3. PICK A \in SUBSET CommandId : A = Answered
    BY DEF Answered
  <2>4. PICK E \in SUBSET CommandId : E = Emptied
    BY DEF Emptied
  <2>5. \A x \in A \cup E : x \in CommandId /\ Opens(x) /\ KeyOfId(x) = KeyOfId(c) => x = c
    <3>1. \A x \in A \cup E : x \in CommandId /\ Built(x)
      BY <2>3, <2>4 DEF Answered, Emptied, KeepInv, Told
    <3>2. QED
      BY <2>2, <3>1, OpenedOnce
  <2>6. ASSUME NEW k \in Task, rec[k] \in RecordType
        PROVE  Safe(Apply(mem, rec[k]), c) /\ Safe(Apply(file, rec[k]), c)
    <3>1. Verdict(rec[k], A, E) /\ BindsIn(rec[k], OpenRefs(A))
      BY <2>3, <2>4 DEF KeepInv, Judged, Verdicts, Linked, References
    <3>2. QED
      BY <1>1, <2>1, <2>2, <2>4, <2>5, <2>6, <3>1, ApplySafe
  <2>7. Safe(Finalize(file), c)
    BY <1>1, <2>1, FinalizeSafe
  <2>8. QED
    BY <1>1, <2>1, <2>6, <2>7, StatesMove
<1>5. QED
  BY <1>3, <1>4

LEMMA KeepStep ==
    ASSUME IdsTell, OneOpening, KeepInv, [Next]_vars
    PROVE  KeepInv'
<1>1. AgentLedger'
  BY AgentLedgerStep DEF KeepInv, Ground
<1>2. ShelvedInv' /\ ReachInv'
  BY AnyStep, ShelvedStep, ReachStep DEF KeepInv, Ground
<1>3. QED
  BY <1>1, <1>2, WithinAnswered, ToldStep, LinkedStep, KeptStep DEF KeepInv, Ground

(* README.md:108, "durable source-to-follower position bindings": however   *)
(* the connections interleave, whatever is acknowledged late, twice or as   *)
(* unknown, whichever append fails and wherever a restart falls, a position *)
(* a follower holds is bound to its source position, or the command that    *)
(* opened it is still tracked.                                              *)
THEOREM PositionsKept ==
    ASSUME IdsTell, OneOpening
    PROVE  Spec => []NeverForgotten
<1>1. Init => KeepInv
  BY KeepStart
<1>2. KeepInv /\ [Next]_vars => KeepInv'
  BY KeepStep
<1>3. KeepInv => NeverForgotten
  <2> SUFFICES ASSUME KeepInv, NEW c \in CommandId, book[c] > 0, ~Tracked(mem, c)
               PROVE  \E key \in Key : mem.mirrors[key].position = c
    BY DEF NeverForgotten
  <2>1. mem.mirrors[KeyOfId(c)].position = c
    BY DEF KeepInv, Kept, Safe
  <2>2. KeyOfId(c) \in Key
    BY KeyOfIdTyped
  <2>3. QED
    BY <2>1, <2>2
<1>4. QED
  BY <1>1, <1>2, <1>3, PTL DEF Spec

-----------------------------------------------------------------------------
(* What handle_ack writes for an acknowledgement of c, when the binding of  *)
(* its position is b.  With one task to an account, what a task is about to *)
(* append or to apply is still what it would draw up now.                   *)
Result(c, ack, b) ==
    IF IsReduced(c, ack) /\ b # NoBinding
    THEN AckApplied(c.id, ack.status, [kind |-> "upsert", binding |-> Reduced(b, c)])
    ELSE AckRecord(c, ack)

Drawn(k, acks) ==
    LET c == mem.commands[rec[k].id].command
    IN  rec[k].kind = "AckApplied" =>
            /\ Tracked(mem, rec[k].id) /\ TargetOf(rec[k].id) = Owner[k]
            /\ \E ack \in acks :
                 /\ ack.id = rec[k].id
                 /\ IF pc[k] = "mirror"
                    THEN IsReduced(c, ack) /\ todo[k] = {c} /\ rec[k] = AckRecord(c, ack)
                    ELSE rec[k] = Result(c, ack, mem.mirrors[KeyOf(c.source, c.order, c.target)])

LEMMA AckDrawn ==
    ASSUME MirrorInv, NEW k \in Task, NEW acks \in SUBSET AckType, NEW ack \in acks,
           HandleAck(k, ack)
    PROVE  Drawn(k, acks)'
<1>1. KeyedInv /\ ack \in AckType
  BY DEF MirrorInv, OrderlyInv
<1>2. PICK c : c = mem.commands[ack.id].command
  OBVIOUS
<1>3. ack.id \in CommandId /\ Tracked(mem, ack.id) /\ c.target = Owner[k]
  BY <1>1, <1>2 DEF HandleAck, AckType
<1>4. c.id = ack.id /\ c \in CommandType /\ SoundCommand(c)
  BY <1>1, <1>2, <1>3, Types, StoredTyped DEF KeyedInv, WellKeyed, MirrorInv, SoundState
<1>5. TargetOf(ack.id) = Owner[k]
  BY <1>3, <1>4, BuiltFacts
<1>6. /\ mem' = mem /\ rec'[k] = AckRecord(c, ack)
      /\ IF IsReduced(c, ack) THEN pc'[k] = "mirror" /\ todo'[k] = {c} ELSE pc'[k] = "append"
  BY <1>1, <1>2, Types DEF HandleAck, Journal, Goto
<1>7. rec'[k].id = ack.id
  BY <1>4, <1>6, AckRecordShape
<1>8. mem'.commands[rec'[k].id].command = c /\ Tracked(mem', rec'[k].id)
  BY <1>2, <1>3, <1>6, <1>7
<1>9. ~IsReduced(c, ack) => \A b : rec'[k] = Result(c, ack, b)
  BY <1>6 DEF Result
<1>10. QED
  BY <1>5, <1>6, <1>7, <1>8, <1>9 DEF Drawn

LEMMA ReducedDrawn ==
    ASSUME MirrorInv, NEW k \in Task, NEW acks, MutateReduced(k), Drawn(k, acks)
    PROVE  Drawn(k, acks)'
<1>1. KeyedInv
  BY DEF MirrorInv, OrderlyInv
<1>2. PICK i : i = rec[k].id
  OBVIOUS
<1>3. PICK c : c = mem.commands[i].command
  OBVIOUS
<1> DEFINE b == mem.mirrors[KeyOf(c.source, c.order, c.target)]
<1>4. pc[k] = "mirror" /\ rec[k].kind = "AckApplied"
  BY <1>1 DEF MutateReduced, KeyedInv, RuntimeTypeInv, Standing
<1>5. PICK ack \in acks :
        /\ ack.id = i /\ IsReduced(c, ack) /\ todo[k] = {c} /\ rec[k] = AckRecord(c, ack)
  BY <1>2, <1>3, <1>4 DEF Drawn
<1>6. Tracked(mem, i) /\ TargetOf(i) = Owner[k]
  BY <1>2, <1>4 DEF Drawn
<1>7. rec[k] = AckApplied(c.id, ack.status, NoMutation)
  BY <1>5 DEF IsReduced, AckRecord
<1>8. mem' = mem /\ pc'[k] = "append"
      /\ rec'[k] = IF b = NoBinding THEN rec[k]
                   ELSE AckApplied(c.id, rec[k].status,
                                   [kind |-> "upsert", binding |-> Reduced(b, c)])
  BY <1>1, <1>5, Types DEF MutateReduced, Journal, Goto
<1> HIDE DEF b
<1>9. rec[k].status = ack.status /\ rec[k].id = c.id
  BY <1>7 DEF AckApplied
<1>10. rec'[k] = Result(c, ack, b) /\ rec'[k].id = i
  BY <1>2, <1>5, <1>8, <1>9 DEF Result, AckApplied
<1>11. mem'.commands[rec'[k].id].command = c
  BY <1>3, <1>8, <1>10
<1>12. QED
  BY <1>5, <1>6, <1>8, <1>10, <1>11 DEF Drawn, b, Tracked, StateOf

(* What another task applies is about other commands and bindings.          *)
LEMMA OthersDrawn ==
    ASSUME OneTask, ShelvedInv, NEW k \in Task, NEW j \in Task \ {k}, Unmoved(j), NEW acks,
           Drawn(j, acks), Drawn(k, acks), mem' = mem \/ ApplyRecord(k)
    PROVE  Drawn(j, acks)'
<1>1. MirrorInv /\ KeyedInv /\ mem \in ReplayType
  BY Types DEF ShelvedInv, MirrorInv, OrderlyInv
<1>2. PICK i : i = rec[j].id
  OBVIOUS
<1>3. SUFFICES ASSUME rec[j].kind = "AckApplied"
               PROVE  Drawn(j, acks)'
  BY DEF Drawn, Unmoved
<1>4. PICK c : c = mem.commands[i].command
  OBVIOUS
<1>5. Tracked(mem, i) /\ TargetOf(i) = Owner[j]
  BY <1>2, <1>3 DEF Drawn
<1>6. rec[j] \in RecordType
  BY <1>1, <1>3, Types DEF KeyedInv, RuntimeTypeInv, RuntimeTypeOK, NoRecord
<1>7. i \in CommandId
  BY <1>2, <1>3, <1>6, RecordShape DEF IsPlanned
<1>8. c \in CommandType /\ SoundCommand(c) /\ c.id = i
  BY <1>1, <1>4, <1>5, <1>7, StoredTyped DEF MirrorInv, SoundState, KeyedInv, WellKeyed
<1>9. PICK key : key = KeyOf(c.source, c.order, c.target)
  OBVIOUS
<1>10. key \in Key /\ key[3] = Owner[j]
  BY <1>5, <1>8, <1>9, BuiltFacts, Identifiers, SMT DEF KeyOf, CommandType, Key
<1>11. /\ Tracked(mem', i) /\ mem'.commands[i].command = c
       /\ mem'.mirrors[key] = mem.mirrors[key]
  <2>1. CASE mem' = mem
    BY <1>4, <1>5, <2>1
  <2>2. CASE ApplyRecord(k)
    <3>1. mem' = Apply(mem, rec[k]) /\ rec[k] \in RecordType
      BY <1>1, <2>2 DEF ApplyRecord, KeyedInv, RuntimeTypeInv, Standing
    <3>2. Owner[k] # Owner[j]
      BY DEF OneTask
    <3>3. rec[k].kind = "AckApplied" => rec[k].id # i
      BY <1>5, <3>2 DEF Drawn
    <3>4. mem'.mirrors[key] = mem.mirrors[key]
      BY <1>1, <1>10, <3>1, <3>2, ApplyMirror DEF ShelvedInv
    <3>5. CASE IsPlanned(rec[k])
      BY <1>1, <1>4, <1>5, <1>7, <3>1, <3>4, <3>5, PlannedEntry DEF Tracked, StateOf
    <3>6. CASE ~IsPlanned(rec[k])
      <4>1. ~(rec[k].id = i /\ IsFinalAck(rec[k]))
        BY <3>3 DEF IsFinalAck
      <4>2. QED
        BY <1>1, <1>4, <1>5, <1>7, <3>1, <3>4, <3>6, <4>1, OtherEntry DEF Tracked, StateOf
    <3>7. QED
      BY <3>5, <3>6
  <2>3. QED
    BY <2>1, <2>2
<1>12. pc'[j] = pc[j] /\ rec'[j] = rec[j] /\ todo'[j] = todo[j]
  BY DEF Unmoved
<1>13. QED
  BY <1>2, <1>3, <1>4, <1>5, <1>9, <1>11, <1>12 DEF Drawn

(* A step that neither reads an acknowledgement nor reads the binding of    *)
(* one leaves the record of one alone or is done with it.                   *)
LEMMA OwnDrawn ==
    ASSUME MirrorInv, NEW k \in Task, OwnStep(k), ~MutateReduced(k), NEW acks, Drawn(k, acks)
    PROVE  Drawn(k, acks)'
<1>1. KeyedInv /\ OrderlyInv /\ Orderly(k) /\ Standing(k)
  BY DEF MirrorInv, OrderlyInv, KeyedInv, RuntimeTypeInv
<1>2. SUFFICES ASSUME rec'[k].kind = "AckApplied"
               PROVE  Drawn(k, acks)'
  BY DEF Drawn
<1>3. rec'[k] = rec[k] /\ pc'[k] # "mirror"
  BY <1>1, <1>2, RecordMoves
<1>4. rec[k] # NoRecord /\ rec[k].kind = "AckApplied"
  BY <1>2, <1>3 DEF NoRecord
<1>5. pc[k] \in {"append", "apply", "mirror"}
  BY <1>1, <1>4 DEF Orderly, Standing
<1>6. AppendRecord(k)
  <2>1. CASE ApplyRecord(k)
    <3>1. rec'[k] = NoRecord \/ ret[k] = "send"
      BY <1>1, <2>1, Types DEF ApplyRecord
    <3>2. QED
      BY <1>1, <1>4, <1>3, <2>1, <3>1 DEF ApplyRecord, Standing
  <2>2. ASSUME NEW label \in Exit, AppendFails(k, label) PROVE FALSE
    <3>1. rec'[k] = NoRecord
      BY <1>1, <2>2, Types DEF AppendFails, Fail
    <3>2. QED
      BY <1>3, <1>4, <3>1
  <2>3. QED
    BY <1>5, <2>1, <2>2
       DEF OwnStep, HandlerStep, InsertSession, SnapshotQueued, RouteEvent, RoutePanics,
           DispatchNext, Send, SendFails, Unregister, SnapshotDispatched, MarkOrphan,
           DrawSessionId, Leaves, Ends, HandleEvent
<1>7. mem' = mem /\ pc[k] = "append" /\ pc'[k] # "mirror"
  BY <1>3, <1>6 DEF AppendRecord
<1>8. QED
  BY <1>3, <1>7 DEF Drawn, Tracked, StateOf

LEMMA DrawnStep ==
    ASSUME OneTask, ShelvedInv, NEW acks \in SUBSET AckType, RuntimeStep(acks),
           \A k \in Task : Drawn(k, acks)
    PROVE  \A k \in Task : Drawn(k, acks)'
<1>1. MirrorInv /\ KeyedInv /\ OrderlyInv /\ RuntimeTypeInv
  BY DEF ShelvedInv, MirrorInv, OrderlyInv, KeyedInv
<1>2. ASSUME NEW k \in Task, TaskStepOf(k), OwnStep(k) \/ \E ack \in acks : HandleAck(k, ack)
      PROVE  \A j \in Task : Drawn(j, acks)'
  <2>1. Drawn(k, acks)'
    BY <1>1, <1>2, AckDrawn, ReducedDrawn, OwnDrawn
  <2>2. mem' = mem \/ ApplyRecord(k)
    BY <1>1, <1>2, QuietTask DEF Writes, AppendRecord, AppendFails
  <2>3. ASSUME NEW j \in Task \ {k} PROVE Drawn(j, acks)'
    <3>1. Unmoved(j)
      BY <1>1, <1>2, OthersStay
    <3>2. QED
      BY <2>2, <2>3, <3>1, OthersDrawn
  <2>4. QED
    BY <2>1, <2>3
<1>3. CASE Restarts
  BY <1>3 DEF Restarts, FreshTasks, Drawn, NoRecord
<1>4. CASE UNCHANGED <<mem, taskVars>>
  BY <1>4 DEF taskVars, Drawn, Tracked, StateOf
<1>5. QED
  BY <1>2, <1>3, <1>4 DEF RuntimeStep, TaskStepOf, OwnStep, Takes, Closes, runtimeVars

-----------------------------------------------------------------------------
(* Of every command there is one version: it is built once, by a round of   *)
(* the loop over the routes, and copied from there.                         *)
OneRound(k) ==
    pc[k] = "route" => \A d \in todo[k] : \A i \in routes[k] : d.id # CommandIdOf(ev[k], Rules[i])

LEMMA EntersRoute ==
    ASSUME KeyedInv, NEW k \in Task, TaskStepOf(k), pc'[k] = "route"
    PROVE  RouteEvent(k) \/ \E e \in Event : HandleEvent(k, e)
<1>1. ret[k] \in {"idle", "dispatch", "send", "orphans"}
  BY DEF KeyedInv, RuntimeTypeInv, RuntimeTypeOK
<1>2. CASE InsertSession(k) \/ SnapshotQueued(k) \/ RoutePanics(k) \/ SnapshotDispatched(k)
           \/ Unregister(k) \/ MarkOrphan(k) \/ DrawSessionId(k) \/ Leaves(k)
  BY <1>2, Types DEF InsertSession, SnapshotQueued, RoutePanics, SnapshotDispatched, Unregister,
     MarkOrphan, DrawSessionId, Leaves, Journal, Loop, Goto, Fail
<1>3. CASE AppendRecord(k) \/ ApplyRecord(k) \/ DispatchNext(k) \/ Send(k) \/ SendFails(k)
           \/ MutateReduced(k)
  BY <1>1, <1>3, Types DEF AppendRecord, ApplyRecord, DispatchNext, Send, SendFails, MutateReduced,
     Journal, Loop, Goto
<1>4. CASE \E label \in Exit : AppendFails(k, label) \/ Ends(k, label)
  BY <1>4, Types DEF AppendFails, Ends, Fail, Goto, Exit
<1>5. CASE \E ack \in AckType : HandleAck(k, ack)
  BY <1>5, Types DEF HandleAck, Journal, Goto
<1>6. QED
  BY <1>2, <1>3, <1>4, <1>5 DEF TaskStepOf, HandlerStep

LEMMA RoundStep ==
    ASSUME MirrorInv, RuntimeStep(AckType), \A k \in Task : OneRound(k)
    PROVE  \A k \in Task : OneRound(k)'
<1>1. OrderlyInv /\ KeyedInv /\ RuntimeTypeInv
  BY DEF MirrorInv, OrderlyInv, KeyedInv
<1>2. ASSUME NEW k \in Task, TaskStepOf(k) PROVE \A j \in Task : OneRound(j)'
  <2>1. ASSUME NEW j \in Task \ {k} PROVE OneRound(j)'
    BY <1>1, <1>2, <2>1, OthersStay DEF Unmoved, OneRound
  <2>2. ASSUME NEW e \in Event, HandleEvent(k, e) PROVE OneRound(k)'
    <3>1. todo'[k] = {}
      BY <1>1, <2>2 DEF HandleEvent, OrderlyInv, Orderly, AtEase
    <3>2. QED
      BY <3>1 DEF OneRound
  <2>3. ASSUME RouteEvent(k) PROVE OneRound(k)'
    <3>1. PICK S : todo'[k] = todo[k] \cup S /\ \A d \in S : Drafts(k, d)
      BY <1>1, <2>3, RouteDrafts
    <3>2. ev' = ev /\ pc[k] = "route" /\ routes'[k] \subseteq routes[k]
      <4>1. routes \in [Task -> SUBSET DOMAIN Rules]
        BY <1>1 DEF RuntimeTypeInv, RuntimeTypeOK
      <4>2. QED
        BY <2>3, <4>1 DEF RouteEvent
    <3>3. ASSUME NEW d \in S, NEW i \in routes'[k] PROVE d.id # CommandIdOf(ev[k], Rules[i])
      <4>1. PICK j \in routes[k] :
              /\ j \in DOMAIN Rules /\ routes'[k] = routes[k] \ {j}
              /\ d.id = CommandIdOf(ev[k], Rules[j])
        BY <3>1, DraftFacts
      <4>2. i \in DOMAIN Rules /\ i # j
        BY <1>1, <3>2, <3>3, <4>1 DEF RuntimeTypeInv, RuntimeTypeOK
      <4>3. Rules[i].id # Rules[j].id
        BY <4>1, <4>2, RulesAssumption
      <4>4. QED
        BY <4>1, <4>3 DEF CommandIdOf
    <3>4. QED
      BY <3>1, <3>2, <3>3 DEF OneRound
  <2>4. OneRound(k)'
    BY <1>1, <1>2, <2>2, <2>3, EntersRoute DEF OneRound
  <2>5. QED
    BY <2>1, <2>4
<1>3. CASE Restarts
  BY <1>3 DEF Restarts, FreshTasks, OneRound
<1>4. CASE UNCHANGED taskVars
  BY <1>4 DEF taskVars, OneRound
<1>5. QED
  BY <1>1, <1>2, <1>3, <1>4, StepKinds

Sole(c, d) == {x \in CommandType : x.id = c => x = d}

LEMMA DraftsNew ==
    ASSUME OneTask, LevelInv, LedgerInv, faults = 0, NEW k \in Task, OneRound(k),
           NEW d, Drafts(k, d)
    PROVE  Among(mem, file, rec, todo, chan, Sole(d.id, d))
<1>1. /\ SeasonedInv /\ FinalInv /\ MirrorInv /\ OrderlyInv /\ KeyedInv /\ RuntimeTypeInv
      /\ Level /\ mem \in ReplayType /\ file \in ReplayType
  BY Types DEF LevelInv, SeasonedInv, FinalInv, MirrorInv, OrderlyInv, KeyedInv
<1>2. PICK c : c = d.id
  OBVIOUS
<1>3. d \in CommandType /\ SoundCommand(d) /\ c \in CommandId
  BY <1>1, <1>2, DraftFacts, SMT DEF CommandType
<1>4. PICK i \in routes[k] :
        /\ i \in DOMAIN Rules /\ c = CommandIdOf(ev[k], Rules[i])
        /\ d = BuiltCommand(Rules[i], ev[k],
                            mem.mirrors[KeyOf(ev[k].source, ev[k].order, Rules[i].target)])
  BY <1>1, <1>2, DraftFacts
<1>5. pc[k] = "route" /\ ev[k].source = Owner[k] /\ rec[k] = NoRecord
  BY <1>1 DEF Drafts, RouteEvent, OrderlyInv, Orderly
<1>6. SourceOf(c) = Owner[k] /\ EventOf(c) = ev[k].id
  BY <1>2, <1>3, <1>4, <1>5, SourceOfBuilt DEF BuiltCommand, CommandIdOf, EventOf
<1>7. ~Past(c)
  BY <1>1, <1>3, <1>5, <1>6 DEF FinalInv, Plans
<1>8. ~\E j \in Task : PlannedBy(j, c)
  <2>1. ASSUME NEW j \in Task, PlannedBy(j, c) PROVE FALSE
    <3>1. SourceOf(c) = Owner[j] /\ IsPlanned(rec[j])
      BY <1>1, <2>1, PlannedCommands DEF PlannedBy
    <3>2. j = k
      BY <1>6, <3>1 DEF OneTask
    <3>3. QED
      BY <1>5, <3>1, <3>2 DEF NoRecord, IsPlanned
  <2>2. QED
    BY <2>1
<1>9. ~Tracked(mem, c) /\ ~Tracked(file, c)
  BY <1>1, <1>3, <1>7, <1>8 DEF Past, Level, EntryLevel, Planning
<1>10. PICK Q : Q = Sole(c, d)
  OBVIOUS
<1>11. InState(mem, Q) /\ InState(file, Q)
  <2>1. WellKeyed(mem) /\ WellKeyed(file)
    BY <1>1 DEF KeyedInv
  <2>2. QED
    BY <1>1, <1>9, <1>10, <2>1, StoredTyped DEF InState, Sole, WellKeyed
<1>12. ASSUME NEW j \in Task PROVE InRecord(rec[j], Q)
  <2>1. ASSUME IsPlanned(rec[j]), NEW p \in rec[j].commands PROVE p \in Q
    <3>1. p.id # c
      BY <1>8, <2>1 DEF PlannedBy
    <3>2. p \in CommandType
      BY <1>1, <2>1, BuiltFacts DEF MirrorInv, SoundRecord, SoundCommands, IsPlanned
    <3>3. QED
      BY <1>10, <3>1, <3>2 DEF Sole
  <2>2. QED
    BY <2>1 DEF InRecord
<1>13. ASSUME NEW j \in Task PROVE todo[j] \subseteq Q
  <2> SUFFICES ASSUME NEW x \in todo[j], x.id = c PROVE FALSE
    BY <1>1, <1>10, Types DEF Sole
  <2>1. CASE pc[j] = "route"
    <3>1. x.source = Owner[j] /\ SoundCommand(x)
      BY <1>1, <2>1 DEF OrderlyInv, Orderly, MirrorInv, SoundCommands
    <3>2. j = k
      BY <1>6, <3>1, SourceOfBuilt DEF OneTask
    <3>3. QED
      BY <1>4, <2>1, <3>2 DEF OneRound
  <2>2. CASE IsPlanned(rec[j])
    BY <1>1, <1>8, <2>2 DEF OrderlyInv, Orderly, PlannedBy
  <2>3. CASE pc[j] # "route" /\ ~IsPlanned(rec[j])
    BY <1>1, <1>7, <2>3 DEF SeasonedInv, SeasonedTask, Seasoned, Past
  <2>4. QED
    BY <2>1, <2>2, <2>3
<1>14. ASSUME NEW s \in Session PROVE InQueue(chan[s].queue, Q)
  <2>1. chan[s].queue \in Seq(CommandType)
    BY <1>1 DEF RuntimeTypeInv, RuntimeTypeOK
  <2>2. ASSUME NEW n \in DOMAIN chan[s].queue, chan[s].queue[n].id = c PROVE FALSE
    <3>1. Issued(c)
      BY <2>2 DEF LedgerInv, QueuesIssued
    <3>2. StageIn(file, settled, c) \in {"issued", "done"}
      BY <1>3, <3>1, StageIsStageIn DEF Issued
    <3>3. c \in settled \/ Tracked(file, c)
      BY <1>1, <1>3, <3>2, StageValues DEF Tracked
    <3>4. QED
      BY <1>7, <1>9, <3>3 DEF Past
  <2>3. QED
    BY <1>10, <2>1, <2>2 DEF InQueue, Sole
<1>15. QED
  BY <1>2, <1>10, <1>11, <1>12, <1>13, <1>14 DEF Among

OneVersion == \A c \in CommandId : \E d : Among(mem, file, rec, todo, chan, Sole(c, d))

LEMMA VersionStep ==
    ASSUME OneTask, LevelInv, LedgerInv, faults = 0, \A k \in Task : OneRound(k), OneVersion,
           RuntimeStep(AckType)
    PROVE  OneVersion'
<1>1. MirrorInv
  BY DEF LevelInv, SeasonedInv, FinalInv
<1> SUFFICES ASSUME NEW c \in CommandId
             PROVE  \E d : Among(mem', file', rec', todo', chan', Sole(c, d))
  BY DEF OneVersion
<1>2. CASE \E k \in Task : \E d : Drafts(k, d) /\ d.id = c
  <2> PICK k \in Task : \E d : Drafts(k, d) /\ d.id = c
    BY <1>2
  <2>1. PICK d : Drafts(k, d) /\ d.id = c
    OBVIOUS
  <2>2. ASSUME NEW j \in Task, NEW x, Drafts(j, x) PROVE x \in Sole(c, d)
    <3>1. x \in CommandType
      BY <1>1, <2>2, DraftFacts
    <3>2. ASSUME x.id = c PROVE x = d
      <4>1. PICK i \in routes[k] :
              /\ i \in DOMAIN Rules /\ routes'[k] = routes[k] \ {i}
              /\ c = CommandIdOf(ev[k], Rules[i])
              /\ d = BuiltCommand(Rules[i], ev[k],
                                  mem.mirrors[KeyOf(ev[k].source, ev[k].order, Rules[i].target)])
        BY <1>1, <2>1, DraftFacts
      <4>2. PICK n \in routes[j] :
              /\ n \in DOMAIN Rules /\ routes'[j] = routes[j] \ {n}
              /\ x = BuiltCommand(Rules[n], ev[j],
                                  mem.mirrors[KeyOf(ev[j].source, ev[j].order, Rules[n].target)])
        BY <1>1, <2>2, DraftFacts
      <4>3. SoundCommand(d) /\ SoundCommand(x)
        BY <1>1, <2>1, <2>2, DraftFacts
      <4>4. d.source = ev[k].source /\ x.source = ev[j].source
        BY <4>1, <4>2 DEF BuiltCommand
      <4>5. ev[k].source = Owner[k] /\ ev[j].source = Owner[j]
        BY <1>1, <2>1, <2>2 DEF Drafts, RouteEvent, MirrorInv, OrderlyInv, Orderly
      <4>6. Owner[k] = Owner[j]
        BY <2>1, <3>2, <4>3, <4>4, <4>5, SourceOfBuilt
      <4>7. j = k
        BY <4>6 DEF OneTask
      <4>8. i = n
        BY <4>1, <4>2, <4>7
      <4>9. QED
        BY <4>1, <4>2, <4>7, <4>8
    <3>3. QED
      BY <3>1, <3>2 DEF Sole
  <2>3. Among(mem, file, rec, todo, chan, Sole(c, d))
    BY <2>1, DraftsNew
  <2>4. QED
    BY <1>1, <2>2, <2>3, AmongStep
<1>3. CASE \A k \in Task : \A d : Drafts(k, d) => d.id # c
  <2>1. PICK d : Among(mem, file, rec, todo, chan, Sole(c, d))
    BY DEF OneVersion
  <2>2. ASSUME NEW j \in Task, NEW x, Drafts(j, x) PROVE x \in Sole(c, d)
    BY <1>1, <1>3, <2>2, DraftFacts DEF Sole
  <2>3. QED
    BY <1>1, <2>1, <2>2, AmongStep
<1>4. QED
  BY <1>2, <1>3

-----------------------------------------------------------------------------
(* What is bound has been acknowledged: of the record of an acknowledgement.*)
LEMMA ReducedEffect ==
    ASSUME NEW b \in BindingType, NEW c \in CommandType
    PROVE  /\ Reduced(b, c).position = b.position
           /\ BindingKey(Reduced(b, c)) = BindingKey(b)
           /\ Reduced(b, c).targetRemaining = NotNegative(b.targetRemaining - c.volume)
           /\ Reduced(b, c) # NoBinding
<1>1. b.position \in Position /\ c.volume \in Nat /\ b.targetRemaining \in Nat
  BY SMT DEF BindingType, CommandType
<1>2. /\ Reduced(b, c).position = b.position
      /\ BindingKey(Reduced(b, c)) = BindingKey(b)
      /\ Reduced(b, c).targetRemaining = NotNegative(b.targetRemaining - c.volume)
  BY SMT DEF Reduced, BindingType, BindingKey
<1>3. Reduced(b, c).route = b.route /\ b \in [route : RuleId, source : Account,
          order : OrderId, target : Account,
          position : Position, sourceOpen : Nat, sourceRemaining : Nat,
          targetOpen : Nat, targetRemaining : Nat]
  BY SMT DEF Reduced, BindingType
<1>4. DOMAIN Reduced(b, c) = DOMAIN b /\ "targetRemaining" \in DOMAIN b
  BY <1>3, SMT DEF Reduced
<1>5. QED
  BY <1>2, <1>4, SMT DEF NoBinding

LEMMA AckedCommand ==
    ASSUME IdsTell, ShelvedInv, NEW k \in Task, NEW acks, Drawn(k, acks),
           rec[k].kind = "AckApplied"
    PROVE  LET c == mem.commands[rec[k].id].command
               key == KeyOf(c.source, c.order, c.target)
           IN  /\ c \in CommandType /\ SoundCommand(c) /\ c.id = rec[k].id
               /\ rec[k].id \in CommandId /\ Tracked(mem, rec[k].id)
               /\ key = KeyOfId(rec[k].id) /\ key \in Key /\ key[3] = Owner[k]
               /\ ~IsPlanned(rec[k]) /\ rec[k] \in RecordType
               /\ mem.mirrors[key] \in BindingType \cup {NoBinding}
               /\ mem.mirrors[key] # NoBinding => BindingKey(mem.mirrors[key]) = key
<1>1. MirrorInv /\ KeyedInv /\ mem \in ReplayType
  BY Types DEF ShelvedInv, MirrorInv, OrderlyInv
<1>2. PICK i : i = rec[k].id
  OBVIOUS
<1>3. rec[k] \in RecordType /\ ~IsPlanned(rec[k]) /\ i \in CommandId
  <2>1. rec[k] \in RecordType
    BY <1>1 DEF KeyedInv, RuntimeTypeInv, RuntimeTypeOK, NoRecord
  <2>2. QED
    BY <1>2, <2>1, RecordShape DEF IsPlanned
<1>4. Tracked(mem, i) /\ TargetOf(i) = Owner[k]
  BY <1>2 DEF Drawn
<1>5. PICK c : c = mem.commands[i].command
  OBVIOUS
<1>6. c \in CommandType /\ SoundCommand(c) /\ c.id = i
  BY <1>1, <1>3, <1>4, <1>5, StoredTyped DEF MirrorInv, SoundState, KeyedInv, WellKeyed
<1>7. PICK key : key = KeyOf(c.source, c.order, c.target)
  OBVIOUS
<1>8. key = KeyOfId(i) /\ key \in Key /\ key[3] = Owner[k]
  <2>1. key = KeyOfId(i) /\ KeyOfId(i) \in Key /\ c.target = TargetOf(i)
    BY <1>6, <1>7, IdTells, BuiltFacts
  <2>2. QED
    BY <1>4, <1>7, <2>1 DEF KeyOf
<1>9. mem.mirrors[key] \in BindingType \cup {NoBinding}
  BY <1>1, <1>8, SMT DEF ReplayType
<1>10. mem.mirrors[key] # NoBinding => BindingKey(mem.mirrors[key]) = key
  BY <1>8 DEF ShelvedInv, Shelved
<1>11. QED
  BY <1>2, <1>3, <1>4, <1>5, <1>6, <1>7, <1>8, <1>9, <1>10

LEMMA ResultBinds ==
    ASSUME IdsTell, ShelvedInv, NEW k \in Task, NEW acks, Drawn(k, acks), pc[k] # "mirror",
           \A ack \in acks : ack.position \in {ack.id, NoPosition},
           NEW S, Binds(mem, OpenRefs(S)), IsFinalAck(rec[k]) => rec[k].id \in S
    PROVE  BindsIn(rec[k], OpenRefs(S))
<1> SUFFICES ASSUME rec[k].kind = "AckApplied" PROVE BindsIn(rec[k], OpenRefs(S))
  BY DEF BindsIn
<1>1. PICK c : c = mem.commands[rec[k].id].command
  OBVIOUS
<1>2. PICK key : key = KeyOf(c.source, c.order, c.target)
  OBVIOUS
<1>3. PICK b : b = mem.mirrors[key]
  OBVIOUS
<1>4. /\ c \in CommandType /\ SoundCommand(c) /\ c.id = rec[k].id
      /\ rec[k].id \in CommandId /\ key = KeyOfId(rec[k].id) /\ key \in Key
      /\ b \in BindingType \cup {NoBinding} /\ (b # NoBinding => BindingKey(b) = key)
  BY <1>1, <1>2, <1>3, AckedCommand
<1>5. PICK ack \in acks : ack.id = rec[k].id /\ rec[k] = Result(c, ack, b)
  BY <1>1, <1>2, <1>3 DEF Drawn
<1>6. CASE IsReduced(c, ack) /\ b # NoBinding
  <2>1. rec[k] = AckApplied(c.id, ack.status, [kind |-> "upsert", binding |-> Reduced(b, c)])
    BY <1>5, <1>6 DEF Result
  <2>2. <<b.position, key>> \in OpenRefs(S)
    BY <1>3, <1>4, <1>6 DEF Binds
  <2>3. /\ Reduced(b, c).position = b.position
        /\ BindingKey(Reduced(b, c)) = BindingKey(b)
    BY <1>4, <1>6, ReducedEffect
  <2>4. QED
    BY <1>4, <1>6, <2>1, <2>2, <2>3 DEF BindsIn, AckApplied
<1>7. CASE ~(IsReduced(c, ack) /\ b # NoBinding)
  <2>1. rec[k] = AckRecord(c, ack)
    BY <1>5, <1>7 DEF Result
  <2>2. ASSUME ack.status \in Success, c.action = "open", ack.position # NoPosition
        PROVE  <<ack.position, key>> \in OpenRefs(S)
    <3>1. ack.position = rec[k].id
      BY <1>5, <2>2
    <3>2. Opens(rec[k].id)
      BY <1>4, <2>2, IdTells
    <3>3. rec[k].status = ack.status /\ ack.status # "unknown"
      BY <1>4, <2>1, <2>2, AckVerdict DEF Success
    <3>4. rec[k].id \in S
      BY <3>3 DEF IsFinalAck
    <3>5. QED
      BY <1>4, <3>1, <3>2, <3>4 DEF OpenRefs
  <2>3. QED
    BY <1>2, <1>4, <2>1, <2>2, AckBinds
<1>8. QED
  BY <1>6, <1>7

Confirmed ==
    /\ Binds(mem, OpenRefs(settled)) /\ Binds(file, OpenRefs(settled))
    /\ Mentions(mem, file, rec, todo, chan, OpenRefs(settled))

LEMMA ConfirmedStep ==
    ASSUME IdsTell, SeasonedInv, ShelvedInv, NEW acks \in SUBSET AckType, RuntimeStep(acks),
           \A k \in Task : Drawn(k, acks), \A ack \in acks : ack.position \in {ack.id, NoPosition},
           Confirmed
    PROVE  Confirmed'
<1>1. /\ MirrorInv /\ RuntimeTypeInv /\ mem \in ReplayType /\ file \in ReplayType
      /\ RuntimeStep(AckType)
  <2>1. MirrorInv /\ KeyedInv /\ RuntimeTypeInv
    BY DEF ShelvedInv, MirrorInv, OrderlyInv, KeyedInv
  <2>2. QED
    BY <2>1, Types, FewerAcks
<1>2. PICK S : S = settled
  OBVIOUS
<1>3. PICK T : T = settled'
  OBVIOUS
<1>4. S \subseteq T
  BY <1>1, <1>2, <1>3, StatesMove
<1>5. OpenRefs(S) \subseteq OpenRefs(T)
  BY <1>4 DEF OpenRefs
<1>6. Binds(mem, OpenRefs(T)) /\ Binds(file, OpenRefs(T))
  BY <1>2, <1>5 DEF Confirmed, Binds
<1>7. Binds(file', OpenRefs(T))
  <2>1. ASSUME NEW k \in Task, pc[k] = "append", rec[k] \in RecordType,
               file' = Apply(file, rec[k]), IsFinalAck(rec[k]) => rec[k].id \in T
        PROVE  Binds(file', OpenRefs(T))
    BY <1>1, <1>6, <2>1, ResultBinds, ApplyBinds
  <2>2. QED
    BY <1>1, <1>3, <1>6, <2>1, StatesMove
<1>8. Binds(mem', OpenRefs(T))
  <2>1. ASSUME NEW k \in Task, pc[k] = "apply", rec[k] \in RecordType, mem' = Apply(mem, rec[k])
        PROVE  Binds(mem', OpenRefs(T))
    <3>1. IsFinalAck(rec[k]) => rec[k].id \in T
      BY <1>2, <1>4, <2>1 DEF SeasonedInv
    <3>2. QED
      BY <1>1, <1>6, <2>1, <3>1, ResultBinds, ApplyBinds
  <2>2. ASSUME mem' = Finalize(file) PROVE Binds(mem', OpenRefs(T))
    <3>1. mem'.mirrors = file.mirrors
      BY <1>1, <2>2, SMT DEF Finalize, ReplayType
    <3>2. QED
      BY <1>6, <3>1 DEF Binds
  <2>3. QED
    BY <1>1, <1>6, <2>1, <2>2, StatesMove
<1>9. Mentions(mem', file', rec', todo', chan', OpenRefs(T))
  <2>1. Mentions(mem', file', rec', todo', chan', OpenRefs(S))
    BY <1>1, <1>2, MentionsStep DEF Confirmed
  <2>2. Referring(OpenRefs(S)) \subseteq Referring(OpenRefs(T))
    BY <1>5 DEF Referring, Refers
  <2>3. QED
    BY <2>1, <2>2, AmongMore DEF Mentions
<1>10. QED
  BY <1>3, <1>7, <1>8, <1>9 DEF Confirmed

(* While the opening of a position is tracked, memory does not bind it.     *)
Unheld ==
    \A x \in CommandId : \A key \in Key :
        Tracked(mem, x) /\ mem.mirrors[key] # NoBinding => mem.mirrors[key].position # x

LEMMA UnheldStep ==
    ASSUME IdsTell, SeasonedInv, ShelvedInv, NEW acks \in SUBSET AckType, RuntimeStep(acks),
           \A k \in Task : Drawn(k, acks), \A ack \in acks : ack.position \in {ack.id, NoPosition},
           Confirmed, Unheld
    PROVE  Unheld'
<1>1. /\ MirrorInv /\ RuntimeTypeInv /\ FinalInv /\ mem \in ReplayType /\ file \in ReplayType
      /\ RuntimeStep(AckType)
  <2>1. MirrorInv /\ KeyedInv /\ RuntimeTypeInv /\ FinalInv
    BY DEF SeasonedInv, ShelvedInv, MirrorInv, OrderlyInv, KeyedInv
  <2>2. QED
    BY <2>1, Types, FewerAcks
<1> SUFFICES ASSUME NEW x \in CommandId, NEW key \in Key, Tracked(mem', x),
                    mem'.mirrors[key] # NoBinding, mem'.mirrors[key].position = x
             PROVE  FALSE
  BY DEF Unheld
<1>2. ASSUME NEW k \in Task, pc[k] = "apply", rec[k] \in RecordType, mem' = Apply(mem, rec[k])
      PROVE  FALSE
  <2>1. ~(IsFinalAck(rec[k]) /\ rec[k].id = x)
    BY <1>1, <1>2, OtherEntry DEF IsFinalAck, IsPlanned
  <2>2. PICK U : U = settled \ {x}
    OBVIOUS
  <2>3. ASSUME Binds(mem, OpenRefs(U)) PROVE FALSE
    <3>1. IsFinalAck(rec[k]) => rec[k].id \in U
      BY <1>2, <2>1, <2>2 DEF SeasonedInv
    <3>2. BindsIn(rec[k], OpenRefs(U))
      BY <1>2, <2>3, <3>1, ResultBinds
    <3>3. Binds(mem', OpenRefs(U))
      BY <1>1, <1>2, <2>3, <3>2, ApplyBinds
    <3>4. QED
      BY <2>2, <3>3 DEF Binds, OpenRefs
  <2>4. PICK found \in Key : mem.mirrors[found] # NoBinding /\ mem.mirrors[found].position = x
    BY <2>2, <2>3 DEF Confirmed, Binds, OpenRefs
  <2>5. x \in settled /\ ~Tracked(mem, x)
    <3>1. Binds(mem, OpenRefs(settled))
      BY DEF Confirmed
    <3>2. <<x, found>> \in OpenRefs(settled)
      BY <2>4, <3>1 DEF Binds
    <3>3. x \in settled
      BY <3>2 DEF OpenRefs
    <3>4. ~Tracked(mem, x)
      BY <2>4 DEF Unheld
    <3>5. QED
      BY <3>3, <3>4
  <2>6. PlannedBy(k, x)
    <3>1. CASE IsPlanned(rec[k])
      BY <1>1, <1>2, <2>5, <3>1, PlannedEntry DEF PlannedBy, Tracked, StateOf
    <3>2. CASE ~IsPlanned(rec[k])
      BY <1>1, <1>2, <2>5, <3>2, OtherEntry DEF Tracked, StateOf
    <3>3. QED
      BY <3>1, <3>2
  <2>7. QED
    BY <1>2, <2>5, <2>6 DEF SeasonedInv, Past
<1>3. ASSUME mem' = Finalize(file) PROVE FALSE
  <2>1. mem'.mirrors = file.mirrors
    BY <1>1, <1>3, SMT DEF Finalize, ReplayType
  <2>2. x \in settled
    BY <2>1 DEF Confirmed, Binds, OpenRefs
  <2>3. ~Tracked(file, x)
    BY <1>1, <2>2 DEF FinalInv
  <2>4. QED
    BY <1>1, <1>3, <2>3, FinalizeEffect DEF Tracked
<1>4. ASSUME mem' = mem PROVE FALSE
  BY <1>4 DEF Unheld
<1>5. QED
  BY <1>1, <1>2, <1>3, <1>4, StatesMove

-----------------------------------------------------------------------------
(* The volume of a binding.  A command is done in the eyes of the journal   *)
(* from its execution to its terminal acknowledgement; until then the       *)
(* volume of the reduces that are done is still to come off the binding.    *)
Filed(c) == file.commands[c].command
Done(c, x, a) ==
    /\ Tracked(file, c) /\ outcome[c] = "filled"
    /\ Filed(c).action = a /\ Filed(c).position = x
Owed(x) == {c \in CommandId : Done(c, x, "reduce")}
Volumes(S, m) == {p \in CommandId \X Nat : p[1] \in S /\ p[2] \in 1..m[p[1]].command.volume}
Points(x) == Volumes(Owed(x), file.commands)
Closing(x) == \E c \in CommandId : Done(c, x, "close")

Fresh(x) ==
    Opens(x) /\ x \notin settled /\ outcome[x] = "filled" => book[x] = Filed(x).volume

Squared(key) ==
    LET b == file.mirrors[key]
    IN  b # NoBinding =>
          /\ IsFiniteSet(Points(b.position))
          /\ \/ book[b.position] = NotNegative(b.targetRemaining - Cardinality(Points(b.position)))
             \/ Closing(b.position)

FigureInv ==
    /\ KeepInv /\ LevelInv
    /\ \A k \in Task : Drawn(k, Executed) /\ OneRound(k)
    /\ Confirmed /\ Unheld
    /\ faults = 0 =>
         /\ OneVersion
         /\ \A x \in CommandId : Fresh(x)
         /\ \A key \in Key : Squared(key)

LEMMA FigureTypes ==
    ASSUME FigureInv
    PROVE  /\ MirrorInv /\ KeyedInv /\ RuntimeTypeInv /\ ShelvedInv /\ FinalInv /\ SeasonedInv
           /\ mem \in ReplayType /\ file \in ReplayType /\ TypeOK /\ faults \in Nat
           /\ LedgerInv
<1>1. /\ MirrorInv /\ KeyedInv /\ RuntimeTypeInv /\ ShelvedInv /\ FinalInv /\ SeasonedInv
      /\ LedgerInv /\ TypeOK
  BY DEF FigureInv, LevelInv, SeasonedInv, FinalInv, MirrorInv, OrderlyInv, KeyedInv, KeepInv,
         Ground, AgentLedger, TypeInv
<1>2. faults \in Nat
  BY <1>1, RuntimeAssumption, SMT DEF RuntimeTypeInv, RuntimeTypeOK
<1>3. QED
  BY <1>1, <1>2, Types

LEMMA FiledFacts ==
    ASSUME IdsTell, FigureInv, NEW c \in CommandId, Tracked(file, c)
    PROVE  LET d == Filed(c)
           IN  /\ d \in CommandType /\ SoundCommand(d) /\ d.id = c
               /\ d.action = ActionOf(c) /\ (d.action = "open" <=> Opens(c))
               /\ KeyOf(d.source, d.order, d.target) = KeyOfId(c)
               /\ d.volume \in Nat
               /\ d.action # "open" =>
                    /\ d.position \in CommandId /\ Opens(d.position)
                    /\ KeyOfId(d.position) = KeyOfId(c) /\ d.position \in settled
<1>1. MirrorInv /\ KeyedInv /\ file \in ReplayType
  BY FigureTypes
<1>2. PICK d : d = Filed(c)
  OBVIOUS
<1>3. d \in CommandType /\ SoundCommand(d) /\ d.id = c
  BY <1>1, <1>2, StoredTyped DEF Filed, MirrorInv, SoundState, KeyedInv, WellKeyed
<1>4. /\ d.action = ActionOf(c) /\ (d.action = "open" <=> Opens(c))
      /\ KeyOf(d.source, d.order, d.target) = KeyOfId(c)
  BY <1>3, IdTells
<1>5. Refers(d, OpenRefs(settled))
  BY <1>2 DEF FigureInv, Confirmed, Mentions, Among, InState, Referring, Filed
<1>6. d.action # "open" =>
        /\ d.position \in CommandId /\ Opens(d.position)
        /\ KeyOfId(d.position) = KeyOfId(c) /\ d.position \in settled
  BY <1>4, <1>5 DEF Refers, OpenRefs
<1>7. d.volume \in Nat
  BY <1>3, SMT DEF CommandType
<1>8. QED
  BY <1>2, <1>3, <1>4, <1>6, <1>7

(* What a terminal answered is in the journal until it is settled.          *)
LEMMA AnsweredFiled ==
    ASSUME FigureInv, NEW c \in CommandId, outcome[c] # "none", c \notin settled
    PROVE  Tracked(file, c) /\ StateOf(file, c) # "queued"
<1>1. file \in ReplayType /\ Issued(c)
  BY FigureTypes DEF FigureInv, KeepInv, Ground, AgentLedger
<1>2. StageIn(file, settled, c) = "issued"
  BY <1>1, StageIsStageIn, StageValues DEF Issued
<1>3. StateOf(file, c) \in {"dispatched", "unknown"}
  BY <1>1, <1>2, StageValues
<1>4. QED
  BY <1>3 DEF Tracked

LEMMA FiledMoves ==
    ASSUME FigureInv, NEW k \in Task, pc[k] = "append", rec[k] \in RecordType,
           file' = Apply(file, rec[k]), NEW c \in CommandId
    PROVE  /\ outcome[c] # "none" /\ Tracked(file', c) => Tracked(file, c)
           /\ Tracked(file', c) => ~(IsFinalAck(rec[k]) /\ rec[k].id = c)
           /\ Tracked(file, c) /\ ~(IsFinalAck(rec[k]) /\ rec[k].id = c) =>
                Tracked(file', c) /\ Filed(c)' = Filed(c)
<1>1. MirrorInv /\ FinalInv /\ file \in ReplayType
  BY FigureTypes
<1>2. CASE IsPlanned(rec[k])
  <2>1. ~IsFinalAck(rec[k])
    BY <1>2 DEF IsPlanned, IsFinalAck
  <2>2. Tracked(file, c) => file'.commands[c] = file.commands[c]
    BY <1>1, <1>2, PlannedEntry
  <2>3. ASSUME outcome[c] # "none", Tracked(file', c), ~Tracked(file, c) PROVE FALSE
    <3>1. c \in settled
      BY <2>3, AnsweredFiled
    <3>2. \E p \in rec[k].commands : p.id = c
      BY <1>1, <1>2, <2>3, PlannedEntry DEF Tracked, StateOf
    <3>3. SourceOf(c) = Owner[k] /\ EventOf(c) = rec[k].event
      BY <1>1, <1>2, <3>2, PlannedCommands
    <3>4. Plans(k, c) /\ Past(c)
      BY <1>2, <3>1, <3>3 DEF Plans, Past
    <3>5. QED
      BY <1>1, <3>4 DEF FinalInv
  <2>4. QED
    BY <2>1, <2>2, <2>3 DEF Tracked, StateOf, Filed
<1>3. CASE ~IsPlanned(rec[k])
  <2>1. ~Tracked(file, c) \/ rec[k].id # c => file'.commands[c] = file.commands[c]
    BY <1>1, <1>3, OtherEntry
  <2>2. rec[k].id = c /\ IsFinalAck(rec[k]) => ~Tracked(file', c)
    BY <1>1, <1>3, OtherEntry
  <2>3. rec[k].id = c /\ ~IsFinalAck(rec[k]) /\ Tracked(file, c) =>
          /\ StateOf(file', c) \in {"dispatched", "unknown"}
          /\ file'.commands[c].command = file.commands[c].command
    BY <1>1, <1>3, OtherEntry
  <2>4. QED
    BY <2>1, <2>2, <2>3 DEF Tracked, StateOf, Filed
<1>4. QED
  BY <1>2, <1>3

LEMMA PairsCount ==
    ASSUME NEW c, NEW v \in Nat
    PROVE  IsFiniteSet({c} \X (1..v)) /\ Cardinality({c} \X (1..v)) = v
<1> DEFINE R == {c} \X (1..v)
           f == [n \in 1..v |-> <<c, n>>]
<1>1. IsFiniteSet(1..v) /\ Cardinality(1..v) = v
  BY FS_Interval
<1>2. f \in [1..v -> R]
  OBVIOUS
<1>3. \A m, n \in 1..v : f[m] = f[n] => m = n
  OBVIOUS
<1>4. \A p \in R : \E n \in 1..v : f[n] = p
  <2> TAKE p \in R
  <2>1. PICK n \in 1..v : p = <<c, n>>
    OBVIOUS
  <2>2. QED
    BY <2>1
<1> SUFFICES IsFiniteSet(R) /\ Cardinality(R) = v
  OBVIOUS
<1> HIDE DEF f, R
<1>5. f \in Bijection(1..v, R)
  BY <1>2, <1>3, <1>4 DEF Bijection, Injection, Surjection, IsInjective
<1>6. QED
  BY <1>1, <1>5, FS_Bijection DEF ExistsBijection

LEMMA CountDisjoint ==
    ASSUME NEW S, NEW R, IsFiniteSet(R), NEW T, T = S \cup R, S \cap R = {}
    PROVE  /\ IsFiniteSet(S) <=> IsFiniteSet(T)
           /\ IsFiniteSet(S) =>
                /\ Cardinality(S) \in Nat
                /\ Cardinality(T) = Cardinality(S) + Cardinality(R)
<1>1. IsFiniteSet(T) => IsFiniteSet(S)
  BY FS_Subset
<1>2. ASSUME IsFiniteSet(S)
      PROVE  /\ IsFiniteSet(T) /\ Cardinality(S) \in Nat
             /\ Cardinality(T) = Cardinality(S) + Cardinality(R)
  <2>1. Cardinality(S) \in Nat /\ Cardinality(R) \in Nat
    BY <1>2, FS_CardinalityType
  <2>2. Cardinality(S \cap R) = 0
    BY FS_EmptySet
  <2>3. IsFiniteSet(T) /\ Cardinality(T) = Cardinality(S) + Cardinality(R) - 0
    BY <1>2, <2>2, FS_Union
  <2>4. QED
    BY <2>1, <2>3
<1>3. QED
  BY <1>1, <1>2

(* Taking a volume off at once or in two parts comes to the same.           *)
LEMMA TakenOff ==
    ASSUME NEW r \in Nat, NEW n \in Nat, NEW v \in Nat
    PROVE  /\ NotNegative(r - (n + v)) = NotNegative(NotNegative(r - n) - v)
           /\ NotNegative(r - (n + v)) = NotNegative(NotNegative(r - v) - n)
BY DEF NotNegative

(* The reduces to come off a binding, one more than they were.              *)
LEMMA VolumesCount ==
    ASSUME NEW S, NEW m, NEW c \in CommandId, c \notin S, NEW T, T = S \cup {c},
           m[c].command.volume \in Nat
    PROVE  /\ IsFiniteSet(Volumes(S, m)) <=> IsFiniteSet(Volumes(T, m))
           /\ IsFiniteSet(Volumes(S, m)) =>
                /\ Cardinality(Volumes(S, m)) \in Nat
                /\ Cardinality(Volumes(T, m)) =
                      Cardinality(Volumes(S, m)) + m[c].command.volume
<1>1. PICK v \in Nat : v = m[c].command.volume
  OBVIOUS
<1>2. PICK R : R = {c} \X (1..v)
  OBVIOUS
<1>3. PICK P : P = Volumes(S, m)
  OBVIOUS
<1>4. PICK Q : Q = Volumes(T, m)
  OBVIOUS
<1>5. ASSUME NEW p \in Q PROVE p \in P \cup R
  <2>1. p \in CommandId \X Nat /\ p[1] \in S \cup {c} /\ p[2] \in 1..m[p[1]].command.volume
    BY <1>4 DEF Volumes
  <2>2. CASE p[1] = c
    BY <1>1, <1>2, <2>1, <2>2
  <2>3. CASE p[1] # c
    BY <1>3, <2>1, <2>3 DEF Volumes
  <2>4. QED
    BY <2>2, <2>3
<1>6. ASSUME NEW p \in R PROVE p \in Q
  <2>1. p[1] = c /\ p[2] \in 1..v /\ p \in CommandId \X Nat
    BY <1>2
  <2>2. QED
    BY <1>1, <1>4, <2>1 DEF Volumes
<1>7. P \subseteq Q
  BY <1>3, <1>4 DEF Volumes
<1>8. P \cap R = {}
  BY <1>2, <1>3 DEF Volumes
<1>9. Q = P \cup R
  BY <1>5, <1>6, <1>7
<1>10. IsFiniteSet(R) /\ Cardinality(R) = v
  BY <1>2, PairsCount
<1>11. /\ IsFiniteSet(P) <=> IsFiniteSet(Q)
       /\ IsFiniteSet(P) => Cardinality(P) \in Nat /\ Cardinality(Q) = Cardinality(P) + v
  BY <1>8, <1>9, <1>10, CountDisjoint
<1>12. QED
  BY <1>1, <1>3, <1>4, <1>11

LEMMA ExecuteFigures ==
    ASSUME TypeOK, NEW d \in CommandType, NEW result \in {"filled", "rejected"},
           Execute(d, result)
    PROVE  /\ result = "filled" /\ d.action = "open" => book'[d.id] = d.volume
           /\ result = "filled" /\ d.action = "reduce" /\ d.position \in CommandId =>
                book'[d.position] = NotNegative(book[d.position] - d.volume)
           /\ result = "rejected" \/ d.action = "modify" => book' = book
<1>1. book \in [CommandId -> Nat] /\ d.id \in CommandId
  BY SMT DEF TypeOK, CommandType
<1>2. CASE result = "filled" /\ d.action = "open"
  BY <1>1, <1>2 DEF Execute
<1>3. CASE result = "filled" /\ d.action = "reduce"
  BY <1>1, <1>3 DEF Execute
<1>4. CASE result = "rejected" \/ d.action = "modify"
  BY <1>4 DEF Execute
<1>5. QED
  BY <1>2, <1>3, <1>4

(* The head of a queue is the command the journal has under its id.         *)
LEMMA HeadFiled ==
    ASSUME IdsTell, FigureInv, faults = 0, NEW s \in Session, chan[s].queue # <<>>,
           NEW d, d = Head(chan[s].queue), outcome[d.id] = "none"
    PROVE  d.id \in CommandId /\ Tracked(file, d.id) /\ Filed(d.id) = d
<1>1. d \in CommandType /\ d.id \in CommandId /\ Tracked(file, d.id)
  BY HeadFacts DEF FigureInv
<1>2. PICK e : Among(mem, file, rec, todo, chan, Sole(d.id, e))
  BY <1>1 DEF FigureInv, OneVersion
<1>3. d = e
  <2>1. PICK q : q = chan[s].queue
    OBVIOUS
  <2>2. q \in Seq(CommandType) /\ q # <<>> /\ d = Head(q)
    BY <2>1, FigureTypes DEF RuntimeTypeInv, RuntimeTypeOK
  <2>3. 1 \in DOMAIN q /\ d = q[1]
    BY <2>2, SMT
  <2>4. d \in Sole(d.id, e)
    BY <1>2, <2>1, <2>3 DEF Among, InQueue
  <2>5. QED
    BY <2>4 DEF Sole
<1>4. Filed(d.id) \in Sole(d.id, e)
  BY <1>1, <1>2 DEF Among, InState, Filed
<1>5. Filed(d.id).id = d.id
  BY <1>1, FiledFacts
<1>6. QED
  BY <1>1, <1>3, <1>4, <1>5 DEF Sole

(* A position the journal binds.                                            *)
LEMMA BoundFacts ==
    ASSUME FigureInv, NEW key \in Key, file.mirrors[key] # NoBinding
    PROVE  LET b == file.mirrors[key]
           IN  /\ b \in BindingType /\ b.targetRemaining \in Nat
               /\ b.position \in CommandId /\ Opens(b.position) /\ KeyOfId(b.position) = key
               /\ b.position \in settled /\ outcome[b.position] # "none"
               /\ book[b.position] \in Nat /\ Built(b.position)
<1>1. PICK b : b = file.mirrors[key]
  OBVIOUS
<1>2. file \in ReplayType /\ TypeOK
  BY FigureTypes
<1>3. b \in BindingType
  BY <1>1, <1>2, SMT DEF ReplayType
<1>4. b.targetRemaining \in Nat
  BY <1>3, SMT DEF BindingType
<1>5. /\ b.position \in CommandId /\ Opens(b.position) /\ KeyOfId(b.position) = key
      /\ b.position \in settled
  BY <1>1 DEF FigureInv, Confirmed, Binds, OpenRefs
<1>6. Told(b.position)
  BY <1>5 DEF FigureInv, KeepInv
<1>7. QED
  BY <1>1, <1>2, <1>3, <1>4, <1>5, <1>6 DEF Told, TypeOK

(* A command executed: the book changes and what is done with it.           *)
LEMMA DoneByExecution ==
    ASSUME IdsTell, FigureInv, faults = 0, NEW s \in Session, chan[s].queue # <<>>,
           NEW result \in {"filled", "rejected"}, NEW d, d = Head(chan[s].queue),
           Executing(d, result), NEW c \in CommandId, NEW x, NEW a
    PROVE  /\ Done(c, x, a)' <=>
                Done(c, x, a) \/ (c = d.id /\ result = "filled" /\ d.action = a /\ d.position = x)
           /\ Filed(c)' = Filed(c)
<1>1. d \in CommandType /\ outcome[d.id] = "none" /\ Execute(d, result) /\ UNCHANGED file
  BY HeadFacts DEF FigureInv, Executing
<1>2. d.id \in CommandId /\ Tracked(file, d.id) /\ Filed(d.id) = d
  BY <1>1, HeadFiled
<1>3. outcome'[c] = IF c = d.id THEN result ELSE outcome[c]
  BY <1>1, FigureTypes, ExecuteBook
<1>4. QED
  BY <1>1, <1>2, <1>3 DEF Done, Filed, Tracked, StateOf

LEMMA FigureExecute ==
    ASSUME IdsTell, FigureInv, faults = 0, NEW s \in Session, chan[s].queue # <<>>,
           NEW result \in {"filled", "rejected"}, NEW d, d = Head(chan[s].queue),
           Executing(d, result)
    PROVE  (\A x \in CommandId : Fresh(x)') /\ (\A key \in Key : Squared(key)')
<1>1. /\ d \in CommandType /\ outcome[d.id] = "none" /\ Execute(d, result)
      /\ UNCHANGED <<file, settled>>
  BY HeadFacts DEF FigureInv, Executing
<1>2. d.id \in CommandId /\ Tracked(file, d.id) /\ Filed(d.id) = d
  BY <1>1, HeadFiled
<1>3. /\ d.volume \in Nat /\ d.action \in Action
      /\ d.action # "open" => d.position \in CommandId /\ d.position \in settled
  BY <1>1, <1>2, FiledFacts, SMT DEF CommandType
<1>4. TypeOK
  BY FigureTypes
<1>5. ASSUME NEW x \in CommandId PROVE Fresh(x)'
  <2> SUFFICES ASSUME Opens(x), x \notin settled, outcome'[x] = "filled"
               PROVE  book'[x] = Filed(x)'.volume
    BY <1>1 DEF Fresh
  <2>1. Filed(x)' = Filed(x)
    BY <1>1 DEF Filed
  <2>2. CASE x = d.id
    <3>1. d.action = "open"
      BY <1>2, <2>2, FiledFacts
    <3>2. result = "filled"
      BY <1>1, <1>4, <2>2, ExecuteBook
    <3>3. QED
      BY <1>1, <1>2, <1>4, <2>1, <2>2, <3>1, <3>2, ExecuteFigures
  <2>3. CASE x # d.id
    <3>1. outcome[x] = "filled" /\ book'[x] = book[x]
      BY <1>1, <1>3, <1>4, <2>3, ExecuteBook
    <3>2. QED
      BY <2>1, <3>1 DEF FigureInv, Fresh
  <2>4. QED
    BY <2>2, <2>3
<1>6. ASSUME NEW key \in Key PROVE Squared(key)'
  <2>1. PICK b : b = file.mirrors[key]
    OBVIOUS
  <2> SUFFICES ASSUME b # NoBinding PROVE Squared(key)'
    BY <1>1, <2>1 DEF Squared
  <2>2. PICK x : x = b.position
    OBVIOUS
  <2>3. PICK r : r = b.targetRemaining
    OBVIOUS
  <2>4. x \in CommandId /\ r \in Nat /\ outcome[x] # "none" /\ book[x] \in Nat
    BY <2>1, <2>2, <2>3, BoundFacts
  <2>5. x # d.id
    BY <1>1, <2>4
  <2>6. PICK P : P = Points(x)
    OBVIOUS
  <2>7. PICK Q : Q = Points(x)'
    OBVIOUS
  <2>8. IsFiniteSet(P) /\ (book[x] = NotNegative(r - Cardinality(P)) \/ Closing(x))
    BY <2>1, <2>2, <2>3, <2>6 DEF FigureInv, Squared
  <2>9. SUFFICES IsFiniteSet(Q) /\ (book'[x] = NotNegative(r - Cardinality(Q)) \/ Closing(x)')
    BY <1>1, <2>1, <2>2, <2>3, <2>7 DEF Squared
  <2>10. Closing(x) => Closing(x)'
    BY DoneByExecution DEF Closing
  <2>11. CASE result = "filled" /\ d.action = "reduce" /\ d.position = x
    <3>1. PICK S : S = Owed(x)
      OBVIOUS
    <3>2. Owed(x)' = S \cup {d.id}
      BY <1>2, <2>11, <3>1, DoneByExecution DEF Owed
    <3>3. d.id \notin S
      BY <1>1, <3>1 DEF Owed, Done
    <3>4. PICK f : f = file.commands
      OBVIOUS
    <3>5. PICK T : T = S \cup {d.id}
      OBVIOUS
    <3>6. P = Volumes(S, f) /\ Q = Volumes(T, f)
      BY <1>1, <2>6, <2>7, <3>1, <3>2, <3>4, <3>5 DEF Points
    <3>7. /\ IsFiniteSet(Q) /\ Cardinality(P) \in Nat
          /\ Cardinality(Q) = Cardinality(P) + d.volume
      <4>1. f[d.id].command.volume = d.volume
        BY <1>2, <3>4 DEF Filed
      <4>2. PICK c \in CommandId : c = d.id
        BY <1>2
      <4>3. /\ c \notin S /\ T = S \cup {c} /\ IsFiniteSet(Volumes(S, f))
            /\ f[c].command.volume = d.volume /\ f[c].command.volume \in Nat
        BY <1>3, <2>8, <3>3, <3>5, <3>6, <4>1, <4>2
      <4>4. /\ IsFiniteSet(Volumes(T, f)) /\ Cardinality(Volumes(S, f)) \in Nat
            /\ Cardinality(Volumes(T, f)) = Cardinality(Volumes(S, f)) + f[c].command.volume
        BY <4>3, VolumesCount
      <4>5. QED
        BY <3>6, <4>3, <4>4
    <3>8. book'[x] = NotNegative(book[x] - d.volume)
      BY <1>1, <1>4, <2>4, <2>11, ExecuteFigures
    <3>9. PICK n \in Nat : n = Cardinality(P)
      BY <3>7
    <3>10. NotNegative(r - (n + d.volume)) = NotNegative(NotNegative(r - n) - d.volume)
      BY <1>3, <2>4, TakenOff
    <3>11. QED
      BY <2>8, <2>10, <3>7, <3>8, <3>9, <3>10
  <2>12. CASE ~(result = "filled" /\ d.action = "reduce" /\ d.position = x)
    <3>1. Owed(x)' = Owed(x)
      BY <2>12, DoneByExecution DEF Owed
    <3>2. Q = P
      BY <1>1, <2>6, <2>7, <3>1 DEF Points
    <3>3. CASE result = "filled" /\ d.action = "close" /\ d.position = x
      <4>1. Closing(x)'
        BY <1>2, <3>3, DoneByExecution DEF Closing
      <4>2. QED
        BY <2>8, <3>2, <4>1
    <3>4. CASE ~(result = "filled" /\ d.action = "close" /\ d.position = x)
      <4>1. book'[x] = book[x]
        <5>1. \/ book'[x] = book[x]
              \/ result = "filled" /\ d.action # "open" /\ d.position = x
          BY <1>1, <1>4, <2>4, <2>5, ExecuteBook
        <5>2. d.action = "modify" => book' = book
          BY <1>1, <1>4, ExecuteFigures
        <5>3. QED
          BY <1>3, <2>12, <3>4, <5>1, <5>2 DEF Action
      <4>2. QED
        BY <2>8, <2>10, <3>2, <4>1
    <3>5. QED
      BY <3>3, <3>4
  <2>13. QED
    BY <2>11, <2>12
<1>7. QED
  BY <1>5, <1>6

-----------------------------------------------------------------------------
(* A record appended.                                                       *)
LEMMA DoneByAppend ==
    ASSUME FigureInv, NEW k \in Task, pc[k] = "append", rec[k] \in RecordType,
           file' = Apply(file, rec[k]), outcome' = outcome, NEW c \in CommandId, NEW x, NEW a
    PROVE  /\ Done(c, x, a)' <=> Done(c, x, a) /\ ~(IsFinalAck(rec[k]) /\ rec[k].id = c)
           /\ Done(c, x, a)' => Filed(c)' = Filed(c)
<1>1. /\ outcome[c] # "none" /\ Tracked(file', c) => Tracked(file, c)
      /\ Tracked(file', c) => ~(IsFinalAck(rec[k]) /\ rec[k].id = c)
      /\ Tracked(file, c) /\ ~(IsFinalAck(rec[k]) /\ rec[k].id = c) =>
           Tracked(file', c) /\ Filed(c)' = Filed(c)
  BY FiledMoves
<1>2. ASSUME Done(c, x, a)'
      PROVE  /\ Done(c, x, a) /\ ~(IsFinalAck(rec[k]) /\ rec[k].id = c)
             /\ Filed(c)' = Filed(c)
  <2>1. Tracked(file', c) /\ outcome[c] = "filled"
    BY <1>2 DEF Done, Tracked, StateOf
  <2>2. Filed(c)' = Filed(c) /\ Tracked(file, c)
    BY <1>1, <2>1
  <2>3. QED
    BY <1>1, <1>2, <2>1, <2>2 DEF Done
<1>3. ASSUME Done(c, x, a), ~(IsFinalAck(rec[k]) /\ rec[k].id = c) PROVE Done(c, x, a)'
  BY <1>1, <1>3 DEF Done, Tracked, StateOf
<1>4. QED
  BY <1>2, <1>3

LEMMA PointsByAppend ==
    ASSUME FigureInv, NEW k \in Task, pc[k] = "append", rec[k] \in RecordType,
           file' = Apply(file, rec[k]), outcome' = outcome, NEW x
    PROVE  Points(x)' = Volumes(Owed(x)', file.commands)
<1>1. PICK S : S = Owed(x)'
  OBVIOUS
<1>2. PICK m : m = file'.commands
  OBVIOUS
<1>3. PICK n : n = file.commands
  OBVIOUS
<1>4. \A c \in S : m[c].command = n[c].command
  BY <1>1, <1>2, <1>3, DoneByAppend DEF Owed, Filed
<1>5. Volumes(S, m) = Volumes(S, n)
  BY <1>4 DEF Volumes
<1>6. QED
  BY <1>1, <1>2, <1>3, <1>5 DEF Points

LEMMA SquaredStays ==
    ASSUME FigureInv, faults = 0, NEW k \in Task, pc[k] = "append", rec[k] \in RecordType,
           file' = Apply(file, rec[k]), UNCHANGED <<outcome, book>>, NEW key \in Key,
           file'.mirrors[key] = file.mirrors[key],
           IsFinalAck(rec[k]) /\ file.mirrors[key] # NoBinding => \A a \in {"reduce", "close"} :
              ~Done(rec[k].id, file.mirrors[key].position, a)
    PROVE  Squared(key)'
<1>1. PICK b : b = file.mirrors[key]
  OBVIOUS
<1> SUFFICES ASSUME b # NoBinding PROVE Squared(key)'
  BY <1>1 DEF Squared
<1>2. PICK x : x = b.position
  OBVIOUS
<1>3. ASSUME NEW c \in CommandId, NEW a \in {"reduce", "close"} PROVE Done(c, x, a)' <=> Done(c, x, a)
  <2>1. IsFinalAck(rec[k]) /\ rec[k].id = c => ~Done(c, x, a)
    BY <1>1, <1>2
  <2>2. QED
    BY <2>1, DoneByAppend
<1>4. Owed(x)' = Owed(x) /\ (Closing(x)' <=> Closing(x))
  BY <1>3 DEF Owed, Closing
<1>5. Points(x)' = Points(x)
  BY <1>4, PointsByAppend DEF Points
<1>6. Squared(key)
  BY DEF FigureInv
<1>7. IsFiniteSet(Points(x)) /\ (book[x] = NotNegative(b.targetRemaining - Cardinality(Points(x))) \/ Closing(x))
  BY <1>1, <1>2, <1>6 DEF Squared
<1>8. file'.mirrors[key] = b /\ book' = book
  BY <1>1
<1>9. IsFiniteSet(Points(x)') /\ (book'[x] = NotNegative(b.targetRemaining - Cardinality(Points(x)')) \/ Closing(x)')
  BY <1>4, <1>5, <1>7, <1>8
<1>10. QED
  BY <1>2, <1>8, <1>9 DEF Squared

(* The journal and the memory agree on what an acknowledgement to append is *)
(* about: the command, and the binding of its position.                     *)
LEMMA AckFiled ==
    ASSUME OneTask, IdsTell, FigureInv, faults = 0, NEW k \in Task, pc[k] = "append",
           rec[k].kind = "AckApplied"
    PROVE  LET c == mem.commands[rec[k].id].command
               key == KeyOfId(rec[k].id)
           IN  /\ c \in CommandType /\ SoundCommand(c) /\ c.id = rec[k].id
               /\ rec[k].id \in CommandId /\ key \in Key
               /\ KeyOf(c.source, c.order, c.target) = key
               /\ Tracked(mem, rec[k].id) /\ Tracked(file, rec[k].id) /\ Filed(rec[k].id) = c
               /\ file.mirrors[key] = mem.mirrors[key]
               /\ mem.mirrors[key] # NoBinding =>
                     mem.mirrors[key] \in BindingType /\ BindingKey(mem.mirrors[key]) = key
<1> PICK c : c = mem.commands[rec[k].id].command
  OBVIOUS
<1>1. ShelvedInv /\ Level /\ \A j \in Task : Drawn(j, Executed)
  BY FigureTypes DEF FigureInv, LevelInv
<1>2. PICK key : key = KeyOf(c.source, c.order, c.target)
  OBVIOUS
<1>3. /\ c \in CommandType /\ SoundCommand(c) /\ c.id = rec[k].id
      /\ rec[k].id \in CommandId /\ Tracked(mem, rec[k].id)
      /\ key = KeyOfId(rec[k].id) /\ key \in Key /\ key[3] = Owner[k]
      /\ mem.mirrors[key] \in BindingType \cup {NoBinding}
      /\ mem.mirrors[key] # NoBinding => BindingKey(mem.mirrors[key]) = key
  BY <1>1, <1>2, AckedCommand
<1>4. TargetOf(rec[k].id) = Owner[k]
  BY <1>1 DEF Drawn
<1>5. \A j \in Task : Applying(j) => Owner[j] # Owner[k]
  BY DEF Applying, OneTask
<1>6. file.mirrors[key] = mem.mirrors[key]
  BY <1>1, <1>3, <1>5 DEF Level, MirrorLevel
<1>7. ASSUME NEW j \in Task PROVE ~Ending(j, c.id)
  BY <1>1, <1>3, <1>4, <1>5 DEF Ending, IsFinalAck, Drawn
<1>8. Tracked(file, c.id) /\ Filed(c.id) = c
  BY <1>1, <1>3, <1>7 DEF Level, EntryLevel, Filed
<1>9. QED
  BY <1>2, <1>3, <1>6, <1>8

LEMMA AckParts ==
    ASSUME NEW i, NEW status, NEW u
    PROVE  LET r == AckApplied(i, status, u)
           IN  r.status = status /\ r.mutation = u /\ r.kind = "AckApplied" /\ r.id = i
BY DEF AckApplied

(* The binding an acknowledgement leaves in the journal.                    *)
LEMMA AckLeaves ==
    ASSUME OneTask, IdsTell, FigureInv, faults = 0, NEW k \in Task, pc[k] = "append",
           rec[k] \in RecordType, rec[k].kind = "AckApplied", file' = Apply(file, rec[k])
    PROVE  LET c == rec[k].id
               key == KeyOfId(c)
               d == Filed(c)
               b == file.mirrors[key]
           IN  /\ \A o \in Key : o # key => file'.mirrors[o] = file.mirrors[o]
               /\ rec[k].status \in Success => outcome[c] = "filled"
               /\ rec[k].status \notin Success =>
                    /\ file'.mirrors[key] = b
                    /\ IsFinalAck(rec[k]) => outcome[c] = "rejected"
               /\ rec[k].status \in Success =>
                    /\ IsFinalAck(rec[k])
                    /\ d.action = "reduce" =>
                         file'.mirrors[key] = IF b = NoBinding THEN b ELSE Reduced(b, d)
                    /\ d.action = "open" => file'.mirrors[key] = NewBinding(d, c)
                    /\ d.action = "close" => file'.mirrors[key] = NoBinding
                    /\ d.action = "modify" => file'.mirrors[key] = b
<1>1. file \in ReplayType
  BY FigureTypes
<1>2. PICK c : c = rec[k].id
  OBVIOUS
<1>3. PICK key : key = KeyOfId(c)
  OBVIOUS
<1>4. PICK d : d = Filed(c)
  OBVIOUS
<1>5. PICK b : b = file.mirrors[key]
  OBVIOUS
<1>6. /\ d \in CommandType /\ d.id = c /\ c \in CommandId /\ d = mem.commands[c].command
      /\ key \in Key /\ KeyOf(d.source, d.order, d.target) = key
      /\ b = mem.mirrors[key]
      /\ b # NoBinding => b \in BindingType /\ BindingKey(b) = key
  BY <1>2, <1>3, <1>4, <1>5, AckFiled
<1>7. PICK ack \in Executed : ack.id = c /\ rec[k] = Result(d, ack, b)
  <2>1. Drawn(k, Executed)
    BY DEF FigureInv
  <2>2. PICK ack \in Executed :
          /\ ack.id = c
          /\ rec[k] = Result(d, ack, mem.mirrors[KeyOf(d.source, d.order, d.target)])
    BY <1>2, <1>6, <2>1 DEF Drawn
  <2>3. QED
    BY <1>6, <2>2
<1>8. PICK u : u = rec[k].mutation
  OBVIOUS
<1>9. u \in MutationType /\ file'.mirrors = Mutate(file.mirrors, u)
  BY <1>1, <1>8, RecordShape, ApplyAck
<1>10. file.mirrors \in [Key -> BindingType \cup {NoBinding}]
  BY <1>1, SMT DEF ReplayType
<1>11. d.action \in Action
  BY <1>6, SMT DEF CommandType
<1>12. ASSUME NEW o \in Key
       PROVE  /\ u.kind = "upsert" => file'.mirrors[o] = IF BindingKey(u.binding) = o
                                                         THEN u.binding ELSE file.mirrors[o]
              /\ u.kind = "remove" => file'.mirrors[o] = IF u.key = o THEN NoBinding
                                                         ELSE file.mirrors[o]
              /\ u.kind = "none" => file'.mirrors[o] = file.mirrors[o]
  BY <1>9, <1>10, MutateEntry
<1>13. /\ ack.status \in Success => outcome[c] = "filled"
       /\ ack.status = "rejected" => outcome[c] = "rejected"
       /\ ack.position \in {c, NoPosition} /\ ack.status \in AckStatus
  <2>1. /\ ack \in AckType
        /\ ack.status \in Success => outcome[ack.id] = "filled"
        /\ ack.status = "rejected" => outcome[ack.id] = "rejected"
        /\ ack.position \in {ack.id, NoPosition}
    BY <1>7 DEF Executed
  <2>2. ack.status \in AckStatus
    BY <2>1, SMT DEF AckType
  <2>3. QED
    BY <1>7, <2>1, <2>2
<1>14. "unknown" \notin Success /\ AckStatus \subseteq Success \cup {"unknown", "rejected"}
  BY DEF Success, AckStatus
<1>15. PICK r : r = rec[k]
  OBVIOUS
<1>16. IsFinalAck(r) <=> r.status # "unknown"
  BY <1>15 DEF IsFinalAck
<1> DEFINE Left ==
      /\ \A o \in Key : o # key => file'.mirrors[o] = file.mirrors[o]
      /\ r.status \in Success => outcome[c] = "filled"
      /\ r.status \notin Success =>
           /\ file'.mirrors[key] = b
           /\ IsFinalAck(r) => outcome[c] = "rejected"
      /\ r.status \in Success =>
           /\ IsFinalAck(r)
           /\ d.action = "reduce" =>
                file'.mirrors[key] = IF b = NoBinding THEN b ELSE Reduced(b, d)
           /\ d.action = "open" => file'.mirrors[key] = NewBinding(d, c)
           /\ d.action = "close" => file'.mirrors[key] = NoBinding
           /\ d.action = "modify" => file'.mirrors[key] = b
<1> SUFFICES Left
  BY <1>2, <1>3, <1>4, <1>5, <1>15
<1>17. CASE IsReduced(d, ack) /\ b # NoBinding
  <2>1. r = AckApplied(d.id, ack.status, [kind |-> "upsert", binding |-> Reduced(b, d)])
    BY <1>7, <1>15, <1>17 DEF Result
  <2>2. u.kind = "upsert" /\ u.binding = Reduced(b, d) /\ r.status = ack.status
    BY <1>8, <1>15, <2>1, AckParts
  <2>3. BindingKey(Reduced(b, d)) = key
    BY <1>6, <1>17, ReducedEffect
  <2>4. ack.status \in Success /\ d.action = "reduce"
    BY <1>17 DEF IsReduced
  <2>5. QED
    BY <1>5, <1>6, <1>12, <1>13, <1>14, <1>16, <1>17, <2>2, <2>3, <2>4
<1>18. CASE ~(IsReduced(d, ack) /\ b # NoBinding)
  <2>1. r = AckRecord(d, ack)
    BY <1>7, <1>15, <1>18 DEF Result
  <2>2. CASE ack.status \notin Success
    <3>1. r = AckApplied(d.id, ack.status, NoMutation)
      BY <2>1, <2>2 DEF AckRecord
    <3>2. u.kind = "none" /\ r.status = ack.status
      BY <1>8, <1>15, <3>1, AckParts DEF NoMutation
    <3>3. QED
      BY <1>5, <1>6, <1>12, <1>13, <1>14, <1>16, <2>2, <3>2
  <2>3. CASE ack.status \in Success /\ d.action = "open"
    <3>1. r.kind = "AckApplied"
      BY <1>15
    <3>2. ack.position # NoPosition
      <4>1. ack.position = NoPosition => r = CommandUnknown(d.id)
        BY <2>1, <2>3 DEF AckRecord
      <4>2. QED
        BY <3>1, <4>1 DEF CommandUnknown
    <3>3. ack.position = c
      BY <1>13, <3>2
    <3>4. r = AckApplied(d.id, ack.status, [kind |-> "upsert", binding |-> NewBinding(d, c)])
      BY <2>1, <2>3, <3>2, <3>3 DEF AckRecord
    <3>5. u.kind = "upsert" /\ u.binding = NewBinding(d, c) /\ r.status = ack.status
      BY <1>8, <1>15, <3>4, AckParts
    <3>6. BindingKey(NewBinding(d, c)) = key
      BY <1>6 DEF BindingKey, NewBinding, KeyOf
    <3>7. QED
      BY <1>5, <1>6, <1>12, <1>13, <1>14, <1>16, <2>3, <3>5, <3>6
  <2>4. CASE ack.status \in Success /\ d.action = "close"
    <3>1. r = AckApplied(d.id, ack.status, [kind |-> "remove", key |-> key])
      BY <1>6, <2>1, <2>4 DEF AckRecord
    <3>2. u.kind = "remove" /\ u.key = key /\ r.status = ack.status
      BY <1>8, <1>15, <3>1, AckParts
    <3>3. QED
      BY <1>5, <1>6, <1>12, <1>13, <1>14, <1>16, <2>4, <3>2
  <2>5. CASE ack.status \in Success /\ d.action \in {"modify", "reduce"}
    <3>1. r = AckApplied(d.id, ack.status, NoMutation)
      BY <2>1, <2>5 DEF AckRecord
    <3>2. u.kind = "none" /\ r.status = ack.status
      BY <1>8, <1>15, <3>1, AckParts DEF NoMutation
    <3>3. d.action = "reduce" => b = NoBinding
      BY <1>18, <2>5 DEF IsReduced
    <3>4. QED
      BY <1>5, <1>6, <1>12, <1>13, <1>14, <1>16, <2>5, <3>2, <3>3
  <2>6. QED
    BY <1>11, <2>2, <2>3, <2>4, <2>5 DEF Action
<1>19. QED
  BY <1>17, <1>18

LEMMA FigureAppend ==
    ASSUME OneTask, IdsTell, OneOpening, FigureInv, faults = 0, NEW k \in Task, pc[k] = "append",
           rec[k] \in RecordType, file' = Apply(file, rec[k]),
           settled' = IF IsFinalAck(rec[k]) THEN settled \cup {rec[k].id} ELSE settled,
           UNCHANGED <<outcome, book>>
    PROVE  (\A x \in CommandId : Fresh(x)') /\ (\A key \in Key : Squared(key)')
<1>1. ASSUME NEW x \in CommandId PROVE Fresh(x)'
  <2> SUFFICES ASSUME Opens(x), x \notin settled', outcome[x] = "filled"
               PROVE  book[x] = Filed(x)'.volume
    BY DEF Fresh
  <2>1. x \notin settled /\ ~(IsFinalAck(rec[k]) /\ rec[k].id = x)
    OBVIOUS
  <2>2. Filed(x)' = Filed(x)
    BY <2>1, AnsweredFiled, FiledMoves
  <2>3. QED
    BY <2>1, <2>2 DEF FigureInv, Fresh
<1>2. ASSUME NEW key \in Key PROVE Squared(key)'
  <2>1. CASE rec[k].kind # "AckApplied"
    <3>1. file'.mirrors[key] = file.mirrors[key] /\ ~IsFinalAck(rec[k])
      BY <2>1, FigureTypes, ApplyMirror DEF IsFinalAck
    <3>2. QED
      BY <3>1, SquaredStays
  <2>2. CASE rec[k].kind = "AckApplied"
    <3>1. PICK c : c = rec[k].id
      OBVIOUS
    <3>2. PICK own : own = KeyOfId(c)
      OBVIOUS
    <3>3. PICK d : d = Filed(c)
      OBVIOUS
    <3>4. PICK b : b = file.mirrors[own]
      OBVIOUS
    <3>5. PICK won : won = (rec[k].status \in Success)
      OBVIOUS
    <3>6. c \in CommandId /\ own \in Key /\ Tracked(file, c)
      BY <2>2, <3>1, <3>2, AckFiled
    <3>7. /\ d.action \in Action /\ d.volume \in Nat
          /\ d.action = "open" => Opens(c)
          /\ d.action # "open" =>
               /\ d.position \in CommandId /\ Opens(d.position)
               /\ KeyOfId(d.position) = own /\ d.position \in settled
      BY <3>2, <3>3, <3>6, FiledFacts, SMT DEF CommandType
    <3>8. /\ \A o \in Key : o # own => file'.mirrors[o] = file.mirrors[o]
          /\ won => outcome[c] = "filled"
          /\ ~won => /\ file'.mirrors[own] = b
                     /\ IsFinalAck(rec[k]) => outcome[c] = "rejected"
          /\ won => /\ IsFinalAck(rec[k])
                    /\ d.action = "reduce" =>
                         file'.mirrors[own] = IF b = NoBinding THEN b ELSE Reduced(b, d)
                    /\ d.action = "open" => file'.mirrors[own] = NewBinding(d, c)
                    /\ d.action = "close" => file'.mirrors[own] = NoBinding
                    /\ d.action = "modify" => file'.mirrors[own] = b
      BY <2>2, <3>1, <3>2, <3>3, <3>4, <3>5, AckLeaves
    <3>9. CASE key # own
      <4>1. ASSUME NEW x, file.mirrors[key] # NoBinding, x = file.mirrors[key].position,
                   NEW a \in {"reduce", "close"}, Done(c, x, a)
            PROVE  FALSE
        <5>1. KeyOfId(x) = key
          BY <4>1, BoundFacts
        <5>2. KeyOfId(x) = own
          BY <3>3, <3>7, <4>1 DEF Done
        <5>3. QED
          BY <3>9, <5>1, <5>2
      <4>2. QED
        BY <3>1, <3>8, <3>9, <4>1, SquaredStays
    <3>10. CASE key = own /\ ~won
      <4>1. IsFinalAck(rec[k]) => \A x : \A a : ~Done(c, x, a)
        BY <3>8, <3>10 DEF Done
      <4>2. QED
        BY <3>1, <3>4, <3>8, <3>10, <4>1, SquaredStays
    <3>11. CASE key = own /\ won /\ d.action = "modify"
      <4>1. \A x : \A a \in {"reduce", "close"} : ~Done(c, x, a)
        BY <3>3, <3>11 DEF Done
      <4>2. QED
        BY <3>1, <3>4, <3>8, <3>11, <4>1, SquaredStays
    <3>12. CASE key = own /\ b = NoBinding /\ won /\ d.action = "reduce"
      BY <3>4, <3>8, <3>12, SquaredStays
    <3>13. CASE key = own /\ won /\ d.action = "close"
      BY <3>8, <3>13 DEF Squared
    <3>14. CASE key = own /\ won /\ d.action = "open"
      <4>1. PICK n : n = NewBinding(d, c)
        OBVIOUS
      <4>2. n.position = c /\ n.targetRemaining = d.volume
        BY <4>1 DEF NewBinding
      <4>3. c \notin settled /\ Opens(c)
        BY <3>6, <3>7, <3>14, FigureTypes DEF FinalInv
      <4>4. book[c] = d.volume
        BY <3>3, <3>6, <3>8, <3>14, <4>3 DEF FigureInv, Fresh
      <4>5. Owed(c)' = {}
        <5>1. ASSUME NEW e \in CommandId, Done(e, c, "reduce")' PROVE FALSE
          <6>1. Done(e, c, "reduce")
            BY <5>1, DoneByAppend
          <6>2. c \in settled
            BY <6>1, FiledFacts DEF Done
          <6>3. QED
            BY <4>3, <6>2
        <5>2. QED
          BY <5>1 DEF Owed
      <4>6. Points(c)' = {}
        <5>1. Points(c)' = Volumes({}, file.commands)
          BY <4>5, PointsByAppend
        <5>2. QED
          BY <5>1 DEF Volumes
      <4>7. IsFiniteSet(Points(c)') /\ Cardinality(Points(c)') = 0
        BY <4>6, FS_EmptySet
      <4>8. book[c] = NotNegative(d.volume - 0)
        BY <3>7, <4>4 DEF NotNegative
      <4>9. file'.mirrors[key] = n
        BY <3>8, <3>14, <4>1
      <4>10. QED
        BY <4>2, <4>7, <4>8, <4>9 DEF Squared
    <3>15. CASE key = own /\ b # NoBinding /\ won /\ d.action = "reduce"
      <4>1. PICK x : x = b.position
        OBVIOUS
      <4>2. PICK r : r = b.targetRemaining
        OBVIOUS
      <4>3. /\ b \in BindingType /\ r \in Nat /\ x \in CommandId /\ Opens(x)
            /\ KeyOfId(x) = own /\ Built(x)
        BY <3>4, <3>6, <3>15, <4>1, <4>2, BoundFacts
      <4>4. Built(d.position)
        BY <3>7, <3>15 DEF FigureInv, KeepInv, Told
      <4>5. d.position = x
        BY <3>7, <3>15, <4>3, <4>4, OpenedOnce
      <4>6. Done(c, x, "reduce")
        BY <3>3, <3>6, <3>8, <3>15, <4>5 DEF Done
      <4>7. PICK S : S = Owed(x)'
        OBVIOUS
      <4>8. PICK T : T = Owed(x)
        OBVIOUS
      <4>9. c \notin S /\ T = S \cup {c}
        <5>1. \A e \in CommandId : Done(e, x, "reduce")' <=> Done(e, x, "reduce") /\ e # c
          BY <3>1, <3>8, <3>15, DoneByAppend
        <5>2. S = {e \in CommandId : Done(e, x, "reduce")'}
          BY <4>7 DEF Owed
        <5>3. QED
          BY <3>6, <4>6, <4>8, <5>1, <5>2 DEF Owed
      <4>10. PICK f : f = file.commands
        OBVIOUS
      <4>11. PICK P : P = Points(x)
        OBVIOUS
      <4>12. PICK Q : Q = Points(x)'
        OBVIOUS
      <4>13. P = Volumes(T, f) /\ Q = Volumes(S, f)
        BY <4>7, <4>8, <4>10, <4>11, <4>12, PointsByAppend DEF Points
      <4>14. IsFiniteSet(P) /\ (book[x] = NotNegative(r - Cardinality(P)) \/ Closing(x))
        BY <3>4, <3>6, <3>15, <4>1, <4>2, <4>11 DEF FigureInv, Squared
      <4>15. /\ IsFiniteSet(Q) /\ Cardinality(Q) \in Nat
             /\ Cardinality(P) = Cardinality(Q) + d.volume
        <5>1. f[c].command.volume = d.volume
          BY <3>3, <4>10 DEF Filed
        <5>2. /\ IsFiniteSet(Volumes(S, f)) /\ Cardinality(Volumes(S, f)) \in Nat
              /\ Cardinality(Volumes(T, f)) = Cardinality(Volumes(S, f)) + f[c].command.volume
          BY <3>6, <3>7, <4>9, <4>13, <4>14, <5>1, VolumesCount
        <5>3. QED
          BY <4>13, <5>1, <5>2
      <4>16. PICK n \in Nat : n = Cardinality(Q)
        BY <4>15
      <4>17. NotNegative(r - (n + d.volume)) = NotNegative(NotNegative(r - d.volume) - n)
        BY <3>7, <4>3, TakenOff
      <4>18. Closing(x) => Closing(x)'
        <5>1. ASSUME NEW e \in CommandId, Done(e, x, "close") PROVE Done(e, x, "close")'
          <6>1. e # c
            BY <3>3, <3>15, <5>1 DEF Done
          <6>2. QED
            BY <3>1, <5>1, <6>1, DoneByAppend
        <5>2. QED
          BY <5>1 DEF Closing
      <4>19. PICK m : m = Reduced(b, d)
        OBVIOUS
      <4>20. m.position = x /\ m.targetRemaining = NotNegative(r - d.volume)
        BY <3>3, <3>6, <4>1, <4>2, <4>3, <4>19, FiledFacts, ReducedEffect
      <4>21. file'.mirrors[key] = m
        BY <3>8, <3>15, <4>19
      <4>22. book[x] = NotNegative(m.targetRemaining - Cardinality(Q)) \/ Closing(x)'
        BY <4>14, <4>15, <4>16, <4>17, <4>18, <4>20
      <4>23. QED
        BY <4>12, <4>15, <4>20, <4>21, <4>22 DEF Squared
    <3>16. QED
      BY <3>5, <3>7, <3>9, <3>10, <3>11, <3>12, <3>13, <3>14, <3>15 DEF Action
  <2>3. QED
    BY <2>1, <2>2
<1>3. QED
  BY <1>1, <1>2

-----------------------------------------------------------------------------
(* The figures are kept.                                                    *)
LEMMA FaultsStay ==
    ASSUME KeyedInv, RuntimeStep(AckType), faults' = 0
    PROVE  faults = 0
<1>1. faults \in Nat
  BY RuntimeAssumption, SMT DEF KeyedInv, RuntimeTypeInv, RuntimeTypeOK
<1>2. ASSUME NEW k \in Task, TaskStepOf(k), ~Writes(k) PROVE faults = 0
  BY <1>2, QuietTask
<1>3. ASSUME NEW k \in Task, AppendRecord(k) \/ ApplyRecord(k) PROVE faults = 0
  BY <1>3 DEF AppendRecord, ApplyRecord
<1>4. ASSUME NEW k \in Task, NEW label \in Exit, AppendFails(k, label) PROVE faults = 0
  BY <1>1, <1>4, SMT DEF AppendFails
<1>5. CASE Restarts
  BY <1>5 DEF Restarts
<1>6. QED
  BY <1>2, <1>3, <1>4, <1>5, StepKinds DEF Writes

LEMMA FigureStart ==
    ASSUME Init
    PROVE  FigureInv
<1>1. RuntimeInit /\ KeepInv /\ LevelInv
  BY KeepStart, LevelStart DEF Init
<1>2. \A c \in CommandId : outcome[c] = "none" /\ ~Tracked(mem, c) /\ ~Tracked(file, c)
  BY DEF Init, RuntimeInit, EmptyReplay, Tracked, StateOf, Absent
<1>3. \A key \in Key : mem.mirrors[key] = NoBinding /\ file.mirrors[key] = NoBinding
  BY <1>1 DEF RuntimeInit, EmptyReplay
<1>4. \A k \in Task : Drawn(k, Executed) /\ OneRound(k)
  BY <1>1 DEF RuntimeInit, FreshTasks, Drawn, OneRound, NoRecord
<1>5. \A Q : Among(mem, file, rec, todo, chan, Q)
  BY <1>1, AmongStart
<1>6. Confirmed
  BY <1>3, <1>5 DEF Confirmed, Binds, Mentions
<1>7. OneVersion
  BY <1>5 DEF OneVersion
<1>8. QED
  BY <1>1, <1>2, <1>3, <1>4, <1>6, <1>7 DEF FigureInv, Unheld, Fresh, Squared

(* A step that leaves the journal and the accounts of the followers alone   *)
(* leaves their figures alone.                                              *)
LEMMA FigureStays ==
    ASSUME FigureInv, faults = 0, UNCHANGED <<file, settled, outcome, book>>
    PROVE  (\A x \in CommandId : Fresh(x)') /\ (\A key \in Key : Squared(key)')
<1>1. /\ \A c : \A x : \A a : Done(c, x, a)' <=> Done(c, x, a)
      /\ \A c : Filed(c)' = Filed(c)
  BY DEF Done, Tracked, StateOf, Filed
<1>2. \A x : Points(x)' = Points(x) /\ (Closing(x)' <=> Closing(x))
  BY <1>1 DEF Points, Owed, Closing
<1>3. \A x \in CommandId : Fresh(x)'
  BY <1>1 DEF FigureInv, Fresh
<1>4. \A key \in Key : Squared(key)'
  BY <1>2 DEF FigureInv, Squared
<1>5. QED
  BY <1>3, <1>4

LEMMA FigureStep ==
    ASSUME OneTask, IdsTell, OneOpening, FigureInv, [Next]_vars
    PROVE  FigureInv'
<1>1. /\ MirrorInv /\ KeyedInv /\ RuntimeTypeInv /\ ShelvedInv /\ SeasonedInv /\ LedgerInv
      /\ KeepInv /\ LevelInv
  BY FigureTypes DEF FigureInv
<1>2. RuntimeStep(AckType) /\ RuntimeStep(Executed)
  BY AnyStep, StepMapped
<1>3. KeepInv' /\ LevelInv'
  BY <1>1, <1>2, KeepStep, LevelStep
<1>4. PICK acks : acks = Executed
  OBVIOUS
<1>5. PICK more : more = Executed'
  OBVIOUS
<1>6. /\ acks \in SUBSET AckType /\ acks \subseteq more /\ RuntimeStep(acks)
      /\ \A ack \in acks : ack.position \in {ack.id, NoPosition}
  <2>1. acks \in SUBSET AckType /\ \A ack \in acks : ack.position \in {ack.id, NoPosition}
    BY <1>4 DEF Executed
  <2>2. ASSUME NEW ack \in acks PROVE ack \in more
    <3>1. /\ ack \in AckType /\ outcome[ack.id] # "none"
          /\ ack.status \in Success => outcome[ack.id] = "filled"
          /\ ack.status = "rejected" => outcome[ack.id] = "rejected"
          /\ ack.position \in {ack.id, NoPosition}
      BY <1>4, <2>2 DEF Executed
    <3>2. ack.id \in CommandId
      BY <3>1, SMT DEF AckType
    <3>3. outcome'[ack.id] = outcome[ack.id]
      BY <1>1, <3>1, <3>2, BookStep DEF Answered
    <3>4. QED
      BY <1>5, <3>1, <3>3 DEF Executed
  <2>3. QED
    BY <1>2, <1>4, <2>1, <2>2
<1>7. \A k \in Task : Drawn(k, acks) /\ OneRound(k)
  BY <1>4 DEF FigureInv
<1>8. \A k \in Task : Drawn(k, acks)'
  BY <1>1, <1>6, <1>7, DrawnStep
<1>9. \A k \in Task : Drawn(k, Executed)'
  BY <1>5, <1>6, <1>8 DEF Drawn
<1>10. \A k \in Task : OneRound(k)'
  BY <1>1, <1>2, <1>7, RoundStep
<1>11. Confirmed' /\ Unheld'
  BY <1>1, <1>6, <1>7, ConfirmedStep, UnheldStep DEF FigureInv
<1>12. ASSUME faults' = 0
       PROVE  /\ OneVersion'
              /\ \A x \in CommandId : Fresh(x)'
              /\ \A key \in Key : Squared(key)'
  <2>1. faults = 0
    BY <1>1, <1>2, <1>12, FaultsStay
  <2>2. OneVersion'
    BY <1>1, <1>2, <1>7, <2>1, VersionStep DEF FigureInv
  <2>3. CASE UNCHANGED <<outcome, book, file, settled>>
    BY <2>1, <2>2, <2>3, FigureStays
  <2>4. ASSUME NEW k \in Task, UNCHANGED <<outcome, book>>, pc[k] = "append",
               rec[k] \in RecordType, file' = Apply(file, rec[k]),
               settled' = IF IsFinalAck(rec[k]) THEN settled \cup {rec[k].id} ELSE settled
        PROVE  (\A x \in CommandId : Fresh(x)') /\ (\A key \in Key : Squared(key)')
    BY <2>1, <2>4, FigureAppend
  <2>5. ASSUME NEW s \in Session, NEW result \in {"filled", "rejected"}, chan[s].queue # <<>>,
               Executing(Head(chan[s].queue), result)
        PROVE  (\A x \in CommandId : Fresh(x)') /\ (\A key \in Key : Squared(key)')
    BY <2>1, <2>5, FigureExecute
  <2>6. \/ UNCHANGED <<file, settled>>
        \/ \E k \in Task :
             /\ pc[k] = "append" /\ rec[k] \in RecordType /\ file' = Apply(file, rec[k])
             /\ settled' = IF IsFinalAck(rec[k]) THEN settled \cup {rec[k].id} ELSE settled
    BY <1>1, <1>2, StatesMove
  <2>7. QED
    BY <2>2, <2>3, <2>4, <2>5, <2>6, OutcomesMove
<1>13. QED
  BY <1>3, <1>9, <1>10, <1>11, <1>12 DEF FigureInv

(* The binding of a drawn up acknowledgement is the one of its command.     *)
LEMMA AckOwnKey ==
    ASSUME IdsTell, ShelvedInv, NEW k \in Task, NEW acks, Drawn(k, acks), pc[k] # "mirror",
           rec[k].kind = "AckApplied"
    PROVE  LET u == rec[k].mutation
               key == KeyOfId(rec[k].id)
           IN  /\ u.kind = "upsert" => BindingKey(u.binding) = key
               /\ u.kind = "remove" => u.key = key
<1>1. PICK c : c = mem.commands[rec[k].id].command
  OBVIOUS
<1>2. PICK key : key = KeyOf(c.source, c.order, c.target)
  OBVIOUS
<1>3. PICK b : b = mem.mirrors[key]
  OBVIOUS
<1>4. /\ c \in CommandType /\ key = KeyOfId(rec[k].id) /\ rec[k] \in RecordType
      /\ b \in BindingType \cup {NoBinding} /\ (b # NoBinding => BindingKey(b) = key)
  BY <1>1, <1>2, <1>3, AckedCommand, Zenon
<1>5. PICK ack \in acks : rec[k] = Result(c, ack, b)
  BY <1>1, <1>2, <1>3, Zenon DEF Drawn
<1>6. PICK u : u = rec[k].mutation
  OBVIOUS
<1>7. CASE IsReduced(c, ack) /\ b # NoBinding
  <2>1. u = [kind |-> "upsert", binding |-> Reduced(b, c)]
    BY <1>5, <1>6, <1>7, AckParts DEF Result
  <2>2. QED
    BY <1>4, <1>6, <1>7, <2>1, ReducedEffect
<1>8. CASE ~(IsReduced(c, ack) /\ b # NoBinding)
  <2>1. rec[k] = AckRecord(c, ack)
    BY <1>5, <1>8 DEF Result
  <2>2. \/ rec[k] = CommandUnknown(c.id)
        \/ \E status : rec[k] = AckApplied(c.id, status, NoMutation)
        \/ \E status : rec[k] = AckApplied(c.id, status, [kind |-> "remove", key |-> key])
        \/ \E status : rec[k] = AckApplied(c.id, status,
              [kind |-> "upsert", binding |-> NewBinding(c, ack.position)])
    <3>1. c.action \in Action
      BY <1>4, SMT DEF CommandType
    <3>2. QED
      BY <1>2, <2>1, <3>1 DEF AckRecord, Action
  <2>3. BindingKey(NewBinding(c, ack.position)) = key
    BY <1>2 DEF BindingKey, NewBinding, KeyOf
  <2>4. CASE rec[k] = CommandUnknown(c.id)
    BY <2>4 DEF CommandUnknown
  <2>5. ASSUME NEW status, NEW v, rec[k] = AckApplied(c.id, status, v)
        PROVE  u = v
    BY <1>6, <2>5, AckParts
  <2>6. QED
    BY <1>4, <1>6, <2>2, <2>3, <2>4, <2>5 DEF NoMutation
<1>9. QED
  BY <1>7, <1>8

LEMMA AckElsewhere ==
    ASSUME IdsTell, ShelvedInv, NEW k \in Task, NEW acks, Drawn(k, acks), pc[k] # "mirror",
           rec[k].kind = "AckApplied", rec[k] \in RecordType,
           NEW s \in ReplayType, NEW o \in Key, o # KeyOfId(rec[k].id)
    PROVE  Apply(s, rec[k]).mirrors[o] = s.mirrors[o]
<1>1. PICK key : key = KeyOfId(rec[k].id)
  OBVIOUS
<1>2. PICK u : u = rec[k].mutation
  OBVIOUS
<1>3. /\ u.kind = "upsert" => BindingKey(u.binding) = key
      /\ u.kind = "remove" => u.key = key
  BY <1>1, <1>2, AckOwnKey
<1>4. u \in MutationType /\ Apply(s, rec[k]).mirrors = Mutate(s.mirrors, u)
  BY <1>2, RecordShape, ApplyAck
<1>5. s.mirrors \in [Key -> BindingType \cup {NoBinding}]
  BY SMT DEF ReplayType
<1>6. QED
  BY <1>1, <1>3, <1>4, <1>5, MutateEntry

(* The command an acknowledgement in hand is for.                           *)
LEMMA AckRefers ==
    ASSUME IdsTell, FigureInv, NEW k \in Task, rec[k].kind = "AckApplied"
    PROVE  LET d == mem.commands[rec[k].id].command
           IN  /\ d \in CommandType /\ SoundCommand(d) /\ d.id = rec[k].id
               /\ d.id \in CommandId /\ Tracked(mem, d.id)
               /\ Refers(d, OpenRefs(settled))
<1>1. PICK c : c = rec[k].id
  OBVIOUS
<1>2. PICK d : d = mem.commands[c].command
  OBVIOUS
<1>3. d \in CommandType /\ SoundCommand(d) /\ d.id = c /\ c \in CommandId /\ Tracked(mem, c)
  BY <1>1, <1>2, FigureTypes, AckedCommand DEF FigureInv
<1>4. Refers(d, OpenRefs(settled))
  BY <1>2, <1>3 DEF FigureInv, Confirmed, Mentions, Among, InState, Referring
<1>5. QED
  BY <1>1, <1>2, <1>3, <1>4

(* A command that is done in the eyes of the journal is tracked in memory.  *)
LEMMA DoneTracked ==
    ASSUME FigureInv, faults = 0, NEW c \in CommandId, Tracked(file, c), outcome[c] = "filled"
    PROVE  Tracked(mem, c) /\ mem.commands[c].command = Filed(c)
<1>1. /\ Level /\ SeasonedInv /\ FinalInv
  BY FigureTypes DEF FigureInv, LevelInv
<1>2. c \notin settled
  BY <1>1 DEF FinalInv
<1>3. StateOf(file, c) # "queued"
  BY <1>2, AnsweredFiled
<1>4. \A k \in Task : ~Planning(k, c) /\ ~Ending(k, c)
  BY <1>1, <1>2, <1>3 DEF Level, EntryLevel, SeasonedInv, Ending, Applying
<1>5. QED
  BY <1>1, <1>4 DEF Level, EntryLevel, Filed

LEMMA FigureAgrees ==
    ASSUME OneTask, IdsTell, OneOpening, FigureInv
    PROVE  MirrorAgrees
<1> SUFFICES ASSUME faults = 0, NEW key \in Key, mem.mirrors[key] # NoBinding,
                    \A c \in CommandId : Tracked(mem, c) =>
                       mem.commands[c].command.position # mem.mirrors[key].position
             PROVE  mem.mirrors[key].targetRemaining = book[mem.mirrors[key].position]
  BY DEF MirrorAgrees
<1>1. PICK b : b = mem.mirrors[key]
  OBVIOUS
<1>2. PICK x : x = b.position
  OBVIOUS
<1>3. /\ Level /\ ShelvedInv /\ mem \in ReplayType
      /\ \A k \in Task : Drawn(k, Executed)
  BY FigureTypes DEF FigureInv, LevelInv
<1>4. x \in CommandId /\ Opens(x) /\ KeyOfId(x) = key /\ x \in settled
  BY <1>1, <1>2 DEF FigureInv, Confirmed, Binds, OpenRefs
<1>5. \A y \in settled : y \in CommandId => Built(y)
  BY DEF FigureInv, KeepInv, Told
<1>6. file.mirrors[key] = b
  <2>1. ASSUME NEW k \in Task, pc[k] = "apply", rec[k].kind = "AckApplied",
               KeyOfId(rec[k].id) = key
        PROVE  FALSE
    <3>1. PICK c : c = rec[k].id
      OBVIOUS
    <3>2. PICK d : d = mem.commands[c].command
      OBVIOUS
    <3>3. /\ d \in CommandType /\ SoundCommand(d) /\ d.id = c /\ c \in CommandId
          /\ Tracked(mem, c) /\ Refers(d, OpenRefs(settled))
      BY <2>1, <3>1, <3>2, AckRefers
    <3>4. (d.action = "open" <=> Opens(c)) /\ KeyOf(d.source, d.order, d.target) = key
      BY <2>1, <3>1, <3>3, IdTells
    <3>5. CASE d.action = "open"
      <4>1. Built(c)
        BY <3>3 DEF Built
      <4>2. c = x
        BY <1>4, <1>5, <2>1, <3>1, <3>4, <3>5, <4>1, OpenedOnce
      <4>3. QED
        BY <1>1, <1>2, <1>4, <3>3, <4>2 DEF FigureInv, Unheld
    <3>6. CASE d.action # "open"
      <4>1. /\ d.position \in CommandId /\ Opens(d.position) /\ d.position \in settled
            /\ KeyOfId(d.position) = key
        BY <3>3, <3>4, <3>6 DEF Refers, OpenRefs
      <4>2. d.position = x
        BY <1>4, <1>5, <4>1, OpenedOnce
      <4>3. QED
        BY <1>1, <1>2, <3>2, <3>3, <4>2
    <3>7. QED
      BY <3>5, <3>6
  <2>2. ASSUME NEW k \in Task, Applying(k)
        PROVE  Apply(mem, rec[k]).mirrors[key] = b
    <3>1. pc[k] = "apply" /\ rec[k] \in RecordType
      BY <2>2, FigureTypes DEF Applying, RuntimeTypeInv, Standing
    <3>2. CASE rec[k].kind = "AckApplied"
      BY <1>1, <1>3, <2>1, <3>1, <3>2, AckElsewhere
    <3>3. CASE rec[k].kind # "AckApplied"
      BY <1>1, <1>3, <3>1, <3>3, ApplyMirror
    <3>4. QED
      BY <3>2, <3>3
  <2>3. QED
    BY <1>1, <1>3, <2>2 DEF Level, MirrorLevel
<1>7. ASSUME NEW c \in CommandId, NEW a, Done(c, x, a) PROVE FALSE
  BY <1>1, <1>2, <1>7, DoneTracked DEF Done
<1>8. Owed(x) = {} /\ ~Closing(x)
  BY <1>7 DEF Owed, Closing
<1>9. Points(x) = {}
  BY <1>8 DEF Points, Volumes
<1>10. Cardinality(Points(x)) = 0
  BY <1>9, FS_EmptySet
<1>11. PICK r \in Nat : r = b.targetRemaining
  BY <1>1, <1>6, BoundFacts
<1>12. book[x] = NotNegative(r - 0)
  BY <1>1, <1>2, <1>6, <1>8, <1>10, <1>11 DEF FigureInv, Squared
<1>13. QED
  BY <1>1, <1>2, <1>11, <1>12 DEF NotNegative

(* What mirror_mutation and build_command compute with: as long as no       *)
(* append fails, the volume a binding says its follower holds is what the   *)
(* follower holds, unless a command for that position is still tracked,     *)
(* whatever is delivered twice, answered late or found after a restart.     *)
THEOREM MirrorsAgree ==
    ASSUME OneTask, IdsTell, OneOpening
    PROVE  Spec => []MirrorAgrees
<1>1. Init => FigureInv
  BY FigureStart
<1>2. FigureInv /\ [Next]_vars => FigureInv'
  BY FigureStep
<1>3. FigureInv => MirrorAgrees
  BY FigureAgrees
<1>4. QED
  BY <1>1, <1>2, <1>3, PTL DEF Spec
=============================================================================
