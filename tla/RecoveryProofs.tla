--------------------------- MODULE RecoveryProofs ---------------------------
(***************************************************************************)
(* What tasks, memory and journal say of commands and bindings, whatever    *)
(* way the accounts are attached and however often the daemon restarts:     *)
(* every command is one the engine built from an event, every binding began *)
(* with the positive volume that TradeEvent::validate asks of an open       *)
(* (RouteError::InvalidMirror never happens), and what a master's only      *)
(* connection has planned is not planned again; what is sent is first       *)
(* recorded; and while no append has failed a restart finds what memory     *)
(* holds.  Two last sections say which steps report an event, and which     *)
(* positions bindings name: the venues' own theorems rest on them.          *)
(***************************************************************************)
EXTENDS RuntimeProofs

-----------------------------------------------------------------------------
(* A step is one of a single task, or leaves the tasks alone.               *)

Unmoved(j) ==
    /\ pc'[j] = pc[j] /\ ev'[j] = ev[j] /\ routes'[j] = routes[j] /\ rec'[j] = rec[j]
    /\ ret'[j] = ret[j] /\ todo'[j] = todo[j] /\ sess'[j] = sess[j]

TaskStepOf(k) ==
    \/ HandlerStep(k) \/ DrawSessionId(k) \/ Leaves(k)
    \/ \E label \in Exit : AppendFails(k, label) \/ Ends(k, label)
    \/ \E e \in Event : HandleEvent(k, e)
    \/ \E ack \in AckType : HandleAck(k, ack)

LEMMA OthersStay ==
    ASSUME RuntimeTypeInv, NEW k \in Task, TaskStepOf(k)
    PROVE  \A j \in Task \ {k} : Unmoved(j)
<1> USE DEF Unmoved
<1>1. /\ pc = [j \in Task |-> pc[j]] /\ ev = [j \in Task |-> ev[j]]
      /\ routes = [j \in Task |-> routes[j]] /\ rec = [j \in Task |-> rec[j]]
      /\ ret = [j \in Task |-> ret[j]] /\ todo = [j \in Task |-> todo[j]]
      /\ sess = [j \in Task |-> sess[j]]
  BY DEF RuntimeTypeInv, RuntimeTypeOK
<1>2. CASE DrawSessionId(k) \/ InsertSession(k) \/ Unregister(k) \/ Leaves(k)
  BY <1>1, <1>2 DEF DrawSessionId, InsertSession, Unregister, Leaves, Goto
<1>3. CASE SnapshotQueued(k) \/ SnapshotDispatched(k)
  BY <1>1, <1>3 DEF SnapshotQueued, SnapshotDispatched, Loop
<1>4. CASE MarkOrphan(k)
  BY <1>1, <1>4 DEF MarkOrphan, Goto, Journal
<1>5. CASE RouteEvent(k) \/ RoutePanics(k)
  BY <1>1, <1>5 DEF RouteEvent, RoutePanics, Fail, Goto, Journal
<1>6. CASE AppendRecord(k) \/ ApplyRecord(k)
  BY <1>1, <1>6 DEF AppendRecord, ApplyRecord, Goto, Loop
<1>7. CASE DispatchNext(k)
  BY <1>1, <1>7 DEF DispatchNext, Goto, Loop, Journal
<1>8. CASE Send(k) \/ SendFails(k)
  BY <1>1, <1>8 DEF Send, SendFails, Goto, Loop, Journal
<1>9. CASE MutateReduced(k)
  BY <1>1, <1>9 DEF MutateReduced, Goto, Journal
<1>10. ASSUME NEW label \in Exit, AppendFails(k, label) \/ Ends(k, label)
       PROVE  \A j \in Task \ {k} : Unmoved(j)
  BY <1>1, <1>10 DEF AppendFails, Ends, Fail, Goto
<1>11. ASSUME NEW e \in Event, HandleEvent(k, e) PROVE \A j \in Task \ {k} : Unmoved(j)
  BY <1>1, <1>11 DEF HandleEvent, Goto, Journal
<1>12. ASSUME NEW ack \in AckType, HandleAck(k, ack) PROVE \A j \in Task \ {k} : Unmoved(j)
  BY <1>1, <1>12 DEF HandleAck, Goto, Journal
<1>13. QED
  BY <1>2, <1>3, <1>4, <1>5, <1>6, <1>7, <1>8, <1>9, <1>10, <1>11, <1>12
     DEF TaskStepOf, HandlerStep

(* The other steps leave every task where it stands, or restart them all.   *)
LEMMA StepKinds ==
    ASSUME RuntimeStep(AckType)
    PROVE  \/ \E k \in Task : TaskStepOf(k)
           \/ Restarts
           \/ /\ UNCHANGED <<mem, file, sessions, nextId, taskVars, handed, settled, faults>>
              /\ \/ \E s \in Session : Takes(s) \/ Closes(s)
                 \/ UNCHANGED chan
BY DEF RuntimeStep, TaskStepOf, Takes, Closes, runtimeVars

-----------------------------------------------------------------------------
(* What a task holds where it stands.  What it plans comes from one event   *)
(* of its own account, and it has no other commands in hand while it does.  *)

AtEase == {"off", "register", "queued", "idle", "leave", "lost", "dead"}

Orderly(k) ==
    /\ pc[k] \in AtEase => todo[k] = {}
    /\ pc[k] \in {"append", "apply"} /\ ret[k] = "idle" => todo[k] = {}
    /\ pc[k] = "mirror" => \A d \in todo[k] : d.id = rec[k].id
    /\ pc[k] = "route" =>
         /\ ev[k].source = Owner[k] /\ Owner[k] \in Publishers
         /\ routes[k] \subseteq RoutesFor(Owner[k])
         /\ \A d \in todo[k] : d.source = Owner[k] /\ d.event = ev[k].id
    /\ IsPlanned(rec[k]) =>
         /\ pc[k] \in {"append", "apply"} /\ ret[k] = "dispatch"
         /\ Owner[k] \in Publishers
         /\ todo[k] = rec[k].commands
         /\ \A d \in rec[k].commands : d.source = Owner[k] /\ d.event = rec[k].event
    /\ rec[k] # NoRecord => pc[k] \in {"append", "apply", "send", "mirror"}

OrderlyInv == KeyedInv /\ \A k \in Task : Orderly(k)

LEMMA OrderlyStart ==
    ASSUME RuntimeInit
    PROVE  OrderlyInv
BY KeyedStart DEF OrderlyInv, Orderly, AtEase, RuntimeInit, FreshTasks, NoRecord, IsPlanned

LEMMA FailOrderly ==
    ASSUME KeyedInv, NEW k \in Task, NEW label \in Exit, Fail(k, label)
    PROVE  Orderly(k)'
<1>1. pc'[k] = label /\ rec'[k] = NoRecord /\ todo'[k] = {}
  BY Types DEF Fail, Goto
<1>2. QED
  BY <1>1 DEF Orderly, AtEase, Exit, NoRecord, IsPlanned

LEMMA SessionStepOrderly ==
    ASSUME OrderlyInv, NEW k \in Task,
           \/ DrawSessionId(k) \/ Leaves(k) \/ InsertSession(k)
           \/ SnapshotQueued(k) \/ Unregister(k) \/ SnapshotDispatched(k) \/ MarkOrphan(k)
    PROVE  Orderly(k)'
<1> USE Types DEF OrderlyInv, Orderly, AtEase
<1>1. CASE DrawSessionId(k) \/ Leaves(k) \/ InsertSession(k) \/ Unregister(k)
  <2>1. /\ pc[k] \in {"off", "idle", "register", "leave"}
        /\ pc'[k] \in {"register", "leave", "queued", "lost", "off"}
        /\ UNCHANGED <<rec, todo>>
    BY <1>1 DEF DrawSessionId, Leaves, InsertSession, Unregister, Goto
  <2>2. QED
    BY <2>1 DEF NoRecord, IsPlanned
<1>2. CASE SnapshotQueued(k) \/ SnapshotDispatched(k)
  <2>1. /\ pc[k] \in {"queued", "lost"} /\ rec' = rec
        /\ pc'[k] \in {"dispatch", "orphans"} \/ (pc'[k] \in {"idle", "off"} /\ todo'[k] = {})
    BY <1>2 DEF SnapshotQueued, SnapshotDispatched, Loop
  <2>2. QED
    BY <2>1 DEF NoRecord, IsPlanned
<1>3. CASE MarkOrphan(k)
  <2>1. pc'[k] = "append" /\ ret'[k] = "orphans" /\ rec'[k].kind = "CommandUnknown"
    BY <1>3 DEF MarkOrphan, Journal, Goto, CommandUnknown
  <2>2. QED
    BY <2>1 DEF IsPlanned
<1>4. QED
  BY <1>1, <1>2, <1>3

LEMMA EventOrderly ==
    ASSUME OrderlyInv, NEW k \in Task, NEW e \in Event, HandleEvent(k, e)
    PROVE  Orderly(k)'
<1>1. /\ pc[k] = "idle" /\ todo' = todo /\ todo[k] = {} /\ rec[k] = NoRecord
      /\ e.source = Owner[k] /\ Owner[k] \in Publishers
  BY DEF HandleEvent, Refused, OrderlyInv, Orderly, AtEase
<1>2. CASE RoutesFor(e.source) = {}
  <2>1. pc'[k] = "append" /\ ret'[k] = "dispatch" /\ rec'[k] = EventPlanned(e.id, {})
    BY <1>2, Types DEF HandleEvent, Journal, Goto, OrderlyInv
  <2>2. QED
    BY <1>1, <2>1 DEF Orderly, AtEase, EventPlanned
<1>3. CASE RoutesFor(e.source) # {}
  <2>1. pc'[k] = "route" /\ ev'[k] = e /\ routes'[k] = RoutesFor(e.source) /\ rec' = rec
    BY <1>3, Types DEF HandleEvent, Goto, OrderlyInv, KeyedInv, RuntimeTypeInv, RuntimeTypeOK
  <2>2. QED
    BY <1>1, <2>1 DEF Orderly, AtEase, NoRecord, IsPlanned
<1>4. QED
  BY <1>2, <1>3

LEMMA RouteOrderly ==
    ASSUME OrderlyInv, NEW k \in Task, RouteEvent(k)
    PROVE  Orderly(k)'
<1> DEFINE e == ev[k]
           b(i) == mem.mirrors[KeyOf(e.source, e.order, Rules[i].target)]
           planned(i) == todo[k] \cup IF Builds(Rules[i], e, b(i))
                                       THEN {BuiltCommand(Rules[i], e, b(i))} ELSE {}
<1>1. PICK i \in routes[k] :
        /\ routes' = [routes EXCEPT ![k] = @ \ {i}]
        /\ todo' = [todo EXCEPT ![k] = planned(i)]
        /\ \/ /\ pc' = [pc EXCEPT ![k] = "append"]
              /\ rec' = [rec EXCEPT ![k] = EventPlanned(e.id, planned(i))]
              /\ ret' = [ret EXCEPT ![k] = "dispatch"]
           \/ UNCHANGED <<pc, rec, ret>>
        /\ ev' = ev
  BY DEF RouteEvent, Journal, Goto
<1>2. /\ pc[k] = "route" /\ rec[k] = NoRecord
      /\ e.source = Owner[k] /\ Owner[k] \in Publishers
      /\ routes[k] \subseteq RoutesFor(Owner[k])
      /\ \A d \in todo[k] : d.source = Owner[k] /\ d.event = e.id
  BY DEF RouteEvent, OrderlyInv, Orderly
<1>3. \A d \in planned(i) : d.source = Owner[k] /\ d.event = e.id
  BY <1>2 DEF BuiltCommand
<1> HIDE DEF planned
<1>4. todo'[k] = planned(i) /\ routes'[k] \subseteq RoutesFor(Owner[k])
  BY <1>1, <1>2, Types DEF OrderlyInv, KeyedInv, RuntimeTypeInv, RuntimeTypeOK
<1>5. CASE UNCHANGED <<pc, rec, ret>>
  BY <1>1, <1>2, <1>3, <1>4, <1>5 DEF Orderly, AtEase, NoRecord, IsPlanned
<1>6. CASE ~UNCHANGED <<pc, rec, ret>>
  <2>1. pc'[k] = "append" /\ rec'[k] = EventPlanned(e.id, planned(i)) /\ ret'[k] = "dispatch"
    BY <1>1, <1>6, Types DEF OrderlyInv
  <2>2. QED
    BY <1>2, <1>3, <1>4, <2>1 DEF Orderly, AtEase, EventPlanned
<1>7. QED
  BY <1>5, <1>6

LEMMA JournalOrderly ==
    ASSUME OrderlyInv, NEW k \in Task, AppendRecord(k) \/ ApplyRecord(k)
    PROVE  Orderly(k)'
<1>1. CASE AppendRecord(k)
  <2>1. /\ pc[k] = "append" /\ pc'[k] = "apply"
        /\ UNCHANGED <<rec, ret, todo>>
    BY <1>1, Types DEF AppendRecord, Goto, OrderlyInv
  <2>2. QED
    BY <2>1 DEF OrderlyInv, Orderly, AtEase
<1>2. CASE ApplyRecord(k)
  <2>1. /\ pc[k] = "apply" /\ ret[k] \in {"idle", "dispatch", "send", "orphans"}
        /\ ret[k] = "send" => rec[k].kind = "CommandDispatched"
    BY <1>2 DEF ApplyRecord, OrderlyInv, KeyedInv, RuntimeTypeInv, RuntimeTypeOK, Standing
  <2>2. rec'[k] = IF ret[k] = "send" THEN rec[k] ELSE NoRecord
    BY <1>2, Types DEF ApplyRecord, OrderlyInv
  <2>3. CASE ret[k] \in {"dispatch", "orphans"}
    <3>1. pc'[k] \in {"dispatch", "orphans"} \/ (pc'[k] \in {"idle", "off"} /\ todo'[k] = {})
      BY <1>2, <2>3, Types DEF ApplyRecord, Loop, OrderlyInv
    <3>2. QED
      BY <2>2, <2>3, <3>1 DEF Orderly, AtEase, NoRecord, IsPlanned
  <2>4. CASE ret[k] \in {"idle", "send"}
    <3>1. pc'[k] = ret[k] /\ todo' = todo
      BY <1>2, <2>4, Types DEF ApplyRecord, Goto, OrderlyInv
    <3>2. QED
      BY <2>1, <2>2, <2>4, <3>1 DEF OrderlyInv, Orderly, AtEase, NoRecord, IsPlanned
  <2>5. QED
    BY <2>1, <2>3, <2>4
<1>3. QED
  BY <1>1, <1>2

LEMMA DispatchOrderly ==
    ASSUME OrderlyInv, NEW k \in Task, DispatchNext(k) \/ Send(k) \/ SendFails(k)
    PROVE  Orderly(k)'
<1> USE Types DEF OrderlyInv, AtEase
<1>1. CASE DispatchNext(k)
  <2>1. pc[k] = "dispatch" /\ rec[k] = NoRecord
    BY <1>1 DEF DispatchNext, Orderly
  <2>2. \/ /\ rec'[k] = NoRecord
           /\ pc'[k] = "dispatch" \/ (pc'[k] = "idle" /\ todo'[k] = {})
        \/ pc'[k] = "append" /\ ret'[k] = "send" /\ rec'[k].kind = "CommandDispatched"
    BY <1>1, <2>1 DEF DispatchNext, Loop, Journal, Goto, CommandDispatched
  <2>3. QED
    BY <2>2 DEF Orderly, NoRecord, IsPlanned
<1>2. CASE Send(k)
  <2>1. rec'[k] = NoRecord /\ (pc'[k] = "dispatch" \/ (pc'[k] = "idle" /\ todo'[k] = {}))
    BY <1>2 DEF Send, Loop
  <2>2. QED
    BY <2>1 DEF Orderly, NoRecord, IsPlanned
<1>3. CASE SendFails(k)
  <2>1. pc'[k] = "append" /\ ret'[k] = "dispatch" /\ rec'[k].kind = "CommandUnknown"
    BY <1>3 DEF SendFails, Journal, Goto, CommandUnknown
  <2>2. QED
    BY <2>1 DEF Orderly, IsPlanned
<1>4. QED
  BY <1>1, <1>2, <1>3

LEMMA AckOrderly ==
    ASSUME OrderlyInv, NEW k \in Task,
           MutateReduced(k) \/ \E ack \in AckType : HandleAck(k, ack)
    PROVE  Orderly(k)'
<1>1. ASSUME NEW ack \in AckType, HandleAck(k, ack) PROVE Orderly(k)'
  <2> DEFINE c == mem.commands[ack.id].command
  <2>1. ack.id \in CommandId /\ Tracked(mem, ack.id)
    BY <1>1 DEF HandleAck, AckType
  <2>2. c.id = ack.id /\ c \in CommandType
    BY <2>1, Types, StoredTyped DEF OrderlyInv, KeyedInv, WellKeyed
  <2>3. /\ AckRecord(c, ack).kind \in {"AckApplied", "CommandUnknown"}
        /\ AckRecord(c, ack).id = c.id
    BY <2>2, AckRecordShape
  <2>4. rec'[k] = AckRecord(c, ack)
    BY <1>1, Types DEF HandleAck, Journal, OrderlyInv
  <2>5. pc[k] = "idle" /\ todo[k] = {}
    BY <1>1 DEF HandleAck, OrderlyInv, Orderly, AtEase
  <2>6. \/ pc'[k] = "mirror" /\ todo'[k] = {c}
        \/ pc'[k] = "append" /\ ret'[k] = "idle" /\ todo'[k] = {}
    BY <1>1, <2>5, Types DEF HandleAck, Journal, Goto, OrderlyInv
  <2> HIDE DEF c
  <2>7. QED
    BY <2>3, <2>4, <2>6 DEF Orderly, AtEase, NoRecord, IsPlanned
<1>2. CASE MutateReduced(k)
  <2>1. pc[k] = "mirror" /\ rec[k].kind = "AckApplied"
    BY <1>2 DEF MutateReduced, OrderlyInv, KeyedInv, RuntimeTypeInv, Standing
  <2>2. pc'[k] = "append" /\ ret'[k] = "idle" /\ todo'[k] = {} /\ rec'[k].kind = "AckApplied"
    BY <1>2, <2>1, Types DEF MutateReduced, Journal, Goto, AckApplied, OrderlyInv
  <2>3. QED
    BY <2>2 DEF Orderly, AtEase, IsPlanned
<1>3. QED
  BY <1>1, <1>2

LEMMA OrderlyStep ==
    ASSUME OrderlyInv, RuntimeStep(AckType)
    PROVE  OrderlyInv'
<1>1. KeyedInv'
  BY KeyedStep DEF OrderlyInv
<1>2. ASSUME NEW k \in Task, TaskStepOf(k) PROVE \A j \in Task : Orderly(j)'
  <2>1. \A j \in Task \ {k} : Orderly(j)'
    <3>1. \A j \in Task \ {k} : Unmoved(j) /\ Orderly(j)
      BY <1>2, OthersStay DEF OrderlyInv, KeyedInv
    <3>2. QED
      BY <3>1 DEF Unmoved, Orderly
  <2>2. Orderly(k)'
    <3>1. CASE RoutePanics(k) \/ \E label \in Exit : AppendFails(k, label) \/ Ends(k, label)
      BY <3>1, FailOrderly DEF RoutePanics, AppendFails, Ends, OrderlyInv, Exit
    <3>2. QED
      BY <1>2, <3>1, SessionStepOrderly, EventOrderly, RouteOrderly, JournalOrderly,
         DispatchOrderly, AckOrderly DEF TaskStepOf, HandlerStep
  <2>3. QED
    BY <2>1, <2>2
<1>3. CASE Restarts
  BY <1>1, <1>3 DEF Restarts, FreshTasks, OrderlyInv, Orderly, AtEase, NoRecord, IsPlanned
<1>4. CASE UNCHANGED taskVars
  BY <1>1, <1>4 DEF taskVars, OrderlyInv, Orderly
<1>5. QED
  BY <1>1, <1>2, <1>3, <1>4, StepKinds DEF OrderlyInv

-----------------------------------------------------------------------------
(* The invariant.                                                           *)

SoundBinding(b) == b # NoBinding => b.sourceOpen > 0

(* What the engine makes of an event of a rule's source.                    *)
BuiltFrom(c, i, e, b) ==
    /\ Rules[i].source = e.source
    /\ Builds(Rules[i], e, b)
    /\ c = BuiltCommand(Rules[i], e, b)

SoundCommand(c) ==
    \E i \in DOMAIN Rules, e \in Event, b \in BindingType \cup {NoBinding} : BuiltFrom(c, i, e, b)

SoundCommands(S) == \A c \in S : SoundCommand(c)

SoundRecord(r) ==
    /\ r.kind = "EventPlanned" => SoundCommands(r.commands)
    /\ r.kind = "AckApplied" /\ r.mutation.kind = "upsert" => SoundBinding(r.mutation.binding)

SoundState(s) ==
    /\ \A key \in Key : SoundBinding(s.mirrors[key])
    /\ \A c \in CommandId : Tracked(s, c) => SoundCommand(s.commands[c].command)

MirrorInv ==
    /\ OrderlyInv
    /\ SoundState(mem) /\ SoundState(file)
    /\ \A k \in Task : SoundRecord(rec[k]) /\ SoundCommands(todo[k])

LEMMA MirrorStart ==
    ASSUME RuntimeInit
    PROVE  MirrorInv
<1>1. OrderlyInv
  BY OrderlyStart
<1>2. SoundState(EmptyReplay)
  BY DEF SoundState, SoundBinding, EmptyReplay, Tracked, StateOf, Absent
<1>3. \A k \in Task : SoundRecord(rec[k]) /\ SoundCommands(todo[k])
  BY DEF SoundRecord, SoundCommands, NoRecord, RuntimeInit, FreshTasks
<1>4. QED
  BY <1>1, <1>2, <1>3 DEF MirrorInv, OrderlyInv, RuntimeInit

-----------------------------------------------------------------------------
(* What is known of a command that was built from an event, by its id.      *)

LEMMA BuiltFacts ==
    ASSUME NEW c, SoundCommand(c)
    PROVE  /\ c \in CommandType
           /\ c.event = EventOf(c.id) /\ c.target = TargetOf(c.id)
           /\ c.action = "open" => c.sourceVolume > 0 /\ c.volume > 0
           /\ c.action # "open" => c.position \in Position
           /\ \E e \in Event, i \in DOMAIN Rules :
                /\ c.id = CommandIdOf(e, Rules[i])
                /\ Rules[i].source = e.source
                /\ c.source = e.source /\ c.order = e.order /\ c.action = e.action
<1>1. PICK i \in DOMAIN Rules, e \in Event, b \in BindingType \cup {NoBinding} : BuiltFrom(c, i, e, b)
  BY DEF SoundCommand
<1>2. Builds(Rules[i], e, b) /\ c = BuiltCommand(Rules[i], e, b) /\ Rules[i].source = e.source
  BY <1>1 DEF BuiltFrom
<1>3. c \in CommandType
  BY <1>2, BuiltCommandTyped
<1>4. /\ c.id = CommandIdOf(e, Rules[i]) /\ c.event = e.id /\ c.target = Rules[i].target
      /\ c.source = e.source /\ c.order = e.order /\ c.action = e.action
      /\ c.volume = CommandVolume(Rules[i], e, b) /\ c.sourceVolume = e.volume
  BY <1>2 DEF BuiltCommand
<1>5. c.action = "open" => c.sourceVolume > 0 /\ c.volume > 0
  BY <1>2, <1>4, EventAssumption DEF ValidEvent, Builds
<1>6. c.event = EventOf(c.id) /\ c.target = TargetOf(c.id)
  BY <1>4 DEF CommandIdOf, EventOf, TargetOf
<1>7. ASSUME c.action # "open" PROVE c.position \in Position
  <2>1. b \in BindingType /\ c.position = b.position
    BY <1>2, <1>4, <1>7 DEF Builds, MirrorMissing, BuiltCommand
  <2>2. QED
    BY <2>1, SMT DEF BindingType
<1>8. QED
  BY <1>2, <1>3, <1>4, <1>5, <1>6, <1>7

-----------------------------------------------------------------------------
(* The replayed state.                                                      *)

LEMMA MutateSound ==
    ASSUME NEW m \in [Key -> BindingType \cup {NoBinding}], NEW u \in MutationType,
           u.kind = "upsert" => SoundBinding(u.binding),
           \A key \in Key : SoundBinding(m[key])
    PROVE  \A key \in Key : SoundBinding(Mutate(m, u)[key])
<1> SUFFICES ASSUME NEW key \in Key PROVE SoundBinding(Mutate(m, u)[key])
  OBVIOUS
<1>1. CASE u = NoMutation
  BY <1>1 DEF Mutate, NoMutation
<1>2. CASE u \in [kind : {"upsert"}, binding : BindingType]
  <2>1. u.kind = "upsert"
    BY <1>2
  <2>2. Mutate(m, u) = [m EXCEPT ![BindingKey(u.binding)] = u.binding]
    BY <2>1 DEF Mutate
  <2>3. QED
    BY <2>1, <2>2
<1>3. CASE u \in [kind : {"remove"}, key : Key]
  <2>1. u.kind = "remove"
    BY <1>3
  <2>2. Mutate(m, u) = [m EXCEPT ![u.key] = NoBinding]
    BY <2>1 DEF Mutate
  <2>3. SoundBinding(NoBinding)
    BY DEF SoundBinding
  <2>4. QED
    BY <2>2, <2>3
<1>4. QED
  BY <1>1, <1>2, <1>3 DEF MutationType

LEMMA ApplySound ==
    ASSUME NEW s \in ReplayType, NEW r \in RecordType, SoundState(s), SoundRecord(r)
    PROVE  SoundState(Apply(s, r))
<1> DEFINE t == Apply(s, r)
<1>1. \A key \in Key : SoundBinding(t.mirrors[key])
  <2>1. CASE r.kind = "AckApplied"
    <3>1. t.mirrors = Mutate(s.mirrors, r.mutation)
      BY <2>1, ApplyAck
    <3>2. r.mutation \in MutationType /\ s.mirrors \in [Key -> BindingType \cup {NoBinding}]
      BY <2>1, RecordShape, SMT DEF ReplayType
    <3>3. QED
      BY <2>1, <3>1, <3>2, MutateSound DEF SoundState, SoundRecord
  <2>2. CASE r.kind # "AckApplied"
    <3>1. t.mirrors = s.mirrors
      <4>1. CASE IsPlanned(r)
        BY <4>1, ApplyPlanned
      <4>2. CASE r.kind = "CommandDispatched"
        BY <4>2, ApplyMark
      <4>3. CASE r.kind = "CommandUnknown"
        BY <4>3, ApplyMark
      <4>4. QED
        BY <2>2, <4>1, <4>2, <4>3, RecordShape DEF IsPlanned
    <3>2. QED
      BY <3>1 DEF SoundState
  <2>3. QED
    BY <2>1, <2>2
<1>2. ASSUME NEW c \in CommandId, Tracked(t, c) PROVE SoundCommand(t.commands[c].command)
  <2>1. CASE Tracked(s, c)
    <3>1. t.commands[c].command = s.commands[c].command
      <4>1. CASE IsPlanned(r)
        BY <2>1, <4>1, PlannedEntry
      <4>2. CASE ~IsPlanned(r)
        BY <1>2, <2>1, <4>2, OtherEntry
      <4>3. QED
        BY <4>1, <4>2
    <3>2. QED
      BY <2>1, <3>1 DEF SoundState
  <2>2. CASE ~Tracked(s, c)
    <3>1. IsPlanned(r) /\ \E p \in r.commands : p.id = c
      <4>1. CASE ~IsPlanned(r)
        BY <1>2, <2>2, <4>1, OtherEntry DEF Tracked, StateOf
      <4>2. CASE IsPlanned(r) /\ \A p \in r.commands : p.id # c
        BY <1>2, <2>2, <4>2, PlannedEntry DEF Tracked, StateOf
      <4>3. QED
        BY <4>1, <4>2
    <3>2. t.commands[c].command \in r.commands
      BY <2>2, <3>1, PlannedEntry
    <3>3. QED
      BY <3>1, <3>2 DEF IsPlanned, SoundRecord, SoundCommands
  <2>3. QED
    BY <2>1, <2>2
<1>3. QED
  BY <1>1, <1>2 DEF SoundState

LEMMA FinalizeSound ==
    ASSUME NEW s \in ReplayType, SoundState(s)
    PROVE  SoundState(Finalize(s))
<1>1. Finalize(s).mirrors = s.mirrors
  BY SMT DEF Finalize, ReplayType
<1>2. ASSUME NEW c \in CommandId, Tracked(Finalize(s), c)
      PROVE  SoundCommand(Finalize(s).commands[c].command)
  <2>1. Tracked(s, c)
    BY <1>2, FinalizeEffect DEF Tracked
  <2>2. QED
    BY <2>1, FinalizeEffect DEF SoundState
<1>3. QED
  BY <1>1, <1>2 DEF SoundState

-----------------------------------------------------------------------------
(* The steps.  One that leaves memory and journal alone need only account   *)
(* for the record and the commands it gives its task.                       *)

LEMMA SoundMove ==
    ASSUME MirrorInv, OrderlyInv', NEW k \in Task, UNCHANGED <<mem, file>>,
           NEW r, SoundRecord(r), rec' = rec \/ rec' = [rec EXCEPT ![k] = r],
           NEW S, SoundCommands(S), todo' = todo \/ todo' = [todo EXCEPT ![k] = S]
    PROVE  MirrorInv'
<1>1. ASSUME NEW j \in Task PROVE SoundRecord(rec[j])' /\ SoundCommands(todo[j])'
  <2>1. rec'[j] = rec[j] \/ rec'[j] = r
    BY Types DEF MirrorInv, OrderlyInv
  <2>2. todo'[j] = todo[j] \/ todo'[j] = S
    BY Types DEF MirrorInv, OrderlyInv
  <2>3. QED
    BY <2>1, <2>2 DEF MirrorInv, OrderlyInv
<1>2. QED
  BY <1>1 DEF MirrorInv, OrderlyInv

LEMMA SoundMarks ==
    /\ SoundRecord(NoRecord) /\ SoundCommands({})
    /\ \A c : SoundRecord(CommandUnknown(c)) /\ SoundRecord(CommandDispatched(c))
BY DEF SoundRecord, SoundCommands, NoRecord, CommandUnknown, CommandDispatched

LEMMA FailSound ==
    ASSUME MirrorInv, OrderlyInv', NEW k \in Task, UNCHANGED <<mem, file>>,
           NEW label, Fail(k, label)
    PROVE  MirrorInv'
<1>1. rec' = [rec EXCEPT ![k] = NoRecord] /\ todo' = [todo EXCEPT ![k] = {}]
  BY DEF Fail
<1>2. QED
  BY <1>1, SoundMarks, SoundMove

LEMMA SnapshotSound ==
    ASSUME MirrorInv, NEW state \in {"queued", "dispatched"}, NEW a
    PROVE  SoundCommands(CommandsIn(state, a))
<1> SUFFICES ASSUME NEW c \in CommandId, StateOf(mem, c) = state
             PROVE  SoundCommand(mem.commands[c].command)
  BY DEF SoundCommands, CommandsIn
<1>1. Tracked(mem, c)
  BY DEF Tracked
<1>2. QED
  BY <1>1 DEF MirrorInv, OrderlyInv, SoundState

LEMMA SessionStepSound ==
    ASSUME MirrorInv, OrderlyInv', NEW k \in Task,
           \/ DrawSessionId(k) \/ Leaves(k) \/ InsertSession(k)
           \/ SnapshotQueued(k) \/ Unregister(k) \/ SnapshotDispatched(k) \/ MarkOrphan(k)
    PROVE  MirrorInv'
<1>1. UNCHANGED <<mem, file>>
  BY DEF DrawSessionId, Leaves, InsertSession, SnapshotQueued, Unregister, SnapshotDispatched,
         MarkOrphan
<1>2. CASE DrawSessionId(k) \/ Leaves(k) \/ InsertSession(k) \/ Unregister(k)
  <2>1. UNCHANGED <<rec, todo>>
    BY <1>2 DEF DrawSessionId, Leaves, InsertSession, Unregister
  <2>2. QED
    BY <1>1, <2>1, SoundMarks, SoundMove
<1>3. CASE SnapshotQueued(k)
  <2>1. rec' = rec /\ todo' = [todo EXCEPT ![k] = CommandsIn("queued", Owner[k])]
    BY <1>3 DEF SnapshotQueued, Loop
  <2>2. QED
    BY <1>1, <2>1, SoundMarks, SnapshotSound, SoundMove
<1>4. CASE SnapshotDispatched(k)
  <2>1. rec' = rec /\ todo' = [todo EXCEPT ![k] = CommandsIn("dispatched", Owner[k])]
    BY <1>4 DEF SnapshotDispatched, Loop
  <2>2. QED
    BY <1>1, <2>1, SoundMarks, SnapshotSound, SoundMove
<1>5. CASE MarkOrphan(k)
  <2>1. PICK c \in todo[k] : /\ todo' = [todo EXCEPT ![k] = todo[k] \ {c}]
                             /\ rec' = [rec EXCEPT ![k] = CommandUnknown(c.id)]
    BY <1>5 DEF MarkOrphan, Journal
  <2>2. SoundCommands(todo[k] \ {c})
    BY DEF MirrorInv, OrderlyInv, SoundCommands
  <2>3. QED
    BY <1>1, <2>1, <2>2, SoundMarks, SoundMove
<1>6. QED
  BY <1>2, <1>3, <1>4, <1>5

(* An open is planned of a valid event, so its volume is positive.          *)
LEMMA EventSound ==
    ASSUME MirrorInv, OrderlyInv', NEW k \in Task, NEW e, HandleEvent(k, e)
    PROVE  MirrorInv'
<1>1. /\ UNCHANGED <<mem, file, todo>>
      /\ rec' = rec \/ rec' = [rec EXCEPT ![k] = EventPlanned(e.id, {})]
  BY DEF HandleEvent, Journal
<1>2. SoundRecord(EventPlanned(e.id, {}))
  BY DEF SoundRecord, SoundCommands, EventPlanned
<1>3. QED
  BY <1>1, <1>2, SoundMarks, SoundMove

LEMMA RouteSound ==
    ASSUME MirrorInv, OrderlyInv', NEW k \in Task, RouteEvent(k) \/ RoutePanics(k)
    PROVE  MirrorInv'
<1>1. UNCHANGED <<mem, file>>
  BY DEF RouteEvent, RoutePanics
<1>2. CASE RoutePanics(k)
  BY <1>1, <1>2, FailSound DEF RoutePanics
<1>3. CASE RouteEvent(k)
  <2> DEFINE e == ev[k]
             b(i) == mem.mirrors[KeyOf(e.source, e.order, Rules[i].target)]
             planned(i) == todo[k] \cup IF Builds(Rules[i], e, b(i))
                                         THEN {BuiltCommand(Rules[i], e, b(i))} ELSE {}
  <2>1. PICK i \in routes[k] :
          /\ todo' = [todo EXCEPT ![k] = planned(i)]
          /\ rec' = rec \/ rec' = [rec EXCEPT ![k] = EventPlanned(e.id, planned(i))]
    BY <1>3 DEF RouteEvent, Journal
  <2>2. e \in Event /\ i \in DOMAIN Rules /\ Rules[i].source = e.source
    BY <1>3 DEF RouteEvent, MirrorInv, OrderlyInv, Orderly, KeyedInv, RuntimeTypeInv, Standing,
                RoutesFor
  <2>3. b(i) \in BindingType \cup {NoBinding}
    <3>1. KeyOf(e.source, e.order, Rules[i].target) \in Key
      BY <2>2, Identifiers
    <3>2. mem.mirrors \in [Key -> BindingType \cup {NoBinding}]
      BY Types, SMT DEF MirrorInv, OrderlyInv, ReplayType
    <3>3. QED
      BY <3>1, <3>2
  <2>4. SoundCommands(planned(i))
    BY <2>2, <2>3 DEF MirrorInv, SoundCommands, SoundCommand, BuiltFrom
  <2> HIDE DEF planned
  <2>5. SoundRecord(EventPlanned(e.id, planned(i)))
    BY <2>4 DEF SoundRecord, EventPlanned
  <2>6. QED
    BY <1>1, <2>1, <2>4, <2>5, SoundMove
<1>4. QED
  BY <1>2, <1>3

LEMMA DispatchSound ==
    ASSUME MirrorInv, OrderlyInv', NEW k \in Task,
           DispatchNext(k) \/ Send(k) \/ SendFails(k)
    PROVE  MirrorInv'
<1>1. UNCHANGED <<mem, file>> /\ SoundCommands(todo[k])
  BY DEF DispatchNext, Send, SendFails, MirrorInv
<1>2. CASE DispatchNext(k)
  <2>1. PICK c \in todo[k] :
          /\ todo' = todo \/ todo' = [todo EXCEPT ![k] = todo[k] \ {c}]
          /\ rec' = rec \/ rec' = [rec EXCEPT ![k] = CommandDispatched(c.id)]
    BY <1>2 DEF DispatchNext, Loop, Journal
  <2>2. SoundCommands(todo[k] \ {c})
    BY <1>1 DEF SoundCommands
  <2>3. QED
    BY <1>1, <2>1, <2>2, SoundMarks, SoundMove
<1>3. CASE Send(k)
  <2>1. PICK c \in todo[k] : /\ todo' = [todo EXCEPT ![k] = todo[k] \ {c}]
                             /\ rec' = [rec EXCEPT ![k] = NoRecord]
    BY <1>3 DEF Send, Loop
  <2>2. SoundCommands(todo[k] \ {c})
    BY <1>1 DEF SoundCommands
  <2>3. QED
    BY <1>1, <2>1, <2>2, SoundMarks, SoundMove
<1>4. CASE SendFails(k)
  <2> DEFINE rest == {c \in todo[k] : c.id # rec[k].id}
  <2>1. /\ todo' = [todo EXCEPT ![k] = rest]
        /\ rec' = [rec EXCEPT ![k] = CommandUnknown(rec[k].id)]
    BY <1>4 DEF SendFails, Journal
  <2>2. SoundCommands(rest)
    BY <1>1 DEF SoundCommands
  <2> HIDE DEF rest
  <2>3. QED
    BY <1>1, <2>1, <2>2, SoundMarks, SoundMove
<1>5. QED
  BY <1>2, <1>3, <1>4

LEMMA AckRecordSound ==
    ASSUME NEW c \in CommandType, SoundCommand(c), NEW ack
    PROVE  SoundRecord(AckRecord(c, ack))
<1>1. c.action \in Action
  BY SMT DEF CommandType
<1> USE DEF SoundRecord, AckApplied, CommandUnknown, NoMutation
<1>2. CASE ack.status \notin Success
  BY <1>2 DEF AckRecord
<1>3. CASE ack.status \in Success /\ c.action = "open"
  <2>1. SoundBinding(NewBinding(c, ack.position))
    BY <1>3, BuiltFacts DEF SoundBinding, NewBinding
  <2>2. QED
    BY <1>3, <2>1 DEF AckRecord
<1>4. CASE ack.status \in Success /\ c.action = "close"
  BY <1>4 DEF AckRecord
<1>5. CASE ack.status \in Success /\ c.action \in {"modify", "reduce"}
  BY <1>5 DEF AckRecord
<1>6. QED
  BY <1>1, <1>2, <1>3, <1>4, <1>5 DEF Action

(* The volume of an acknowledged open is that of its tracked command.       *)
LEMMA AckSound ==
    ASSUME MirrorInv, OrderlyInv', NEW k \in Task, NEW ack \in AckType, HandleAck(k, ack)
    PROVE  MirrorInv'
<1> DEFINE c == mem.commands[ack.id].command
           r == AckRecord(c, ack)
<1>1. /\ UNCHANGED <<mem, file>>
      /\ ack.id \in CommandId /\ Tracked(mem, ack.id)
      /\ rec' = [rec EXCEPT ![k] = r]
      /\ todo' = todo \/ todo' = [todo EXCEPT ![k] = {c}]
  BY DEF HandleAck, AckType, Journal
<1>2. c \in CommandType /\ SoundCommand(c)
  BY <1>1, Types, StoredTyped DEF MirrorInv, OrderlyInv, SoundState
<1>3. SoundRecord(r) /\ SoundCommands({c})
  BY <1>2, AckRecordSound DEF SoundCommands
<1> HIDE DEF c, r
<1>4. QED
  BY <1>1, <1>3, SoundMove

(* No reduce changes the volume a binding started with.                     *)
LEMMA MutateReducedSound ==
    ASSUME MirrorInv, OrderlyInv', NEW k \in Task, MutateReduced(k)
    PROVE  MirrorInv'
<1>1. PICK c \in todo[k] :
        LET b == mem.mirrors[KeyOf(c.source, c.order, c.target)]
        IN  Journal(k, IF b = NoBinding THEN rec[k]
                       ELSE AckApplied(c.id, rec[k].status,
                                       [kind |-> "upsert", binding |-> Reduced(b, c)]),
                    "idle")
  BY DEF MutateReduced
<1> DEFINE b == mem.mirrors[KeyOf(c.source, c.order, c.target)]
           r == IF b = NoBinding THEN rec[k]
                ELSE AckApplied(c.id, rec[k].status,
                                [kind |-> "upsert", binding |-> Reduced(b, c)])
<1>2. /\ rec' = [rec EXCEPT ![k] = r]
      /\ todo' = [todo EXCEPT ![k] = {}]
      /\ UNCHANGED <<mem, file>>
  BY <1>1 DEF MutateReduced, Journal
<1>3. CASE b = NoBinding
  <2>1. SoundRecord(r)
    BY <1>3 DEF MirrorInv, OrderlyInv
  <2> HIDE DEF r
  <2>2. QED
    BY <1>2, <2>1, SoundMarks, SoundMove
<1>4. CASE b # NoBinding
  <2>1. KeyOf(c.source, c.order, c.target) \in Key
    BY Types, SMT DEF MirrorInv, OrderlyInv, CommandType, KeyOf, Key
  <2>2. b \in BindingType /\ SoundBinding(b)
    <3>1. mem.mirrors \in [Key -> BindingType \cup {NoBinding}]
      BY Types, SMT DEF MirrorInv, OrderlyInv, ReplayType
    <3>2. QED
      BY <1>4, <2>1, <3>1 DEF MirrorInv, OrderlyInv, SoundState
  <2> HIDE DEF b
  <2>3. Reduced(b, c).sourceOpen = b.sourceOpen
    BY <2>2, SMT DEF Reduced, BindingType
  <2>4. SoundRecord(r)
    BY <1>4, <2>2, <2>3, SMT DEF SoundRecord, SoundBinding, AckApplied
  <2> HIDE DEF r
  <2>5. QED
    BY <1>2, <2>4, SoundMarks, SoundMove
<1>5. QED
  BY <1>3, <1>4

LEMMA JournalSound ==
    ASSUME MirrorInv, OrderlyInv', NEW k \in Task, NEW label,
           AppendRecord(k) \/ AppendFails(k, label)
    PROVE  MirrorInv'
<1>1. pc[k] = "append" /\ mem' = mem
  BY DEF AppendRecord, AppendFails
<1>2. SoundState(file')
  <2>1. file' = file \/ file' = Apply(file, rec[k])
    BY DEF AppendRecord, AppendFails
  <2>2. rec[k] \in RecordType /\ file \in ReplayType
    BY <1>1, Types DEF MirrorInv, OrderlyInv, KeyedInv, RuntimeTypeInv, Standing
  <2>3. QED
    BY <2>1, <2>2, ApplySound DEF MirrorInv, OrderlyInv
<1>3. \A j \in Task : SoundRecord(rec[j])' /\ SoundCommands(todo[j])'
  <2>1. CASE AppendRecord(k)
    BY <2>1 DEF AppendRecord, MirrorInv
  <2>2. CASE AppendFails(k, label)
    <3>1. rec' = [rec EXCEPT ![k] = NoRecord] /\ todo' = [todo EXCEPT ![k] = {}]
      BY <2>2 DEF AppendFails, Fail
    <3>2. QED
      BY <3>1, Types, SoundMarks DEF MirrorInv, OrderlyInv
  <2>3. QED
    BY <2>1, <2>2
<1>4. QED
  BY <1>1, <1>2, <1>3 DEF MirrorInv, OrderlyInv, SoundState

LEMMA ApplyRecordSound ==
    ASSUME MirrorInv, OrderlyInv', NEW k \in Task, ApplyRecord(k)
    PROVE  MirrorInv'
<1>1. pc[k] = "apply" /\ mem' = Apply(mem, rec[k]) /\ file' = file
  BY DEF ApplyRecord
<1>2. SoundState(mem')
  <2>1. rec[k] \in RecordType /\ mem \in ReplayType
    BY <1>1, Types DEF MirrorInv, OrderlyInv, KeyedInv, RuntimeTypeInv, Standing
  <2>2. QED
    BY <1>1, <2>1, ApplySound DEF MirrorInv, OrderlyInv
<1>3. \A j \in Task : SoundRecord(rec[j])' /\ SoundCommands(todo[j])'
  <2>1. rec' = [rec EXCEPT ![k] = IF ret[k] = "send" THEN rec[k] ELSE NoRecord]
    BY DEF ApplyRecord
  <2>2. todo' = todo \/ todo' = [todo EXCEPT ![k] = todo[k]]
    BY DEF ApplyRecord, Loop
  <2>3. QED
    BY <2>1, <2>2, Types, SoundMarks DEF MirrorInv, OrderlyInv
<1>4. QED
  BY <1>1, <1>2, <1>3 DEF MirrorInv, OrderlyInv, SoundState

-----------------------------------------------------------------------------
(* Every step.                                                              *)

LEMMA MirrorFrame ==
    ASSUME MirrorInv, OrderlyInv', UNCHANGED <<mem, file, rec, todo>>
    PROVE  MirrorInv'
BY DEF MirrorInv, OrderlyInv, SoundState

LEMMA MirrorRestart ==
    ASSUME MirrorInv, OrderlyInv', Restarts
    PROVE  MirrorInv'
<1>1. mem' = Finalize(file) /\ file' = file
  BY DEF Restarts
<1>2. SoundState(mem')
  BY <1>1, Types, FinalizeSound DEF MirrorInv, OrderlyInv
<1>3. \A k \in Task : rec'[k] = NoRecord /\ todo'[k] = {}
  BY DEF Restarts, FreshTasks
<1>4. QED
  BY <1>1, <1>2, <1>3, SoundMarks DEF MirrorInv, OrderlyInv, SoundState

LEMMA MirrorStep ==
    ASSUME MirrorInv, RuntimeStep(AckType)
    PROVE  MirrorInv'
<1>1. OrderlyInv'
  BY OrderlyStep DEF MirrorInv
<1>2. ASSUME NEW k \in Task, HandlerStep(k) PROVE MirrorInv'
  <2>1. CASE \/ InsertSession(k) \/ SnapshotQueued(k)
             \/ Unregister(k) \/ SnapshotDispatched(k) \/ MarkOrphan(k)
    BY <1>1, <2>1, SessionStepSound
  <2>2. CASE RouteEvent(k) \/ RoutePanics(k)
    BY <1>1, <2>2, RouteSound
  <2>3. CASE AppendRecord(k)
    BY <1>1, <2>3, JournalSound
  <2>4. CASE ApplyRecord(k)
    BY <1>1, <2>4, ApplyRecordSound
  <2>5. CASE DispatchNext(k) \/ Send(k) \/ SendFails(k)
    BY <1>1, <2>5, DispatchSound
  <2>6. CASE MutateReduced(k)
    BY <1>1, <2>6, MutateReducedSound
  <2>7. QED
    BY <1>2, <2>1, <2>2, <2>3, <2>4, <2>5, <2>6 DEF HandlerStep
<1>3. ASSUME NEW k \in Task, DrawSessionId(k) \/ Leaves(k) PROVE MirrorInv'
  BY <1>1, <1>3, SessionStepSound
<1>4. ASSUME NEW k \in Task, NEW label \in Exit, AppendFails(k, label) PROVE MirrorInv'
  BY <1>1, <1>4, JournalSound
<1>5. ASSUME NEW k \in Task, NEW label \in Exit, Ends(k, label) PROVE MirrorInv'
  BY <1>1, <1>5, FailSound DEF Ends
<1>6. ASSUME NEW k \in Task, NEW e \in Event, HandleEvent(k, e) PROVE MirrorInv'
  BY <1>1, <1>6, EventSound
<1>7. ASSUME NEW k \in Task, NEW ack \in AckType, HandleAck(k, ack) PROVE MirrorInv'
  BY <1>1, <1>7, AckSound
<1>8. ASSUME NEW s \in Session, Takes(s) \/ Closes(s) PROVE MirrorInv'
  BY <1>1, <1>8, MirrorFrame DEF Takes, Closes, taskVars
<1>9. CASE Restarts
  BY <1>1, <1>9, MirrorRestart
<1>10. CASE UNCHANGED runtimeVars
  BY <1>1, <1>10, MirrorFrame DEF runtimeVars, taskVars
<1>11. QED
  BY <1>2, <1>3, <1>4, <1>5, <1>6, <1>7, <1>8, <1>9, <1>10 DEF RuntimeStep

LEMMA MirrorValid == MirrorInv => MirrorsAreValid
BY DEF MirrorInv, OrderlyInv, SoundState, SoundBinding, MirrorsAreValid

-----------------------------------------------------------------------------
(* What a master's only connection has planned is not planned again: once   *)
(* the memory tracks a command, an acknowledgement of it is being written,  *)
(* or it is settled, its event has been seen, and no task is planning it.   *)

OnePublisher ==
    \A j, k \in Task : Owner[j] = Owner[k] /\ Owner[j] \in Publishers => j = k

SourceOf(c) == Rules[CHOOSE i \in DOMAIN Rules : Rules[i].id = c[2]].source

Plans(k, c) ==
    /\ SourceOf(c) = Owner[k]
    /\ \/ pc[k] = "route" /\ EventOf(c) = ev[k].id
       \/ pc[k] = "append" /\ IsPlanned(rec[k]) /\ EventOf(c) = rec[k].event

Concludes(k, c) == rec[k].kind = "AckApplied" /\ rec[k].id = c

Past(c) == c \in settled \/ Tracked(mem, c) \/ \E k \in Task : Concludes(k, c)

FinalInv ==
    /\ MirrorInv
    /\ mem.seen \subseteq file.seen
    /\ \A k \in Task : pc[k] = "apply" /\ IsPlanned(rec[k]) => rec[k].event \in file.seen
    /\ \A c \in CommandId : Tracked(file, c) => EventOf(c) \in file.seen
    /\ \A c \in CommandId : Past(c) => EventOf(c) \in mem.seen /\ \A k \in Task : ~Plans(k, c)
    /\ \A c \in settled : ~Tracked(file, c)

LEMMA FinalStart ==
    ASSUME RuntimeInit
    PROVE  FinalInv
<1>1. mem = EmptyReplay /\ file = EmptyReplay /\ settled = {}
      /\ \A k \in Task : pc[k] = "off" /\ rec[k] = NoRecord
  BY DEF RuntimeInit, FreshTasks
<1>2. \A c \in CommandId : ~Tracked(mem, c) /\ ~Tracked(file, c)
  BY <1>1 DEF EmptyReplay, Tracked, StateOf, Absent
<1>3. QED
  BY <1>1, <1>2, MirrorStart DEF FinalInv, Past, Concludes, NoRecord, EmptyReplay

LEMMA SourceOfBuilt ==
    ASSUME NEW d, SoundCommand(d)
    PROVE  SourceOf(d.id) = d.source
<1>1. PICK e \in Event, i \in DOMAIN Rules :
        d.id = CommandIdOf(e, Rules[i]) /\ Rules[i].source = e.source /\ d.source = e.source
  BY BuiltFacts
<1>2. d.id[2] = Rules[i].id
  BY <1>1 DEF CommandIdOf
<1>3. (CHOOSE j \in DOMAIN Rules : Rules[j].id = d.id[2]) = i
  BY <1>2, RulesAssumption
<1>4. QED
  BY <1>1, <1>3 DEF SourceOf

(* The commands of the record a task plans with are those it plans.         *)
LEMMA PlannedCommands ==
    ASSUME MirrorInv, NEW k \in Task, IsPlanned(rec[k]), NEW d \in rec[k].commands
    PROVE  /\ SourceOf(d.id) = Owner[k] /\ Owner[k] \in Publishers
           /\ EventOf(d.id) = rec[k].event
<1>1. SoundCommand(d)
  BY DEF MirrorInv, SoundRecord, SoundCommands, IsPlanned
<1>2. d.source = Owner[k] /\ d.event = rec[k].event /\ Owner[k] \in Publishers
  BY DEF MirrorInv, OrderlyInv, Orderly
<1>3. QED
  BY <1>1, <1>2, SourceOfBuilt, BuiltFacts

(* A step that leaves memory and journal alone and makes no task plan what  *)
(* is past, or conclude what the memory does not track.                     *)
LEMMA FinalMove ==
    ASSUME FinalInv, MirrorInv', NEW k \in Task, \A j \in Task \ {k} : Unmoved(j),
           UNCHANGED <<mem, file, settled>>,
           pc'[k] = "apply" => ~IsPlanned(rec'[k]),
           \A c \in CommandId : Plans(k, c)' => Plans(k, c) \/ EventOf(c) \notin mem.seen,
           \A c \in CommandId : Concludes(k, c)' => Concludes(k, c) \/ Tracked(mem, c)
    PROVE  FinalInv'
<1>1. \A j \in Task \ {k} : \A c \in CommandId :
        (Plans(j, c)' <=> Plans(j, c)) /\ (Concludes(j, c)' <=> Concludes(j, c))
  BY DEF Unmoved, Plans, Concludes
<1>2. \A c \in CommandId : Past(c)' => Past(c)
  BY <1>1 DEF Past, Tracked, StateOf
<1>3. ASSUME NEW c \in CommandId, Past(c)'
      PROVE  EventOf(c) \in mem.seen /\ \A j \in Task : ~Plans(j, c)'
  BY <1>1, <1>2, <1>3 DEF FinalInv
<1>4. \A j \in Task : pc'[j] = "apply" /\ IsPlanned(rec'[j]) => rec'[j].event \in file'.seen
  BY DEF FinalInv, Unmoved
<1>5. QED
  BY <1>3, <1>4 DEF FinalInv, Tracked, StateOf

(* The steps that do not touch memory and journal.                          *)
LEMMA QuietFinal ==
    ASSUME FinalInv, MirrorInv', NEW k \in Task, TaskStepOf(k),
           ~AppendRecord(k), ~ApplyRecord(k), \A label \in Exit : ~AppendFails(k, label)
    PROVE  FinalInv'
<1>1. MirrorInv /\ OrderlyInv /\ KeyedInv /\ Orderly(k)
  BY DEF FinalInv, MirrorInv, OrderlyInv
<1>2. \A j \in Task \ {k} : Unmoved(j)
  BY <1>1, OthersStay DEF KeyedInv
<1>3. UNCHANGED <<mem, file, settled>>
  BY DEF TaskStepOf, HandlerStep, DrawSessionId, Leaves, InsertSession, SnapshotQueued,
         RouteEvent, RoutePanics, DispatchNext, Send, SendFails, MutateReduced, Unregister,
         SnapshotDispatched, MarkOrphan, Ends, HandleEvent, HandleAck
<1>4. CASE \/ DrawSessionId(k) \/ Leaves(k) \/ InsertSession(k) \/ Unregister(k)
           \/ SnapshotQueued(k) \/ SnapshotDispatched(k)
  <2>1. pc'[k] \notin {"route", "append", "apply"} /\ rec' = rec
    BY <1>1, <1>4, Types DEF DrawSessionId, Leaves, InsertSession, Unregister, SnapshotQueued,
                             SnapshotDispatched, Goto, Loop
  <2>2. QED
    BY <1>2, <1>3, <2>1, FinalMove DEF Plans, Concludes
<1>5. CASE \/ RoutePanics(k) \/ \E label \in Exit : Ends(k, label)
  <2>1. pc'[k] \notin {"route", "append", "apply"} /\ rec'[k] = NoRecord
    BY <1>1, <1>5, Types DEF RoutePanics, Ends, Fail, Goto, Exit
  <2>2. QED
    BY <1>2, <1>3, <2>1, FinalMove DEF Plans, Concludes, NoRecord
<1>6. CASE MarkOrphan(k) \/ DispatchNext(k) \/ Send(k) \/ SendFails(k)
  <2>1. /\ pc'[k] \in {"append", "dispatch", "idle"}
        /\ rec'[k] = rec[k] \/ rec'[k].kind \in {"none", "CommandUnknown", "CommandDispatched"}
    <3>1. CASE MarkOrphan(k) \/ SendFails(k)
      BY <1>1, <3>1, Types DEF MarkOrphan, SendFails, Journal, Goto, CommandUnknown
    <3>2. CASE DispatchNext(k)
      BY <1>1, <3>2, Types DEF DispatchNext, Journal, Goto, Loop, CommandDispatched
    <3>3. CASE Send(k)
      BY <1>1, <3>3, Types DEF Send, Loop, NoRecord
    <3>4. QED
      BY <1>6, <3>1, <3>2, <3>3
  <2>2. pc[k] \in {"orphans", "dispatch", "send"}
    BY <1>6 DEF MarkOrphan, DispatchNext, Send, SendFails
  <2>3. ~IsPlanned(rec'[k])
    BY <1>1, <2>1, <2>2 DEF Orderly, IsPlanned
  <2>4. QED
    BY <1>2, <1>3, <2>1, <2>3, FinalMove DEF Plans, Concludes
<1>7. CASE RouteEvent(k)
  <2>1. pc[k] = "route" /\ ev' = ev
    BY <1>7 DEF RouteEvent
  <2>2. \/ pc'[k] = "route" /\ rec'[k] = rec[k]
        \/ pc'[k] = "append" /\ \E planned : rec'[k] = EventPlanned(ev[k].id, planned)
    BY <1>1, <1>7, Types DEF RouteEvent, Journal, Goto
  <2>3. CASE pc'[k] = "route" /\ rec'[k] = rec[k]
    BY <1>2, <1>3, <2>1, <2>3, FinalMove DEF Plans, Concludes
  <2>4. CASE pc'[k] = "append" /\ \E planned : rec'[k] = EventPlanned(ev[k].id, planned)
    <3>1. rec'[k].kind = "EventPlanned" /\ rec'[k].event = ev[k].id
      BY <2>4 DEF EventPlanned
    <3>2. QED
      BY <1>2, <1>3, <2>1, <2>4, <3>1, FinalMove DEF Plans, Concludes
  <2>5. QED
    BY <2>2, <2>3, <2>4
<1>8. ASSUME NEW e \in Event, HandleEvent(k, e) PROVE FinalInv'
  <2>1. e.id \notin mem.seen
    BY <1>8 DEF HandleEvent, AlreadySeen
  <2>2. \/ pc'[k] = "route" /\ rec'[k] = rec[k] /\ ev'[k] = e
        \/ pc'[k] = "append" /\ rec'[k] = EventPlanned(e.id, {})
    BY <1>1, <1>8, Types DEF HandleEvent, Journal, Goto
  <2>3. QED
    BY <1>2, <1>3, <2>1, <2>2, FinalMove DEF Plans, Concludes, EventPlanned
<1>9. ASSUME NEW ack \in AckType, HandleAck(k, ack) PROVE FinalInv'
  <2> DEFINE c == mem.commands[ack.id].command
  <2>1. ack.id \in CommandId /\ Tracked(mem, ack.id)
    BY <1>9 DEF HandleAck, AckType
  <2>2. c.id = ack.id /\ c \in CommandType
    BY <1>1, <2>1, Types, StoredTyped DEF KeyedInv, WellKeyed
  <2>3. ~IsPlanned(AckRecord(c, ack)) /\ AckRecord(c, ack).id = c.id
    BY <2>2, AckRecordShape
  <2>4. rec'[k] = AckRecord(c, ack) /\ pc'[k] \in {"mirror", "append"}
    BY <1>1, <1>9, Types DEF HandleAck, Journal, Goto
  <2> HIDE DEF c
  <2>5. QED
    BY <1>2, <1>3, <2>1, <2>2, <2>3, <2>4, FinalMove DEF Plans, Concludes
<1>10. CASE MutateReduced(k)
  <2>1. /\ pc'[k] = "append" /\ rec[k].kind = "AckApplied" /\ rec'[k].kind = "AckApplied"
        /\ rec'[k].id = rec[k].id
    BY <1>1, <1>10, Types
       DEF MutateReduced, Journal, Goto, AckApplied, KeyedInv, RuntimeTypeInv, Standing, Orderly
  <2>2. QED
    BY <1>2, <1>3, <2>1, FinalMove DEF Plans, Concludes, IsPlanned
<1>11. QED
  BY <1>4, <1>5, <1>6, <1>7, <1>8, <1>9, <1>10 DEF TaskStepOf, HandlerStep

(* What an append adds to the journal was planned just now, or ends what    *)
(* the memory tracks.                                                       *)
LEMMA AppendFinal ==
    ASSUME FinalInv, MirrorInv', NEW k \in Task,
           AppendRecord(k) \/ \E label \in Exit : AppendFails(k, label)
    PROVE  FinalInv'
<1> DEFINE r == rec[k]
<1>1. MirrorInv /\ OrderlyInv /\ KeyedInv /\ Orderly(k)
  BY DEF FinalInv, MirrorInv, OrderlyInv
<1>2. /\ \A j \in Task \ {k} : Unmoved(j)
      /\ mem' = mem /\ pc[k] = "append"
      /\ (file' = file /\ settled' = settled) \/ Appended(k)
  <2>1. TaskStepOf(k)
    BY DEF TaskStepOf, HandlerStep
  <2>2. QED
    BY <1>1, <2>1, OthersStay DEF KeyedInv, AppendRecord, AppendFails, Appended, SettledBy, IsFinalAck
<1>3. r \in RecordType /\ file \in ReplayType
  BY <1>1, <1>2, Types DEF KeyedInv, RuntimeTypeInv, Standing
<1>4. \/ pc'[k] = "apply" /\ rec'[k] = r /\ Appended(k)
      \/ pc'[k] \in Exit /\ rec'[k] = NoRecord
  <2>1. CASE AppendRecord(k)
    BY <1>1, <2>1, Types DEF AppendRecord, Goto, Appended, SettledBy, IsFinalAck
  <2>2. CASE \E label \in Exit : AppendFails(k, label)
    BY <1>1, <2>2, Types DEF AppendFails, Fail, Goto
  <2>3. QED
    BY <2>1, <2>2
<1>5. \A j \in Task : \A c \in CommandId :
        (Plans(j, c)' => Plans(j, c)) /\ (Concludes(j, c)' => Concludes(j, c))
  <2>1. \A c \in CommandId : ~Plans(k, c)' /\ (Concludes(k, c)' => Concludes(k, c))
    BY <1>4 DEF Plans, Concludes, NoRecord, Exit
  <2>2. \A j \in Task \ {k} : \A c \in CommandId :
          (Plans(j, c)' <=> Plans(j, c)) /\ (Concludes(j, c)' <=> Concludes(j, c))
    BY <1>2 DEF Unmoved, Plans, Concludes
  <2>3. QED
    BY <2>1, <2>2
<1>6. \A c \in CommandId : c \in settled' => c \in settled \/ (IsFinalAck(r) /\ r.id = c)
  BY <1>2 DEF Appended, SettledBy
<1>7. \A c \in CommandId : Past(c)' => Past(c)
  BY <1>2, <1>5, <1>6 DEF Past, Concludes, IsFinalAck, Tracked, StateOf
<1>8. /\ file.seen \subseteq file'.seen
      /\ Appended(k) /\ IsPlanned(r) => r.event \in file'.seen
  BY <1>2, <1>3, ApplyTyped DEF Appended
<1>9. ASSUME NEW c \in CommandId, Tracked(file', c), ~Tracked(file, c)
      PROVE  Plans(k, c) /\ EventOf(c) \in file'.seen
  <2>1. Appended(k)
    BY <1>2, <1>9
  <2>2. IsPlanned(r) /\ \E p \in r.commands : p.id = c
    <3>1. CASE ~IsPlanned(r)
      BY <1>3, <1>9, <2>1, <3>1, OtherEntry DEF Appended, Tracked, StateOf
    <3>2. CASE IsPlanned(r)
      BY <1>3, <1>9, <2>1, <3>2, PlannedEntry DEF Appended, Tracked, StateOf
    <3>3. QED
      BY <3>1, <3>2
  <2>3. SourceOf(c) = Owner[k] /\ EventOf(c) = r.event
    BY <1>1, <2>2, PlannedCommands
  <2>4. QED
    BY <1>2, <1>8, <2>1, <2>2, <2>3 DEF Plans
<1>10. ASSUME NEW c \in CommandId, c \in settled' PROVE ~Tracked(file', c)
  <2>1. CASE c \in settled
    <3>1. ~Tracked(file, c) /\ ~Plans(k, c)
      BY <2>1 DEF FinalInv, Past
    <3>2. QED
      BY <1>9, <3>1
  <2>2. CASE c \notin settled
    <3>1. Appended(k) /\ IsFinalAck(r) /\ r.id = c
      BY <1>2, <1>6, <1>10, <2>2
    <3>2. QED
      BY <1>3, <3>1, OtherEntry DEF Appended, IsPlanned, IsFinalAck
  <2>3. QED
    BY <2>1, <2>2
<1>11. \A j \in Task : pc'[j] = "apply" /\ IsPlanned(rec'[j]) => rec'[j].event \in file'.seen
  <2>1. pc'[k] = "apply" /\ IsPlanned(rec'[k]) => rec'[k].event \in file'.seen
    BY <1>4, <1>8 DEF Exit
  <2>2. QED
    BY <1>2, <1>8, <2>1 DEF FinalInv, Unmoved
<1>12. ASSUME NEW c \in CommandId, Tracked(file', c) PROVE EventOf(c) \in file'.seen
  BY <1>8, <1>9, <1>12 DEF FinalInv
<1>13. ASSUME NEW c \in CommandId, Past(c)'
       PROVE  EventOf(c) \in mem'.seen /\ \A j \in Task : ~Plans(j, c)'
  BY <1>2, <1>5, <1>7, <1>13 DEF FinalInv
<1>14. settled' \in SUBSET CommandId
  BY DEF MirrorInv, OrderlyInv, KeyedInv, RuntimeTypeInv, RuntimeTypeOK
<1>15. QED
  BY <1>2, <1>8, <1>10, <1>11, <1>12, <1>13, <1>14 DEF FinalInv

(* What memory learns, no other connection of a publisher is planning.      *)
LEMMA ApplyFinal ==
    ASSUME OnePublisher, FinalInv, MirrorInv', NEW k \in Task, ApplyRecord(k)
    PROVE  FinalInv'
<1> DEFINE r == rec[k]
<1>1. MirrorInv /\ OrderlyInv /\ KeyedInv /\ Orderly(k)
  BY DEF FinalInv, MirrorInv, OrderlyInv
<1>2. /\ \A j \in Task \ {k} : Unmoved(j)
      /\ pc[k] = "apply" /\ mem' = Apply(mem, r) /\ file' = file /\ settled' = settled
  <2>1. TaskStepOf(k)
    BY DEF TaskStepOf, HandlerStep
  <2>2. QED
    BY <1>1, <2>1, OthersStay DEF KeyedInv, ApplyRecord
<1>3. r \in RecordType /\ mem \in ReplayType
  BY <1>1, <1>2, Types DEF KeyedInv, RuntimeTypeInv, Standing
<1>4. /\ pc'[k] \in {"idle", "off", "dispatch", "orphans", "send"}
      /\ rec'[k] \in {r, NoRecord}
  BY <1>1, <1>2, Types DEF ApplyRecord, Loop, Goto, KeyedInv, RuntimeTypeInv, RuntimeTypeOK
<1>5. \A j \in Task : \A c \in CommandId :
        (Plans(j, c)' => j # k /\ Plans(j, c)) /\ (Concludes(j, c)' => Concludes(j, c))
  <2>1. \A c \in CommandId : ~Plans(k, c)' /\ (Concludes(k, c)' => Concludes(k, c))
    BY <1>4 DEF Plans, Concludes, NoRecord
  <2>2. \A j \in Task \ {k} : \A c \in CommandId :
          (Plans(j, c)' <=> Plans(j, c)) /\ (Concludes(j, c)' <=> Concludes(j, c))
    BY <1>2 DEF Unmoved, Plans, Concludes
  <2>3. QED
    BY <2>1, <2>2
<1>6. mem.seen \subseteq mem'.seen /\ mem'.seen \subseteq file.seen
  BY <1>2, <1>3, ApplyTyped DEF FinalInv
<1>7. ASSUME NEW c \in CommandId, Past(c)'
      PROVE  EventOf(c) \in mem'.seen /\ \A j \in Task : ~Plans(j, c)'
  <2>1. CASE Past(c)
    BY <1>5, <1>6, <2>1 DEF FinalInv
  <2>2. CASE ~Past(c)
    <3>1. Tracked(mem', c) /\ ~Tracked(mem, c)
      BY <1>2, <1>5, <1>7, <2>2 DEF Past
    <3>2. IsPlanned(r) /\ \E p \in r.commands : p.id = c
      <4>1. CASE ~IsPlanned(r)
        BY <1>2, <1>3, <3>1, <4>1, OtherEntry DEF Tracked, StateOf
      <4>2. CASE IsPlanned(r)
        BY <1>2, <1>3, <3>1, <4>2, PlannedEntry DEF Tracked, StateOf
      <4>3. QED
        BY <4>1, <4>2
    <3>3. SourceOf(c) = Owner[k] /\ Owner[k] \in Publishers /\ EventOf(c) = r.event
      BY <1>1, <3>2, PlannedCommands
    <3>4. EventOf(c) \in mem'.seen
      BY <1>2, <1>3, <3>2, <3>3, ApplyTyped
    <3>5. ASSUME NEW j \in Task, Plans(j, c)' PROVE FALSE
      <4>1. j # k /\ Owner[j] = Owner[k]
        BY <1>5, <3>3, <3>5 DEF Plans
      <4>2. QED
        BY <3>3, <4>1 DEF OnePublisher
    <3>6. QED
      BY <3>4, <3>5
  <2>3. QED
    BY <2>1, <2>2
<1>8. \A j \in Task : pc'[j] = "apply" /\ IsPlanned(rec'[j]) => rec'[j].event \in file'.seen
  BY <1>2, <1>4 DEF FinalInv, Unmoved
<1>9. QED
  BY <1>2, <1>6, <1>7, <1>8 DEF FinalInv

LEMMA RestartFinal ==
    ASSUME FinalInv, MirrorInv', Restarts
    PROVE  FinalInv'
<1>1. /\ mem' = Finalize(file) /\ file' = file /\ settled' = settled
      /\ \A k \in Task : pc'[k] = "off" /\ rec'[k] = NoRecord
  BY DEF Restarts, FreshTasks
<1>2. file \in ReplayType
  BY Types DEF FinalInv, MirrorInv, OrderlyInv
<1>3. mem'.seen = file.seen
  BY <1>1, <1>2, FinalizeEffect
<1>4. \A c \in CommandId : Tracked(mem', c) => Tracked(file, c)
  BY <1>1, <1>2, FinalizeEffect DEF Tracked
<1>5. \A k \in Task : \A c \in CommandId : ~Plans(k, c)' /\ ~Concludes(k, c)'
  BY <1>1 DEF Plans, Concludes, NoRecord
<1>6. ASSUME NEW c \in CommandId, Past(c)' PROVE EventOf(c) \in mem'.seen
  BY <1>1, <1>3, <1>4, <1>5, <1>6 DEF Past, FinalInv
<1>7. QED
  BY <1>1, <1>3, <1>5, <1>6 DEF FinalInv

LEMMA FinalStep ==
    ASSUME OnePublisher, FinalInv, RuntimeStep(AckType)
    PROVE  FinalInv'
<1>1. MirrorInv'
  BY MirrorStep DEF FinalInv
<1>2. ASSUME NEW k \in Task, TaskStepOf(k) PROVE FinalInv'
  <2>1. CASE AppendRecord(k) \/ \E label \in Exit : AppendFails(k, label)
    BY <1>1, <2>1, AppendFinal
  <2>2. CASE ApplyRecord(k)
    BY <1>1, <2>2, ApplyFinal
  <2>3. CASE ~(AppendRecord(k) \/ ApplyRecord(k) \/ \E label \in Exit : AppendFails(k, label))
    BY <1>1, <1>2, <2>3, QuietFinal
  <2>4. QED
    BY <2>1, <2>2, <2>3
<1>3. CASE Restarts
  BY <1>1, <1>3, RestartFinal
<1>4. CASE UNCHANGED <<mem, file, settled, taskVars>>
  BY <1>1, <1>4 DEF FinalInv, Past, Plans, Concludes, taskVars, Tracked, StateOf
<1>5. QED
  BY <1>2, <1>3, <1>4, StepKinds

LEMMA FinalSettled == FinalInv => SettledIsFinal
BY DEF FinalInv, MirrorInv, OrderlyInv, KeyedInv, RuntimeTypeInv, RuntimeTypeOK, SettledIsFinal

-----------------------------------------------------------------------------
(* Commands are journaled before they are sent: what was handed over is     *)
(* issued for good.                                                         *)

HandedInv == \A c \in CommandId : handed[c] > 0 => Issued(c)

LEMMA HandedStart ==
    ASSUME RuntimeInit
    PROVE  HandedInv
BY DEF RuntimeInit, HandedInv

LEMMA HandedStep ==
    ASSUME LedgerInv, HandedInv, RuntimeStep(IssuedAcks)
    PROVE  HandedInv'
<1>1. Onward /\ [Ledger!LedgerNext]_Ledger!ledgerVars
  BY LedgerStep
<1>2. ASSUME NEW c \in CommandId, handed'[c] > 0, ~Issued(c) PROVE Issued(c)'
  <2>1. handed[c] = 0 \/ ~(handed[c] > 0)
    BY <1>2 DEF HandedInv
  <2>2. handed' # handed
    BY <1>2, <2>1 DEF HandedInv
  <2>3. PICK d \in CommandId : Ledger!Hand(d)
    BY <1>1, <2>2 DEF Ledger!LedgerNext, Ledger!ledgerVars, Ledger!Plan, Ledger!Issue,
                      Ledger!Settle, Ledger!Move
  <2>4. Issued(d) /\ handed' = [handed EXCEPT ![d] = IF @ = 2 THEN 2 ELSE @ + 1]
    BY <2>3 DEF Ledger!Hand, Issued
  <2>5. c # d
    BY <1>2, <2>4
  <2>6. QED
    BY <1>2, <2>1, <2>4, <2>5 DEF LedgerInv, KeyedInv, RuntimeTypeInv, RuntimeTypeOK
<1>3. QED
  BY <1>1, <1>2 DEF Onward, HandedInv

LEMMA AheadWritten == LedgerInv /\ HandedInv /\ FinalInv => WriteAhead
<1> SUFFICES ASSUME LedgerInv, HandedInv, FinalInv, NEW c \in CommandId, handed[c] > 0
             PROVE  /\ EventOf(c) \in file.seen
                    /\ StateOf(file, c) # "queued"
                    /\ Tracked(file, c) \/ c \in settled
  BY DEF WriteAhead
<1>1. Issued(c) /\ file \in ReplayType
  BY Types DEF HandedInv, LedgerInv
<1>2. StageIn(file, settled, c) \in {"issued", "done"}
  BY <1>1, StageIsStageIn DEF Issued
<1>3. CASE c \in settled
  BY <1>3 DEF FinalInv, Past, Tracked
<1>4. CASE c \notin settled
  BY <1>1, <1>2, <1>4, StageValues DEF FinalInv, Tracked
<1>5. QED
  BY <1>3, <1>4

-----------------------------------------------------------------------------
(* A command that is on a channel was built by the engine, for an account   *)
(* that a task serves.                                                      *)

Served(a) == \E k \in Task : Owner[k] = a
Carried(c) == SoundCommand(c) /\ Served(c.target)

Sending(k) == pc[k] = "send" \/ (pc[k] \in {"append", "apply"} /\ ret[k] = "send")

ReachInv ==
    /\ MirrorInv
    /\ \A a \in Account : sessions[a] # 0 => Served(a)
    /\ \A k \in Task : Sending(k) => Served(TargetOf(rec[k].id))
    /\ \A s \in Session : \A i \in DOMAIN chan[s].queue : Carried(chan[s].queue[i])

LEMMA ReachStart ==
    ASSUME RuntimeInit
    PROVE  ReachInv
<1>1. /\ \A a \in Account : sessions[a] = 0
      /\ \A k \in Task : pc[k] = "off"
      /\ \A s \in Session : chan[s].queue = <<>>
  BY DEF RuntimeInit, FreshTasks
<1>2. QED
  BY <1>1, MirrorStart DEF ReachInv, Sending

LEMMA TakenCarried ==
    ASSUME ReachInv, NEW s \in Session, chan[s].queue # <<>>
    PROVE  Carried(Head(chan[s].queue))
<1> DEFINE q == chan[s].queue
<1>1. q \in Seq(CommandType) /\ q # <<>>
  BY DEF ReachInv, MirrorInv, OrderlyInv, KeyedInv, RuntimeTypeInv, RuntimeTypeOK
<1>2. \A i \in DOMAIN q : Carried(q[i])
  BY DEF ReachInv
<1> HIDE DEF q
<1>3. 1 \in DOMAIN q /\ Head(q) = q[1]
  BY <1>1, SMT
<1>4. Carried(Head(q))
  BY <1>2, <1>3
<1>5. QED
  BY <1>4 DEF q

(* A task comes to send by dispatching for a registered session.            *)
LEMMA SendingStep ==
    ASSUME KeyedInv, NEW k \in Task, TaskStepOf(k), Sending(k)'
    PROVE  DispatchNext(k) \/ (Sending(k) /\ rec'[k] = rec[k])
<1> USE Types DEF Sending
<1>1. CASE \/ DrawSessionId(k) \/ Leaves(k) \/ InsertSession(k) \/ Unregister(k)
           \/ SnapshotQueued(k) \/ SnapshotDispatched(k)
  BY <1>1 DEF DrawSessionId, Leaves, InsertSession, Unregister, SnapshotQueued,
              SnapshotDispatched, Goto, Loop
<1>2. CASE RoutePanics(k) \/ \E label \in Exit : AppendFails(k, label) \/ Ends(k, label)
  BY <1>2 DEF RoutePanics, AppendFails, Ends, Fail, Goto, Exit
<1>3. CASE MarkOrphan(k)
  BY <1>3 DEF MarkOrphan, Journal, Goto
<1>4. CASE SendFails(k)
  BY <1>4 DEF SendFails, Journal, Goto
<1>5. CASE MutateReduced(k)
  BY <1>5 DEF MutateReduced, Journal, Goto
<1>6. CASE Send(k)
  BY <1>6 DEF Send, Loop
<1>7. CASE RouteEvent(k)
  BY <1>7 DEF RouteEvent, Journal, Goto
<1>8. CASE AppendRecord(k)
  BY <1>8 DEF AppendRecord, Goto
<1>9. CASE ApplyRecord(k)
  BY <1>9 DEF ApplyRecord, Goto, Loop
<1>10. ASSUME NEW e \in Event, HandleEvent(k, e)
       PROVE  DispatchNext(k) \/ (Sending(k) /\ rec'[k] = rec[k])
  BY <1>10 DEF HandleEvent, Journal, Goto
<1>11. ASSUME NEW ack \in AckType, HandleAck(k, ack)
       PROVE  DispatchNext(k) \/ (Sending(k) /\ rec'[k] = rec[k])
  BY <1>11 DEF HandleAck, Journal, Goto
<1>12. QED
  BY <1>1, <1>2, <1>3, <1>4, <1>5, <1>6, <1>7, <1>8, <1>9, <1>10, <1>11
     DEF TaskStepOf, HandlerStep

LEMMA DispatchReach ==
    ASSUME ReachInv, NEW k \in Task, DispatchNext(k), Sending(k)'
    PROVE  Served(TargetOf(rec'[k].id))
<1>1. MirrorInv /\ KeyedInv
  BY DEF ReachInv, MirrorInv, OrderlyInv
<1>2. PICK c \in todo[k] :
        IF sessions[c.target] = 0
        THEN Loop(k, "dispatch", todo[k] \ {c})
        ELSE Journal(k, CommandDispatched(c.id), "send")
  BY DEF DispatchNext
<1>3. sessions[c.target] # 0
  BY <1>1, <1>2, Types DEF Loop, Sending
<1>4. rec'[k].id = c.id
  BY <1>1, <1>2, <1>3, Types DEF Journal, CommandDispatched
<1>5. c \in CommandType /\ c.target = TargetOf(c.id)
  BY <1>1, BuiltFacts DEF MirrorInv, SoundCommands
<1>6. c.target \in Account
  BY <1>5, SMT DEF CommandType
<1>7. QED
  BY <1>3, <1>4, <1>5, <1>6 DEF ReachInv

LEMMA SessionsReach ==
    ASSUME ReachInv, RuntimeStep(AckType)
    PROVE  \A a \in Account : sessions'[a] # 0 => Served(a)
<1>1. \/ sessions' = sessions
      \/ \E k \in Task : sessions' = [sessions EXCEPT ![Owner[k]] = sid[k]]
      \/ \E k \in Task : sessions' = [sessions EXCEPT ![Owner[k]] = 0]
      \/ sessions' = [a \in Account |-> 0]
  BY DEF RuntimeStep, HandlerStep, InsertSession, SnapshotQueued, RouteEvent, RoutePanics,
         AppendRecord, ApplyRecord, DispatchNext, Send, SendFails, MutateReduced, Unregister,
         SnapshotDispatched, MarkOrphan, DrawSessionId, Leaves, AppendFails, Ends,
         HandleEvent, HandleAck, Takes, Closes, Restarts, FreshTasks, runtimeVars
<1>2. sessions \in [Account -> 0..MaxSession]
  BY DEF ReachInv, MirrorInv, OrderlyInv, KeyedInv, RuntimeTypeInv, RuntimeTypeOK
<1>3. QED
  BY <1>1, <1>2 DEF ReachInv, Served

LEMMA QueuesReach ==
    ASSUME ReachInv, RuntimeStep(AckType)
    PROVE  \A s \in Session : \A i \in DOMAIN chan'[s].queue : Carried(chan'[s].queue[i])
<1>1. chan \in [Session -> [open : BOOLEAN, queue : Seq(CommandType)]] /\ MirrorInv /\ KeyedInv
  BY DEF ReachInv, MirrorInv, OrderlyInv, KeyedInv, RuntimeTypeInv, RuntimeTypeOK
<1>2. ASSUME NEW k \in Task, Send(k), NEW s \in Session, NEW i \in DOMAIN chan'[s].queue
      PROVE  Carried(chan'[s].queue[i])
  <2>1. PICK c \in todo[k] :
          c.id = rec[k].id /\ chan' = [chan EXCEPT ![sess[k]].queue = Append(@, c)]
    BY <1>2 DEF Send
  <2>2. c \in CommandType /\ Carried(c)
    <3>1. SoundCommand(c)
      BY <1>1 DEF MirrorInv, SoundCommands
    <3>2. Served(TargetOf(c.id))
      BY <1>2, <2>1 DEF Send, Sending, ReachInv
    <3>3. QED
      BY <3>1, <3>2, BuiltFacts DEF Carried
  <2>3. CASE s # sess[k]
    <3>1. chan'[s] = chan[s]
      BY <1>1, <2>1, <2>3
    <3>2. QED
      BY <1>2, <3>1 DEF ReachInv
  <2>4. CASE s = sess[k]
    <3> DEFINE q == chan[s].queue
    <3>1. q \in Seq(CommandType) /\ chan'[s].queue = Append(q, c)
      BY <1>1, <2>1, <2>4
    <3>2. \A n \in DOMAIN q : Carried(q[n])
      BY DEF ReachInv
    <3> HIDE DEF q
    <3>3. /\ DOMAIN Append(q, c) = 1..(Len(q) + 1) /\ Len(q) \in Nat /\ DOMAIN q = 1..Len(q)
          /\ Append(q, c)[Len(q) + 1] = c
          /\ \A n \in 1..Len(q) : Append(q, c)[n] = q[n]
      BY <2>2, <3>1, SMT
    <3>4. i \in 1..Len(q) \/ i = Len(q) + 1
      BY <1>2, <3>1, <3>3, SMT
    <3>5. QED
      BY <2>2, <3>1, <3>2, <3>3, <3>4
  <2>5. QED
    BY <2>3, <2>4
<1>3. ASSUME NEW t \in Session, Takes(t), NEW s \in Session, NEW i \in DOMAIN chan'[s].queue
      PROVE  Carried(chan'[s].queue[i])
  <2>1. CASE s # t
    <3>1. chan'[s] = chan[s]
      BY <1>1, <1>3, <2>1 DEF Takes
    <3>2. QED
      BY <1>3, <3>1 DEF ReachInv
  <2>2. CASE s = t
    <3> DEFINE q == chan[s].queue
    <3>1. q \in Seq(CommandType) /\ q # <<>> /\ chan'[s].queue = Tail(q)
      BY <1>1, <1>3, <2>2 DEF Takes
    <3>2. \A n \in DOMAIN q : Carried(q[n])
      BY DEF ReachInv
    <3> HIDE DEF q
    <3>3. i + 1 \in DOMAIN q /\ Tail(q)[i] = q[i + 1]
      BY <1>3, <3>1, SMT
    <3>4. QED
      BY <3>1, <3>2, <3>3
  <2>3. QED
    BY <2>1, <2>2
<1>4. ASSUME NEW t, NEW open, chan' = [chan EXCEPT ![t] = [open |-> open, queue |-> <<>>]],
             NEW s \in Session, NEW i \in DOMAIN chan'[s].queue
      PROVE  Carried(chan'[s].queue[i])
  <2>1. s # t
    BY <1>1, <1>4
  <2>2. chan'[s] = chan[s]
    BY <1>1, <1>4, <2>1
  <2>3. QED
    BY <1>4, <2>2 DEF ReachInv
<1>5. \/ chan' = chan
      \/ \E k \in Task : Send(k)
      \/ \E t \in Session : Takes(t)
      \/ \E t, open : chan' = [chan EXCEPT ![t] = [open |-> open, queue |-> <<>>]]
      \/ Restarts
  BY DEF RuntimeStep, HandlerStep, InsertSession, SnapshotQueued, RouteEvent, RoutePanics,
         AppendRecord, ApplyRecord, DispatchNext, SendFails, MutateReduced, Unregister,
         SnapshotDispatched, MarkOrphan, DrawSessionId, Leaves, AppendFails, Ends,
         HandleEvent, HandleAck, Closes, runtimeVars
<1>6. CASE chan' = chan
  BY <1>6 DEF ReachInv
<1>7. CASE Restarts
  BY <1>7 DEF Restarts, FreshTasks
<1>8. QED
  BY <1>2, <1>3, <1>4, <1>5, <1>6, <1>7

LEMMA ReachStep ==
    ASSUME ReachInv, RuntimeStep(AckType)
    PROVE  ReachInv'
<1>1. MirrorInv /\ KeyedInv /\ MirrorInv'
  BY MirrorStep DEF ReachInv, MirrorInv, OrderlyInv
<1>2. ASSUME NEW j \in Task, Sending(j)' PROVE Served(TargetOf(rec'[j].id))
  <2>1. ASSUME NEW k \in Task, TaskStepOf(k) PROVE Served(TargetOf(rec'[j].id))
    <3>1. CASE j = k
      <4>1. DispatchNext(k) \/ (Sending(k) /\ rec'[k] = rec[k])
        BY <1>1, <1>2, <2>1, <3>1, SendingStep
      <4>2. QED
        BY <1>2, <3>1, <4>1, DispatchReach DEF ReachInv
    <3>2. CASE j # k
      <4>1. Unmoved(j)
        BY <1>1, <2>1, <3>2, OthersStay DEF KeyedInv
      <4>2. QED
        BY <1>2, <4>1 DEF Unmoved, Sending, ReachInv
    <3>3. QED
      BY <3>1, <3>2
  <2>2. CASE UNCHANGED taskVars
    BY <1>2, <2>2 DEF taskVars, Sending, ReachInv
  <2>3. CASE Restarts
    BY <1>2, <2>3 DEF Restarts, FreshTasks, Sending
  <2>4. QED
    BY <2>1, <2>2, <2>3, StepKinds
<1>3. QED
  BY <1>1, <1>2, SessionsReach, QueuesReach DEF ReachInv

-----------------------------------------------------------------------------
(* What is written about a command but not yet applied: it was planned by   *)
(* its master's task just now, or the memory has known it since before.     *)

Seasoned(c) == c \in settled \/ Tracked(mem, c)

PlannedBy(k, c) == IsPlanned(rec[k]) /\ \E p \in rec[k].commands : p.id = c

SeasonedTask(k) ==
    /\ pc[k] # "route" /\ ~IsPlanned(rec[k]) => \A d \in todo[k] : Seasoned(d.id)
    /\ rec[k] # NoRecord /\ ~IsPlanned(rec[k]) => Seasoned(rec[k].id)

SeasonedInv ==
    /\ FinalInv
    /\ \A k \in Task : SeasonedTask(k)
    /\ \A k \in Task : pc[k] = "apply" /\ IsFinalAck(rec[k]) => rec[k].id \in settled
    /\ \A k \in Task : pc[k] = "apply" => \A c \in CommandId : PlannedBy(k, c) => ~Past(c)

LEMMA SeasonedStart ==
    ASSUME RuntimeInit
    PROVE  SeasonedInv
<1>1. FinalInv
  BY FinalStart
<1>2. \A k \in Task : pc[k] = "off" /\ rec[k] = NoRecord /\ todo[k] = {}
  BY DEF RuntimeInit, FreshTasks
<1>3. QED
  BY <1>1, <1>2 DEF SeasonedInv, SeasonedTask

(* A task's steps, but for appends and applications, leave both states      *)
(* alone, and neither leave a record to be applied nor come with one.       *)
Writes(k) == AppendRecord(k) \/ ApplyRecord(k) \/ \E label \in Exit : AppendFails(k, label)

LEMMA QuietTask ==
    ASSUME KeyedInv, NEW k \in Task, TaskStepOf(k), ~Writes(k)
    PROVE  /\ UNCHANGED <<mem, file, settled, faults>>
           /\ pc[k] # "apply" /\ pc'[k] # "apply"
<1>1. UNCHANGED <<mem, file, settled, faults>>
  BY DEF TaskStepOf, HandlerStep, DrawSessionId, Leaves, InsertSession, SnapshotQueued,
         RouteEvent, RoutePanics, DispatchNext, Send, SendFails, MutateReduced, Unregister,
         SnapshotDispatched, MarkOrphan, Ends, HandleEvent, HandleAck, Writes
<1>2. CASE \/ DrawSessionId(k) \/ Leaves(k) \/ InsertSession(k) \/ Unregister(k)
           \/ SnapshotQueued(k) \/ SnapshotDispatched(k)
  BY <1>1, <1>2, Types DEF DrawSessionId, Leaves, InsertSession, Unregister, SnapshotQueued,
                           SnapshotDispatched, Goto, Loop
<1>3. CASE \/ RoutePanics(k) \/ \E label \in Exit : Ends(k, label)
  BY <1>1, <1>3, Types DEF RoutePanics, Ends, Fail, Goto, Exit
<1>4. CASE MarkOrphan(k) \/ SendFails(k) \/ MutateReduced(k)
  BY <1>1, <1>4, Types DEF MarkOrphan, SendFails, MutateReduced, Journal, Goto
<1>5. CASE DispatchNext(k) \/ Send(k)
  BY <1>1, <1>5, Types DEF DispatchNext, Send, Journal, Goto, Loop
<1>6. CASE RouteEvent(k)
  BY <1>1, <1>6, Types DEF RouteEvent, Journal, Goto
<1>7. ASSUME NEW e \in Event, HandleEvent(k, e) PROVE pc[k] # "apply" /\ pc'[k] # "apply"
  BY <1>7, Types DEF HandleEvent, Journal, Goto
<1>8. ASSUME NEW ack \in AckType, HandleAck(k, ack) PROVE pc[k] # "apply" /\ pc'[k] # "apply"
  BY <1>8, Types DEF HandleAck, Journal, Goto
<1>9. QED
  BY <1>1, <1>2, <1>3, <1>4, <1>5, <1>6, <1>7, <1>8 DEF TaskStepOf, HandlerStep, Writes

(* Only its own terminal acknowledgement ends a command.                    *)
LEMMA StaysTracked ==
    ASSUME NEW s \in ReplayType, NEW r \in RecordType, NEW c \in CommandId, Tracked(s, c),
           ~(IsFinalAck(r) /\ r.id = c)
    PROVE  Tracked(Apply(s, r), c)
<1>1. CASE IsPlanned(r)
  BY <1>1, PlannedEntry DEF Tracked, StateOf
<1>2. CASE ~IsPlanned(r)
  BY <1>2, OtherEntry DEF Tracked, StateOf
<1>3. QED
  BY <1>1, <1>2

(* Until a command is in S, it stays tracked in memory from when it was     *)
(* planned: as long as only commands of S are ended.                        *)
Within(S, c) == c \in S \/ Tracked(mem, c)

WithinTask(k, S) ==
    /\ pc[k] # "route" /\ ~IsPlanned(rec[k]) => \A d \in todo[k] : Within(S, d.id)
    /\ rec[k] # NoRecord /\ ~IsPlanned(rec[k]) => Within(S, rec[k].id)

LEMMA QuietWithin ==
    ASSUME MirrorInv, NEW k \in Task, NEW S, WithinTask(k, S), TaskStepOf(k), ~Writes(k)
    PROVE  WithinTask(k, S)'
<1>1. OrderlyInv /\ KeyedInv /\ Orderly(k)
  BY DEF MirrorInv, OrderlyInv
<1>2. \A c : Within(S, c)' <=> Within(S, c)
  BY <1>1, QuietTask DEF Within, Tracked, StateOf
<1>3. CASE DrawSessionId(k) \/ Leaves(k) \/ InsertSession(k) \/ Unregister(k)
  <2>1. todo'[k] = {} /\ rec'[k] = rec[k]
    BY <1>1, <1>3 DEF DrawSessionId, Leaves, InsertSession, Unregister, Orderly, AtEase
  <2>2. QED
    BY <1>2, <2>1 DEF WithinTask
<1>4. CASE SnapshotQueued(k) \/ SnapshotDispatched(k)
  <2>1. \E state \in {"queued", "dispatched"} : todo'[k] = CommandsIn(state, Owner[k])
    BY <1>1, <1>4, Types DEF SnapshotQueued, SnapshotDispatched, Loop
  <2>2. \A state \in {"queued", "dispatched"} :
          \A d \in CommandsIn(state, Owner[k]) : Within(S, d.id)
    BY <1>1, Types DEF CommandsIn, Within, Tracked, KeyedInv, WellKeyed
  <2>3. rec'[k] = rec[k]
    BY <1>4 DEF SnapshotQueued, SnapshotDispatched
  <2>4. QED
    BY <1>2, <2>1, <2>2, <2>3 DEF WithinTask
<1>5. CASE \/ RoutePanics(k) \/ \E label \in Exit : Ends(k, label)
  <2>1. todo'[k] = {} /\ rec'[k] = NoRecord
    BY <1>1, <1>5, Types DEF RoutePanics, Ends, Fail
  <2>2. QED
    BY <2>1 DEF WithinTask
<1>6. CASE MarkOrphan(k)
  <2>1. PICK c \in todo[k] :
          /\ todo' = [todo EXCEPT ![k] = @ \ {c}]
          /\ Journal(k, CommandUnknown(c.id), "orphans")
    BY <1>6 DEF MarkOrphan
  <2>2. \A d \in todo[k] : Within(S, d.id)
    BY <1>1, <1>6 DEF MarkOrphan, WithinTask, Orderly
  <2>3. todo'[k] \subseteq todo[k] /\ rec'[k].id = c.id
    BY <1>1, <2>1, Types DEF Journal, CommandUnknown
  <2>4. QED
    BY <1>2, <2>2, <2>3 DEF WithinTask
<1>7. CASE DispatchNext(k)
  <2>1. PICK c \in todo[k] :
          IF sessions[c.target] = 0
          THEN Loop(k, "dispatch", todo[k] \ {c}) /\ UNCHANGED rec
          ELSE Journal(k, CommandDispatched(c.id), "send") /\ UNCHANGED todo
    BY <1>7 DEF DispatchNext
  <2>2. rec[k] = NoRecord /\ \A d \in todo[k] : Within(S, d.id)
    BY <1>1, <1>7 DEF DispatchNext, WithinTask, Orderly
  <2>3. todo'[k] \subseteq todo[k] /\ (rec'[k] = NoRecord \/ rec'[k].id = c.id)
    BY <1>1, <2>1, <2>2, Types DEF Journal, Loop, CommandDispatched
  <2>4. QED
    BY <1>2, <2>2, <2>3 DEF WithinTask
<1>8. CASE Send(k)
  <2>1. todo'[k] \subseteq todo[k] /\ rec'[k] = NoRecord
    BY <1>1, <1>8, Types DEF Send, Loop
  <2>2. \A d \in todo[k] : Within(S, d.id)
    BY <1>1, <1>8 DEF Send, WithinTask, Orderly
  <2>3. QED
    BY <1>2, <2>1, <2>2 DEF WithinTask
<1>9. CASE SendFails(k)
  <2>1. todo'[k] \subseteq todo[k] /\ rec'[k].id = rec[k].id
    BY <1>1, <1>9, Types DEF SendFails, Journal, CommandUnknown
  <2>2. rec[k] # NoRecord /\ ~IsPlanned(rec[k])
    BY <1>1, <1>9 DEF SendFails, Orderly, KeyedInv, RuntimeTypeInv, Standing, NoRecord
  <2>3. QED
    BY <1>2, <1>9, <2>1, <2>2 DEF WithinTask, SendFails
<1>10. CASE RouteEvent(k)
  <2>1. \/ pc'[k] = "route" /\ rec'[k] = rec[k]
        \/ pc'[k] = "append" /\ \E planned : rec'[k] = EventPlanned(ev[k].id, planned)
    BY <1>1, <1>10, Types DEF RouteEvent, Journal, Goto
  <2>2. rec[k] = NoRecord
    BY <1>1, <1>10 DEF RouteEvent, Orderly
  <2>3. CASE pc'[k] = "route" /\ rec'[k] = rec[k]
    BY <2>2, <2>3 DEF WithinTask
  <2>4. CASE \E planned : rec'[k] = EventPlanned(ev[k].id, planned)
    BY <2>4 DEF WithinTask, EventPlanned, IsPlanned
  <2>5. QED
    BY <2>1, <2>3, <2>4
<1>11. ASSUME NEW e \in Event, HandleEvent(k, e) PROVE WithinTask(k, S)'
  <2>1. todo'[k] = {} /\ (rec'[k] = rec[k] \/ rec'[k] = EventPlanned(e.id, {}))
    BY <1>1, <1>11, Types DEF HandleEvent, Journal, Orderly, AtEase
  <2>2. QED
    BY <1>2, <2>1 DEF WithinTask, EventPlanned, IsPlanned
<1>12. ASSUME NEW ack \in AckType, HandleAck(k, ack) PROVE WithinTask(k, S)'
  <2> DEFINE c == mem.commands[ack.id].command
  <2>1. ack.id \in CommandId /\ Tracked(mem, ack.id)
    BY <1>12 DEF HandleAck, AckType
  <2>2. c.id = ack.id /\ c \in CommandType
    BY <1>1, <2>1, Types, StoredTyped DEF KeyedInv, WellKeyed
  <2>3. AckRecord(c, ack).id = c.id
    BY <2>2, AckRecordShape
  <2>4. rec'[k] = AckRecord(c, ack) /\ (todo'[k] = {c} \/ todo'[k] = {})
    BY <1>1, <1>12, Types DEF HandleAck, Journal, Orderly, AtEase
  <2> HIDE DEF c
  <2>5. Within(S, c.id)
    BY <2>1, <2>2 DEF Within
  <2>6. QED
    BY <1>2, <2>3, <2>4, <2>5 DEF WithinTask
<1>13. CASE MutateReduced(k)
  <2>1. todo'[k] = {} /\ rec'[k].id = rec[k].id
    BY <1>1, <1>13, Types DEF MutateReduced, Journal, AckApplied, Orderly
  <2>2. rec[k] # NoRecord /\ ~IsPlanned(rec[k])
    BY <1>1, <1>13 DEF MutateReduced, KeyedInv, RuntimeTypeInv, Standing, NoRecord, IsPlanned
  <2>3. QED
    BY <1>2, <2>1, <2>2 DEF WithinTask
<1>14. QED
  BY <1>3, <1>4, <1>5, <1>6, <1>7, <1>8, <1>9, <1>10, <1>11, <1>12, <1>13
     DEF TaskStepOf, HandlerStep, Writes

LEMMA QuietSeasoned ==
    ASSUME MirrorInv, NEW k \in Task, SeasonedTask(k), TaskStepOf(k), ~Writes(k)
    PROVE  SeasonedTask(k)'
<1>1. KeyedInv
  BY DEF MirrorInv, OrderlyInv
<1>2. PICK S : S = settled
  OBVIOUS
<1>3. settled' = S
  BY <1>1, <1>2, QuietTask
<1>4. WithinTask(k, S)
  BY <1>2 DEF SeasonedTask, Seasoned, WithinTask, Within
<1>5. WithinTask(k, S)'
  BY <1>4, QuietWithin
<1>6. QED
  BY <1>3, <1>5 DEF SeasonedTask, Seasoned, WithinTask, Within

LEMMA PlansApart ==
    ASSUME OnePublisher, MirrorInv, NEW j \in Task, NEW k \in Task, NEW c,
           PlannedBy(j, c), PlannedBy(k, c)
    PROVE  j = k
<1>1. SourceOf(c) = Owner[j] /\ SourceOf(c) = Owner[k] /\ Owner[j] \in Publishers
  BY PlannedCommands DEF PlannedBy
<1>2. QED
  BY <1>1 DEF OnePublisher

LEMMA AppendSeasoned ==
    ASSUME SeasonedInv, FinalInv', NEW k \in Task,
           AppendRecord(k) \/ \E label \in Exit : AppendFails(k, label)
    PROVE  SeasonedInv'
<1>1. FinalInv /\ MirrorInv /\ OrderlyInv /\ KeyedInv
  BY DEF SeasonedInv, FinalInv, MirrorInv, OrderlyInv
<1>2. /\ \A j \in Task \ {k} : Unmoved(j)
      /\ mem' = mem /\ pc[k] = "append" /\ settled \subseteq settled'
  <2>1. TaskStepOf(k)
    BY DEF TaskStepOf, HandlerStep
  <2>2. QED
    BY <1>1, <2>1, OthersStay DEF KeyedInv, AppendRecord, AppendFails
<1>3. \A c : Seasoned(c) => Seasoned(c)'
  BY <1>2 DEF Seasoned, Tracked, StateOf
<1>4. \/ /\ pc'[k] = "apply" /\ rec'[k] = rec[k] /\ todo'[k] = todo[k]
         /\ IsFinalAck(rec[k]) => rec[k].id \in settled'
      \/ pc'[k] \in Exit /\ rec'[k] = NoRecord /\ todo'[k] = {}
  <2>1. CASE AppendRecord(k)
    BY <1>1, <2>1, Types DEF AppendRecord, Goto, IsFinalAck
  <2>2. CASE \E label \in Exit : AppendFails(k, label)
    BY <1>1, <2>2, Types DEF AppendFails, Fail, Goto
  <2>3. QED
    BY <2>1, <2>2
<1>5. \A j \in Task : SeasonedTask(j)'
  <2>1. SeasonedTask(k)'
    BY <1>2, <1>3, <1>4 DEF SeasonedInv, SeasonedTask
  <2>2. QED
    BY <1>2, <1>3, <2>1 DEF SeasonedInv, SeasonedTask, Unmoved
<1>6. \A j \in Task : pc'[j] = "apply" /\ IsFinalAck(rec'[j]) => rec'[j].id \in settled'
  BY <1>2, <1>4 DEF SeasonedInv, Unmoved, Exit
<1>7. \A c \in CommandId : Past(c)' => Past(c)
  <2>1. \A c \in CommandId : c \in settled' => c \in settled \/ Concludes(k, c)
    BY DEF AppendRecord, AppendFails, Concludes
  <2>2. \A j \in Task : \A c \in CommandId : Concludes(j, c)' => Concludes(j, c)
    BY <1>2, <1>4 DEF Concludes, Unmoved, NoRecord
  <2>3. QED
    BY <1>2, <2>1, <2>2 DEF Past, Tracked, StateOf
<1>8. ASSUME NEW j \in Task, pc'[j] = "apply", NEW c \in CommandId, PlannedBy(j, c)'
      PROVE  ~Past(c)'
  <2>1. CASE j = k
    <3>1. PlannedBy(k, c)
      BY <1>4, <1>8, <2>1 DEF PlannedBy, Exit
    <3>2. Plans(k, c)
      BY <1>1, <1>2, <3>1, PlannedCommands DEF PlannedBy, Plans
    <3>3. QED
      BY <1>1, <1>7, <3>2 DEF FinalInv
  <2>2. CASE j # k
    BY <1>2, <1>7, <1>8, <2>2 DEF SeasonedInv, Unmoved, PlannedBy
  <2>3. QED
    BY <2>1, <2>2
<1>9. QED
  BY <1>5, <1>6, <1>8 DEF SeasonedInv

LEMMA ApplyWithin ==
    ASSUME MirrorInv, NEW k \in Task, ApplyRecord(k), NEW S, \A j \in Task : WithinTask(j, S),
           IsFinalAck(rec[k]) => rec[k].id \in S
    PROVE  /\ \A c \in CommandId : Within(S, c) => Within(S, c)'
           /\ \A j \in Task : WithinTask(j, S)'
<1> DEFINE r == rec[k]
<1>1. OrderlyInv /\ KeyedInv /\ Orderly(k)
  BY DEF MirrorInv, OrderlyInv
<1>2. /\ \A j \in Task \ {k} : Unmoved(j)
      /\ pc[k] = "apply" /\ mem' = Apply(mem, r)
  <2>1. TaskStepOf(k)
    BY DEF TaskStepOf, HandlerStep
  <2>2. QED
    BY <1>1, <2>1, OthersStay DEF KeyedInv, ApplyRecord
<1>3. r \in RecordType /\ mem \in ReplayType
  BY <1>1, <1>2, Types DEF KeyedInv, RuntimeTypeInv, Standing
<1>4. /\ pc'[k] \in {"idle", "off", "dispatch", "orphans", "send"}
      /\ rec'[k] = NoRecord \/ (rec'[k] = r /\ ~IsPlanned(r))
      /\ todo'[k] = todo[k]
  <2>1. ret[k] \in {"idle", "dispatch", "send", "orphans"} /\ (IsPlanned(r) => ret[k] = "dispatch")
    BY <1>1 DEF KeyedInv, RuntimeTypeInv, RuntimeTypeOK, Orderly
  <2>2. QED
    BY <1>1, <2>1, Types DEF ApplyRecord, Loop, Goto
<1>5. \A c \in CommandId : Within(S, c) => Within(S, c)'
  <2> SUFFICES ASSUME NEW c \in CommandId, Tracked(mem, c), ~Tracked(mem', c)
               PROVE  c \in S
    BY DEF Within
  <2>1. IsFinalAck(r) /\ r.id = c
    BY <1>2, <1>3, StaysTracked
  <2>2. QED
    BY <2>1
<1>6. \A d \in todo[k] : Within(S, d.id)'
  <2>1. ASSUME NEW d \in todo[k] PROVE d.id \in CommandId
    <3>1. d \in CommandType
      BY <1>1, Types
    <3>2. QED
      BY <3>1, SMT DEF CommandType
  <2>2. CASE IsPlanned(r)
    <3>1. ASSUME NEW d \in todo[k] PROVE Tracked(mem', d.id)
      <4>1. d \in r.commands
        BY <1>1, <2>2 DEF Orderly
      <4>2. QED
        BY <1>2, <1>3, <2>1, <2>2, <4>1, PlannedEntry DEF Tracked, StateOf
    <3>2. QED
      BY <3>1 DEF Within
  <2>3. CASE ~IsPlanned(r)
    BY <1>2, <1>5, <2>1, <2>3 DEF WithinTask
  <2>4. QED
    BY <2>2, <2>3
<1>7. WithinTask(k, S)'
  <2>1. rec'[k] # NoRecord => Within(S, rec[k].id)'
    <3>1. r # NoRecord /\ ~IsPlanned(r) => r.id \in CommandId /\ Within(S, r.id)
      BY <1>3, RecordShape DEF WithinTask
    <3>2. QED
      BY <1>4, <1>5, <3>1 DEF Within
  <2>2. QED
    BY <1>4, <1>6, <2>1 DEF WithinTask
<1>8. ASSUME NEW j \in Task \ {k} PROVE WithinTask(j, S)'
  <2>1. \A d \in todo[j] : d.id \in CommandId
    <3>1. todo[j] \subseteq CommandType
      BY <1>1, Types
    <3>2. \A d \in CommandType : d.id \in CommandId
      BY SMT DEF CommandType
    <3>3. QED
      BY <3>1, <3>2
  <2>2. rec[j] # NoRecord /\ ~IsPlanned(rec[j]) => rec[j].id \in CommandId
    BY <1>1, RecordShape DEF KeyedInv, RuntimeTypeInv, RuntimeTypeOK
  <2>3. QED
    BY <1>2, <1>5, <2>1, <2>2 DEF WithinTask, Unmoved
<1>9. QED
  BY <1>5, <1>7, <1>8

LEMMA ApplySeasoned ==
    ASSUME OnePublisher, SeasonedInv, FinalInv', NEW k \in Task, ApplyRecord(k)
    PROVE  SeasonedInv'
<1> DEFINE r == rec[k]
<1>1. FinalInv /\ MirrorInv /\ OrderlyInv /\ KeyedInv /\ Orderly(k)
  BY DEF SeasonedInv, FinalInv, MirrorInv, OrderlyInv
<1>2. /\ \A j \in Task \ {k} : Unmoved(j)
      /\ pc[k] = "apply" /\ mem' = Apply(mem, r) /\ settled' = settled
  <2>1. TaskStepOf(k)
    BY DEF TaskStepOf, HandlerStep
  <2>2. QED
    BY <1>1, <2>1, OthersStay DEF KeyedInv, ApplyRecord
<1>3. r \in RecordType /\ mem \in ReplayType
  BY <1>1, <1>2, Types DEF KeyedInv, RuntimeTypeInv, Standing
<1>4. /\ pc'[k] \in {"idle", "off", "dispatch", "orphans", "send"}
      /\ rec'[k] = NoRecord \/ (rec'[k] = r /\ ~IsPlanned(r))
      /\ todo'[k] = todo[k]
  <2>1. ret[k] \in {"idle", "dispatch", "send", "orphans"} /\ (IsPlanned(r) => ret[k] = "dispatch")
    BY <1>1 DEF KeyedInv, RuntimeTypeInv, RuntimeTypeOK, Orderly
  <2>2. QED
    BY <1>1, <2>1, Types DEF ApplyRecord, Loop, Goto
<1>5. \A j \in Task : SeasonedTask(j)'
  <2>1. PICK S : S = settled
    OBVIOUS
  <2>2. \A j \in Task : WithinTask(j, S)
    BY <2>1 DEF SeasonedInv, SeasonedTask, Seasoned, WithinTask, Within
  <2>3. IsFinalAck(r) => r.id \in S
    BY <1>2, <2>1 DEF SeasonedInv
  <2>4. \A j \in Task : WithinTask(j, S)'
    BY <1>1, <2>2, <2>3, ApplyWithin
  <2>5. QED
    BY <1>2, <2>1, <2>4 DEF SeasonedTask, Seasoned, WithinTask, Within
<1>6. \A j \in Task : pc'[j] = "apply" /\ IsFinalAck(rec'[j]) => rec'[j].id \in settled'
  BY <1>2, <1>4 DEF SeasonedInv, Unmoved
<1>7. ASSUME NEW j \in Task, pc'[j] = "apply", NEW c \in CommandId, PlannedBy(j, c)'
      PROVE  ~Past(c)'
  <2>1. j # k /\ PlannedBy(j, c) /\ ~Past(c)
    BY <1>2, <1>4, <1>7 DEF SeasonedInv, Unmoved, PlannedBy
  <2>2. ~PlannedBy(k, c)
    BY <1>1, <2>1, PlansApart
  <2>3. ~Tracked(mem', c)
    <3>1. CASE IsPlanned(r)
      BY <1>2, <1>3, <2>1, <2>2, <3>1, PlannedEntry DEF PlannedBy, Past, Tracked, StateOf
    <3>2. CASE ~IsPlanned(r)
      BY <1>2, <1>3, <2>1, <3>2, OtherEntry DEF Past, Tracked, StateOf
    <3>3. QED
      BY <3>1, <3>2
  <2>4. \A i \in Task : Concludes(i, c)' => Concludes(i, c)
    BY <1>2, <1>4 DEF Concludes, Unmoved, NoRecord
  <2>5. QED
    BY <1>2, <2>1, <2>3, <2>4 DEF Past
<1>8. QED
  BY <1>5, <1>6, <1>7 DEF SeasonedInv

LEMMA SeasonedStep ==
    ASSUME OnePublisher, SeasonedInv, RuntimeStep(AckType)
    PROVE  SeasonedInv'
<1>1. FinalInv' /\ FinalInv /\ MirrorInv /\ OrderlyInv /\ KeyedInv
  BY FinalStep DEF SeasonedInv, FinalInv, MirrorInv, OrderlyInv
<1>2. ASSUME NEW k \in Task, TaskStepOf(k), ~Writes(k) PROVE SeasonedInv'
  <2>1. /\ \A j \in Task \ {k} : Unmoved(j)
        /\ UNCHANGED <<mem, file, settled>>
        /\ pc[k] # "apply" /\ pc'[k] # "apply"
    BY <1>1, <1>2, OthersStay, QuietTask DEF KeyedInv
  <2>2. \A c : Seasoned(c)' <=> Seasoned(c)
    BY <2>1 DEF Seasoned, Tracked, StateOf
  <2>3. SeasonedTask(k)'
    BY <1>1, <1>2, QuietSeasoned DEF SeasonedInv
  <2>4. \A j \in Task : SeasonedTask(j)'
    BY <2>1, <2>2, <2>3 DEF SeasonedInv, SeasonedTask, Unmoved
  <2>5. \A j \in Task : pc'[j] = "apply" /\ IsFinalAck(rec'[j]) => rec'[j].id \in settled'
    BY <2>1 DEF SeasonedInv, Unmoved
  <2>6. ASSUME NEW j \in Task, pc'[j] = "apply", NEW c \in CommandId, PlannedBy(j, c)'
        PROVE  ~Past(c)'
    <3>1. j # k /\ ~Past(c)
      BY <2>1, <2>6 DEF SeasonedInv, Unmoved, PlannedBy
    <3>2. ~Concludes(k, c)'
      BY <2>1, <2>2, <2>3, <3>1 DEF SeasonedTask, Seasoned, Past, Concludes, NoRecord, IsPlanned
    <3>3. QED
      BY <2>1, <3>1, <3>2 DEF Past, Concludes, Unmoved, Tracked, StateOf
  <2>7. QED
    BY <1>1, <2>4, <2>5, <2>6 DEF SeasonedInv
<1>3. CASE Restarts
  <2>1. \A k \in Task : pc'[k] = "off" /\ rec'[k] = NoRecord /\ todo'[k] = {}
    BY <1>3 DEF Restarts, FreshTasks
  <2>2. QED
    BY <1>1, <2>1 DEF SeasonedInv, SeasonedTask
<1>4. CASE UNCHANGED <<mem, file, settled, taskVars>>
  BY <1>1, <1>4 DEF SeasonedInv, SeasonedTask, Seasoned, PlannedBy, Past, Concludes, taskVars,
                    Tracked, StateOf
<1>5. QED
  BY <1>1, <1>2, <1>3, <1>4, AppendSeasoned, ApplySeasoned, StepKinds DEF Writes

-----------------------------------------------------------------------------
(* Bindings are stored under their own keys, and written only by the tasks  *)
(* of their follower's account.                                             *)

OneTask == \A j, k \in Task : Owner[j] = Owner[k] => j = k

LEMMA OneTaskPublishes == OneTask => OnePublisher
BY DEF OneTask, OnePublisher

Shelved(s) == \A key \in Key : s.mirrors[key] # NoBinding => BindingKey(s.mirrors[key]) = key

WrittenFor(a, r) ==
    r.kind = "AckApplied" =>
        /\ r.mutation.kind = "upsert" => r.mutation.binding.target = a
        /\ r.mutation.kind = "remove" => r.mutation.key[3] = a

ShelvedInv ==
    /\ MirrorInv
    /\ Shelved(mem) /\ Shelved(file)
    /\ \A k \in Task :
         /\ WrittenFor(Owner[k], rec[k])
         /\ pc[k] = "mirror" => \A d \in todo[k] : d.target = Owner[k]

LEMMA MutateEntry ==
    ASSUME NEW m \in [Key -> BindingType \cup {NoBinding}], NEW u \in MutationType, NEW key \in Key
    PROVE  /\ u.kind \in {"upsert", "remove", "none"}
           /\ u.kind = "upsert" => Mutate(m, u)[key] = IF BindingKey(u.binding) = key
                                                     THEN u.binding ELSE m[key]
           /\ u.kind = "remove" => Mutate(m, u)[key] = IF u.key = key THEN NoBinding ELSE m[key]
           /\ u.kind = "none" => Mutate(m, u)[key] = m[key]
<1>1. CASE u = NoMutation
  BY <1>1 DEF NoMutation, Mutate
<1>2. CASE u \in [kind : {"upsert"}, binding : BindingType]
  <2>1. Mutate(m, u) = [m EXCEPT ![BindingKey(u.binding)] = u.binding] /\ u.kind = "upsert"
    BY <1>2 DEF Mutate
  <2>2. QED
    BY <2>1
<1>3. CASE u \in [kind : {"remove"}, key : Key]
  <2>1. Mutate(m, u) = [m EXCEPT ![u.key] = NoBinding] /\ u.kind = "remove"
    BY <1>3 DEF Mutate
  <2>2. QED
    BY <2>1
<1>4. QED
  BY <1>1, <1>2, <1>3 DEF MutationType

(* What a record makes of a binding depends on that binding alone.          *)
LEMMA ApplyMirror ==
    ASSUME NEW s \in ReplayType, NEW r \in RecordType, NEW key \in Key
    PROVE  /\ r.kind # "AckApplied" => Apply(s, r).mirrors = s.mirrors
           /\ \A t \in ReplayType : s.mirrors[key] = t.mirrors[key] =>
                Apply(s, r).mirrors[key] = Apply(t, r).mirrors[key]
           /\ \A a : WrittenFor(a, r) /\ key[3] # a => Apply(s, r).mirrors[key] = s.mirrors[key]
           /\ Shelved(s) => Shelved(Apply(s, r))
<1>1. \A t \in ReplayType : t.mirrors \in [Key -> BindingType \cup {NoBinding}]
  BY SMT DEF ReplayType
<1>2. CASE r.kind = "AckApplied"
  <2>1. r.mutation \in MutationType
    BY <1>2, RecordShape
  <2>2. \A t \in ReplayType : Apply(t, r).mirrors = Mutate(t.mirrors, r.mutation)
    BY <1>2, ApplyAck
  <2>3. \A b : BindingKey(b)[3] = b.target
    BY DEF BindingKey, KeyOf
  <2>4. \A a : WrittenFor(a, r) /\ key[3] # a => Apply(s, r).mirrors[key] = s.mirrors[key]
    BY <1>1, <1>2, <2>1, <2>2, <2>3, MutateEntry DEF WrittenFor
  <2>5. \A t \in ReplayType : s.mirrors[key] = t.mirrors[key] =>
          Apply(s, r).mirrors[key] = Apply(t, r).mirrors[key]
    BY <1>1, <2>1, <2>2, MutateEntry
  <2>6. ASSUME Shelved(s) PROVE Shelved(Apply(s, r))
    BY <1>1, <2>1, <2>2, <2>6, MutateEntry DEF Shelved
  <2>7. QED
    BY <1>2, <2>4, <2>5, <2>6
<1>3. CASE r.kind # "AckApplied"
  <2>1. \A t \in ReplayType : Apply(t, r).mirrors = t.mirrors
    BY <1>3, RecordShape, ApplyPlanned, ApplyMark DEF IsPlanned
  <2>2. QED
    BY <2>1 DEF Shelved
<1>4. QED
  BY <1>2, <1>3

LEMMA ApplyShelved ==
    ASSUME NEW s \in ReplayType, NEW r \in RecordType, Shelved(s)
    PROVE  Shelved(Apply(s, r))
BY ApplyMirror DEF Shelved

(* Only the acknowledgement of a command writes about a binding.            *)
OwnStep(k) ==
    \/ HandlerStep(k) \/ DrawSessionId(k) \/ Leaves(k)
    \/ \E label \in Exit : AppendFails(k, label) \/ Ends(k, label)
    \/ \E e \in Event : HandleEvent(k, e)

LEMMA RecordMoves ==
    ASSUME OrderlyInv, NEW k \in Task, OwnStep(k), ~MutateReduced(k)
    PROVE  /\ rec'[k] = rec[k] \/ rec'[k].kind # "AckApplied"
           /\ pc'[k] # "mirror"
<1> USE Types DEF OrderlyInv
<1>1. CASE \/ DrawSessionId(k) \/ Leaves(k) \/ InsertSession(k) \/ Unregister(k)
           \/ SnapshotQueued(k) \/ SnapshotDispatched(k)
  BY <1>1 DEF DrawSessionId, Leaves, InsertSession, Unregister, SnapshotQueued,
              SnapshotDispatched, Goto, Loop
<1>2. CASE RoutePanics(k) \/ \E label \in Exit : AppendFails(k, label) \/ Ends(k, label)
  BY <1>2 DEF RoutePanics, AppendFails, Ends, Fail, Goto, Exit, NoRecord
<1>3. CASE MarkOrphan(k) \/ SendFails(k)
  BY <1>3 DEF MarkOrphan, SendFails, Journal, Goto, CommandUnknown
<1>4. CASE DispatchNext(k)
  BY <1>4 DEF DispatchNext, Journal, Goto, Loop, CommandDispatched
<1>5. CASE Send(k)
  BY <1>5 DEF Send, Loop, NoRecord
<1>6. CASE RouteEvent(k)
  BY <1>6 DEF RouteEvent, Journal, Goto, EventPlanned
<1>7. CASE AppendRecord(k)
  BY <1>7 DEF AppendRecord, Goto
<1>8. CASE ApplyRecord(k)
  <2>1. ret[k] \in {"idle", "dispatch", "send", "orphans"}
    BY DEF KeyedInv, RuntimeTypeInv, RuntimeTypeOK
  <2>2. QED
    BY <1>8, <2>1 DEF ApplyRecord, Goto, Loop, NoRecord
<1>9. ASSUME NEW e \in Event, HandleEvent(k, e)
      PROVE  (rec'[k] = rec[k] \/ rec'[k].kind # "AckApplied") /\ pc'[k] # "mirror"
  BY <1>9 DEF HandleEvent, Journal, Goto, EventPlanned
<1>10. QED
  BY <1>1, <1>2, <1>3, <1>4, <1>5, <1>6, <1>7, <1>8, <1>9 DEF OwnStep, HandlerStep

LEMMA AckRecordWritten ==
    ASSUME NEW c \in CommandType, NEW ack
    PROVE  WrittenFor(c.target, AckRecord(c, ack))
<1>1. c.action \in Action
  BY SMT DEF CommandType
<1>2. NewBinding(c, ack.position).target = c.target
  BY DEF NewBinding
<1>3. KeyOf(c.source, c.order, c.target)[3] = c.target
  BY DEF KeyOf
<1> USE DEF WrittenFor, AckApplied, CommandUnknown, NoMutation
<1>4. CASE ack.status \notin Success
  BY <1>4 DEF AckRecord
<1>5. CASE ack.status \in Success /\ c.action = "open"
  BY <1>2, <1>5 DEF AckRecord
<1>6. CASE ack.status \in Success /\ c.action = "close"
  BY <1>3, <1>6 DEF AckRecord
<1>7. CASE ack.status \in Success /\ c.action \in {"modify", "reduce"}
  BY <1>7 DEF AckRecord
<1>8. QED
  BY <1>1, <1>4, <1>5, <1>6, <1>7 DEF Action

LEMMA AckShelved ==
    ASSUME ShelvedInv, NEW k \in Task, MutateReduced(k) \/ \E ack \in AckType : HandleAck(k, ack)
    PROVE  /\ WrittenFor(Owner[k], rec'[k])
           /\ pc'[k] = "mirror" => \A d \in todo'[k] : d.target = Owner[k]
<1>1. MirrorInv /\ OrderlyInv /\ KeyedInv
  BY DEF ShelvedInv, MirrorInv, OrderlyInv
<1>2. ASSUME NEW ack \in AckType, HandleAck(k, ack)
      PROVE  /\ WrittenFor(Owner[k], rec'[k])
             /\ pc'[k] = "mirror" => \A d \in todo'[k] : d.target = Owner[k]
  <2> DEFINE c == mem.commands[ack.id].command
  <2>1. ack.id \in CommandId /\ Tracked(mem, ack.id) /\ c.target = Owner[k]
    BY <1>2 DEF HandleAck, AckType
  <2>2. c \in CommandType
    BY <1>1, <2>1, Types, StoredTyped
  <2>3. rec'[k] = AckRecord(c, ack) /\ (pc'[k] = "append" \/ todo'[k] = {c})
    BY <1>1, <1>2, Types DEF HandleAck, Journal, Goto
  <2>4. WrittenFor(c.target, AckRecord(c, ack))
    BY <2>2, AckRecordWritten
  <2> HIDE DEF c
  <2>5. QED
    BY <2>1, <2>3, <2>4
<1>3. CASE MutateReduced(k)
  <2>1. PICK c \in todo[k] :
          LET b == mem.mirrors[KeyOf(c.source, c.order, c.target)]
          IN  Journal(k, IF b = NoBinding THEN rec[k]
                         ELSE AckApplied(c.id, rec[k].status,
                                         [kind |-> "upsert", binding |-> Reduced(b, c)]),
                      "idle")
    BY <1>3 DEF MutateReduced
  <2> DEFINE key == KeyOf(c.source, c.order, c.target)
             b == mem.mirrors[key]
             r == AckApplied(c.id, rec[k].status, [kind |-> "upsert", binding |-> Reduced(b, c)])
  <2>2. c \in CommandType /\ c.target = Owner[k]
    BY <1>1, <1>3, Types DEF ShelvedInv, MutateReduced
  <2>3. key \in Key
    BY <2>2, SMT DEF CommandType, KeyOf, Key
  <2>4. pc'[k] = "append" /\ rec'[k] = IF b = NoBinding THEN rec[k] ELSE r
    BY <1>1, <2>1, Types DEF Journal, Goto
  <2>5. ASSUME b # NoBinding PROVE WrittenFor(Owner[k], r)
    <3>1. b \in BindingType
      <4>1. mem.mirrors \in [Key -> BindingType \cup {NoBinding}]
        BY <1>1, Types, SMT DEF ReplayType
      <4>2. QED
        BY <2>3, <2>5, <4>1
    <3>2. BindingKey(b) = key
      BY <2>3, <2>5 DEF ShelvedInv, Shelved
    <3>3. b.target = c.target
      BY <3>2 DEF BindingKey, KeyOf
    <3> HIDE DEF b
    <3>4. Reduced(b, c).target = b.target
      BY <3>1, SMT DEF Reduced, BindingType
    <3>5. QED
      BY <2>2, <3>3, <3>4 DEF WrittenFor, AckApplied
  <2> HIDE DEF r, b
  <2>6. QED
    BY <2>4, <2>5 DEF ShelvedInv
<1>4. QED
  BY <1>2, <1>3

LEMMA ShelvedStart ==
    ASSUME RuntimeInit
    PROVE  ShelvedInv
<1>1. Shelved(EmptyReplay)
  BY DEF Shelved, EmptyReplay
<1>2. QED
  BY <1>1, MirrorStart DEF ShelvedInv, RuntimeInit, FreshTasks, WrittenFor, NoRecord

LEMMA ShelvedStep ==
    ASSUME ShelvedInv, RuntimeStep(AckType)
    PROVE  ShelvedInv'
<1>1. MirrorInv' /\ OrderlyInv /\ KeyedInv /\ RuntimeTypeInv
  BY MirrorStep DEF ShelvedInv, MirrorInv, OrderlyInv, KeyedInv
<1>2. Shelved(file)'
  BY <1>1, StatesMove, Types, ApplyShelved DEF ShelvedInv
<1>3. Shelved(mem)'
  <2>1. ASSUME mem' = Finalize(file) PROVE mem'.mirrors = file.mirrors
    BY <1>1, <2>1, Types, SMT DEF Finalize, ReplayType
  <2>2. QED
    BY <1>1, <2>1, StatesMove, Types, ApplyShelved DEF ShelvedInv, Shelved
<1>4. ASSUME NEW k \in Task, TaskStepOf(k), NEW j \in Task
      PROVE  /\ WrittenFor(Owner[j], rec'[j])
             /\ pc'[j] = "mirror" => \A d \in todo'[j] : d.target = Owner[j]
  <2>1. CASE j = k /\ (MutateReduced(k) \/ \E ack \in AckType : HandleAck(k, ack))
    BY <2>1, AckShelved
  <2>2. CASE j = k /\ ~MutateReduced(k) /\ \A ack \in AckType : ~HandleAck(k, ack)
    <3>1. OwnStep(k)
      BY <1>4, <2>2 DEF TaskStepOf, OwnStep
    <3>2. QED
      BY <1>1, <2>2, <3>1, RecordMoves DEF ShelvedInv, WrittenFor
  <2>3. CASE j # k
    BY <1>1, <1>4, <2>3, OthersStay DEF Unmoved, ShelvedInv
  <2>4. QED
    BY <2>1, <2>2, <2>3
<1>5. CASE Restarts
  BY <1>1, <1>2, <1>3, <1>5 DEF Restarts, FreshTasks, ShelvedInv, WrittenFor, NoRecord
<1>6. CASE UNCHANGED taskVars
  BY <1>1, <1>2, <1>3, <1>6 DEF taskVars, ShelvedInv
<1>7. QED
  BY <1>1, <1>2, <1>3, <1>4, <1>5, <1>6, StepKinds DEF ShelvedInv

-----------------------------------------------------------------------------
(* As long as no append fails, the journal is what memory will be once the  *)
(* tasks between append and apply have gone on.                             *)

Applying(k) == pc[k] = "apply"
Marks(k, c) == Applying(k) /\ ~IsPlanned(rec[k]) /\ rec[k].id = c
Ending(k, c) == Applying(k) /\ IsFinalAck(rec[k]) /\ rec[k].id = c
Planning(k, c) == Applying(k) /\ PlannedBy(k, c)

EntryLevel(c) ==
    /\ Tracked(mem, c) /\ (\A k \in Task : ~Ending(k, c)) =>
         /\ Tracked(file, c)
         /\ file.commands[c].command = mem.commands[c].command
         /\ (StateOf(file, c) = "queued") <=>
              (StateOf(mem, c) = "queued" /\ \A k \in Task : ~Marks(k, c))
    /\ ~Tracked(mem, c) /\ (\A k \in Task : ~Planning(k, c)) => ~Tracked(file, c)
    /\ \A k \in Task : Planning(k, c) =>
         /\ StateOf(file, c) = "queued"
         /\ file.commands[c].command = CHOOSE p \in rec[k].commands : p.id = c

SeenLevel ==
    /\ mem.seen \subseteq file.seen
    /\ \A k \in Task : Applying(k) /\ IsPlanned(rec[k]) => rec[k].event \in file.seen
    /\ \A e \in file.seen \ mem.seen :
         \E k \in Task : Applying(k) /\ IsPlanned(rec[k]) /\ rec[k].event = e

MirrorLevel(key) ==
    /\ (\A k \in Task : Applying(k) => Owner[k] # key[3]) => file.mirrors[key] = mem.mirrors[key]
    /\ \A k \in Task : Applying(k) /\ Owner[k] = key[3] =>
         file.mirrors[key] = Apply(mem, rec[k]).mirrors[key]

Level ==
    /\ SeenLevel
    /\ \A c \in CommandId : EntryLevel(c)
    /\ \A key \in Key : MirrorLevel(key)

LevelInv ==
    /\ SeasonedInv
    /\ ShelvedInv
    /\ faults = 0 => Level

LEMMA PlannedEntryIs ==
    ASSUME NEW s \in ReplayType, NEW r \in RecordType, IsPlanned(r), NEW c \in CommandId,
           ~Tracked(s, c), \E p \in r.commands : p.id = c
    PROVE  /\ StateOf(Apply(s, r), c) = "queued"
           /\ Apply(s, r).commands[c].command = CHOOSE p \in r.commands : p.id = c
<1> DEFINE x == CHOOSE p \in r.commands : p.id = c
<1>1. Apply(s, r).commands = InsertQueued(s.commands, r.commands)
  BY ApplyPlanned
<1>2. Apply(s, r).commands[c] = [command |-> x, state |-> "queued"]
  BY <1>1 DEF InsertQueued, Tracked, StateOf
<1>3. QED
  BY <1>2 DEF StateOf

LEMMA LevelStart ==
    ASSUME RuntimeInit
    PROVE  LevelInv
<1>1. mem = EmptyReplay /\ file = EmptyReplay /\ \A k \in Task : pc[k] = "off"
  BY DEF RuntimeInit, FreshTasks
<1>2. \A c \in CommandId : ~Tracked(mem, c) /\ ~Tracked(file, c)
  BY <1>1 DEF EmptyReplay, Tracked, StateOf, Absent
<1>3. Level
  BY <1>1, <1>2 DEF Level, SeenLevel, EntryLevel, MirrorLevel, Applying, Planning
<1>4. QED
  BY <1>3, SeasonedStart, ShelvedStart DEF LevelInv

(* The task that appends: no other knows of what it plans, and what it      *)
(* marks was known before.                                                  *)
LEMMA AppendEntry ==
    ASSUME OnePublisher, SeasonedInv, FinalInv', NEW k \in Task, AppendRecord(k),
           NEW c \in CommandId, EntryLevel(c)
    PROVE  EntryLevel(c)'
<1> DEFINE r == rec[k]
<1>1. FinalInv /\ MirrorInv /\ OrderlyInv /\ KeyedInv
  BY DEF SeasonedInv, FinalInv, MirrorInv, OrderlyInv
<1>2. /\ \A j \in Task \ {k} : Unmoved(j)
      /\ mem' = mem /\ file' = Apply(file, r)
      /\ pc[k] = "append" /\ pc'[k] = "apply" /\ rec'[k] = r
  <2>1. TaskStepOf(k)
    BY DEF TaskStepOf, HandlerStep
  <2>2. QED
    BY <1>1, <2>1, OthersStay, Types DEF KeyedInv, AppendRecord, Goto
<1>3. r \in RecordType /\ mem \in ReplayType /\ file \in ReplayType
  BY <1>1, <1>2, Types DEF KeyedInv, RuntimeTypeInv, Standing
<1>4. \A j \in Task \ {k} :
        /\ (Marks(j, c)' <=> Marks(j, c)) /\ (Ending(j, c)' <=> Ending(j, c))
        /\ (Planning(j, c)' <=> Planning(j, c)) /\ rec'[j] = rec[j]
  BY <1>2 DEF Unmoved, Marks, Ending, Planning, Applying, PlannedBy
<1>5. /\ ~Marks(k, c) /\ ~Ending(k, c) /\ ~Planning(k, c)
      /\ Marks(k, c)' <=> (~IsPlanned(r) /\ r.id = c)
      /\ Ending(k, c)' <=> (IsFinalAck(r) /\ r.id = c)
      /\ Planning(k, c)' <=> PlannedBy(k, c)
  BY <1>2 DEF Marks, Ending, Planning, Applying, PlannedBy
<1>6. \A j \in Task : Planning(j, c) => ~Past(c)
  BY DEF Planning, Applying, SeasonedInv
<1>7. CASE IsPlanned(r) /\ PlannedBy(k, c)
  <2>1. ~Past(c)
    <3>1. Plans(k, c)
      BY <1>1, <1>2, <1>7, PlannedCommands DEF PlannedBy, Plans
    <3>2. QED
      BY <1>1, <3>1 DEF FinalInv
  <2>2. ~Tracked(mem, c) /\ \A j \in Task : ~Planning(j, c)
    BY <1>1, <1>4, <1>5, <1>7, <2>1, PlansApart DEF Past, Planning
  <2>3. ~Tracked(file, c)
    BY <2>2 DEF EntryLevel
  <2>4. /\ StateOf(file', c) = "queued"
        /\ file'.commands[c].command = CHOOSE p \in rec'[k].commands : p.id = c
    BY <1>2, <1>3, <1>7, <2>3, PlannedEntryIs DEF PlannedBy
  <2>5. ~Tracked(mem', c)
    BY <1>2, <2>2
  <2>6. \A j \in Task : Planning(j, c)' <=> j = k
    BY <1>4, <1>5, <1>7, <2>2
  <2>7. QED
    BY <2>4, <2>5, <2>6 DEF EntryLevel
<1>8. CASE ~IsPlanned(r) /\ r.id = c
  <2>1. Past(c)
    BY <1>2, <1>3, <1>8 DEF SeasonedInv, SeasonedTask, Seasoned, Past, NoRecord, RecordType
  <2>2. \A j \in Task : ~Planning(j, c) /\ ~Planning(j, c)'
    BY <1>4, <1>5, <1>6, <1>8, <2>1 DEF PlannedBy
  <2>3. ~Tracked(mem, c) => ~Tracked(file, c)
    BY <2>2 DEF EntryLevel
  <2>4. ~Tracked(mem', c) => ~Tracked(file', c)
    BY <1>2, <1>3, <1>8, <2>3, OtherEntry DEF Tracked, StateOf
  <2>5. ASSUME Tracked(mem', c), \A j \in Task : ~Ending(j, c)'
        PROVE  /\ Tracked(file', c)
               /\ file'.commands[c].command = mem'.commands[c].command
               /\ StateOf(file', c) # "queued" /\ Marks(k, c)'
    <3>1. Tracked(mem, c) /\ \A j \in Task : ~Ending(j, c)
      BY <1>2, <1>4, <1>5, <2>5
    <3>2. Tracked(file, c) /\ file.commands[c].command = mem.commands[c].command
      BY <3>1 DEF EntryLevel
    <3>3. ~IsFinalAck(r)
      BY <1>4, <1>5, <1>8, <2>5
    <3>4. QED
      BY <1>2, <1>3, <1>4, <1>5, <1>8, <3>2, <3>3, OtherEntry DEF Tracked
  <2>6. QED
    BY <2>2, <2>4, <2>5 DEF EntryLevel
<1>9. CASE ~PlannedBy(k, c) /\ (IsPlanned(r) \/ r.id # c)
  <2>1. file'.commands[c] = file.commands[c]
    BY <1>2, <1>3, <1>9, PlannedEntry, OtherEntry DEF PlannedBy
  <2>2. \A j \in Task :
        /\ (Marks(j, c)' <=> Marks(j, c)) /\ (Ending(j, c)' <=> Ending(j, c))
        /\ (Planning(j, c)' <=> Planning(j, c)) /\ rec'[j] = rec[j]
    BY <1>2, <1>4, <1>5, <1>9 DEF IsPlanned, IsFinalAck
  <2>3. QED
    BY <1>2, <2>1, <2>2 DEF EntryLevel, Tracked, StateOf
<1>10. QED
  BY <1>7, <1>8, <1>9 DEF PlannedBy

(* The task that applies its record brings the memory level with what it    *)
(* had written.                                                             *)
LEMMA ApplyEntry ==
    ASSUME OnePublisher, SeasonedInv, FinalInv', NEW k \in Task, ApplyRecord(k),
           NEW c \in CommandId, EntryLevel(c)
    PROVE  EntryLevel(c)'
<1> DEFINE r == rec[k]
<1>1. FinalInv /\ MirrorInv /\ OrderlyInv /\ KeyedInv
  BY DEF SeasonedInv, FinalInv, MirrorInv, OrderlyInv
<1>2. /\ \A j \in Task \ {k} : Unmoved(j)
      /\ file' = file /\ mem' = Apply(mem, r)
      /\ pc[k] = "apply" /\ pc'[k] # "apply"
  <2>1. TaskStepOf(k)
    BY DEF TaskStepOf, HandlerStep
  <2>2. ret[k] \in {"idle", "dispatch", "send", "orphans"}
    BY <1>1 DEF KeyedInv, RuntimeTypeInv, RuntimeTypeOK
  <2>3. QED
    BY <1>1, <2>1, <2>2, OthersStay, Types DEF KeyedInv, ApplyRecord, Goto, Loop
<1>3. r \in RecordType /\ mem \in ReplayType /\ file \in ReplayType
  BY <1>1, <1>2, Types DEF KeyedInv, RuntimeTypeInv, Standing
<1>4. \A j \in Task \ {k} :
        /\ (Marks(j, c)' <=> Marks(j, c)) /\ (Ending(j, c)' <=> Ending(j, c))
        /\ (Planning(j, c)' <=> Planning(j, c)) /\ rec'[j] = rec[j]
  BY <1>2 DEF Unmoved, Marks, Ending, Planning, Applying, PlannedBy
<1>5. /\ ~Marks(k, c)' /\ ~Ending(k, c)' /\ ~Planning(k, c)'
      /\ Marks(k, c) <=> (~IsPlanned(r) /\ r.id = c)
      /\ Ending(k, c) <=> (IsFinalAck(r) /\ r.id = c)
      /\ Planning(k, c) <=> PlannedBy(k, c)
  BY <1>2 DEF Marks, Ending, Planning, Applying, PlannedBy
<1>6. \A j \in Task : Planning(j, c) => ~Past(c)
  BY DEF Planning, Applying, SeasonedInv
<1>7. CASE PlannedBy(k, c)
  <2>1. ~Past(c) /\ Planning(k, c)
    BY <1>4, <1>5, <1>6, <1>7
  <2>2. ~Tracked(mem, c) /\ \A j \in Task : Planning(j, c) => j = k
    BY <1>1, <1>7, <2>1, PlansApart DEF Past, Planning
  <2>3. \A j \in Task : ~Marks(j, c)
    <3> SUFFICES ASSUME NEW j \in Task, Marks(j, c) PROVE FALSE
      OBVIOUS
    <3>1. rec[j] \in RecordType
      BY <1>1 DEF Marks, Applying, KeyedInv, RuntimeTypeInv, Standing
    <3>2. Seasoned(c)
      BY <3>1 DEF Marks, SeasonedInv, SeasonedTask, NoRecord, RecordType
    <3>3. QED
      BY <2>1, <3>2 DEF Seasoned, Past
  <2>4. /\ StateOf(file, c) = "queued"
        /\ file.commands[c].command = CHOOSE p \in r.commands : p.id = c
    BY <2>1 DEF EntryLevel
  <2>5. /\ StateOf(mem', c) = "queued"
        /\ mem'.commands[c].command = CHOOSE p \in r.commands : p.id = c
    BY <1>2, <1>3, <1>7, <2>2, PlannedEntryIs DEF PlannedBy
  <2>6. Tracked(mem', c) /\ Tracked(file', c)
    BY <1>2, <2>4, <2>5 DEF Tracked
  <2>7. \A j \in Task : ~Planning(j, c)' /\ ~Marks(j, c)'
    BY <1>4, <1>5, <2>2, <2>3
  <2>8. QED
    BY <1>2, <2>4, <2>5, <2>6, <2>7 DEF EntryLevel
<1>8. CASE ~IsPlanned(r) /\ r.id = c
  <2>1. Past(c) /\ Marks(k, c)
    BY <1>2, <1>3, <1>4, <1>5, <1>8 DEF SeasonedInv, SeasonedTask, Seasoned, Past, NoRecord, RecordType
  <2>2. \A j \in Task : ~Planning(j, c) /\ ~Planning(j, c)'
    BY <1>4, <1>5, <1>6, <1>8, <2>1
  <2>3. CASE IsFinalAck(r)
    <3>1. c \in settled
      BY <1>2, <1>8, <2>3 DEF SeasonedInv
    <3>2. ~Tracked(file, c)
      BY <1>1, <3>1 DEF FinalInv
    <3>3. ~Tracked(mem', c)
      BY <1>2, <1>3, <1>8, <2>3, OtherEntry
    <3>4. QED
      BY <1>2, <2>2, <3>2, <3>3 DEF EntryLevel
  <2>4. CASE ~IsFinalAck(r)
    <3>1. \A j \in Task : Ending(j, c)' <=> Ending(j, c)
      BY <1>4, <1>5, <2>4
    <3>2. CASE Tracked(mem, c)
      <4>1. /\ StateOf(mem', c) \in {"dispatched", "unknown"}
            /\ mem'.commands[c].command = mem.commands[c].command
        BY <1>2, <1>3, <1>8, <2>4, <3>2, OtherEntry
      <4>2. (\A j \in Task : ~Ending(j, c)) =>
              /\ Tracked(file, c) /\ StateOf(file, c) # "queued"
              /\ file.commands[c].command = mem.commands[c].command
        BY <2>1, <3>2 DEF EntryLevel
      <4>3. QED
        BY <1>2, <2>2, <3>1, <4>1, <4>2 DEF EntryLevel, Tracked
    <3>3. CASE ~Tracked(mem, c)
      <4>1. ~Tracked(mem', c) /\ ~Tracked(file, c)
        BY <1>2, <1>3, <1>8, <2>2, <3>3, OtherEntry DEF EntryLevel, Tracked, StateOf
      <4>2. QED
        BY <1>2, <2>2, <4>1 DEF EntryLevel
    <3>4. QED
      BY <3>2, <3>3
  <2>5. QED
    BY <2>3, <2>4
<1>9. CASE ~PlannedBy(k, c) /\ (IsPlanned(r) \/ r.id # c)
  <2>1. mem'.commands[c] = mem.commands[c]
    BY <1>2, <1>3, <1>9, PlannedEntry, OtherEntry DEF PlannedBy
  <2>2. \A j \in Task :
        /\ (Marks(j, c)' <=> Marks(j, c)) /\ (Ending(j, c)' <=> Ending(j, c))
        /\ (Planning(j, c)' <=> Planning(j, c)) /\ (Planning(j, c) => rec'[j] = rec[j])
    BY <1>2, <1>4, <1>5, <1>9 DEF IsPlanned, IsFinalAck
  <2>3. QED
    BY <1>2, <2>1, <2>2 DEF EntryLevel, Tracked, StateOf
<1>10. QED
  BY <1>7, <1>8, <1>9 DEF PlannedBy

LEMMA SeenStep ==
    ASSUME SeasonedInv, SeenLevel, NEW k \in Task, AppendRecord(k) \/ ApplyRecord(k)
    PROVE  SeenLevel'
<1> DEFINE r == rec[k]
<1>1. MirrorInv /\ OrderlyInv /\ KeyedInv
  BY DEF SeasonedInv, FinalInv, MirrorInv, OrderlyInv
<1>2. \A j \in Task \ {k} : Unmoved(j)
  <2>1. TaskStepOf(k)
    BY DEF TaskStepOf, HandlerStep
  <2>2. QED
    BY <1>1, <2>1, OthersStay DEF KeyedInv
<1>3. r \in RecordType /\ mem \in ReplayType /\ file \in ReplayType
  BY <1>1, Types DEF KeyedInv, RuntimeTypeInv, Standing, AppendRecord, ApplyRecord
<1>4. CASE AppendRecord(k)
  <2>1. pc[k] = "append" /\ mem' = mem /\ file' = Apply(file, r) /\ pc'[k] = "apply" /\ rec'[k] = r
    BY <1>1, <1>4, Types DEF AppendRecord, Goto
  <2>2. file'.seen = IF IsPlanned(r) THEN file.seen \cup {r.event} ELSE file.seen
    BY <1>3, <2>1, ApplyTyped
  <2>3. QED
    BY <1>2, <2>1, <2>2 DEF SeenLevel, Unmoved, Applying
<1>5. CASE ApplyRecord(k)
  <2>1. pc[k] = "apply" /\ mem' = Apply(mem, r) /\ file' = file /\ pc'[k] # "apply"
    <3>1. ret[k] \in {"idle", "dispatch", "send", "orphans"}
      BY <1>1 DEF KeyedInv, RuntimeTypeInv, RuntimeTypeOK
    <3>2. QED
      BY <1>1, <1>5, <3>1, Types DEF ApplyRecord, Goto, Loop
  <2>2. mem'.seen = IF IsPlanned(r) THEN mem.seen \cup {r.event} ELSE mem.seen
    BY <1>3, <2>1, ApplyTyped
  <2>3. QED
    BY <1>2, <2>1, <2>2 DEF SeenLevel, Unmoved, Applying
<1>6. QED
  BY <1>4, <1>5

(* A binding is written by one task only, the one of its follower.          *)
LEMMA MirrorLevelStep ==
    ASSUME OneTask, ShelvedInv, NEW k \in Task, AppendRecord(k) \/ ApplyRecord(k),
           NEW key \in Key, MirrorLevel(key)
    PROVE  MirrorLevel(key)'
<1> DEFINE r == rec[k]
<1>1. MirrorInv /\ OrderlyInv /\ KeyedInv /\ WrittenFor(Owner[k], r)
  BY DEF ShelvedInv, MirrorInv, OrderlyInv
<1>2. \A j \in Task \ {k} : Unmoved(j)
  <2>1. TaskStepOf(k)
    BY DEF TaskStepOf, HandlerStep
  <2>2. QED
    BY <1>1, <2>1, OthersStay DEF KeyedInv
<1>3. r \in RecordType /\ mem \in ReplayType /\ file \in ReplayType
  BY <1>1, Types DEF KeyedInv, RuntimeTypeInv, Standing, AppendRecord, ApplyRecord
<1>4. \A j \in Task \ {k} :
        /\ (Applying(j)' <=> Applying(j)) /\ rec'[j] = rec[j]
        /\ Applying(j) => rec[j] \in RecordType
  BY <1>1, <1>2 DEF Unmoved, Applying, KeyedInv, RuntimeTypeInv, Standing
<1>5. CASE AppendRecord(k)
  <2>1. /\ mem' = mem /\ file' = Apply(file, r) /\ rec'[k] = r
        /\ ~Applying(k) /\ Applying(k)'
    BY <1>1, <1>5, Types DEF AppendRecord, Goto, Applying
  <2>2. CASE Owner[k] = key[3]
    <3>1. \A j \in Task : Applying(j) => Owner[j] # key[3]
      BY <2>1, <2>2 DEF OneTask
    <3>2. file.mirrors[key] = mem.mirrors[key]
      BY <3>1 DEF MirrorLevel
    <3>3. file'.mirrors[key] = Apply(mem, r).mirrors[key]
      BY <1>3, <2>1, <3>2, ApplyMirror
    <3>4. QED
      BY <2>1, <2>2, <3>3 DEF MirrorLevel, OneTask
  <2>3. CASE Owner[k] # key[3]
    <3>1. file'.mirrors[key] = file.mirrors[key]
      BY <1>1, <1>3, <2>1, <2>3, ApplyMirror
    <3>2. QED
      BY <1>4, <2>1, <2>3, <3>1 DEF MirrorLevel
  <2>4. QED
    BY <2>2, <2>3
<1>6. CASE ApplyRecord(k)
  <2>1. /\ mem' = Apply(mem, r) /\ file' = file
        /\ Applying(k) /\ ~Applying(k)'
    <3>1. ret[k] \in {"idle", "dispatch", "send", "orphans"}
      BY <1>1 DEF KeyedInv, RuntimeTypeInv, RuntimeTypeOK
    <3>2. QED
      BY <1>1, <1>6, <3>1, Types DEF ApplyRecord, Goto, Loop, Applying
  <2>2. CASE Owner[k] = key[3]
    <3>1. file'.mirrors[key] = mem'.mirrors[key]
      BY <2>1, <2>2 DEF MirrorLevel
    <3>2. QED
      BY <2>1, <2>2, <3>1 DEF MirrorLevel, OneTask
  <2>3. CASE Owner[k] # key[3]
    <3>1. mem'.mirrors[key] = mem.mirrors[key] /\ mem' \in ReplayType
      BY <1>1, <1>3, <2>1, <2>3, ApplyMirror, ApplyTyped
    <3>2. \A j \in Task \ {k} : Applying(j) =>
            Apply(mem', rec[j]).mirrors[key] = Apply(mem, rec[j]).mirrors[key]
      BY <1>3, <1>4, <3>1, ApplyMirror
    <3>3. QED
      BY <1>4, <2>1, <2>3, <3>1, <3>2 DEF MirrorLevel
  <2>4. QED
    BY <2>2, <2>3
<1>7. QED
  BY <1>5, <1>6

LEMMA LevelStep ==
    ASSUME OneTask, LevelInv, RuntimeStep(AckType)
    PROVE  LevelInv'
<1>1. SeasonedInv' /\ ShelvedInv' /\ FinalInv'
  BY SeasonedStep, ShelvedStep, OneTaskPublishes DEF LevelInv, SeasonedInv
<1>2. SeasonedInv /\ FinalInv /\ KeyedInv /\ faults \in Nat
  BY RuntimeAssumption, SMT
     DEF LevelInv, SeasonedInv, FinalInv, MirrorInv, OrderlyInv, KeyedInv, RuntimeTypeInv, RuntimeTypeOK
<1> SUFFICES ASSUME faults' = 0 PROVE Level'
  BY <1>1 DEF LevelInv
<1>3. ASSUME NEW k \in Task, TaskStepOf(k), ~Writes(k) PROVE Level'
  <2>1. /\ \A j \in Task \ {k} : Unmoved(j)
        /\ UNCHANGED <<mem, file, faults>>
        /\ ~Applying(k) /\ ~Applying(k)'
    BY <1>2, <1>3, OthersStay, QuietTask DEF KeyedInv, Applying
  <2>2. \A j \in Task : (Applying(j)' <=> Applying(j)) /\ (Applying(j) => rec'[j] = rec[j])
    BY <2>1 DEF Unmoved, Applying
  <2>3. Level
    BY <2>1 DEF LevelInv
  <2>4. SeenLevel'
    BY <2>1, <2>2, <2>3 DEF Level, SeenLevel
  <2>5. ASSUME NEW c \in CommandId PROVE EntryLevel(c)'
    BY <2>1, <2>2, <2>3 DEF Level, EntryLevel, Marks, Ending, Planning, PlannedBy, Tracked, StateOf
  <2>6. ASSUME NEW key \in Key PROVE MirrorLevel(key)'
    BY <2>1, <2>2, <2>3 DEF Level, MirrorLevel
  <2>7. QED
    BY <2>4, <2>5, <2>6 DEF Level
<1>4. ASSUME NEW k \in Task, AppendRecord(k) \/ ApplyRecord(k) PROVE Level'
  <2>1. Level
    BY <1>4 DEF LevelInv, AppendRecord, ApplyRecord
  <2>2. \A c \in CommandId : EntryLevel(c)'
    BY <1>1, <1>2, <1>4, <2>1, AppendEntry, ApplyEntry, OneTaskPublishes DEF Level
  <2>3. \A key \in Key : MirrorLevel(key)'
    BY <1>4, <2>1, MirrorLevelStep DEF Level, LevelInv
  <2>4. QED
    BY <1>2, <1>4, <2>1, <2>2, <2>3, SeenStep DEF Level
<1>5. ASSUME NEW k \in Task, NEW label \in Exit, AppendFails(k, label) PROVE FALSE
  BY <1>2, <1>5, SMT DEF AppendFails
<1>6. CASE Restarts
  <2>1. mem' = Finalize(file) /\ file' = file /\ \A k \in Task : ~Applying(k)'
    BY <1>6 DEF Restarts, FreshTasks, Applying
  <2>2. file \in ReplayType
    BY <1>2, Types
  <2>3. mem'.seen = file'.seen /\ mem'.mirrors = file'.mirrors
    BY <2>1, <2>2, FinalizeEffect, SMT DEF Finalize, ReplayType
  <2>4. ASSUME NEW c \in CommandId PROVE EntryLevel(c)'
    BY <2>1, <2>2, FinalizeEffect DEF EntryLevel, Marks, Ending, Planning, Tracked
  <2>5. QED
    BY <2>1, <2>3, <2>4 DEF Level, SeenLevel, MirrorLevel
<1>7. CASE UNCHANGED <<mem, file, faults, taskVars>>
  <2>1. Level
    BY <1>7 DEF LevelInv
  <2>2. QED
    BY <1>7, <2>1 DEF Level, SeenLevel, EntryLevel, MirrorLevel, Applying, Marks, Ending, Planning,
                      PlannedBy, taskVars, Tracked, StateOf
<1>8. QED
  BY <1>3, <1>4, <1>5, <1>6, <1>7, StepKinds DEF Writes

LEMMA LevelEquivalent == LevelInv => RecoveryEquivalence
<1> SUFFICES ASSUME LevelInv, faults = 0, \A k \in Task : pc[k] # "apply"
             PROVE  Finalize(mem) = Finalize(file)
  BY DEF RecoveryEquivalence
<1>1. mem \in ReplayType /\ file \in ReplayType
  BY Types DEF LevelInv, SeasonedInv, FinalInv, MirrorInv, OrderlyInv
<1>2. Level /\ \A k \in Task : ~Applying(k)
  BY DEF LevelInv, Applying
<1>3. mem.seen = file.seen
  BY <1>2 DEF Level, SeenLevel
<1>4. mem.mirrors = file.mirrors
  <2>1. \A key \in Key : mem.mirrors[key] = file.mirrors[key]
    BY <1>2 DEF Level, MirrorLevel
  <2>2. /\ mem.mirrors \in [Key -> BindingType \cup {NoBinding}]
        /\ file.mirrors \in [Key -> BindingType \cup {NoBinding}]
    BY <1>1, SMT DEF ReplayType
  <2>3. QED
    BY <2>1, <2>2
<1> DEFINE entry(s, c) == IF StateOf(s, c) = "dispatched"
                          THEN [s.commands[c] EXCEPT !.state = "unknown"] ELSE s.commands[c]
<1>5. ASSUME NEW c \in CommandId PROVE entry(mem, c) = entry(file, c)
  <2>1. /\ Tracked(mem, c) <=> Tracked(file, c)
        /\ Tracked(mem, c) =>
             /\ file.commands[c].command = mem.commands[c].command
             /\ (StateOf(file, c) = "queued") <=> (StateOf(mem, c) = "queued")
    BY <1>2 DEF Level, EntryLevel, Marks, Ending, Planning
  <2>2. CASE ~Tracked(mem, c)
    BY <1>1, <2>1, <2>2, StoredTyped DEF Tracked
  <2>3. CASE Tracked(mem, c)
    <3>1. /\ mem.commands[c] \in StoredType /\ file.commands[c] \in StoredType
      BY <1>1, <2>1, <2>3, StoredTyped
    <3> DEFINE told(x) == IF x.state = "dispatched" THEN [x EXCEPT !.state = "unknown"] ELSE x
    <3>2. \A x, y \in StoredType :
            x.command = y.command /\ (x.state = "queued" <=> y.state = "queued") =>
              told(x) = told(y)
      BY SMT DEF StoredType, CommandState
    <3> HIDE DEF told
    <3>3. told(mem.commands[c]) = told(file.commands[c])
      BY <2>1, <2>3, <3>1, <3>2 DEF StateOf
    <3>4. QED
      BY <3>3 DEF told, StateOf
  <2>4. QED
    BY <2>2, <2>3
<1>6. [c \in CommandId |-> entry(mem, c)] = [c \in CommandId |-> entry(file, c)]
  <2> HIDE DEF entry
  <2>1. QED
    BY <1>5
<1>7. \A s \in ReplayType :
        Finalize(s) = [seen |-> s.seen, commands |-> [c \in CommandId |-> entry(s, c)],
                       mirrors |-> s.mirrors]
  <2>1. \A s : Finalize(s) = [s EXCEPT !.commands = [c \in CommandId |-> entry(s, c)]]
    BY DEF Finalize
  <2>2. \A s \in ReplayType :
          s = [seen |-> s.seen, commands |-> s.commands, mirrors |-> s.mirrors]
    BY SMT DEF ReplayType
  <2>3. ASSUME NEW s \in ReplayType, NEW f
        PROVE  [s EXCEPT !.commands = f] = [seen |-> s.seen, commands |-> f, mirrors |-> s.mirrors]
    BY <2>2
  <2> HIDE DEF entry
  <2>4. QED
    BY <2>1, <2>3
<1>8. QED
  <2> HIDE DEF entry
  <2>1. QED
    BY <1>1, <1>3, <1>4, <1>6, <1>7

-----------------------------------------------------------------------------
(* The events on record, about to be recorded, or being planned: nothing    *)
(* but handle_event adds one.                                               *)

Pending(k, i) == (pc[k] = "route" /\ ev[k].id = i) \/ (IsPlanned(rec[k]) /\ rec[k].event = i)
Reported(i) == i \in file.seen \/ \E k \in Task : Pending(k, i)

SilentTask(k, acks) ==
    \/ HandlerStep(k) \/ DrawSessionId(k) \/ Leaves(k)
    \/ \E label \in Exit : AppendFails(k, label) \/ Ends(k, label)
    \/ \E ack \in acks : HandleAck(k, ack)
Silent(acks) ==
    \/ \E k \in Task : SilentTask(k, acks)
    \/ \E s \in Session : Takes(s) \/ Closes(s)
    \/ Restarts
    \/ UNCHANGED runtimeVars

LEMMA SilentStep ==
    ASSUME NEW acks, Silent(acks)
    PROVE  RuntimeStep(acks)
BY DEF Silent, SilentTask, RuntimeStep

(* A record is made of the event in hand ...                                *)
LEMMA PendingStep ==
    ASSUME OrderlyInv, NEW k \in Task, SilentTask(k, AckType), NEW i, Pending(k, i)'
    PROVE  Pending(k, i)
<1> USE Types DEF OrderlyInv, Pending
<1>1. CASE \/ DrawSessionId(k) \/ Leaves(k) \/ InsertSession(k) \/ Unregister(k)
           \/ SnapshotQueued(k) \/ SnapshotDispatched(k)
  BY <1>1 DEF DrawSessionId, Leaves, InsertSession, Unregister, SnapshotQueued,
              SnapshotDispatched, Goto, Loop
<1>2. CASE RoutePanics(k) \/ \E label \in Exit : AppendFails(k, label) \/ Ends(k, label)
  BY <1>2 DEF RoutePanics, AppendFails, Ends, Fail, Goto, Exit, NoRecord, IsPlanned
<1>3. CASE MarkOrphan(k) \/ SendFails(k)
  BY <1>3 DEF MarkOrphan, SendFails, Journal, Goto, CommandUnknown, IsPlanned
<1>4. CASE DispatchNext(k)
  BY <1>4 DEF DispatchNext, Journal, Goto, Loop, CommandDispatched, IsPlanned
<1>5. CASE Send(k)
  BY <1>5 DEF Send, Loop, NoRecord, IsPlanned
<1>6. CASE RouteEvent(k)
  BY <1>6 DEF RouteEvent, Journal, Goto, EventPlanned, IsPlanned
<1>7. CASE AppendRecord(k)
  BY <1>7 DEF AppendRecord, Goto
<1>8. CASE ApplyRecord(k)
  <2>1. ret[k] \in {"idle", "dispatch", "send", "orphans"}
    BY DEF KeyedInv, RuntimeTypeInv, RuntimeTypeOK
  <2>2. QED
    BY <1>8, <2>1 DEF ApplyRecord, Goto, Loop, NoRecord, IsPlanned
<1>9. ASSUME NEW ack \in AckType, HandleAck(k, ack) PROVE Pending(k, i)
  <2>1. /\ pc'[k] # "route"
        /\ rec'[k] = AckRecord(mem.commands[ack.id].command, ack)
    BY <1>9 DEF HandleAck, Journal, Goto
  <2>2. mem.commands[ack.id].command \in CommandType
    BY <1>9, StoredTyped, Types DEF HandleAck, AckType
  <2>3. QED
    BY <2>1, <2>2, AckRecordShape
<1>10. CASE MutateReduced(k)
  <2>1. /\ pc'[k] # "route" /\ pc[k] = "mirror"
        /\ rec'[k] = rec[k] \/ rec'[k].kind = "AckApplied"
    BY <1>10 DEF MutateReduced, Journal, Goto, AckApplied
  <2>2. QED
    BY <2>1 DEF IsPlanned
<1>11. QED
  BY <1>1, <1>2, <1>3, <1>4, <1>5, <1>6, <1>7, <1>8, <1>9, <1>10 DEF SilentTask, HandlerStep

(* ... and what is written is what the record says.                         *)
LEMMA TaskReports ==
    ASSUME OrderlyInv, NEW k \in Task, SilentTask(k, AckType), NEW i, Reported(i)'
    PROVE  Reported(i)
<1>0. TaskStepOf(k)
  BY DEF TaskStepOf, SilentTask
<1>1. \A j \in Task : Pending(j, i)' => Pending(j, i)
  <2>1. \A j \in Task \ {k} : Unmoved(j)
    BY <1>0, OthersStay DEF OrderlyInv, KeyedInv
  <2>2. QED
    BY <2>1, PendingStep DEF Unmoved, Pending
<1>2. i \in file'.seen => Reported(i)
  <2>1. CASE AppendRecord(k) \/ \E label \in Exit : AppendFails(k, label)
    <3>1. rec[k] \in RecordType /\ file \in ReplayType
      BY <2>1, Types DEF OrderlyInv, KeyedInv, RuntimeTypeInv, Standing, AppendRecord, AppendFails
    <3>2. file' = file \/ file' = Apply(file, rec[k])
      BY <2>1 DEF AppendRecord, AppendFails
    <3>3. file'.seen \subseteq file.seen \cup (IF IsPlanned(rec[k]) THEN {rec[k].event} ELSE {})
      BY <3>1, <3>2, ApplyTyped
    <3>4. QED
      BY <3>3 DEF Reported, Pending
  <2>2. CASE ApplyRecord(k)
    BY <2>2 DEF ApplyRecord, Reported
  <2>3. CASE ~Writes(k)
    BY <1>0, <2>3, QuietTask DEF OrderlyInv, Reported
  <2>4. QED
    BY <2>1, <2>2, <2>3 DEF Writes
<1>3. QED
  BY <1>1, <1>2 DEF Reported

LEMMA SilentReports ==
    ASSUME OrderlyInv, Silent(AckType), NEW i, Reported(i)'
    PROVE  Reported(i)
<1>1. CASE \E k \in Task : SilentTask(k, AckType)
  BY <1>1, TaskReports
<1>2. CASE ~\E k \in Task : SilentTask(k, AckType)
  <2>1. file' = file
    BY <1>2 DEF Silent, Takes, Closes, Restarts, runtimeVars
  <2>2. \A k \in Task : Pending(k, i)' => Pending(k, i)
    <3>1. CASE Restarts
      BY <3>1 DEF Restarts, FreshTasks, Pending, IsPlanned, NoRecord
    <3>2. CASE UNCHANGED taskVars
      BY <3>2 DEF taskVars, Pending
    <3>3. QED
      BY <1>2, <3>1, <3>2 DEF Silent, Takes, Closes, runtimeVars
  <2>3. QED
    BY <2>1, <2>2 DEF Reported
<1>3. QED
  BY <1>1, <1>2

LEMMA EventReports ==
    ASSUME OrderlyInv, NEW k \in Task, NEW e \in Event, HandleEvent(k, e), NEW i, Reported(i)'
    PROVE  Reported(i) \/ i = e.id
<1>1. TaskStepOf(k)
  BY DEF TaskStepOf
<1>2. \A j \in Task \ {k} : Unmoved(j)
  BY <1>1, OthersStay DEF OrderlyInv, KeyedInv
<1>3. file' = file /\ (Pending(k, i)' => Pending(k, i) \/ i = e.id)
  BY Types DEF OrderlyInv, HandleEvent, Goto, Journal, EventPlanned, IsPlanned, Pending
<1>4. QED
  BY <1>2, <1>3 DEF Reported, Pending, Unmoved

-----------------------------------------------------------------------------
(* The positions that bindings name: a binding comes from the               *)
(* acknowledgement of an open, and a reduce leaves its position alone.      *)

Names(s, S) == \A key \in Key : s.mirrors[key] # NoBinding => s.mirrors[key].position \in S
NamesIn(r, S) ==
    r.kind = "AckApplied" /\ r.mutation.kind = "upsert" => r.mutation.binding.position \in S

LEMMA ApplyNames ==
    ASSUME NEW s \in ReplayType, NEW r \in RecordType, NEW S, Names(s, S), NamesIn(r, S)
    PROVE  Names(Apply(s, r), S)
<1>1. s.mirrors \in [Key -> BindingType \cup {NoBinding}]
  BY SMT DEF ReplayType
<1>2. CASE r.kind = "AckApplied"
  <2>1. r.mutation \in MutationType /\ Apply(s, r).mirrors = Mutate(s.mirrors, r.mutation)
    BY <1>2, RecordShape, ApplyAck
  <2>2. QED
    BY <1>1, <1>2, <2>1, MutateEntry DEF Names, NamesIn
<1>3. CASE r.kind # "AckApplied"
  BY <1>3, RecordShape, ApplyPlanned, ApplyMark DEF IsPlanned, Names
<1>4. QED
  BY <1>2, <1>3

LEMMA AckNames ==
    ASSUME NEW c \in CommandType, NEW ack, NEW S,
           ack.status \in Success /\ c.action = "open" /\ ack.position # NoPosition
              => ack.position \in S
    PROVE  NamesIn(AckRecord(c, ack), S)
<1>1. c.action \in Action
  BY SMT DEF CommandType
<1>2. NewBinding(c, ack.position).position = ack.position
  BY DEF NewBinding
<1> USE DEF NamesIn, AckApplied, CommandUnknown, NoMutation
<1>3. CASE ack.status \notin Success
  BY <1>3 DEF AckRecord
<1>4. CASE ack.status \in Success /\ c.action = "open"
  BY <1>2, <1>4 DEF AckRecord
<1>5. CASE ack.status \in Success /\ c.action # "open"
  BY <1>1, <1>5 DEF AckRecord, Action
<1>6. QED
  BY <1>3, <1>4, <1>5

LEMMA ReducedNames ==
    ASSUME OrderlyInv, NEW k \in Task, MutateReduced(k), NEW S, Names(mem, S), NamesIn(rec[k], S)
    PROVE  NamesIn(rec'[k], S)
<1>1. PICK c \in todo[k] :
        LET b == mem.mirrors[KeyOf(c.source, c.order, c.target)]
        IN  Journal(k, IF b = NoBinding THEN rec[k]
                       ELSE AckApplied(c.id, rec[k].status,
                                       [kind |-> "upsert", binding |-> Reduced(b, c)]),
                    "idle")
  BY DEF MutateReduced
<1> DEFINE key == KeyOf(c.source, c.order, c.target)
           b == mem.mirrors[key]
           r == AckApplied(c.id, rec[k].status, [kind |-> "upsert", binding |-> Reduced(b, c)])
<1>2. c \in CommandType
  BY Types DEF MutateReduced, OrderlyInv
<1>3. key \in Key
  BY <1>2, SMT DEF CommandType, KeyOf, Key
<1>4. rec'[k] = IF b = NoBinding THEN rec[k] ELSE r
  BY <1>1, Types DEF Journal, Goto, OrderlyInv
<1>5. ASSUME b # NoBinding PROVE NamesIn(r, S)
  <2>1. b \in BindingType
    <3>1. mem.mirrors \in [Key -> BindingType \cup {NoBinding}]
      BY Types, SMT DEF ReplayType, OrderlyInv
    <3>2. QED
      BY <1>3, <1>5, <3>1
  <2>2. b.position \in S
    BY <1>3, <1>5 DEF Names
  <2> HIDE DEF b
  <2>3. Reduced(b, c).position = b.position
    BY <2>1, SMT DEF Reduced, BindingType
  <2>4. QED
    BY <2>2, <2>3 DEF NamesIn, AckApplied
<1> HIDE DEF r, b
<1>6. QED
  BY <1>4, <1>5

LEMMA NamesStep ==
    ASSUME OrderlyInv, NEW acks \in SUBSET AckType, RuntimeStep(acks),
           NEW S, Names(mem, S), Names(file, S), \A k \in Task : NamesIn(rec[k], S),
           \A ack \in acks :
              Tracked(mem, ack.id) /\ mem.commands[ack.id].command.action = "open"
                /\ ack.status \in Success /\ ack.position # NoPosition => ack.position \in S
    PROVE  Names(mem', S) /\ Names(file', S) /\ \A k \in Task : NamesIn(rec'[k], S)
<1>1. KeyedInv /\ RuntimeTypeInv /\ RuntimeStep(AckType)
  BY FewerAcks DEF OrderlyInv, KeyedInv
<1>2. Names(file', S)
  BY <1>1, StatesMove, Types, ApplyNames
<1>3. Names(mem', S)
  <2>1. ASSUME mem' = Finalize(file) PROVE mem'.mirrors = file.mirrors
    BY <1>1, <2>1, Types, SMT DEF Finalize, ReplayType
  <2>2. QED
    BY <1>1, <2>1, StatesMove, Types, ApplyNames DEF Names
<1>4. ASSUME NEW k \in Task, NEW ack \in acks, HandleAck(k, ack)
      PROVE  NamesIn(rec'[k], S)
  <2> DEFINE c == mem.commands[ack.id].command
  <2>1. ack.id \in CommandId /\ Tracked(mem, ack.id)
    BY <1>4 DEF HandleAck, AckType
  <2>2. c \in CommandType
    BY <1>1, <2>1, Types, StoredTyped
  <2>3. rec'[k] = AckRecord(c, ack)
    BY <1>1, <1>4, Types DEF HandleAck, Journal, Goto
  <2> HIDE DEF c
  <2>4. QED
    BY <1>4, <2>1, <2>2, <2>3, AckNames DEF c
<1>5. ASSUME NEW k \in Task, OwnStep(k)
      PROVE  NamesIn(rec'[k], S)
  <2>1. CASE MutateReduced(k)
    BY <2>1, ReducedNames
  <2>2. CASE ~MutateReduced(k)
    <3>1. rec'[k] = rec[k] \/ rec'[k].kind # "AckApplied"
      BY <1>5, <2>2, RecordMoves
    <3>2. QED
      BY <3>1 DEF NamesIn
  <2>3. QED
    BY <2>1, <2>2
<1>6. ASSUME NEW k \in Task, OwnStep(k) \/ \E ack \in acks : HandleAck(k, ack)
      PROVE  \A j \in Task : NamesIn(rec'[j], S)
  <2>1. TaskStepOf(k)
    BY <1>6 DEF TaskStepOf, OwnStep
  <2>2. \A j \in Task \ {k} : rec'[j] = rec[j]
    BY <1>1, <2>1, OthersStay DEF Unmoved
  <2>3. QED
    BY <1>4, <1>5, <1>6, <2>2 DEF NamesIn
<1>7. CASE Restarts
  BY <1>2, <1>3, <1>7 DEF Restarts, FreshTasks, NamesIn, NoRecord
<1>8. CASE UNCHANGED taskVars
  BY <1>2, <1>3, <1>8 DEF taskVars
<1>9. QED
  BY <1>2, <1>3, <1>6, <1>7, <1>8 DEF RuntimeStep, OwnStep, Takes, Closes, runtimeVars

-----------------------------------------------------------------------------
(* What keeps a set o of commands off every channel: their events are seen, *)
(* so they are never planned again; they are not queued, so no snapshot     *)
(* takes them and no restart finds them queued; and no task holds them to   *)
(* dispatch.  The list todo[k] is only dispatched from where Resumes(k)     *)
(* holds: of the others, one waits for the binding of an acknowledgement    *)
(* and one marks UNKNOWN.                                                   *)

Resumes(k) ==
    /\ pc[k] \notin {"mirror", "orphans"}
    /\ pc[k] \in {"append", "apply"} => ret[k] # "orphans"

PastState(s, o) ==
    \A c \in o : EventOf(c) \in s.seen /\ StateOf(s, c) # "queued"
FreshCommands(S, o) == \A d \in S : d.id \notin o
FreshRecord(r, o) == IsPlanned(r) => FreshCommands(r.commands, o)

(* A fresh record brings no past command back.                              *)
LEMMA PastApplied ==
    ASSUME NEW s \in ReplayType, NEW o \in SUBSET CommandId, PastState(s, o),
           NEW r \in RecordType, FreshRecord(r, o)
    PROVE  PastState(Apply(s, r), o)
<1> SUFFICES ASSUME NEW c \in o
             PROVE  EventOf(c) \in Apply(s, r).seen /\ StateOf(Apply(s, r), c) # "queued"
  BY DEF PastState
<1>1. EventOf(c) \in s.seen /\ StateOf(s, c) # "queued" /\ c \in CommandId
  BY DEF PastState
<1>2. EventOf(c) \in Apply(s, r).seen
  BY <1>1, ApplyTyped
<1>3. CASE IsPlanned(r)
  <2>1. \A p \in r.commands : p.id # c
    BY <1>3 DEF FreshRecord, FreshCommands
  <2>2. Apply(s, r).commands[c] = s.commands[c]
    BY <1>1, <1>3, <2>1, PlannedEntry
  <2>3. QED
    BY <1>1, <1>2, <2>2 DEF StateOf
<1>4. CASE ~IsPlanned(r)
  <2>1. /\ r.id # c \/ ~Tracked(s, c) => Apply(s, r).commands[c] = s.commands[c]
        /\ r.id = c /\ IsFinalAck(r) => ~Tracked(Apply(s, r), c)
        /\ r.id = c /\ ~IsFinalAck(r) /\ Tracked(s, c) =>
             StateOf(Apply(s, r), c) \in {"dispatched", "unknown"}
    BY <1>1, <1>4, OtherEntry
  <2>2. QED
    BY <1>1, <1>2, <2>1 DEF StateOf, Tracked
<1>5. QED
  BY <1>3, <1>4

-----------------------------------------------------------------------------
(* Which position a binding or a command may name.  P is a set of pairs of  *)
(* a position and a binding key; every binding, and every command that      *)
(* changes a position, names a position that P has for its key.             *)

Binds(s, P) ==
    \A key \in Key : s.mirrors[key] # NoBinding => <<s.mirrors[key].position, key>> \in P
BindsIn(r, P) ==
    r.kind = "AckApplied" /\ r.mutation.kind = "upsert" =>
        <<r.mutation.binding.position, BindingKey(r.mutation.binding)>> \in P

LEMMA ApplyBinds ==
    ASSUME NEW s \in ReplayType, NEW r \in RecordType, NEW P, Binds(s, P), BindsIn(r, P)
    PROVE  Binds(Apply(s, r), P)
<1>1. s.mirrors \in [Key -> BindingType \cup {NoBinding}]
  BY SMT DEF ReplayType
<1>2. CASE r.kind = "AckApplied"
  <2>1. r.mutation \in MutationType /\ Apply(s, r).mirrors = Mutate(s.mirrors, r.mutation)
    BY <1>2, RecordShape, ApplyAck
  <2>2. QED
    BY <1>1, <1>2, <2>1, MutateEntry DEF Binds, BindsIn
<1>3. CASE r.kind # "AckApplied"
  BY <1>3, RecordShape, ApplyPlanned, ApplyMark DEF IsPlanned, Binds
<1>4. QED
  BY <1>2, <1>3

LEMMA AckBinds ==
    ASSUME NEW c \in CommandType, NEW ack, NEW P,
           ack.status \in Success /\ c.action = "open" /\ ack.position # NoPosition
              => <<ack.position, KeyOf(c.source, c.order, c.target)>> \in P
    PROVE  BindsIn(AckRecord(c, ack), P)
<1>1. c.action \in Action
  BY SMT DEF CommandType
<1>2. /\ NewBinding(c, ack.position).position = ack.position
      /\ BindingKey(NewBinding(c, ack.position)) = KeyOf(c.source, c.order, c.target)
  BY DEF NewBinding, BindingKey
<1> USE DEF BindsIn, AckApplied, CommandUnknown, NoMutation
<1>3. CASE ack.status \notin Success
  BY <1>3 DEF AckRecord
<1>4. CASE ack.status \in Success /\ c.action = "open"
  BY <1>2, <1>4 DEF AckRecord
<1>5. CASE ack.status \in Success /\ c.action # "open"
  BY <1>1, <1>5 DEF AckRecord, Action
<1>6. QED
  BY <1>3, <1>4, <1>5

LEMMA ReducedBinds ==
    ASSUME ShelvedInv, NEW k \in Task, MutateReduced(k), NEW P, Binds(mem, P), BindsIn(rec[k], P)
    PROVE  BindsIn(rec'[k], P)
<1>0. KeyedInv
  BY DEF ShelvedInv, MirrorInv, OrderlyInv
<1>1. PICK c \in todo[k] :
        LET b == mem.mirrors[KeyOf(c.source, c.order, c.target)]
        IN  Journal(k, IF b = NoBinding THEN rec[k]
                       ELSE AckApplied(c.id, rec[k].status,
                                       [kind |-> "upsert", binding |-> Reduced(b, c)]),
                    "idle")
  BY DEF MutateReduced
<1> DEFINE key == KeyOf(c.source, c.order, c.target)
           b == mem.mirrors[key]
           r == AckApplied(c.id, rec[k].status, [kind |-> "upsert", binding |-> Reduced(b, c)])
<1>2. c \in CommandType
  BY <1>0, Types DEF MutateReduced
<1>3. key \in Key
  BY <1>2, SMT DEF CommandType, KeyOf, Key
<1>4. rec'[k] = IF b = NoBinding THEN rec[k] ELSE r
  BY <1>0, <1>1, Types DEF Journal, Goto
<1>5. ASSUME b # NoBinding PROVE BindsIn(r, P)
  <2>1. b \in BindingType
    <3>1. mem.mirrors \in [Key -> BindingType \cup {NoBinding}]
      BY <1>0, Types, SMT DEF ReplayType
    <3>2. QED
      BY <1>3, <1>5, <3>1
  <2>2. <<b.position, key>> \in P /\ BindingKey(b) = key
    BY <1>3, <1>5 DEF Binds, ShelvedInv, Shelved
  <2> HIDE DEF b, key
  <2>3. Reduced(b, c).position = b.position /\ BindingKey(Reduced(b, c)) = BindingKey(b)
    BY <2>1, SMT DEF Reduced, BindingType, BindingKey
  <2>4. QED
    BY <2>2, <2>3 DEF BindsIn, AckApplied
<1> HIDE DEF r, b
<1>6. QED
  BY <1>4, <1>5

LEMMA BindsStep ==
    ASSUME ShelvedInv, NEW acks \in SUBSET AckType, RuntimeStep(acks),
           NEW P, Binds(mem, P), Binds(file, P), \A k \in Task : BindsIn(rec[k], P),
           \A ack \in acks :
              LET c == mem.commands[ack.id].command
              IN  Tracked(mem, ack.id) /\ c.action = "open"
                    /\ ack.status \in Success /\ ack.position # NoPosition
                    => <<ack.position, KeyOf(c.source, c.order, c.target)>> \in P
    PROVE  Binds(mem', P) /\ Binds(file', P) /\ \A k \in Task : BindsIn(rec'[k], P)
<1>1. OrderlyInv /\ KeyedInv /\ RuntimeTypeInv /\ RuntimeStep(AckType)
  BY FewerAcks DEF ShelvedInv, MirrorInv, OrderlyInv, KeyedInv
<1>2. Binds(file', P)
  BY <1>1, StatesMove, Types, ApplyBinds
<1>3. Binds(mem', P)
  <2>1. ASSUME mem' = Finalize(file) PROVE mem'.mirrors = file.mirrors
    BY <1>1, <2>1, Types, SMT DEF Finalize, ReplayType
  <2>2. QED
    BY <1>1, <2>1, StatesMove, Types, ApplyBinds DEF Binds
<1>4. ASSUME NEW k \in Task, NEW ack \in acks, HandleAck(k, ack)
      PROVE  BindsIn(rec'[k], P)
  <2> DEFINE c == mem.commands[ack.id].command
  <2>1. ack.id \in CommandId /\ Tracked(mem, ack.id)
    BY <1>4 DEF HandleAck, AckType
  <2>2. c \in CommandType
    BY <1>1, <2>1, Types, StoredTyped
  <2>3. rec'[k] = AckRecord(c, ack)
    BY <1>1, <1>4, Types DEF HandleAck, Journal, Goto
  <2>4. ack.status \in Success /\ c.action = "open" /\ ack.position # NoPosition
          => <<ack.position, KeyOf(c.source, c.order, c.target)>> \in P
    BY <2>1
  <2> HIDE DEF c
  <2>5. QED
    BY <2>2, <2>3, <2>4, AckBinds
<1>5. ASSUME NEW k \in Task, OwnStep(k)
      PROVE  BindsIn(rec'[k], P)
  <2>1. CASE MutateReduced(k)
    BY <2>1, ReducedBinds
  <2>2. CASE ~MutateReduced(k)
    <3>1. rec'[k] = rec[k] \/ rec'[k].kind # "AckApplied"
      BY <1>1, <1>5, <2>2, RecordMoves
    <3>2. QED
      BY <3>1 DEF BindsIn
  <2>3. QED
    BY <2>1, <2>2
<1>6. ASSUME NEW k \in Task, OwnStep(k) \/ \E ack \in acks : HandleAck(k, ack)
      PROVE  \A j \in Task : BindsIn(rec'[j], P)
  <2>1. TaskStepOf(k)
    BY <1>6 DEF TaskStepOf, OwnStep
  <2>2. \A j \in Task \ {k} : rec'[j] = rec[j]
    BY <1>1, <2>1, OthersStay DEF Unmoved
  <2>3. QED
    BY <1>4, <1>5, <1>6, <2>2 DEF BindsIn
<1>7. CASE Restarts
  BY <1>2, <1>3, <1>7 DEF Restarts, FreshTasks, BindsIn, NoRecord
<1>8. CASE UNCHANGED taskVars
  BY <1>2, <1>3, <1>8 DEF taskVars
<1>9. QED
  BY <1>2, <1>3, <1>6, <1>7, <1>8 DEF RuntimeStep, OwnStep, Takes, Closes, runtimeVars

-----------------------------------------------------------------------------
(* How the queues move: one command behind the others, the first one out,   *)
(* or all of them gone.                                                     *)

LEMMA SendMoves ==
    ASSUME RuntimeTypeInv, NEW k \in Task, Send(k)
    PROVE  \E c \in todo[k] :
             /\ c \in CommandType /\ c.id = rec[k].id
             /\ handed' = [handed EXCEPT ![c.id] = IF @ = 2 THEN 2 ELSE @ + 1]
             /\ todo' = [todo EXCEPT ![k] = todo[k] \ {c}]
             /\ \A s \in Session : \A i \in DOMAIN chan'[s].queue :
                  \/ i \in DOMAIN chan[s].queue /\ chan'[s].queue[i] = chan[s].queue[i]
                  \/ /\ s = sess[k] /\ i = Len(chan[s].queue) + 1
                     /\ i \notin DOMAIN chan[s].queue /\ chan'[s].queue[i] = c
<1>1. chan \in [Session -> [open : BOOLEAN, queue : Seq(CommandType)]]
      /\ todo \in [Task -> SUBSET CommandType]
  BY DEF RuntimeTypeInv, RuntimeTypeOK
<1>2. PICK c \in todo[k] :
        /\ c.id = rec[k].id
        /\ chan' = [chan EXCEPT ![sess[k]].queue = Append(@, c)]
        /\ handed' = [handed EXCEPT ![c.id] = IF @ = 2 THEN 2 ELSE @ + 1]
        /\ todo' = [todo EXCEPT ![k] = todo[k] \ {c}]
  BY DEF Send, Loop
<1>3. c \in CommandType
  BY <1>1
<1>4. ASSUME NEW s \in Session, NEW i \in DOMAIN chan'[s].queue
      PROVE  \/ i \in DOMAIN chan[s].queue /\ chan'[s].queue[i] = chan[s].queue[i]
             \/ /\ s = sess[k] /\ i = Len(chan[s].queue) + 1
                /\ i \notin DOMAIN chan[s].queue /\ chan'[s].queue[i] = c
  <2>1. CASE s # sess[k]
    <3>1. chan'[s] = chan[s]
      BY <1>1, <1>2, <2>1
    <3>2. QED
      BY <1>4, <3>1
  <2>2. CASE s = sess[k]
    <3> DEFINE q == chan[s].queue
    <3>1. q \in Seq(CommandType) /\ chan'[s].queue = Append(q, c)
      BY <1>1, <1>2, <2>2
    <3> HIDE DEF q
    <3>2. /\ DOMAIN Append(q, c) = 1..(Len(q) + 1) /\ Len(q) \in Nat /\ DOMAIN q = 1..Len(q)
          /\ Append(q, c)[Len(q) + 1] = c
          /\ \A n \in 1..Len(q) : Append(q, c)[n] = q[n]
      BY <1>3, <3>1, SMT
    <3>3. i \in 1..Len(q) \/ (i = Len(q) + 1 /\ i \notin 1..Len(q))
      BY <1>4, <3>1, <3>2, SMT
    <3>4. QED
      BY <2>2, <3>1, <3>2, <3>3 DEF q
  <2>3. QED
    BY <2>1, <2>2
<1>5. QED
  BY <1>2, <1>3, <1>4

LEMMA TakesMoves ==
    ASSUME RuntimeTypeInv, NEW t \in Session, Takes(t)
    PROVE  /\ 1 \in DOMAIN chan[t].queue /\ Head(chan[t].queue) = chan[t].queue[1]
           /\ \A i \in DOMAIN chan'[t].queue :
                /\ i \in Nat /\ i + 1 # 1 /\ i + 1 \in DOMAIN chan[t].queue
                /\ chan'[t].queue[i] = chan[t].queue[i + 1]
           /\ \A s \in Session \ {t} : chan'[s] = chan[s]
<1>1. chan \in [Session -> [open : BOOLEAN, queue : Seq(CommandType)]]
  BY DEF RuntimeTypeInv, RuntimeTypeOK
<1>2. \A s \in Session \ {t} : chan'[s] = chan[s]
  BY <1>1 DEF Takes
<1> DEFINE q == chan[t].queue
<1>3. q \in Seq(CommandType) /\ q # <<>> /\ chan'[t].queue = Tail(q)
  BY <1>1 DEF Takes
<1> HIDE DEF q
<1>4. 1 \in DOMAIN q /\ Head(q) = q[1]
  BY <1>3, SMT
<1>5. ASSUME NEW i \in DOMAIN Tail(q)
      PROVE  i \in Nat /\ i + 1 # 1 /\ i + 1 \in DOMAIN q /\ Tail(q)[i] = q[i + 1]
  BY <1>3, <1>5, SMT
<1>6. QED
  BY <1>2, <1>3, <1>4, <1>5 DEF q

LEMMA QueuesMove ==
    ASSUME RuntimeTypeInv, RuntimeStep(AckType)
    PROVE  \/ UNCHANGED <<chan, handed>>
           \/ \E k \in Task : Send(k)
           \/ handed' = handed /\ \E t \in Session : Takes(t)
           \/ handed' = handed /\ \A s \in Session :
                chan'[s].queue = <<>> \/ chan'[s] = chan[s]
<1>1. chan \in [Session -> [open : BOOLEAN, queue : Seq(CommandType)]]
  BY DEF RuntimeTypeInv, RuntimeTypeOK
<1>2. ASSUME NEW t, NEW open, chan' = [chan EXCEPT ![t] = [open |-> open, queue |-> <<>>]]
      PROVE  \A s \in Session : chan'[s].queue = <<>> \/ chan'[s] = chan[s]
  BY <1>1, <1>2
<1>3. \/ UNCHANGED <<chan, handed>>
      \/ \E k \in Task : Send(k)
      \/ handed' = handed /\ \E t \in Session : Takes(t)
      \/ /\ handed' = handed
         /\ \E t, open : chan' = [chan EXCEPT ![t] = [open |-> open, queue |-> <<>>]]
      \/ Restarts
  BY DEF RuntimeStep, HandlerStep, InsertSession, SnapshotQueued, RouteEvent, RoutePanics,
         AppendRecord, ApplyRecord, DispatchNext, SendFails, MutateReduced, Unregister,
         SnapshotDispatched, MarkOrphan, DrawSessionId, Leaves, AppendFails, Ends,
         HandleEvent, HandleAck, Takes, Closes, runtimeVars
<1>4. CASE Restarts
  BY <1>4 DEF Restarts, FreshTasks
<1>5. QED
  BY <1>2, <1>3, <1>4

-----------------------------------------------------------------------------
(* Where the daemon holds commands: every command that memory, journal, a   *)
(* task or a channel holds is in Q.                                         *)
InState(s, Q)  == \A c \in CommandId : Tracked(s, c) => s.commands[c].command \in Q
InRecord(r, Q) == IsPlanned(r) => r.commands \subseteq Q
InQueue(q, Q)  == \A i \in DOMAIN q : q[i] \in Q

Among(m, f, r, t, q, Q) ==
    /\ InState(m, Q) /\ InState(f, Q)
    /\ \A k \in Task : InRecord(r[k], Q) /\ t[k] \subseteq Q
    /\ \A s \in Session : InQueue(q[s].queue, Q)

(* A round of the loop over the routes, and the command it builds.          *)
Drafts(k, d) ==
    /\ RouteEvent(k)
    /\ \E i \in routes[k] :
         LET b == mem.mirrors[KeyOf(ev[k].source, ev[k].order, Rules[i].target)]
         IN  /\ routes'[k] = routes[k] \ {i}
             /\ Builds(Rules[i], ev[k], b) /\ d = BuiltCommand(Rules[i], ev[k], b)

LEMMA ApplyAmong ==
    ASSUME NEW s \in ReplayType, NEW r \in RecordType, NEW Q, InState(s, Q), InRecord(r, Q)
    PROVE  InState(Apply(s, r), Q)
<1> DEFINE t == Apply(s, r)
<1> SUFFICES ASSUME NEW c \in CommandId, Tracked(t, c) PROVE t.commands[c].command \in Q
  BY DEF InState
<1>1. CASE Tracked(s, c)
  <2>1. t.commands[c].command = s.commands[c].command
    <3>1. CASE IsPlanned(r)
      BY <1>1, <3>1, PlannedEntry
    <3>2. CASE ~IsPlanned(r)
      BY <1>1, <3>2, OtherEntry
    <3>3. QED
      BY <3>1, <3>2
  <2>2. QED
    BY <1>1, <2>1 DEF InState
<1>2. CASE ~Tracked(s, c)
  <2>1. IsPlanned(r) /\ \E p \in r.commands : p.id = c
    <3>1. CASE ~IsPlanned(r)
      BY <1>2, <3>1, OtherEntry DEF Tracked, StateOf
    <3>2. CASE IsPlanned(r) /\ \A p \in r.commands : p.id # c
      BY <1>2, <3>2, PlannedEntry DEF Tracked, StateOf
    <3>3. QED
      BY <3>1, <3>2
  <2>2. t.commands[c].command \in r.commands
    BY <1>2, <2>1, PlannedEntry
  <2>3. QED
    BY <2>1, <2>2 DEF InRecord
<1>3. QED
  BY <1>1, <1>2

LEMMA RouteDrafts ==
    ASSUME OrderlyInv, NEW k \in Task, RouteEvent(k)
    PROVE  \E S :
             /\ todo'[k] = todo[k] \cup S
             /\ \A d \in S : Drafts(k, d)
             /\ rec'[k] = rec[k] \/ rec'[k] = EventPlanned(ev[k].id, todo[k] \cup S)
<1> DEFINE b(i) == mem.mirrors[KeyOf(ev[k].source, ev[k].order, Rules[i].target)]
           S(i) == IF Builds(Rules[i], ev[k], b(i)) THEN {BuiltCommand(Rules[i], ev[k], b(i))}
                   ELSE {}
<1>1. PICK i \in routes[k] :
        /\ routes' = [routes EXCEPT ![k] = @ \ {i}]
        /\ todo' = [todo EXCEPT ![k] = todo[k] \cup S(i)]
        /\ rec' = rec \/ rec' = [rec EXCEPT ![k] = EventPlanned(ev[k].id, todo[k] \cup S(i))]
  BY DEF RouteEvent, Journal
<1>2. routes \in [Task -> SUBSET DOMAIN Rules]
  BY DEF OrderlyInv, KeyedInv, RuntimeTypeInv, RuntimeTypeOK
<1>3. routes'[k] = routes[k] \ {i}
  BY <1>1, <1>2
<1>4. \A d \in S(i) : Drafts(k, d)
  BY <1>3 DEF Drafts
<1> HIDE DEF S
<1>5. /\ todo'[k] = todo[k] \cup S(i)
      /\ rec'[k] = rec[k] \/ rec'[k] = EventPlanned(ev[k].id, todo[k] \cup S(i))
  BY <1>1, Types DEF OrderlyInv
<1>6. QED
  BY <1>4, <1>5

LEMMA TaskAmong ==
    ASSUME OrderlyInv, NEW k \in Task, TaskStepOf(k), NEW Q, InState(mem, Q),
           todo[k] \subseteq Q, InRecord(rec[k], Q), \A d : Drafts(k, d) => d \in Q
    PROVE  todo'[k] \subseteq Q /\ InRecord(rec'[k], Q)
<1> USE Types DEF OrderlyInv
<1>1. ASSUME NEW state \in {"queued", "dispatched"}, NEW a PROVE CommandsIn(state, a) \subseteq Q
  BY <1>1 DEF CommandsIn, InState, Tracked
<1>2. CASE DrawSessionId(k) \/ Leaves(k) \/ InsertSession(k) \/ Unregister(k) \/ AppendRecord(k)
  BY <1>2 DEF DrawSessionId, Leaves, InsertSession, Unregister, AppendRecord
<1>3. CASE SnapshotQueued(k) \/ SnapshotDispatched(k)
  BY <1>1, <1>3 DEF SnapshotQueued, SnapshotDispatched, Loop
<1>4. CASE RoutePanics(k) \/ \E label \in Exit : AppendFails(k, label) \/ Ends(k, label)
  BY <1>4 DEF RoutePanics, AppendFails, Ends, Fail, NoRecord, InRecord, IsPlanned
<1>5. CASE MarkOrphan(k) \/ SendFails(k)
  BY <1>5 DEF MarkOrphan, SendFails, Journal, CommandUnknown, InRecord, IsPlanned
<1>6. CASE DispatchNext(k)
  BY <1>6 DEF DispatchNext, Journal, Loop, CommandDispatched, InRecord, IsPlanned
<1>7. CASE Send(k)
  BY <1>7 DEF Send, Loop, NoRecord, InRecord, IsPlanned
<1>8. CASE RouteEvent(k)
  <2>1. PICK S : /\ todo'[k] = todo[k] \cup S
                 /\ \A d \in S : Drafts(k, d)
                 /\ rec'[k] = rec[k] \/ rec'[k] = EventPlanned(ev[k].id, todo[k] \cup S)
    BY <1>8, RouteDrafts
  <2>2. todo[k] \cup S \subseteq Q
    BY <2>1
  <2>3. QED
    BY <2>1, <2>2 DEF InRecord, EventPlanned
<1>9. CASE ApplyRecord(k)
  BY <1>9 DEF ApplyRecord, Loop, NoRecord, InRecord, IsPlanned
<1>10. ASSUME NEW e \in Event, HandleEvent(k, e) PROVE todo'[k] \subseteq Q /\ InRecord(rec'[k], Q)
  BY <1>10 DEF HandleEvent, Journal, EventPlanned, InRecord
<1>11. CASE MutateReduced(k)
  <2>1. rec'[k].kind = "AckApplied" \/ rec'[k] = rec[k]
    BY <1>11 DEF MutateReduced, Journal, AckApplied
  <2>2. todo'[k] = {}
    BY <1>11 DEF MutateReduced
  <2>3. QED
    BY <2>1, <2>2 DEF InRecord, IsPlanned
<1>12. ASSUME NEW ack \in AckType, HandleAck(k, ack)
       PROVE  todo'[k] \subseteq Q /\ InRecord(rec'[k], Q)
  <2> DEFINE c == mem.commands[ack.id].command
  <2>1. ack.id \in CommandId /\ Tracked(mem, ack.id)
    BY <1>12 DEF HandleAck, AckType
  <2>2. c \in CommandType /\ c \in Q
    BY <2>1, StoredTyped DEF InState
  <2>3. rec'[k] = AckRecord(c, ack) /\ (todo' = todo \/ todo'[k] = {c})
    BY <1>12 DEF HandleAck, Journal
  <2> HIDE DEF c
  <2>4. ~IsPlanned(AckRecord(c, ack))
    BY <2>2, AckRecordShape DEF IsPlanned
  <2>5. QED
    BY <2>2, <2>3, <2>4 DEF InRecord
<1>13. QED
  BY <1>2, <1>3, <1>4, <1>5, <1>6, <1>7, <1>8, <1>9, <1>10, <1>11, <1>12
     DEF TaskStepOf, HandlerStep

LEMMA AmongStart ==
    ASSUME RuntimeInit, NEW Q
    PROVE  Among(mem, file, rec, todo, chan, Q)
<1>1. \A k \in Task : rec[k] = NoRecord /\ todo[k] = {}
  BY DEF RuntimeInit, FreshTasks
<1>2. \A s \in Session : chan[s].queue = <<>>
  BY DEF RuntimeInit, FreshTasks
<1>3. mem = EmptyReplay /\ file = EmptyReplay
  BY DEF RuntimeInit
<1>4. QED
  BY <1>1, <1>2, <1>3 DEF Among, InState, InRecord, InQueue, EmptyReplay, Tracked, StateOf, Absent,
     NoRecord, IsPlanned

(* Commands are copied from one place to another; only routing builds them. *)
LEMMA AmongStep ==
    ASSUME MirrorInv, RuntimeStep(AckType), NEW Q, Among(mem, file, rec, todo, chan, Q),
           \A k \in Task : \A d : Drafts(k, d) => d \in Q
    PROVE  Among(mem', file', rec', todo', chan', Q)
<1>1. /\ MirrorInv /\ OrderlyInv /\ KeyedInv /\ RuntimeTypeInv /\ RuntimeStep(AckType)
      /\ mem \in ReplayType /\ file \in ReplayType
  BY Types DEF MirrorInv, OrderlyInv, KeyedInv
<1> USE DEF Among
<1>2. InState(file', Q)
  BY <1>1, StatesMove, ApplyAmong
<1>3. InState(mem', Q)
  <2>1. ASSUME mem' = Finalize(file) PROVE InState(mem', Q)
    BY <1>1, <2>1, FinalizeEffect DEF InState, Tracked
  <2>2. QED
    BY <1>1, <2>1, StatesMove, ApplyAmong
<1>4. \A k \in Task : InRecord(rec'[k], Q) /\ todo'[k] \subseteq Q
  <2>1. ASSUME NEW k \in Task, TaskStepOf(k)
        PROVE  \A j \in Task : InRecord(rec'[j], Q) /\ todo'[j] \subseteq Q
    <3>1. \A j \in Task \ {k} : rec'[j] = rec[j] /\ todo'[j] = todo[j]
      BY <1>1, <2>1, OthersStay DEF Unmoved
    <3>2. InRecord(rec'[k], Q) /\ todo'[k] \subseteq Q
      BY <1>1, <2>1, TaskAmong
    <3>3. QED
      BY <3>1, <3>2
  <2>2. CASE Restarts
    BY <2>2 DEF Restarts, FreshTasks, NoRecord, InRecord, IsPlanned
  <2>3. CASE UNCHANGED taskVars
    BY <2>3 DEF taskVars
  <2>4. QED
    BY <1>1, <2>1, <2>2, <2>3, StepKinds
<1>5. \A s \in Session : InQueue(chan'[s].queue, Q)
  <2>1. ASSUME NEW k \in Task, Send(k) PROVE \A s \in Session : InQueue(chan'[s].queue, Q)
    <3>1. todo[k] \subseteq Q
      OBVIOUS
    <3>2. QED
      BY <1>1, <2>1, <3>1, SendMoves DEF InQueue
  <2>2. ASSUME NEW t \in Session, Takes(t)
        PROVE  \A s \in Session : InQueue(chan'[s].queue, Q)
    BY <1>1, <2>2, TakesMoves DEF InQueue
  <2>3. ASSUME NEW s \in Session, chan'[s].queue = <<>> \/ chan'[s] = chan[s]
        PROVE  InQueue(chan'[s].queue, Q)
    BY <2>3 DEF InQueue
  <2>4. QED
    BY <1>1, <2>1, <2>2, <2>3, QueuesMove
<1>6. QED
  BY <1>2, <1>3, <1>4, <1>5

LEMMA AmongMore ==
    ASSUME NEW m, NEW f, NEW r, NEW t, NEW q, NEW Q, NEW R, Q \subseteq R, Among(m, f, r, t, q, Q)
    PROVE  Among(m, f, r, t, q, R)
<1>1. \A k \in Task : InRecord(r[k], R) /\ t[k] \subseteq R
  BY DEF Among, InRecord
<1>2. \A s \in Session : InQueue(q[s].queue, R)
  BY DEF Among, InQueue
<1>3. QED
  BY <1>1, <1>2 DEF Among, InState

(* A draft is a sound command of the event in hand and of a route left.     *)
LEMMA DraftFacts ==
    ASSUME MirrorInv, NEW k \in Task, NEW d, Drafts(k, d)
    PROVE  /\ d \in CommandType /\ SoundCommand(d)
           /\ \E i \in routes[k] :
                /\ i \in DOMAIN Rules /\ routes'[k] = routes[k] \ {i}
                /\ d.id = CommandIdOf(ev[k], Rules[i])
                /\ d = BuiltCommand(Rules[i], ev[k], mem.mirrors[
                           KeyOf(ev[k].source, ev[k].order, Rules[i].target)])
           /\ d.action # "open" =>
                LET key == KeyOf(d.source, d.order, d.target)
                IN  key \in Key /\ mem.mirrors[key] # NoBinding
                      /\ d.position = mem.mirrors[key].position
<1> DEFINE e == ev[k]
           key(i) == KeyOf(e.source, e.order, Rules[i].target)
           b(i) == mem.mirrors[key(i)]
<1>1. PICK i \in routes[k] :
        /\ routes'[k] = routes[k] \ {i}
        /\ Builds(Rules[i], e, b(i)) /\ d = BuiltCommand(Rules[i], e, b(i))
  BY DEF Drafts
<1>2. /\ pc[k] = "route" /\ OrderlyInv /\ mem \in ReplayType
      /\ e \in Event /\ i \in DOMAIN Rules /\ Rules[i].source = e.source
  BY Types DEF Drafts, RouteEvent, MirrorInv, OrderlyInv, Orderly, KeyedInv, RuntimeTypeInv,
               Standing, RoutesFor
<1>3. key(i) \in Key
  BY <1>2, Identifiers
<1>4. b(i) \in BindingType \cup {NoBinding}
  BY <1>2, <1>3 DEF ReplayType
<1>5. SoundCommand(d)
  BY <1>1, <1>2, <1>4 DEF SoundCommand, BuiltFrom
<1>6. /\ d.id = CommandIdOf(e, Rules[i]) /\ d.action = e.action
      /\ KeyOf(d.source, d.order, d.target) = key(i)
      /\ e.action # "open" => d.position = b(i).position
  BY <1>1 DEF BuiltCommand
<1>7. e.action # "open" => b(i) # NoBinding
  BY <1>1 DEF Builds, MirrorMissing
<1>8. d \in CommandType
  BY <1>5, BuiltFacts
<1> HIDE DEF key, b
<1>9. d.action # "open" =>
        LET k2 == KeyOf(d.source, d.order, d.target)
        IN  k2 \in Key /\ mem.mirrors[k2] # NoBinding /\ d.position = mem.mirrors[k2].position
  BY <1>3, <1>6, <1>7 DEF b
<1>10. QED
  BY <1>1, <1>2, <1>5, <1>6, <1>8, <1>9 DEF b, key

(* A command that changes a position was built from the binding of its key, *)
(* which names a position of P.                                             *)
Refers(d, P) ==
    d.action # "open" => <<d.position, KeyOf(d.source, d.order, d.target)>> \in P
Referring(P) == {d \in CommandType : Refers(d, P)}

Mentions(m, f, r, t, q, P) == Among(m, f, r, t, q, Referring(P))

References(m, f, r, t, q, P) ==
    /\ Binds(m, P) /\ Binds(f, P)
    /\ \A k \in Task : BindsIn(r[k], P)
    /\ Mentions(m, f, r, t, q, P)

LEMMA ReferencesStart ==
    ASSUME RuntimeInit, NEW P
    PROVE  References(mem, file, rec, todo, chan, P)
<1>1. \A k \in Task : BindsIn(rec[k], P)
  BY DEF RuntimeInit, FreshTasks, NoRecord, BindsIn
<1>2. Binds(mem, P) /\ Binds(file, P)
  BY DEF RuntimeInit, EmptyReplay, Binds
<1>3. QED
  BY <1>1, <1>2, AmongStart DEF References, Mentions

(* A command names a position that memory binds, when it is built.          *)
LEMMA MentionsStep ==
    ASSUME MirrorInv, RuntimeStep(AckType), NEW P, Binds(mem, P),
           Mentions(mem, file, rec, todo, chan, P)
    PROVE  Mentions(mem', file', rec', todo', chan', P)
<1>1. ASSUME NEW k \in Task, NEW d, Drafts(k, d) PROVE d \in Referring(P)
  BY <1>1, DraftFacts DEF Referring, Refers, Binds
<1>2. QED
  BY <1>1, AmongStep DEF Mentions

(* P is any set that has the position of every open acknowledged in this    *)
(* step under the key of its command.                                       *)
LEMMA ReferencesStep ==
    ASSUME ShelvedInv, NEW acks \in SUBSET AckType, RuntimeStep(acks),
           NEW P, References(mem, file, rec, todo, chan, P),
           \A ack \in acks :
              LET c == mem.commands[ack.id].command
              IN  Tracked(mem, ack.id) /\ c.action = "open"
                    /\ ack.status \in Success /\ ack.position # NoPosition
                    => <<ack.position, KeyOf(c.source, c.order, c.target)>> \in P
    PROVE  References(mem', file', rec', todo', chan', P)
<1>1. MirrorInv /\ RuntimeStep(AckType)
  BY FewerAcks DEF ShelvedInv
<1>2. Binds(mem', P) /\ Binds(file', P) /\ \A k \in Task : BindsIn(rec'[k], P)
  BY BindsStep DEF References
<1>3. QED
  BY <1>1, <1>2, MentionsStep DEF References

-----------------------------------------------------------------------------
(* What an id says of its command, where the id of an event tells which     *)
(* position it is about and what was done to it, and which commands can     *)
(* share a key.                                                             *)

IdsTell ==
    \A e, f \in Event : e.id = f.id => e.order = f.order /\ e.action = f.action

(* An opening is copied to a follower by one route.  A binding key has no   *)
(* route in it, so a second route from the same master to the same follower *)
(* would rebind what the first one opened.                                  *)
OneRouteOpens ==
    \A e, f \in Event : \A i, j \in DOMAIN Rules :
        /\ e.id = f.id /\ e.action = "open"
        /\ Rules[i].source = e.source /\ Copies(Rules[i], e)
        /\ Rules[j].source = f.source /\ Copies(Rules[j], f)
        /\ e.source = f.source /\ Rules[i].target = Rules[j].target
        => i = j

Reports(i)  == CHOOSE e \in Event : e.id = i
ActionOf(c) == Reports(EventOf(c)).action
Opens(c)    == ActionOf(c) = "open"
KeyOfId(c)  == KeyOf(SourceOf(c), Reports(EventOf(c)).order, TargetOf(c))

LEMMA ReportsLike ==
    ASSUME IdsTell, NEW e \in Event
    PROVE  /\ Reports(e.id) \in Event /\ Reports(e.id).id = e.id
           /\ Reports(e.id).order = e.order /\ Reports(e.id).action = e.action
<1>1. Reports(e.id) \in Event /\ Reports(e.id).id = e.id
  BY DEF Reports
<1>2. QED
  BY <1>1 DEF IdsTell

LEMMA IdTells ==
    ASSUME IdsTell, NEW d, SoundCommand(d)
    PROVE  /\ d.id \in CommandId /\ d.action \in Action
           /\ d.action = ActionOf(d.id)
           /\ d.action = "open" <=> Opens(d.id)
           /\ KeyOf(d.source, d.order, d.target) = KeyOfId(d.id)
           /\ KeyOfId(d.id) \in Key
<1>1. d \in CommandType /\ d.target = TargetOf(d.id) /\ SourceOf(d.id) = d.source
  BY BuiltFacts, SourceOfBuilt
<1>2. PICK e \in Event, i \in DOMAIN Rules :
        d.id = CommandIdOf(e, Rules[i]) /\ d.order = e.order /\ d.action = e.action
  BY BuiltFacts
<1>3. EventOf(d.id) = e.id
  BY <1>2 DEF CommandIdOf, EventOf
<1>4. KeyOf(d.source, d.order, d.target) \in Key
  BY <1>1, SMT DEF CommandType, KeyOf, Key
<1>5. d.id \in CommandId /\ d.action \in Action
  BY <1>1, SMT DEF CommandType
<1>6. d.action = ActionOf(d.id) /\ d.order = Reports(EventOf(d.id)).order
  BY <1>2, <1>3, ReportsLike DEF ActionOf
<1>7. QED
  BY <1>1, <1>4, <1>5, <1>6 DEF Opens, KeyOfId

LEMMA IdOfRule ==
    ASSUME NEW c \in CommandId
    PROVE  \E e \in Event, i \in DOMAIN Rules :
             /\ c = <<e.id, Rules[i].id, Rules[i].target>>
             /\ SourceOf(c) = Rules[i].source /\ TargetOf(c) = Rules[i].target
<1>1. PICK e \in Event, i \in DOMAIN Rules : c = <<e.id, Rules[i].id, Rules[i].target>>
  BY DEF CommandId
<1>2. (CHOOSE n \in DOMAIN Rules : Rules[n].id = c[2]) = i
  BY <1>1, RulesAssumption
<1>3. QED
  BY <1>1, <1>2 DEF SourceOf, TargetOf

LEMMA KeyOfIdTyped ==
    ASSUME IdsTell, NEW c \in CommandId
    PROVE  KeyOfId(c) \in Key
<1>1. PICK e \in Event, i \in DOMAIN Rules :
        /\ c = <<e.id, Rules[i].id, Rules[i].target>>
        /\ SourceOf(c) = Rules[i].source /\ TargetOf(c) = Rules[i].target
  BY IdOfRule
<1>2. EventOf(c) = e.id
  BY <1>1 DEF EventOf
<1>3. Reports(EventOf(c)).order \in OrderId
  BY <1>2, ReportsLike DEF OrderId
<1>4. Rules[i].source \in Account /\ Rules[i].target \in Account
  BY RuleTyped, SMT DEF RuleType
<1>5. QED
  BY <1>1, <1>3, <1>4, SMT DEF KeyOfId, KeyOf, Key

(* The ids of commands that the engine really builds.                       *)
Built(c) == \E d \in CommandType : SoundCommand(d) /\ d.id = c

LEMMA BuiltId ==
    ASSUME IdsTell, NEW c, Built(c), Opens(c)
    PROVE  \E e \in Event, i \in DOMAIN Rules :
             /\ c = <<e.id, Rules[i].id, Rules[i].target>>
             /\ e.action = "open" /\ Rules[i].source = e.source /\ Copies(Rules[i], e)
             /\ KeyOfId(c) = KeyOf(e.source, e.order, Rules[i].target)
<1>1. PICK d \in CommandType : SoundCommand(d) /\ d.id = c
  BY DEF Built
<1>2. PICK i \in DOMAIN Rules, e \in Event, b \in BindingType \cup {NoBinding} :
        BuiltFrom(d, i, e, b)
  BY <1>1 DEF SoundCommand
<1>3. /\ d.id = CommandIdOf(e, Rules[i]) /\ d.action = e.action
      /\ d.source = e.source /\ d.order = e.order /\ d.target = Rules[i].target
      /\ Rules[i].source = e.source /\ Copies(Rules[i], e)
  BY <1>2 DEF BuiltFrom, BuiltCommand, Builds
<1>4. (d.action = "open" <=> Opens(d.id)) /\ KeyOf(d.source, d.order, d.target) = KeyOfId(d.id)
  BY <1>1, IdTells
<1>5. QED
  BY <1>1, <1>3, <1>4 DEF CommandIdOf

LEMMA SameOpening ==
    ASSUME IdsTell, OneRouteOpens, NEW x, NEW y, Built(x), Built(y), Opens(x), Opens(y),
           KeyOfId(x) = KeyOfId(y), EventOf(x) = EventOf(y)
    PROVE  x = y
<1>1. PICK e \in Event, i \in DOMAIN Rules :
        /\ x = <<e.id, Rules[i].id, Rules[i].target>>
        /\ e.action = "open" /\ Rules[i].source = e.source /\ Copies(Rules[i], e)
        /\ KeyOfId(x) = KeyOf(e.source, e.order, Rules[i].target)
  BY BuiltId
<1>2. PICK f \in Event, j \in DOMAIN Rules :
        /\ y = <<f.id, Rules[j].id, Rules[j].target>>
        /\ f.action = "open" /\ Rules[j].source = f.source /\ Copies(Rules[j], f)
        /\ KeyOfId(y) = KeyOf(f.source, f.order, Rules[j].target)
  BY BuiltId
<1>3. e.source = f.source /\ Rules[i].target = Rules[j].target
  BY <1>1, <1>2 DEF KeyOf
<1>4. e.id = f.id
  BY <1>1, <1>2 DEF EventOf
<1>5. i = j
  BY <1>1, <1>2, <1>3, <1>4 DEF OneRouteOpens
<1>6. QED
  BY <1>1, <1>2, <1>4, <1>5

(* What was handed over was built.                                          *)
BuiltInv == \A c \in CommandId : handed[c] > 0 => Built(c)

LEMMA BuiltStart ==
    ASSUME RuntimeInit
    PROVE  BuiltInv
BY DEF RuntimeInit, BuiltInv

LEMMA BuiltStep ==
    ASSUME MirrorInv, BuiltInv, RuntimeStep(AckType)
    PROVE  BuiltInv'
<1>1. RuntimeTypeInv /\ handed \in [CommandId -> 0..2]
  BY DEF MirrorInv, OrderlyInv, KeyedInv, RuntimeTypeInv, RuntimeTypeOK
<1>2. ASSUME NEW k \in Task, Send(k), NEW c \in CommandId, handed'[c] > 0 PROVE Built(c)
  <2>1. PICK d \in todo[k] :
          d \in CommandType /\ handed' = [handed EXCEPT ![d.id] = IF @ = 2 THEN 2 ELSE @ + 1]
    BY <1>1, <1>2, SendMoves
  <2>2. SoundCommand(d)
    BY <2>1 DEF MirrorInv, SoundCommands
  <2>3. c = d.id \/ handed[c] > 0
    BY <1>1, <1>2, <2>1
  <2>4. QED
    BY <2>1, <2>2, <2>3 DEF Built, BuiltInv
<1>3. QED
  BY <1>1, <1>2, QueuesMove DEF BuiltInv

(* The verdict that an acknowledgement of c becomes.                        *)
LEMMA AckVerdict ==
    ASSUME NEW c \in CommandType, NEW ack
    PROVE  LET r == AckRecord(c, ack)
           IN  /\ r.id = c.id
               /\ r.kind = "AckApplied" =>
                    /\ r.status = ack.status
                    /\ r.mutation.kind = "upsert" =>
                         /\ ack.status \in Success /\ c.action = "open"
                         /\ r.mutation.binding.position = ack.position
                         /\ BindingKey(r.mutation.binding) = KeyOf(c.source, c.order, c.target)
                    /\ r.mutation.kind = "remove" =>
                         /\ ack.status \in Success /\ c.action = "close"
                         /\ r.mutation.key = KeyOf(c.source, c.order, c.target)
                    /\ ack.status \in Success /\ c.action = "open" => r.mutation.kind = "upsert"
<1>1. c.action \in Action
  BY SMT DEF CommandType
<1>2. /\ NewBinding(c, ack.position).position = ack.position
      /\ BindingKey(NewBinding(c, ack.position)) = KeyOf(c.source, c.order, c.target)
  BY DEF NewBinding, BindingKey
<1> USE DEF AckApplied, CommandUnknown, NoMutation
<1>3. CASE ack.status \notin Success
  BY <1>3 DEF AckRecord
<1>4. CASE ack.status \in Success /\ c.action = "open"
  BY <1>2, <1>4 DEF AckRecord
<1>5. CASE ack.status \in Success /\ c.action # "open"
  BY <1>1, <1>5 DEF AckRecord, Action
<1>6. QED
  BY <1>3, <1>4, <1>5

LEMMA TrackedMoves ==
    ASSUME KeyedInv, RuntimeStep(AckType), NEW c \in CommandId, Tracked(mem, c), Tracked(file, c),
           \A k \in Task : ~(IsFinalAck(rec[k]) /\ rec[k].id = c)
    PROVE  Tracked(mem', c) /\ Tracked(file', c)
<1>1. RuntimeTypeInv /\ mem \in ReplayType /\ file \in ReplayType
  BY Types DEF KeyedInv
<1>2. Tracked(file', c)
  BY <1>1, StatesMove, StaysTracked
<1>3. Tracked(Finalize(file), c)
  BY <1>1, FinalizeEffect DEF Tracked
<1>4. QED
  BY <1>1, <1>2, <1>3, StatesMove, StaysTracked

LEMMA SettledMoves ==
    ASSUME RuntimeStep(AckType), NEW c, c \in settled'
    PROVE  c \in settled \/ \E k \in Task : IsFinalAck(rec[k]) /\ rec[k].id = c
<1>1. ASSUME NEW k \in Task, AppendRecord(k) \/ \E label \in Exit : AppendFails(k, label)
      PROVE  c \in settled \/ (IsFinalAck(rec[k]) /\ rec[k].id = c)
  BY <1>1 DEF AppendRecord, AppendFails, IsFinalAck
<1>2. CASE settled' = settled
  BY <1>2
<1>3. QED
  BY <1>1, <1>2 DEF RuntimeStep, HandlerStep, InsertSession, SnapshotQueued, RouteEvent, RoutePanics,
         ApplyRecord, DispatchNext, Send, SendFails, MutateReduced, Unregister,
         SnapshotDispatched, MarkOrphan, DrawSessionId, Leaves, Ends, Restarts,
         HandleEvent, HandleAck, Takes, Closes, runtimeVars

-----------------------------------------------------------------------------
(* What the records of acknowledgements say, where A are the commands that  *)
(* were answered and E those of them that left no position: a binding is    *)
(* removed when nothing is left of what it named, and an open that ends     *)
(* leaves nothing or is bound.                                              *)

OpenRefs(A) == {x \in CommandId \X Key : Opens(x[1]) /\ KeyOfId(x[1]) = x[2] /\ x[1] \in A}

Verdict(r, A, E) ==
    r.kind = "AckApplied" =>
        /\ r.mutation.kind = "remove" =>
             \E x \in CommandId : Opens(x) /\ KeyOfId(x) = r.mutation.key /\ x \in E
        /\ IsFinalAck(r) => r.id \in A
        /\ IsFinalAck(r) /\ Opens(r.id) =>
             \/ r.id \in E
             \/ r.mutation.kind = "upsert" /\ r.mutation.binding.position = r.id

Verdicts(p, r, A, E) ==
    \A k \in Task : Verdict(r[k], A, E) /\ (p[k] = "mirror" => ~Opens(r[k].id))

LEMMA VerdictsMore ==
    ASSUME NEW p, NEW r, NEW A, NEW E, NEW B \in SUBSET CommandId, NEW F,
           A \subseteq B, E \subseteq F, Verdicts(p, r, A, E)
    PROVE  Verdicts(p, r, B, F)
BY DEF Verdicts, Verdict

(* The acknowledgements that can come, with what has been answered by then. *)
Fits(ack, A, E) ==
    LET c == mem.commands[ack.id].command
    IN  Tracked(mem, ack.id) /\ ack.status # "unknown" =>
          /\ ack.id \in A
          /\ ack.status \in Success /\ c.action = "close" =>
               \E x \in CommandId :
                  Opens(x) /\ KeyOfId(x) = KeyOf(c.source, c.order, c.target) /\ x \in E
          /\ c.action = "open" =>
               /\ ack.status \notin Success => ack.id \in E
               /\ ack.status \in Success => ack.position \in {NoPosition, ack.id}

LEMMA AckFits ==
    ASSUME IdsTell, MirrorInv, NEW k \in Task, NEW ack \in AckType, HandleAck(k, ack),
           NEW A, NEW E, Fits(ack, A, E)
    PROVE  Verdict(rec'[k], A, E) /\ (pc'[k] = "mirror" => ~Opens(rec'[k].id))
<1> DEFINE c == mem.commands[ack.id].command
           r == AckRecord(c, ack)
<1>1. KeyedInv /\ ack.id \in CommandId /\ Tracked(mem, ack.id)
  BY SMT DEF MirrorInv, OrderlyInv, HandleAck, AckType
<1>2. c.id = ack.id /\ SoundCommand(c)
  BY <1>1 DEF KeyedInv, WellKeyed, MirrorInv, SoundState
<1>3. c \in CommandType /\ c.action \in Action /\ (c.action = "open" <=> Opens(ack.id))
  BY <1>2, BuiltFacts, IdTells
<1>4. rec'[k] = r /\ (pc'[k] = "mirror" => c.action = "reduce")
  BY <1>1, Types DEF HandleAck, Journal, Goto, IsReduced
<1>5. r.id = ack.id
  BY <1>2, <1>3, AckVerdict
<1> HIDE DEF c
<1>6. ASSUME r.kind = "AckApplied"
      PROVE  /\ r.status = ack.status
             /\ r.mutation.kind = "upsert" => r.mutation.binding.position = ack.position
             /\ r.mutation.kind = "remove" =>
                  /\ ack.status \in Success /\ c.action = "close"
                  /\ r.mutation.key = KeyOf(c.source, c.order, c.target)
             /\ ack.status \in Success /\ c.action = "open" => r.mutation.kind = "upsert"
                                                             /\ ack.position # NoPosition
  <2>1. ack.status \in Success /\ c.action = "open" => ack.position # NoPosition
    BY <1>6 DEF AckRecord, CommandUnknown
  <2>2. QED
    BY <1>3, <1>6, <2>1, AckVerdict
<1> HIDE DEF r
<1>7. "unknown" \notin Success
  BY DEF Success
<1>8. Verdict(r, A, E)
  BY <1>1, <1>3, <1>5, <1>6, <1>7 DEF Verdict, Fits, IsFinalAck, c
<1>9. QED
  BY <1>3, <1>4, <1>5, <1>8

LEMMA ReducedVerdict ==
    ASSUME OrderlyInv, NEW k \in Task, MutateReduced(k), NEW A, NEW E, Verdict(rec[k], A, E),
           ~Opens(rec[k].id)
    PROVE  Verdict(rec'[k], A, E) /\ pc'[k] # "mirror"
<1>1. PICK c \in todo[k] :
        LET b == mem.mirrors[KeyOf(c.source, c.order, c.target)]
        IN  Journal(k, IF b = NoBinding THEN rec[k]
                       ELSE AckApplied(c.id, rec[k].status,
                                       [kind |-> "upsert", binding |-> Reduced(b, c)]),
                    "idle")
  BY DEF MutateReduced
<1> DEFINE b == mem.mirrors[KeyOf(c.source, c.order, c.target)]
           u == [kind |-> "upsert", binding |-> Reduced(b, c)]
           r == AckApplied(c.id, rec[k].status, u)
<1>2. KeyedInv /\ pc[k] = "mirror"
  BY DEF OrderlyInv, MutateReduced
<1>3. c.id = rec[k].id /\ rec[k].kind = "AckApplied"
  BY <1>2 DEF OrderlyInv, Orderly, KeyedInv, RuntimeTypeInv, Standing
<1>4. (rec'[k] = rec[k] \/ rec'[k] = r) /\ pc'[k] = "append"
  BY <1>1, <1>2, Types DEF Journal, Goto
<1>5. r.id = rec[k].id /\ r.status = rec[k].status /\ r.mutation.kind = "upsert"
  BY <1>3 DEF AckApplied
<1> HIDE DEF r
<1>6. Verdict(r, A, E)
  BY <1>3, <1>5 DEF Verdict, IsFinalAck
<1>7. QED
  BY <1>4, <1>6

LEMMA VerdictsStep ==
    ASSUME IdsTell, MirrorInv, NEW acks \in SUBSET AckType, RuntimeStep(acks),
           NEW A, NEW E, Verdicts(pc, rec, A, E), \A ack \in acks : Fits(ack, A, E)
    PROVE  Verdicts(pc', rec', A, E)
<1> DEFINE Holds(k) == Verdict(rec'[k], A, E) /\ (pc'[k] = "mirror" => ~Opens(rec'[k].id))
<1>1. OrderlyInv /\ RuntimeTypeInv
  BY DEF MirrorInv, OrderlyInv, KeyedInv
<1>2. ASSUME NEW k \in Task, TaskStepOf(k), Holds(k) PROVE Verdicts(pc', rec', A, E)
  BY <1>1, <1>2, OthersStay DEF Verdicts, Unmoved
<1>3. ASSUME NEW k \in Task, OwnStep(k) PROVE Holds(k)
  <2>1. CASE MutateReduced(k)
    BY <1>1, <2>1, ReducedVerdict DEF Verdicts, MutateReduced
  <2>2. CASE ~MutateReduced(k)
    BY <1>1, <1>3, <2>2, RecordMoves DEF Verdicts, Verdict
  <2>3. QED
    BY <2>1, <2>2
<1>4. ASSUME NEW k \in Task, NEW ack \in acks, HandleAck(k, ack) PROVE Holds(k)
  BY <1>4, AckFits
<1>5. CASE Restarts
  BY <1>5 DEF Restarts, FreshTasks, Verdicts, Verdict, NoRecord
<1>6. CASE UNCHANGED <<pc, rec>>
  BY <1>6 DEF Verdicts
<1>7. \/ \E k \in Task : OwnStep(k) /\ TaskStepOf(k)
      \/ \E k \in Task, ack \in acks : HandleAck(k, ack) /\ TaskStepOf(k)
      \/ Restarts \/ UNCHANGED <<pc, rec>>
  BY DEF RuntimeStep, OwnStep, TaskStepOf, Takes, Closes, taskVars, runtimeVars
<1>8. QED
  BY <1>2, <1>3, <1>4, <1>5, <1>6, <1>7

(* A position is accounted for: its command is tracked or it is bound.  A   *)
(* record with a fitting verdict leaves it so, when no other position was   *)
(* opened under its key.                                                    *)
Safe(s, c) == Tracked(s, c) \/ s.mirrors[KeyOfId(c)].position = c

LEMMA ApplySafe ==
    ASSUME IdsTell, NEW s \in ReplayType, NEW r \in RecordType, NEW c \in CommandId,
           NEW A, NEW E, Verdict(r, A, E), BindsIn(r, OpenRefs(A)), Opens(c), c \notin E,
           \A x \in A \cup E : x \in CommandId /\ Opens(x) /\ KeyOfId(x) = KeyOfId(c) => x = c,
           Safe(s, c)
    PROVE  Safe(Apply(s, r), c)
<1> DEFINE key == KeyOfId(c)
<1>1. key \in Key
  BY KeyOfIdTyped
<1>2. CASE IsFinalAck(r) /\ r.id = c
  <2>1. r.kind = "AckApplied" /\ r.mutation \in MutationType
    BY <1>2, RecordShape DEF IsFinalAck
  <2>2. r.mutation.kind = "upsert" /\ r.mutation.binding.position = c
    BY <1>2, <2>1 DEF Verdict
  <2>3. BindingKey(r.mutation.binding) = key
    BY <2>1, <2>2 DEF BindsIn, OpenRefs
  <2>4. Apply(s, r).mirrors = Mutate(s.mirrors, r.mutation)
    BY <2>1, ApplyAck
  <2>5. s.mirrors \in [Key -> BindingType \cup {NoBinding}]
    BY SMT DEF ReplayType
  <2>6. Apply(s, r).mirrors[key] = r.mutation.binding
    BY <1>1, <2>1, <2>2, <2>3, <2>4, <2>5, MutateEntry
  <2>7. QED
    BY <2>2, <2>6 DEF Safe
<1>3. CASE Tracked(s, c) /\ ~(IsFinalAck(r) /\ r.id = c)
  BY <1>3, StaysTracked DEF Safe
<1>4. CASE s.mirrors[key].position = c
  <2>1. CASE r.kind # "AckApplied"
    BY <1>1, <1>4, <2>1, ApplyMirror DEF Safe
  <2>2. CASE r.kind = "AckApplied"
    <3>1. r.mutation \in MutationType /\ Apply(s, r).mirrors = Mutate(s.mirrors, r.mutation)
      BY <2>2, RecordShape, ApplyAck
    <3>2. s.mirrors \in [Key -> BindingType \cup {NoBinding}]
      BY SMT DEF ReplayType
    <3>3. r.mutation.kind = "remove" => r.mutation.key # key
      BY <2>2 DEF Verdict
    <3>4. r.mutation.kind = "upsert" /\ BindingKey(r.mutation.binding) = key
            => r.mutation.binding.position = c
      BY <2>2 DEF BindsIn, OpenRefs
    <3>5. Apply(s, r).mirrors[key].position = c
      BY <1>1, <1>4, <3>1, <3>2, <3>3, <3>4, MutateEntry
    <3>6. QED
      BY <3>5 DEF Safe
  <2>3. QED
    BY <2>1, <2>2
<1>5. QED
  BY <1>2, <1>3, <1>4 DEF Safe

LEMMA FitsRefers ==
    ASSUME IdsTell, MirrorInv, NEW ack \in AckType, NEW A, NEW E, Fits(ack, A, E)
    PROVE  LET c == mem.commands[ack.id].command
           IN  Tracked(mem, ack.id) /\ c.action = "open"
                 /\ ack.status \in Success /\ ack.position # NoPosition
                 => <<ack.position, KeyOf(c.source, c.order, c.target)>> \in OpenRefs(A)
<1> DEFINE c == mem.commands[ack.id].command
<1> SUFFICES ASSUME Tracked(mem, ack.id), c.action = "open", ack.status \in Success,
                    ack.position # NoPosition
             PROVE  <<ack.position, KeyOf(c.source, c.order, c.target)>> \in OpenRefs(A)
  OBVIOUS
<1>1. KeyedInv /\ ack.id \in CommandId
  BY SMT DEF MirrorInv, OrderlyInv, AckType
<1>2. c.id = ack.id /\ SoundCommand(c)
  BY <1>1 DEF KeyedInv, WellKeyed, MirrorInv, SoundState
<1>3. /\ Opens(ack.id) /\ KeyOf(c.source, c.order, c.target) = KeyOfId(ack.id)
      /\ KeyOfId(ack.id) \in Key
  BY <1>2, IdTells
<1>4. ack.id \in A /\ ack.position = ack.id
  BY DEF Fits, Success
<1>5. QED
  BY <1>1, <1>3, <1>4 DEF OpenRefs

(* References and verdicts hold on, when everything acknowledged fits.      *)
LEMMA FittingStep ==
    ASSUME IdsTell, ShelvedInv, NEW acks \in SUBSET AckType, RuntimeStep(acks),
           NEW A, NEW E, \A ack \in acks : Fits(ack, A, E),
           References(mem, file, rec, todo, chan, OpenRefs(A)), Verdicts(pc, rec, A, E)
    PROVE  /\ References(mem', file', rec', todo', chan', OpenRefs(A))
           /\ Verdicts(pc', rec', A, E)
<1>1. MirrorInv
  BY DEF ShelvedInv
<1>2. Verdicts(pc', rec', A, E)
  BY <1>1, VerdictsStep
<1>3. \A ack \in acks :
        LET c == mem.commands[ack.id].command
        IN  Tracked(mem, ack.id) /\ c.action = "open"
              /\ ack.status \in Success /\ ack.position # NoPosition
              => <<ack.position, KeyOf(c.source, c.order, c.target)>> \in OpenRefs(A)
  BY <1>1, FitsRefers
<1>4. PICK P : P = OpenRefs(A)
  OBVIOUS
<1>5. References(mem', file', rec', todo', chan', P)
  BY <1>3, <1>4, ReferencesStep
<1>6. QED
  BY <1>2, <1>4, <1>5

LEMMA ReferencesMore ==
    ASSUME NEW m, NEW f, NEW r, NEW t, NEW q, NEW P, NEW Q, P \subseteq Q,
           References(m, f, r, t, q, P)
    PROVE  References(m, f, r, t, q, Q)
<1>1. \A s : Binds(s, P) => Binds(s, Q)
  BY DEF Binds
<1>2. Referring(P) \subseteq Referring(Q)
  BY DEF Referring, Refers
<1>3. \A x : BindsIn(x, P) => BindsIn(x, Q)
  BY DEF BindsIn
<1>4. QED
  BY <1>1, <1>2, <1>3, AmongMore DEF References, Mentions

LEMMA FinalizeSafe ==
    ASSUME NEW s \in ReplayType, NEW c \in CommandId, Safe(s, c)
    PROVE  Safe(Finalize(s), c)
<1>1. Finalize(s).mirrors = s.mirrors
  BY SMT DEF Finalize, ReplayType
<1>2. Tracked(s, c) => Tracked(Finalize(s), c)
  BY FinalizeEffect DEF Tracked
<1>3. QED
  BY <1>1, <1>2 DEF Safe

(* What a task is dispatching and what is in a queue is tracked in memory   *)
(* until it is in S, whatever S holds, when every acknowledgement being     *)
(* written is of a command of S.                                            *)
WithinInv(S) ==
    /\ \A k \in Task : WithinTask(k, S)
    /\ \A s \in Session : \A i \in DOMAIN chan[s].queue : Within(S, chan[s].queue[i].id)

LEMMA WithinStart ==
    ASSUME RuntimeInit, NEW S
    PROVE  WithinInv(S)
<1>1. \A k \in Task : rec[k] = NoRecord /\ todo[k] = {}
  BY DEF RuntimeInit, FreshTasks
<1>2. \A s \in Session : chan[s].queue = <<>>
  BY DEF RuntimeInit, FreshTasks
<1>3. QED
  BY <1>1, <1>2 DEF WithinInv, WithinTask

LEMMA WithinStep ==
    ASSUME MirrorInv, RuntimeStep(AckType), NEW S, WithinInv(S),
           \A k \in Task : IsFinalAck(rec[k]) => rec[k].id \in S
    PROVE  WithinInv(S)'
<1> DEFINE Later(c) == c \in S \/ Tracked(mem', c)
<1>1. /\ OrderlyInv /\ KeyedInv /\ RuntimeTypeInv
      /\ chan \in [Session -> [open : BOOLEAN, queue : Seq(CommandType)]]
  BY DEF MirrorInv, OrderlyInv, KeyedInv, RuntimeTypeInv, RuntimeTypeOK
<1>2. ASSUME NEW s \in Session, NEW i \in DOMAIN chan[s].queue
      PROVE  chan[s].queue[i].id \in CommandId
  <2> DEFINE q == chan[s].queue
  <2>1. q \in Seq(CommandType)
    BY <1>1
  <2> HIDE DEF q
  <2>2. \A n \in DOMAIN q : q[n] \in CommandType
    BY <2>1, SMT
  <2>3. \A d \in CommandType : d.id \in CommandId
    BY SMT DEF CommandType
  <2>4. QED
    BY <1>2, <2>2, <2>3 DEF q
<1>3. ASSUME NEW k \in Task, TaskStepOf(k)
      PROVE  /\ \A c \in CommandId : Within(S, c) => Within(S, c)'
             /\ \A j \in Task : WithinTask(j, S)'
  <2>1. CASE ApplyRecord(k)
    BY <2>1, ApplyWithin DEF WithinInv
  <2>2. CASE AppendRecord(k) \/ \E label \in Exit : AppendFails(k, label)
    <3>1. /\ \A j \in Task \ {k} : Unmoved(j)
          /\ mem' = mem
      BY <1>1, <1>3, <2>2, OthersStay DEF AppendRecord, AppendFails
    <3>2. \/ pc[k] = "append" /\ rec'[k] = rec[k] /\ todo'[k] = todo[k]
          \/ rec'[k] = NoRecord /\ todo'[k] = {}
      BY <1>1, <2>2, Types DEF AppendRecord, AppendFails, Fail
    <3>3. QED
      BY <3>1, <3>2 DEF WithinInv, WithinTask, Within, Tracked, StateOf, Unmoved
  <2>3. CASE ~Writes(k)
    <3>1. (\A j \in Task \ {k} : Unmoved(j)) /\ mem' = mem
      BY <1>1, <1>3, <2>3, OthersStay, QuietTask
    <3>2. WithinTask(k, S)'
      BY <1>3, <2>3, QuietWithin DEF WithinInv
    <3>3. QED
      BY <3>1, <3>2 DEF WithinInv, WithinTask, Within, Tracked, StateOf, Unmoved
  <2>4. QED
    BY <2>1, <2>2, <2>3 DEF Writes
<1>4. CASE Restarts
  BY <1>4 DEF Restarts, FreshTasks, WithinInv, WithinTask
<1>5. CASE UNCHANGED <<mem, taskVars>> \/ \E k \in Task : TaskStepOf(k)
  <2>1. /\ \A c \in CommandId : Within(S, c) => Within(S, c)'
        /\ \A j \in Task : WithinTask(j, S)'
    BY <1>3, <1>5 DEF WithinInv, WithinTask, Within, Tracked, StateOf, taskVars
  <2>0. \A c \in CommandId : Within(S, c) => Later(c)
    BY <2>1 DEF Within
  <2> HIDE DEF Later
  <2>2. ASSUME NEW k \in Task, Send(k), NEW s \in Session, NEW i \in DOMAIN chan'[s].queue
        PROVE  Later(chan'[s].queue[i].id)
    <3>1. PICK c \in todo[k] :
            /\ c \in CommandType /\ c.id = rec[k].id
            /\ \/ i \in DOMAIN chan[s].queue /\ chan'[s].queue[i] = chan[s].queue[i]
               \/ chan'[s].queue[i] = c
      BY <1>1, <2>2, SendMoves
    <3>2. Within(S, c.id) /\ c.id \in CommandId
      <4>1. rec[k] # NoRecord /\ ~IsPlanned(rec[k])
        BY <1>1, <2>2 DEF Send, KeyedInv, RuntimeTypeInv, Standing, NoRecord, IsPlanned
      <4>2. c.id \in CommandId
        BY <3>1, SMT DEF CommandType
      <4>3. QED
        BY <3>1, <4>1, <4>2 DEF WithinInv, WithinTask
    <3>3. QED
      BY <1>2, <2>0, <3>1, <3>2 DEF WithinInv
  <2>3. ASSUME NEW t \in Session, Takes(t), NEW s \in Session, NEW i \in DOMAIN chan'[s].queue
        PROVE  Later(chan'[s].queue[i].id)
    BY <1>1, <1>2, <2>0, <2>3, TakesMoves DEF WithinInv
  <2>4. ASSUME NEW s \in Session, chan'[s].queue = <<>> \/ chan'[s] = chan[s],
               NEW i \in DOMAIN chan'[s].queue
        PROVE  Later(chan'[s].queue[i].id)
    BY <1>2, <2>0, <2>4 DEF WithinInv
  <2>5. \A s \in Session : \A i \in DOMAIN chan'[s].queue : Later(chan'[s].queue[i].id)
    BY <1>1, <2>2, <2>3, <2>4, QueuesMove
  <2>6. QED
    BY <2>1, <2>5 DEF WithinInv, Within, Later
<1>6. QED
  BY <1>1, <1>4, <1>5, StepKinds

-----------------------------------------------------------------------------
(* A command in the queues of the sessions: while it was sent at most once, *)
(* it is in one place there.                                                *)
InChannel(c) == \E s \in Session : \E i \in DOMAIN chan[s].queue : chan[s].queue[i].id = c

OneQueued(c) ==
    \A s, t \in Session : \A i \in DOMAIN chan[s].queue : \A j \in DOMAIN chan[t].queue :
        chan[s].queue[i].id = c /\ chan[t].queue[j].id = c => s = t /\ i = j

(* A queue gains a command only when a task sends it.                       *)
LEMMA QueueFewer ==
    ASSUME RuntimeTypeInv, RuntimeStep(AckType), NEW c \in CommandId,
           \A k \in Task : ~(Send(k) /\ rec[k].id = c)
    PROVE  /\ handed'[c] = handed[c]
           /\ InChannel(c)' => InChannel(c)
           /\ OneQueued(c) => OneQueued(c)'
<1>1. CASE UNCHANGED <<chan, handed>>
  BY <1>1 DEF InChannel, OneQueued
<1>2. ASSUME NEW k \in Task, Send(k)
      PROVE  /\ handed'[c] = handed[c]
             /\ InChannel(c)' => InChannel(c)
             /\ OneQueued(c) => OneQueued(c)'
  <2>1. PICK d \in todo[k] :
          /\ d.id = rec[k].id
          /\ handed' = [handed EXCEPT ![d.id] = IF @ = 2 THEN 2 ELSE @ + 1]
          /\ \A s \in Session : \A i \in DOMAIN chan'[s].queue :
               \/ i \in DOMAIN chan[s].queue /\ chan'[s].queue[i] = chan[s].queue[i]
               \/ chan'[s].queue[i] = d
    BY <1>2, SendMoves
  <2>2. d.id # c
    BY <1>2, <2>1
  <2>3. \A s \in Session : \A i \in DOMAIN chan'[s].queue : chan'[s].queue[i].id = c =>
          i \in DOMAIN chan[s].queue /\ chan[s].queue[i].id = c
    BY <2>1, <2>2
  <2>4. handed'[c] = handed[c]
    BY <2>1, <2>2 DEF RuntimeTypeInv, RuntimeTypeOK
  <2>5. QED
    BY <2>3, <2>4 DEF InChannel, OneQueued
<1>3. ASSUME handed' = handed, NEW t \in Session, Takes(t)
      PROVE  /\ handed'[c] = handed[c]
             /\ InChannel(c)' => InChannel(c)
             /\ OneQueued(c) => OneQueued(c)'
  <2>1. /\ \A i \in DOMAIN chan'[t].queue :
             /\ i \in Nat /\ i + 1 \in DOMAIN chan[t].queue
             /\ chan'[t].queue[i] = chan[t].queue[i + 1]
        /\ \A s \in Session \ {t} : chan'[s] = chan[s]
    BY <1>3, TakesMoves
  <2>2. InChannel(c)' => InChannel(c)
    BY <2>1 DEF InChannel
  <2>3. ASSUME OneQueued(c), NEW s \in Session, NEW u \in Session,
               NEW i \in DOMAIN chan'[s].queue, NEW j \in DOMAIN chan'[u].queue,
               chan'[s].queue[i].id = c, chan'[u].queue[j].id = c
        PROVE  s = u /\ i = j
    <3>1. CASE s = t /\ u = t
      <4>1. i + 1 = j + 1 /\ i \in Nat /\ j \in Nat
        BY <2>1, <2>3, <3>1 DEF OneQueued
      <4>2. QED
        BY <3>1, <4>1, SMT
    <3>2. CASE s = t /\ u # t
      BY <2>1, <2>3, <3>2 DEF OneQueued
    <3>3. CASE s # t /\ u = t
      BY <2>1, <2>3, <3>3 DEF OneQueued
    <3>4. CASE s # t /\ u # t
      BY <2>1, <2>3, <3>4 DEF OneQueued
    <3>5. QED
      BY <3>1, <3>2, <3>3, <3>4
  <2>4. OneQueued(c) => OneQueued(c)'
    BY <2>3 DEF OneQueued
  <2>5. QED
    BY <1>3, <2>2, <2>4
<1>4. ASSUME handed' = handed,
             \A s \in Session : chan'[s].queue = <<>> \/ chan'[s] = chan[s]
      PROVE  /\ handed'[c] = handed[c]
             /\ InChannel(c)' => InChannel(c)
             /\ OneQueued(c) => OneQueued(c)'
  <2>1. \A s \in Session : \A i \in DOMAIN chan'[s].queue :
          i \in DOMAIN chan[s].queue /\ chan'[s].queue[i] = chan[s].queue[i]
    BY <1>4
  <2>2. QED
    BY <1>4, <2>1 DEF InChannel, OneQueued
<1>5. QED
  BY <1>1, <1>2, <1>3, <1>4, QueuesMove

LEMMA SendCounts ==
    ASSUME RuntimeTypeInv, NEW k \in Task, Send(k), NEW c \in CommandId, rec[k].id = c
    PROVE  /\ handed'[c] = IF handed[c] = 2 THEN 2 ELSE handed[c] + 1
           /\ ~InChannel(c) => OneQueued(c)'
<1>1. PICK d \in todo[k] :
        /\ d.id = rec[k].id
        /\ handed' = [handed EXCEPT ![d.id] = IF @ = 2 THEN 2 ELSE @ + 1]
        /\ \A s \in Session : \A i \in DOMAIN chan'[s].queue :
             \/ i \in DOMAIN chan[s].queue /\ chan'[s].queue[i] = chan[s].queue[i]
             \/ s = sess[k] /\ i = Len(chan[s].queue) + 1
  BY SendMoves
<1>2. handed'[c] = IF handed[c] = 2 THEN 2 ELSE handed[c] + 1
  BY <1>1 DEF RuntimeTypeInv, RuntimeTypeOK
<1>3. ASSUME ~InChannel(c) PROVE OneQueued(c)'
  <2>1. \A s \in Session : \A i \in DOMAIN chan'[s].queue :
          chan'[s].queue[i].id = c => s = sess[k] /\ i = Len(chan[s].queue) + 1
    BY <1>1, <1>3 DEF InChannel
  <2>2. QED
    BY <2>1 DEF OneQueued
<1>4. QED
  BY <1>2, <1>3

LEMMA TakenOut ==
    ASSUME RuntimeTypeInv, NEW t \in Session, Takes(t), NEW c, Head(chan[t].queue).id = c,
           OneQueued(c)
    PROVE  InChannel(c) /\ ~InChannel(c)'
<1>1. /\ 1 \in DOMAIN chan[t].queue /\ chan[t].queue[1].id = c
      /\ \A i \in DOMAIN chan'[t].queue :
           /\ i + 1 # 1 /\ i + 1 \in DOMAIN chan[t].queue
           /\ chan'[t].queue[i] = chan[t].queue[i + 1]
      /\ \A s \in Session \ {t} : chan'[s] = chan[s]
  BY TakesMoves
<1>2. ASSUME NEW s \in Session, NEW i \in DOMAIN chan'[s].queue, chan'[s].queue[i].id = c
      PROVE  FALSE
  <2>1. CASE s = t
    BY <1>1, <1>2, <2>1 DEF OneQueued
  <2>2. CASE s # t
    BY <1>1, <1>2, <2>2 DEF OneQueued
  <2>3. QED
    BY <2>1, <2>2
<1>3. QED
  BY <1>1, <1>2 DEF InChannel
=============================================================================
