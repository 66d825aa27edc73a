--------------------------- MODULE CTraderProofs ---------------------------
(***************************************************************************)
(* Theorems about the accounts attached through a cTrader hub, for every    *)
(* configuration, every order of the broker's messages, every number of     *)
(* restarts and journal errors.                                             *)
(***************************************************************************)
EXTENDS CTraderHub, RecoveryProofs, FiniteSetTheorems

-----------------------------------------------------------------------------
(* The invariant behind the types: what forwarders and hub have in hand     *)
(* came off a channel, so it was built by the engine for one of the hub's   *)
(* accounts.                                                                *)

InHand ==
    {forward[k] : k \in {j \in Task : forward[j] # Idle}}
    \cup {commands[i] : i \in DOMAIN commands}
    \cup pending \cup protecting

HubInv ==
    /\ TypeOK
    /\ ReachInv
    /\ phase = "update" => message \in MessageType
    /\ \A k \in Task : forward[k] # Idle => sid[k] # 0
    /\ \A c \in InHand : Carried(c)
    /\ \A r \in requests : Carried(r.command)

LEMMA EmptyHanded == Init => InHand = {}
BY DEF Init, InHand

LEMMA HubStart ==
    ASSUME Init
    PROVE  HubInv
<1>1. /\ MaxMoves \in Nat /\ MaxCrash \in Nat /\ MaxVolume \in Nat /\ Line \in Seq(Task)
      /\ Capacity \in Nat
  BY HubAssumption, RuntimeAssumption
<1>2. 0 \in 0..Len(Line) /\ 0 \in 0..MaxMoves /\ 0 \in 0..MaxCrash
  BY <1>1, SMT
<1>3. <<>> \in Seq(CommandType) /\ <<>> \in Seq(MessageType) /\ Len(<<>>) <= 2 * Capacity
  BY <1>1, SMT
<1>4. TypeOK
  BY <1>2, <1>3, RuntimeTypeInit, Zenon DEF Init, TypeOK, RuntimeTypeInv
<1>5. InHand = {}
  BY EmptyHanded
<1>6. QED
  BY <1>4, <1>5, ReachStart DEF Init, HubInv

LEMMA CommandFacts ==
    ASSUME NEW c, Carried(c)
    PROVE  /\ c \in CommandType /\ c.id \in CommandId
           /\ c.action # "open" => c.position \in CommandId
           /\ TaskOf(c.target) \in Task /\ Owner[TaskOf(c.target)] = c.target
<1>1. SoundCommand(c) /\ Served(c.target)
  BY DEF Carried
<1>2. c \in CommandType /\ (c.action # "open" => c.position \in CommandId)
  BY <1>1, BuiltFacts DEF Position
<1>3. TaskOf(c.target) \in Task /\ Owner[TaskOf(c.target)] = c.target
  BY <1>1 DEF Served, TaskOf
<1>4. c.id \in CommandId
  BY <1>2, SMT DEF CommandType
<1>5. QED
  BY <1>2, <1>3, <1>4

-----------------------------------------------------------------------------
(* Every step is one of the steps of Runtime.  What is reported is an event *)
(* that can occur, and what is acknowledged is a command in hand.           *)

Acked == {ack \in AckType : \E c \in InHand : ack.id = c.id}

(* What the hub acknowledges of a command in hand.                          *)
AckOf(c, status, position) == [id |-> c.id, status |-> status, position |-> position]

LEMMA AcknowledgeMapped ==
    ASSUME HubInv, NEW c \in pending \cup protecting \cup {commands[i] : i \in DOMAIN commands},
           NEW status \in AckStatus, NEW position \in CommandId \cup {NoPosition},
           Acknowledge(c, status, position)
    PROVE  /\ AckOf(c, status, position) \in Acked
           /\ \A acks : AckOf(c, status, position) \in acks => Silent(acks)
<1>1. c \in InHand /\ Carried(c)
  BY DEF InHand, HubInv
<1> DEFINE ack == AckOf(c, status, position)
<1>2. ack \in Acked
  BY <1>1, CommandFacts DEF Acked, AckType, Position, AckOf
<1>3. CASE Tracked(mem, c.id)
  BY <1>1, <1>2, <1>3, CommandFacts DEF Acknowledge, Silent, SilentTask, AckOf
<1>4. CASE ~Tracked(mem, c.id)
  BY <1>2, <1>4 DEF Acknowledge, Silent, SilentTask
<1>5. QED
  BY <1>2, <1>3, <1>4

LEMMA OutcomeTyped ==
    /\ \A type : Outcome(type) \in AckStatus
    /\ "unknown" \in AckStatus /\ "rejected" \in AckStatus
BY DEF Outcome, AckStatus

LEMMA MessageTyped ==
    ASSUME NEW m \in MessageType
    PROVE  /\ m.about = "trader" =>
                m.order \in OrderId /\ m.snapshot \in Snapshot \cup {Unlisted}
           /\ m.about = "request" =>
                /\ m.id \in CommandId /\ m.position \in CommandId \cup {NoPosition}
                /\ m.volume \in Nat
BY SMT DEF MessageType

LEMMA IdIsNoMarker == NoPosition \notin CommandId
<1>1. ASSUME NEW e, NEW i PROVE <<e.id, Rules[i].id, Rules[i].target>> # <<>>
  OBVIOUS
<1>2. QED
  BY <1>1 DEF NoPosition, CommandId

LEMMA EventReported ==
    ASSUME HubInv, NEW o \in OrderId, NEW new \in Snapshot \cup {Unlisted},
           Difference(known[o], new) \in Action, clock < MaxMoves,
           ValidEvent(EventFor(o, known[o], new))
    PROVE  EventFor(o, known[o], new) \in Event
<1> DEFINE old == known[o]
           action == Difference(old, new)
           volume == CASE action = "reduce" -> old.volume - new.volume
                       [] action = "close"  -> old.volume
                       [] OTHER             -> new.volume
           remaining == IF action = "close" THEN 0 ELSE new.volume
<1>1. MaxVolume \in Nat /\ MaxMoves \in Nat
  BY HubAssumption
<1>2. old \in Snapshot \cup {Unlisted} /\ clock \in 0..MaxMoves
  BY DEF HubInv, TypeOK
<1>3. clock \in 0..(MaxMoves - 1)
  BY <1>1, <1>2, SMT
<1>4. \A s \in Snapshot : s.volume \in 0..MaxVolume
  BY DEF Snapshot
<1>5. volume \in 0..MaxVolume /\ remaining \in 0..MaxVolume
  <2>1. CASE old = Unlisted
    <3>1. action = "open" /\ new \in Snapshot
      BY <2>1 DEF Difference, Action
    <3>2. QED
      BY <1>4, <3>1
  <2>2. CASE new = Unlisted
    <3>1. action = "close" /\ old \in Snapshot
      BY <1>2, <2>2 DEF Difference, Action
    <3>2. QED
      BY <1>1, <1>4, <3>1, SMT
  <2>3. CASE old # Unlisted /\ new # Unlisted
    <3>1. old.volume \in 0..MaxVolume /\ new.volume \in 0..MaxVolume
      BY <1>2, <1>4, <2>3
    <3>2. action = "reduce" => new.volume < old.volume
      BY <2>3, <3>1, SMT DEF Difference
    <3>3. action # "close"
      BY <2>3, <3>1, SMT DEF Difference
    <3> HIDE DEF action, old
    <3>4. QED
      BY <1>1, <3>1, <3>2, <3>3, SMT
  <2>4. QED
    BY <2>1, <2>2, <2>3
<1>6. EventFor(o, old, new) = Report(o, action, clock, volume, remaining)
  BY DEF EventFor
<1> HIDE DEF volume, remaining
<1>7. QED
  BY <1>3, <1>5, <1>6, ReportAssumption

LEMMA OrderServed ==
    ASSUME NEW o \in OrderId
    PROVE  AccountOf(o) \in Account /\ TaskOf(AccountOf(o)) \in Task
           /\ Owner[TaskOf(AccountOf(o))] = AccountOf(o)
<1>1. PICK e \in Event : e.order = o
  BY DEF OrderId
<1>2. (CHOOSE f \in Event : f.order = o) \in Event
  BY <1>1
<1>3. \E k \in Task : Owner[k] = AccountOf(o)
  BY <1>2, HubAssumption DEF AccountOf
<1>4. TaskOf(AccountOf(o)) \in Task /\ Owner[TaskOf(AccountOf(o))] = AccountOf(o)
  BY <1>3 DEF TaskOf
<1>5. QED
  BY <1>4, RuntimeAssumption

LEMMA FirstOf ==
    ASSUME NEW S, NEW q \in Seq(S), q # <<>>
    PROVE  /\ Head(q) \in S /\ Tail(q) \in Seq(S) /\ Len(Tail(q)) <= Len(q)
           /\ Head(q) \in {q[i] : i \in DOMAIN q}
           /\ \A i \in DOMAIN Tail(q) : Tail(q)[i] \in {q[j] : j \in DOMAIN q}
<1>1. Head(q) \in S /\ Tail(q) \in Seq(S) /\ Len(Tail(q)) <= Len(q) /\ Head(q) = q[1]
      /\ 1 \in DOMAIN q
  BY SMT
<1>2. \A i \in DOMAIN Tail(q) : i + 1 \in DOMAIN q /\ Tail(q)[i] = q[i + 1]
  BY SMT
<1>3. QED
  BY <1>1, <1>2

LEMMA StepQuiet ==
    ASSUME HubInv, [Next]_vars, ~UpdatePosition, ~TakeCommand, ~HandleMessage
    PROVE  Silent({})
<1>1. CASE SetUpNext
  <2>1. Line[ready + 1] \in Task
    <3>1. Line \in Seq(Task) /\ ready \in 0..Len(Line) /\ ready < Len(Line)
      BY <1>1, HubAssumption DEF SetUpNext, HubInv, TypeOK
    <3>2. QED
      BY <3>1, SMT
  <2>2. QED
    BY <1>1, <2>1 DEF SetUpNext, Silent, SilentTask
<1>2. CASE StartupFails \/ EnterLoop \/ UpdateCopy \/ ConnectionEnds \/ HubEnds
  BY <1>2 DEF StartupFails, EnterLoop, UpdateCopy, ConnectionEnds, HubEnds, Silent, SilentTask
<1>5. ASSUME NEW k \in Task, ForwarderTakes(k) PROVE Silent({})
  <2>1. sid[k] \in Session
    BY <1>5, RuntimeAssumption, SMT DEF ForwarderTakes, HubInv, TypeOK, RuntimeTypeOK, Session
  <2>2. Takes(sid[k])
    BY <1>5 DEF ForwarderTakes, Takes
  <2>3. QED
    BY <2>1, <2>2 DEF Silent, SilentTask
<1>6. ASSUME NEW k \in Task, ForwarderSends(k) PROVE Silent({})
  BY <1>6 DEF ForwarderSends, Silent, SilentTask
<1>7. ASSUME NEW k \in Task, ForwarderEnds(k) PROVE Silent({})
  <2>1. sid[k] \in Session
    BY <1>7, RuntimeAssumption, SMT DEF ForwarderEnds, HubInv, TypeOK, RuntimeTypeOK, Session
  <2>2. Closes(sid[k])
    BY <1>7 DEF ForwarderEnds, Closes
  <2>3. QED
    BY <2>1, <2>2 DEF Silent, SilentTask
<1>8. ASSUME NEW k \in Task, TaskStep(k) PROVE Silent({})
  BY <1>8 DEF TaskStep, Silent, SilentTask
<1>9. ASSUME NEW k \in Task, JournalError(k) PROVE Silent({})
  BY <1>9 DEF JournalError, Silent, SilentTask, Exit
<1>10. ASSUME NEW k \in Task, LeaveNext(k) PROVE Silent({})
  BY <1>10 DEF LeaveNext, Leaves, Silent, SilentTask
<1>11. ASSUME NEW o \in OrderId, Trader(o) PROVE Silent({})
  BY <1>11 DEF Trader, Silent, SilentTask
<1>12. ASSUME NEW r \in requests, Broker(r) PROVE Silent({})
  BY <1>12 DEF Broker, Silent, SilentTask
<1>13. CASE Crash
  BY <1>13 DEF Crash, Silent, SilentTask, Restarts, FreshTasks
<1>14. CASE UNCHANGED vars
  BY <1>14 DEF vars, Silent, SilentTask
<1>15. QED
  BY <1>1, <1>2, <1>5, <1>6, <1>7, <1>8, <1>9, <1>10, <1>11, <1>12,
     <1>13, <1>14 DEF Next

LEMMA MoreAcks ==
    ASSUME NEW acks, Silent({})
    PROVE  Silent(acks)
BY DEF Silent, SilentTask

(* A command is acknowledged when it cannot be asked for, and when a        *)
(* message answers it.                                                      *)
TakeRefused(ack) ==
    /\ ack = AckOf(Head(commands), "rejected", NoPosition)
    /\ Acknowledge(Head(commands), ack.status, ack.position)

ProtectionAcked(m, ack) ==
    \E c \in protecting :
        /\ IsFor(m, c) /\ m.protection
        /\ ack = AckOf(c, IF m.type = "error" THEN "unknown" ELSE Outcome(m.type), c.id)
        /\ Acknowledge(c, ack.status, ack.position)

OutcomeAcked(m, ack) ==
    \E c \in pending :
        /\ IsFor(m, c) /\ ~m.protection
        /\ \/ ack = AckOf(c, "unknown", NoPosition)
           \/ /\ ~(NeedsProtection(c) /\ Outcome(m.type) = "filled")
              /\ ack = AckOf(c, IF m.type = "error" THEN "rejected" ELSE Outcome(m.type),
                             m.position)
        /\ Acknowledge(c, ack.status, ack.position)

LEMMA Answers ==
    ASSUME HubInv, TakeCommand \/ HandleMessage
    PROVE  \/ Silent({})
           \/ \E ack \in Acked :
                /\ \A acks : ack \in acks => Silent(acks)
                /\ \/ TakeCommand /\ TakeRefused(ack)
                   \/ HandleMessage /\ ProtectionAcked(Head(inbox), ack)
                   \/ HandleMessage /\ OutcomeAcked(Head(inbox), ack)
<1>1. CASE TakeCommand
  <2>1. Head(commands) \in {commands[i] : i \in DOMAIN commands}
    BY <1>1, FirstOf DEF TakeCommand, HubInv, TypeOK
  <2>2. CASE UNCHANGED runtimeVars
    BY <2>2 DEF Silent, SilentTask
  <2>3. CASE Acknowledge(Head(commands), "rejected", NoPosition)
    <3> DEFINE ack == AckOf(Head(commands), "rejected", NoPosition)
    <3>1. ack \in Acked /\ \A acks : ack \in acks => Silent(acks)
      BY <2>1, <2>3, AcknowledgeMapped, OutcomeTyped
    <3>2. TakeRefused(ack)
      BY <2>3 DEF TakeRefused, AckOf
    <3>3. QED
      BY <1>1, <3>1, <3>2
  <2>4. QED
    BY <1>1, <2>2, <2>3 DEF TakeCommand
<1>2. CASE HandleMessage
  <2> DEFINE m == Head(inbox)
  <2>1. m \in MessageType
    BY <1>2, FirstOf DEF HandleMessage, HubInv, TypeOK
  <2> HIDE DEF m
  <2>2. CASE HandleProtection(m)
    <3>1. PICK c \in protecting :
            /\ IsFor(m, c) /\ m.protection
            /\ Acknowledge(c, IF m.type = "error" THEN "unknown" ELSE Outcome(m.type), c.id)
      BY <2>2 DEF HandleProtection
    <3>2. Carried(c)
      BY DEF HubInv, InHand
    <3> DEFINE status == IF m.type = "error" THEN "unknown" ELSE Outcome(m.type)
               ack == AckOf(c, status, c.id)
    <3>3. status \in AckStatus /\ c.id \in CommandId
      BY <3>2, CommandFacts, OutcomeTyped
    <3>4. ack \in Acked /\ \A acks : ack \in acks => Silent(acks)
      BY <3>1, <3>3, AcknowledgeMapped
    <3>5. ProtectionAcked(m, ack)
      BY <3>1 DEF ProtectionAcked, AckOf
    <3>6. QED
      BY <1>2, <3>4, <3>5 DEF m
  <2>3. CASE HandleOutcome(m)
    <3>1. PICK c \in pending :
            /\ IsFor(m, c) /\ ~m.protection
            /\ \/ UNCHANGED runtimeVars
               \/ Acknowledge(c, "unknown", NoPosition)
               \/ /\ ~(NeedsProtection(c) /\ Outcome(m.type) = "filled")
                  /\ Acknowledge(c, IF m.type = "error" THEN "rejected" ELSE Outcome(m.type),
                                 m.position)
      BY <2>3 DEF HandleOutcome
    <3>2. m.position \in CommandId \cup {NoPosition}
      BY <2>1, <3>1, MessageTyped DEF IsFor
    <3>3. CASE UNCHANGED runtimeVars
      BY <3>3 DEF Silent, SilentTask
    <3>4. CASE Acknowledge(c, "unknown", NoPosition)
      <4> DEFINE ack == AckOf(c, "unknown", NoPosition)
      <4>1. ack \in Acked /\ \A acks : ack \in acks => Silent(acks)
        BY <3>4, AcknowledgeMapped, OutcomeTyped
      <4>2. OutcomeAcked(m, ack)
        BY <3>1, <3>4 DEF OutcomeAcked, AckOf
      <4>3. QED
        BY <1>2, <4>1, <4>2 DEF m
    <3>5. CASE /\ ~(NeedsProtection(c) /\ Outcome(m.type) = "filled")
               /\ Acknowledge(c, IF m.type = "error" THEN "rejected" ELSE Outcome(m.type),
                              m.position)
      <4> DEFINE status == IF m.type = "error" THEN "rejected" ELSE Outcome(m.type)
                 ack == AckOf(c, status, m.position)
      <4>1. status \in AckStatus
        BY OutcomeTyped
      <4>2. ack \in Acked /\ \A acks : ack \in acks => Silent(acks)
        BY <3>2, <3>5, <4>1, AcknowledgeMapped
      <4>3. OutcomeAcked(m, ack)
        BY <3>1, <3>5 DEF OutcomeAcked, AckOf
      <4>4. QED
        BY <1>2, <4>2, <4>3 DEF m
    <3>6. QED
      BY <3>1, <3>3, <3>4, <3>5
  <2>4. CASE HandleUnmatched(m)
    BY <2>4 DEF HandleUnmatched, Silent, SilentTask
  <2>5. QED
    BY <1>2, <2>2, <2>3, <2>4 DEF HandleMessage, m
<1>3. QED
  BY <1>1, <1>2

LEMMA StepSilent ==
    ASSUME HubInv, [Next]_vars, ~UpdatePosition
    PROVE  Silent(Acked)
BY StepQuiet, MoreAcks, Answers

LEMMA UpdateReported ==
    ASSUME HubInv, UpdatePosition
    PROVE  LET o == message.order
               new == message.snapshot
               e == EventFor(o, known[o], new)
               k == TaskOf(AccountOf(o))
           IN  /\ o \in OrderId /\ new \in Snapshot \cup {Unlisted} /\ k \in Task
               /\ \/ UNCHANGED runtimeVars
                  \/ /\ Difference(known[o], new) \in Action /\ ValidEvent(e)
                     /\ e \in Event /\ HandleEvent(k, e)
<1> DEFINE o == message.order
           new == message.snapshot
           e == EventFor(o, known[o], new)
           k == TaskOf(AccountOf(o))
<1>1. o \in OrderId /\ new \in Snapshot \cup {Unlisted}
  <2>1. message \in MessageType
    BY DEF UpdatePosition, HubInv
  <2>2. QED
    BY <2>1, MessageTyped DEF UpdatePosition
<1>2. \/ UNCHANGED runtimeVars
      \/ /\ Difference(known[o], new) \in Action /\ ValidEvent(e) /\ clock < MaxMoves
         /\ HandleEvent(k, e)
  BY DEF UpdatePosition
<1>3. k \in Task
  BY <1>1, OrderServed
<1>4. CASE UNCHANGED runtimeVars
  BY <1>1, <1>3, <1>4
<1>5. CASE ~UNCHANGED runtimeVars
  <2>1. e \in Event
    BY <1>1, <1>2, <1>5, EventReported
  <2> HIDE DEF e, k
  <2>2. QED
    BY <1>1, <1>2, <1>3, <1>5, <2>1 DEF e, k
<1>6. QED
  BY <1>4, <1>5

LEMMA StepMapped ==
    ASSUME HubInv, [Next]_vars
    PROVE  RuntimeStep(Acked)
<1>1. CASE UpdatePosition
  BY <1>1, UpdateReported DEF RuntimeStep
<1>2. CASE ~UpdatePosition
  BY <1>2, StepSilent, SilentStep
<1>3. QED
  BY <1>1, <1>2

LEMMA AnyStep ==
    ASSUME HubInv, [Next]_vars
    PROVE  RuntimeStep(AckType)
BY StepMapped, FewerAcks DEF Acked

-----------------------------------------------------------------------------
(* The types: the broker's side.                                            *)

LEMMA TellTyped ==
    ASSUME HubInv, NEW a, NEW messages \in Seq(MessageType), Tell(a, messages)
    PROVE  inbox' \in Seq(MessageType)
<1>1. inbox \in Seq(MessageType)
  BY DEF HubInv, TypeOK
<1>2. inbox \o messages \in Seq(MessageType)
  BY <1>1, SMT
<1>3. QED
  BY <1>1, <1>2 DEF Tell

LEMMA TraderTyped ==
    ASSUME HubInv, NEW o \in OrderId, Trader(o)
    PROVE  /\ inbox' \in Seq(MessageType)
           /\ held' \in [OrderId -> Snapshot \cup {Unlisted}]
           /\ traded' \subseteq OrderId /\ moves' \in 0..MaxMoves
<1>1. MaxMoves \in Nat /\ MaxVolume \in Nat
  BY HubAssumption
<1>2. moves' \in 0..MaxMoves
  BY <1>1, SMT DEF Trader, HubInv, TypeOK
<1>3. held \in [OrderId -> Snapshot \cup {Unlisted}] /\ traded \subseteq OrderId
  BY DEF HubInv, TypeOK
<1> DEFINE report(type, snapshot) ==
             [about |-> "trader", type |-> type, order |-> o, snapshot |-> snapshot]
<1>4. PICK new \in (Snapshot \cup {Unlisted}) \ {held[o]}, announced \in BOOLEAN :
        /\ announced => held[o] = Unlisted
        /\ held' = [held EXCEPT ![o] = new]
        /\ Tell(AccountOf(o),
                (IF announced THEN <<report("accepted", [new EXCEPT !.volume = 0])>> ELSE <<>>)
                \o <<report("filled", new)>>)
  BY <1>3 DEF Trader
<1>5. report("filled", new) \in MessageType
  BY SMT DEF MessageType
<1>6. announced => report("accepted", [new EXCEPT !.volume = 0]) \in MessageType
  <2>1. SUFFICES ASSUME announced PROVE [new EXCEPT !.volume = 0] \in Snapshot
    BY DEF MessageType
  <2>2. new \in Snapshot
    BY <1>4, <2>1
  <2>3. 0 \in 0..MaxVolume
    BY <1>1, SMT
  <2>4. QED
    BY <2>2, <2>3 DEF Snapshot
<1> DEFINE head == IF announced THEN <<report("accepted", [new EXCEPT !.volume = 0])>> ELSE <<>>
           last == report("filled", new)
<1>7. head \in Seq(MessageType) /\ <<last>> \in Seq(MessageType)
  <2> DEFINE first == report("accepted", [new EXCEPT !.volume = 0])
  <2> HIDE DEF report
  <2>1. last \in MessageType /\ (announced => first \in MessageType)
    BY <1>5, <1>6
  <2> HIDE DEF last, first
  <2>2. <<last>> \in Seq(MessageType) /\ (announced => <<first>> \in Seq(MessageType))
        /\ <<>> \in Seq(MessageType)
    BY <2>1
  <2>3. QED
    BY <2>2 DEF first
<1> HIDE DEF head, last
<1>8. head \o <<last>> \in Seq(MessageType)
  BY <1>7, SMT
<1>9. inbox' \in Seq(MessageType)
  BY <1>4, <1>8, TellTyped DEF head, last
<1>10. QED
  BY <1>2, <1>3, <1>4, <1>9 DEF Trader

LEMMA ReplyTyped ==
    ASSUME HubInv, NEW r \in requests, NEW type \in ExecutionType \cup {"error"},
           NEW position \in CommandId \cup {NoPosition}, NEW volume \in Nat,
           Reply(r, type, position, volume)
    PROVE  inbox' \in Seq(MessageType)
<1> DEFINE m == [about |-> "request", type |-> type, id |-> r.command.id,
                 protection |-> r.protection, position |-> position, volume |-> volume]
<1>1. Carried(r.command) /\ r \in RequestType
  BY DEF HubInv, TypeOK
<1>2. r.command.id \in CommandId /\ r.protection \in BOOLEAN
  BY <1>1, CommandFacts DEF RequestType
<1>3. m \in MessageType
  BY <1>2, SMT DEF MessageType
<1>4. Tell(r.command.target, <<m>>)
  BY DEF Reply
<1> HIDE DEF m
<1>5. <<m>> \in Seq(MessageType)
  BY <1>3
<1>6. QED
  BY <1>4, <1>5, TellTyped

LEMMA BrokerTyped ==
    ASSUME HubInv, NEW r \in requests, Broker(r)
    PROVE  /\ inbox' \in Seq(MessageType) /\ requests' \subseteq requests
           /\ book' \in [CommandId -> Nat] /\ guarded' \subseteq CommandId
<1>1. /\ book \in [CommandId -> Nat] /\ guarded \subseteq CommandId
      /\ r \in RequestType /\ Carried(r.command)
  BY DEF HubInv, TypeOK
<1> DEFINE c == r.command
           p == IF c.action = "open" THEN c.id ELSE c.position
<1>2. /\ r.volume \in Nat /\ c.id \in CommandId /\ p \in CommandId
      /\ c.action # "open" => c.position \in CommandId
  BY <1>1, CommandFacts DEF RequestType
<1>3. /\ {"filled", "partial", "replaced", "cancelled", "rejected", "other", "error"}
            \subseteq ExecutionType \cup {"error"}
      /\ 0 \in Nat /\ 1 \in Nat
  BY SMT DEF ExecutionType
<1>4. CASE Fill(r)
  <2> DEFINE left == IF c.action = "open" THEN r.volume ELSE NotNegative(book[p] - r.volume)
  <2>1. left \in Nat
    BY <1>1, <1>2, SMT DEF NotNegative
  <2>2. /\ book' = [book EXCEPT ![p] = left] /\ requests' = requests \ {r} /\ guarded' = guarded
        /\ Reply(r, "filled", p, left) \/ Reply(r, "filled", NoPosition, 0)
    BY <1>4 DEF Fill
  <2> HIDE DEF left, p
  <2>3. inbox' \in Seq(MessageType)
    BY <1>2, <1>3, <2>1, <2>2, ReplyTyped
  <2>4. QED
    BY <1>1, <1>2, <2>1, <2>2, <2>3
<1>5. CASE PartialFill(r)
  <2>1. /\ book' = [book EXCEPT ![c.id] = 1] /\ Reply(r, "partial", c.id, 1)
        /\ UNCHANGED <<requests, guarded>>
    BY <1>5 DEF PartialFill
  <2>2. inbox' \in Seq(MessageType)
    BY <1>2, <1>3, <2>1, ReplyTyped
  <2>3. QED
    BY <1>1, <1>2, <1>3, <2>1, <2>2
<1>6. CASE Amend(r)
  <2> DEFINE q == IF r.protection THEN r.command.id ELSE r.command.position
  <2>1. /\ r.protection \/ c.action = "modify"
        /\ requests' = requests \ {r} /\ guarded' = guarded \cup {q}
        /\ Reply(r, "replaced", q, book[q]) /\ book' = book
    BY <1>6 DEF Amend
  <2>2. q \in CommandId
    BY <1>2, <2>1
  <2> HIDE DEF q
  <2>3. inbox' \in Seq(MessageType)
    BY <1>1, <1>3, <2>1, <2>2, ReplyTyped
  <2>4. QED
    BY <1>1, <2>1, <2>2, <2>3
<1>7. CASE Refuse(r)
  <2>1. /\ requests' = requests \ {r} /\ UNCHANGED <<book, guarded>>
        /\ \/ \E type \in (IF r.protection THEN {"rejected", "error"} ELSE {"cancelled"}) :
                Reply(r, type, p, book[p])
           \/ \E type \in {"rejected", "error", "other"} : Reply(r, type, NoPosition, 0)
    BY <1>7 DEF Refuse
  <2> HIDE DEF p
  <2>2. inbox' \in Seq(MessageType)
    BY <1>1, <1>2, <1>3, <2>1, ReplyTyped
  <2>3. QED
    BY <1>1, <2>1, <2>2
<1>8. QED
  BY <1>4, <1>5, <1>6, <1>7 DEF Broker

-----------------------------------------------------------------------------
(* What the hub holds and has asked for.                                    *)

(* The volume of a request is a volume.                                     *)
LEMMA VolumeTyped ==
    ASSUME HubInv, NEW c, Carried(c)
    PROVE  RequestVolume(c) \in Nat
<1>1. c \in CommandType /\ (c.action = "close" => c.position \in CommandId)
  BY CommandFacts
<1>2. c.volume \in Nat
  BY <1>1, SMT DEF CommandType
<1>3. copies \in [CommandId -> Nat]
  BY DEF HubInv, TypeOK
<1>4. QED
  BY <1>1, <1>2, <1>3 DEF RequestVolume

(* A handler leaves the id of its task's session alone.                     *)
LEMMA SidStays ==
    ASSUME NEW k \in Task,
           \/ HandlerStep(k) \/ Leaves(k)
           \/ \E label \in Exit : AppendFails(k, label)
           \/ \E e \in Event : HandleEvent(k, e)
           \/ \E ack \in AckType : HandleAck(k, ack)
    PROVE  sid' = sid
BY DEF HandlerStep, InsertSession, SnapshotQueued, RouteEvent, RoutePanics,
       AppendRecord, ApplyRecord, DispatchNext, Send, SendFails, MutateReduced, Unregister,
       SnapshotDispatched, MarkOrphan, Leaves, AppendFails, Fail, HandleEvent, HandleAck

LEMMA AcknowledgeSid ==
    ASSUME HubInv, NEW c \in pending \cup protecting \cup {commands[i] : i \in DOMAIN commands},
           NEW status \in AckStatus, NEW position \in CommandId \cup {NoPosition},
           Acknowledge(c, status, position)
    PROVE  sid' = sid
<1>1. Carried(c)
  BY DEF InHand, HubInv
<1>2. [id |-> c.id, status |-> status, position |-> position] \in AckType
      /\ TaskOf(c.target) \in Task
  BY <1>1, CommandFacts DEF AckType, Position
<1>3. QED
  BY <1>2, SidStays DEF Acknowledge, runtimeVars, taskVars

(* A command comes into a forwarder's hand off the channel of its session;  *)
(* from there it is passed on.                                              *)
HandFacts ==
    /\ forward' \in [Task -> CommandType \cup {Idle}]
    /\ commands' \in Seq(CommandType) /\ Len(commands') <= 2 * Capacity
    /\ \A k \in Task : forward'[k] # Idle => sid'[k] # 0
    /\ \A c \in InHand' : Carried(c)

LEMMA HandKept ==
    ASSUME HubInv, forward' = forward \/ forward' = [k \in Task |-> Idle],
           commands' = commands \/ commands' = <<>>,
           pending' \subseteq pending, protecting' \subseteq pending \cup protecting,
           \/ forward' = [k \in Task |-> Idle] \/ sid' = sid
           \/ \E k \in Task : sid' = [sid EXCEPT ![k] = nextId]
    PROVE  HandFacts
<1>1. /\ forward \in [Task -> CommandType \cup {Idle}]
      /\ commands \in Seq(CommandType) /\ Len(commands) <= 2 * Capacity
      /\ sid \in [Task -> 0..MaxSession] /\ nextId \in 1..(MaxSession + 1)
      /\ Capacity \in Nat /\ MaxSession \in Nat
  BY RuntimeAssumption DEF HubInv, TypeOK, RuntimeTypeOK
<1>2. <<>> \in Seq(CommandType) /\ Len(<<>>) <= 2 * Capacity /\ nextId # 0
  BY <1>1, SMT
<1>3. \A k \in Task : forward'[k] # Idle => sid'[k] # 0
  BY <1>1, <1>2 DEF HubInv
<1>4. /\ \A k \in Task : forward'[k] # Idle => Carried(forward'[k])
      /\ \A i \in DOMAIN commands' : Carried(commands'[i])
      /\ \A c \in pending' \cup protecting' : Carried(c)
  BY DEF HubInv, InHand
<1>5. QED
  BY <1>1, <1>2, <1>3, <1>4 DEF HandFacts, InHand

LEMMA HandMoves ==
    ASSUME HubInv, [Next]_vars
    PROVE  HandFacts
<1>1. /\ forward \in [Task -> CommandType \cup {Idle}]
      /\ commands \in Seq(CommandType) /\ Len(commands) <= 2 * Capacity
      /\ sid \in [Task -> 0..MaxSession]
      /\ Capacity \in Nat /\ MaxSession \in Nat
  BY RuntimeAssumption DEF HubInv, TypeOK, RuntimeTypeOK
<1>2. CASE SetUpNext
  <2>1. Line[ready + 1] \in Task
    <3>1. Line \in Seq(Task) /\ ready \in 0..Len(Line) /\ ready < Len(Line)
      BY <1>2, HubAssumption DEF SetUpNext, HubInv, TypeOK
    <3>2. QED
      BY <3>1, SMT
  <2>2. QED
    BY <1>2, <2>1, HandKept DEF SetUpNext, DrawSessionId
<1>3. CASE StartupFails \/ EnterLoop \/ UpdateCopy \/ ConnectionEnds \/ HubEnds
  <2>1. sid' = sid
    BY <1>3 DEF StartupFails, EnterLoop, UpdateCopy, ConnectionEnds, HubEnds, runtimeVars,
                taskVars
  <2>2. QED
    BY <1>3, <2>1, HandKept DEF StartupFails, EnterLoop, UpdateCopy, ConnectionEnds, HubEnds, Stop
<1>4. CASE TakeCommand
  <2> DEFINE c == Head(commands)
  <2>1. /\ c \in {commands[i] : i \in DOMAIN commands} /\ Tail(commands) \in Seq(CommandType)
        /\ Len(Tail(commands)) <= Len(commands)
        /\ \A i \in DOMAIN Tail(commands) :
              Tail(commands)[i] \in {commands[j] : j \in DOMAIN commands}
    BY <1>1, <1>4, FirstOf DEF TakeCommand
  <2>2. /\ commands' = Tail(commands) /\ forward' = forward /\ protecting' = protecting
        /\ pending' \subseteq pending \cup {c}
        /\ UNCHANGED runtimeVars \/ Acknowledge(c, "rejected", NoPosition)
    BY <1>4 DEF TakeCommand, Await
  <2> HIDE DEF c
  <2>3. c \in InHand /\ Carried(c)
    BY <2>1 DEF InHand, HubInv
  <2>4. sid' = sid
    <3>1. CASE UNCHANGED runtimeVars
      BY <3>1 DEF runtimeVars, taskVars
    <3>2. CASE Acknowledge(c, "rejected", NoPosition)
      BY <2>1, <3>2, AcknowledgeSid, OutcomeTyped DEF c
    <3>3. QED
      BY <2>2, <3>1, <3>2
  <2>5. Len(commands') <= 2 * Capacity
    <3>1. Len(commands') \in Nat /\ Len(commands) \in Nat
      BY <1>1, <2>1, <2>2, SMT
    <3>2. QED
      BY <1>1, <2>1, <2>2, <3>1, SMT
  <2>6. \A d \in InHand' : d \in InHand
    BY <2>1, <2>2, <2>3 DEF InHand
  <2>7. QED
    BY <1>1, <2>1, <2>2, <2>4, <2>5, <2>6 DEF HandFacts, HubInv
<1>5. CASE HandleMessage
  <2>1. sid' = sid
    <3> DEFINE m == Head(inbox)
    <3>1. m \in MessageType
      BY <1>5, FirstOf DEF HandleMessage, HubInv, TypeOK
    <3> HIDE DEF m
    <3>2. CASE HandleProtection(m)
      <4>1. PICK c \in protecting :
              Acknowledge(c, IF m.type = "error" THEN "unknown" ELSE Outcome(m.type), c.id)
        BY <3>2 DEF HandleProtection
      <4>2. c.id \in CommandId
        BY CommandFacts DEF InHand, HubInv
      <4>3. QED
        BY <4>1, <4>2, AcknowledgeSid, OutcomeTyped
    <3>3. CASE HandleOutcome(m)
      <4>1. PICK c \in pending :
              /\ IsFor(m, c)
              /\ \/ UNCHANGED runtimeVars
                 \/ Acknowledge(c, "unknown", NoPosition)
                 \/ Acknowledge(c, IF m.type = "error" THEN "rejected" ELSE Outcome(m.type),
                                m.position)
        BY <3>3 DEF HandleOutcome
      <4>2. m.position \in CommandId \cup {NoPosition}
        BY <3>1, <4>1, MessageTyped DEF IsFor
      <4>3. CASE UNCHANGED runtimeVars
        BY <4>3 DEF runtimeVars, taskVars
      <4>4. QED
        BY <4>1, <4>2, <4>3, AcknowledgeSid, OutcomeTyped
    <3>4. CASE HandleUnmatched(m)
      BY <3>4 DEF HandleUnmatched, runtimeVars, taskVars
    <3>5. QED
      BY <1>5, <3>2, <3>3, <3>4 DEF HandleMessage, m
  <2>2. /\ forward' = forward /\ commands' = commands
        /\ pending' \subseteq pending /\ protecting' \subseteq pending \cup protecting
    BY <1>5 DEF HandleMessage, HandleProtection, HandleOutcome, HandleUnmatched
  <2>3. QED
    BY <2>1, <2>2, HandKept
<1>6. CASE UpdatePosition
  <2>1. UNCHANGED <<forward, commands, pending, protecting>>
    BY <1>6 DEF UpdatePosition
  <2>2. sid' = sid
    BY <1>6 DEF UpdatePosition, HandleEvent, runtimeVars, taskVars
  <2>3. QED
    BY <2>1, <2>2, HandKept
<1>7. ASSUME NEW k \in Task, ForwarderTakes(k) PROVE HandFacts
  <2> DEFINE c == Head(chan[sid[k]].queue)
  <2>1. sid[k] \in Session /\ sid[k] # 0 /\ chan[sid[k]].queue # <<>>
    BY <1>1, <1>7, SMT DEF ForwarderTakes, Session
  <2>2. Carried(c)
    BY <2>1, TakenCarried DEF HubInv
  <2> HIDE DEF c
  <2>3. c \in CommandType
    BY <2>2, CommandFacts
  <2>4. /\ forward' = [forward EXCEPT ![k] = c] /\ sid' = sid
        /\ UNCHANGED <<commands, pending, protecting>>
    BY <1>7 DEF ForwarderTakes, taskVars, c
  <2>5. \A j \in Task : forward'[j] # Idle => sid'[j] # 0 /\ Carried(forward'[j])
    BY <1>1, <2>1, <2>2, <2>4 DEF HubInv, InHand
  <2>6. QED
    BY <1>1, <2>3, <2>4, <2>5 DEF HandFacts, HubInv, InHand
<1>8. ASSUME NEW k \in Task, ForwarderSends(k) PROVE HandFacts
  <2> DEFINE c == forward[k]
  <2>1. /\ c \in CommandType /\ Carried(c) /\ Len(commands) < 2 * Capacity
        /\ commands' = Append(commands, c) /\ forward' = [forward EXCEPT ![k] = Idle]
        /\ sid' = sid /\ UNCHANGED <<pending, protecting>>
    BY <1>1, <1>8 DEF ForwarderSends, HubInv, InHand, runtimeVars, taskVars
  <2> HIDE DEF c
  <2>2. /\ commands' \in Seq(CommandType) /\ Len(commands') <= 2 * Capacity
        /\ \A i \in DOMAIN commands' : commands'[i] = c \/ commands'[i] \in
                {commands[j] : j \in DOMAIN commands}
    <3>1. commands' \in Seq(CommandType) /\ Len(commands') = Len(commands) + 1
          /\ Len(commands) \in Nat
      BY <1>1, <2>1, SMT
    <3>2. Len(commands') <= 2 * Capacity
      BY <1>1, <2>1, <3>1, SMT
    <3>3. \A i \in DOMAIN commands' :
            commands'[i] = c \/ (i \in DOMAIN commands /\ commands'[i] = commands[i])
      BY <1>1, <2>1, SMT
    <3>4. QED
      BY <3>1, <3>2, <3>3
  <2>3. \A j \in Task : forward'[j] # Idle => forward'[j] = forward[j]
    BY <1>1, <2>1
  <2>4. \A d \in InHand' : d \in InHand \/ d = c
    BY <2>1, <2>2, <2>3 DEF InHand
  <2>5. QED
    BY <1>1, <2>1, <2>2, <2>3, <2>4 DEF HandFacts, HubInv
<1>9. ASSUME NEW k \in Task, ForwarderEnds(k) PROVE HandFacts
  <2>1. /\ forward' = [forward EXCEPT ![k] = Idle] /\ sid' = sid
        /\ UNCHANGED <<commands, pending, protecting>>
    BY <1>9 DEF ForwarderEnds, taskVars
  <2>2. \A j \in Task : forward'[j] # Idle => forward'[j] = forward[j]
    BY <1>1, <2>1
  <2>3. \A d \in InHand' : d \in InHand
    BY <2>1, <2>2 DEF InHand
  <2>4. QED
    BY <1>1, <2>1, <2>2, <2>3 DEF HandFacts, HubInv
<1>10. ASSUME NEW k \in Task, TaskStep(k) \/ JournalError(k) \/ LeaveNext(k) PROVE HandFacts
  <2>1. sid' = sid
    <3>1. CASE TaskStep(k)
      BY <3>1, SidStays DEF TaskStep
    <3>2. CASE JournalError(k)
      BY <3>2 DEF JournalError, AppendFails, Fail
    <3>3. CASE LeaveNext(k)
      BY <3>3 DEF LeaveNext
    <3>4. QED
      BY <1>10, <3>1, <3>2, <3>3
  <2>2. /\ forward' = forward /\ (commands' = commands \/ commands' = <<>>)
        /\ pending' \subseteq pending /\ protecting' \subseteq protecting
    BY <1>10 DEF TaskStep, JournalError, LeaveNext, Stop, hubVars
  <2>3. QED
    BY <2>1, <2>2, HandKept
<1>11. CASE Crash
  BY <1>11, HandKept DEF Crash
<1>12. CASE (\E o \in OrderId : Trader(o)) \/ (\E r \in requests : Broker(r)) \/ UNCHANGED vars
  <2>1. UNCHANGED <<runtimeVars, hubVars>>
    BY <1>12 DEF Trader, Broker, vars
  <2>2. QED
    BY <2>1, HandKept DEF hubVars, runtimeVars, taskVars
<1>13. QED
  BY <1>2, <1>3, <1>4, <1>5, <1>6, <1>7, <1>8, <1>9, <1>10, <1>11, <1>12 DEF Next

-----------------------------------------------------------------------------
(* The other types.                                                         *)

LEMMA RequestsMove ==
    ASSUME HubInv, [Next]_vars
    PROVE  requests' \subseteq RequestType /\ \A r \in requests' : Carried(r.command)
<1>1. requests \subseteq RequestType /\ \A r \in requests : Carried(r.command)
  BY DEF HubInv, TypeOK
<1>2. ASSUME NEW c, Carried(c), NEW protection \in BOOLEAN, NEW volume \in Nat,
             requests' = requests \cup
                {[command |-> c, protection |-> protection, volume |-> volume]}
      PROVE  requests' \subseteq RequestType /\ \A r \in requests' : Carried(r.command)
  BY <1>1, <1>2, CommandFacts DEF RequestType
<1>3. CASE TakeCommand
  <2>1. Carried(Head(commands))
    BY <1>3, FirstOf DEF TakeCommand, HubInv, TypeOK, InHand
  <2>2. \/ requests' = requests \cup
             {[command |-> Head(commands), protection |-> FALSE,
               volume |-> RequestVolume(Head(commands))]}
        \/ requests' = requests
    BY <1>3 DEF TakeCommand
  <2>3. QED
    BY <1>1, <1>2, <2>1, <2>2, VolumeTyped
<1>4. CASE HandleMessage
  <2>1. \/ \E c \in pending :
             requests' = requests \cup {[command |-> c, protection |-> TRUE, volume |-> 0]}
        \/ requests' = requests
    BY <1>4 DEF HandleMessage, HandleProtection, HandleOutcome, HandleUnmatched
  <2>2. \A c \in pending : Carried(c)
    BY DEF HubInv, InHand
  <2>3. 0 \in Nat
    BY SMT
  <2>4. QED
    BY <1>1, <1>2, <2>1, <2>2, <2>3
<1>5. CASE \E r \in requests : Broker(r)
  BY <1>1, <1>5, BrokerTyped
<1>6. ASSUME requests' = requests
      PROVE  requests' \subseteq RequestType /\ \A r \in requests' : Carried(r.command)
  BY <1>1, <1>6
<1>7. CASE \/ SetUpNext \/ StartupFails \/ EnterLoop \/ UpdatePosition \/ UpdateCopy
           \/ ConnectionEnds \/ HubEnds \/ Crash \/ UNCHANGED vars
           \/ \E k \in Task : \/ ForwarderTakes(k) \/ ForwarderSends(k) \/ ForwarderEnds(k)
                              \/ TaskStep(k) \/ JournalError(k) \/ LeaveNext(k)
           \/ \E o \in OrderId : Trader(o)
  BY <1>6, <1>7 DEF SetUpNext, StartupFails, EnterLoop, UpdatePosition, UpdateCopy,
       ConnectionEnds, HubEnds, Crash, ForwarderTakes, ForwarderSends, ForwarderEnds, TaskStep,
       JournalError, LeaveNext, Trader, vars, brokerVars
<1>8. QED
  BY <1>3, <1>4, <1>5, <1>7 DEF Next

LEMMA InboxMoves ==
    ASSUME HubInv, [Next]_vars
    PROVE  /\ inbox' \in Seq(MessageType)
           /\ message' \in MessageType \cup {NoMessage}
           /\ phase' = "update" => message' \in MessageType
           /\ phase' \in {"startup", "loop", "update", "leaving", "stopped"}
<1> DEFINE Moved == /\ inbox' \in Seq(MessageType)
                    /\ message' \in MessageType \cup {NoMessage}
                    /\ phase' = "update" => message' \in MessageType
                    /\ phase' \in {"startup", "loop", "update", "leaving", "stopped"}
<1>1. /\ inbox \in Seq(MessageType) /\ message \in MessageType \cup {NoMessage}
      /\ phase = "update" => message \in MessageType
      /\ phase \in {"startup", "loop", "update", "leaving", "stopped"}
      /\ <<>> \in Seq(MessageType)
  BY DEF HubInv, TypeOK
<1>2. CASE HandleMessage
  <2> DEFINE m == Head(inbox)
  <2>1. m \in MessageType /\ Tail(inbox) \in Seq(MessageType)
    BY <1>1, <1>2, FirstOf DEF HandleMessage
  <2>2. /\ inbox' = Tail(inbox)
        /\ \/ UNCHANGED <<phase, message>>
           \/ phase' = "update" /\ message' = m
    BY <1>2 DEF HandleMessage
  <2> HIDE DEF m
  <2>3. QED
    BY <1>1, <2>1, <2>2
<1>3. CASE (\E o \in OrderId : Trader(o)) \/ (\E r \in requests : Broker(r))
  <2>1. inbox' \in Seq(MessageType)
    BY <1>3, TraderTyped, BrokerTyped
  <2>2. UNCHANGED <<phase, message>>
    BY <1>3 DEF Trader, Broker, hubVars
  <2>3. QED
    BY <1>1, <2>1, <2>2
<1>4. CASE SetUpNext \/ Crash
  BY <1>1, <1>4 DEF SetUpNext, Crash
<1>5. CASE \/ StartupFails \/ EnterLoop \/ UpdatePosition \/ UpdateCopy
           \/ ConnectionEnds \/ HubEnds \/ TakeCommand
  BY <1>1, <1>5 DEF StartupFails, EnterLoop, UpdatePosition, UpdateCopy, ConnectionEnds, HubEnds,
                    TakeCommand, Stop, brokerVars
<1>6. ASSUME NEW k \in Task,
             \/ ForwarderTakes(k) \/ ForwarderSends(k) \/ ForwarderEnds(k)
             \/ TaskStep(k) \/ JournalError(k) \/ LeaveNext(k)
      PROVE  Moved
  BY <1>1, <1>6 DEF ForwarderTakes, ForwarderSends, ForwarderEnds, TaskStep, JournalError,
                    LeaveNext, Stop, hubVars, brokerVars
<1>7. CASE UNCHANGED vars
  BY <1>1, <1>7 DEF vars, hubVars, brokerVars
<1>8. QED
  BY <1>2, <1>3, <1>4, <1>5, <1>6, <1>7 DEF Next

(* What the hub keeps of positions, and what there is at the broker.        *)
LEMMA PositionsMove ==
    ASSUME HubInv, [Next]_vars
    PROVE  /\ known' \in [OrderId -> Snapshot \cup {Unlisted}]
           /\ copies' \in [CommandId -> Nat]
           /\ held' \in [OrderId -> Snapshot \cup {Unlisted}]
           /\ traded' \subseteq OrderId
           /\ book' \in [CommandId -> Nat]
           /\ guarded' \subseteq CommandId
<1>1. /\ known \in [OrderId -> Snapshot \cup {Unlisted}]
      /\ copies \in [CommandId -> Nat]
      /\ held \in [OrderId -> Snapshot \cup {Unlisted}]
      /\ traded \subseteq OrderId
      /\ book \in [CommandId -> Nat]
      /\ guarded \subseteq CommandId
  BY DEF HubInv, TypeOK
<1>2. /\ held' \in [OrderId -> Snapshot \cup {Unlisted}] /\ traded' \subseteq OrderId
  <2>1. UNCHANGED <<held, traded>> \/ \E o \in OrderId : Trader(o)
    BY DEF Next, SetUpNext, StartupFails, EnterLoop, UpdatePosition, UpdateCopy, HandleMessage,
           TakeCommand, ConnectionEnds, HubEnds, Crash, ForwarderTakes, ForwarderSends,
           ForwarderEnds, TaskStep, JournalError, LeaveNext, Broker, vars, brokerVars
  <2>2. QED
    BY <1>1, <2>1, TraderTyped
<1>3. book' \in [CommandId -> Nat] /\ guarded' \subseteq CommandId
  <2>1. UNCHANGED <<book, guarded>> \/ \E r \in requests : Broker(r)
    BY DEF Next, SetUpNext, StartupFails, EnterLoop, UpdatePosition, UpdateCopy, HandleMessage,
           TakeCommand, ConnectionEnds, HubEnds, Crash, ForwarderTakes, ForwarderSends,
           ForwarderEnds, TaskStep, JournalError, LeaveNext, Trader, vars, brokerVars
  <2>2. QED
    BY <1>1, <2>1, BrokerTyped
<1>4. known' \in [OrderId -> Snapshot \cup {Unlisted}] /\ copies' \in [CommandId -> Nat]
  <2>1. CASE SetUpNext
    BY <1>1, <2>1 DEF SetUpNext, ReconcilePositions
  <2>2. CASE UpdatePosition
    <3>1. message.snapshot \in Snapshot \cup {Unlisted}
      BY <2>2, MessageTyped DEF UpdatePosition, HubInv
    <3>2. QED
      BY <1>1, <2>2, <3>1 DEF UpdatePosition, KeepPosition
  <2>3. CASE UpdateCopy
    <3>1. message.volume \in Nat
      BY <2>3, MessageTyped DEF UpdateCopy, HubInv
    <3>2. QED
      BY <1>1, <2>3, <3>1 DEF UpdateCopy, KeepCopy
  <2>4. CASE Crash
    <3>1. 0 \in Nat
      BY SMT
    <3>2. QED
      BY <2>4, <3>1 DEF Crash
  <2>5. CASE UNCHANGED <<known, copies>>
    BY <1>1, <2>5
  <2>6. QED
    BY <2>1, <2>2, <2>3, <2>4, <2>5
       DEF Next, StartupFails, EnterLoop, HandleMessage, TakeCommand, ConnectionEnds, HubEnds,
           Stop, ForwarderTakes, ForwarderSends, ForwarderEnds, TaskStep, JournalError,
           LeaveNext, Trader, Broker, vars, hubVars
<1>5. QED
  BY <1>2, <1>3, <1>4

LEMMA CountersMove ==
    ASSUME HubInv, [Next]_vars
    PROVE  /\ ready' \in 0..Len(Line) /\ moves' \in 0..MaxMoves /\ clock' \in 0..MaxMoves
           /\ crashes' \in 0..MaxCrash /\ missed' \in BOOLEAN
<1>1. /\ ready \in 0..Len(Line) /\ moves \in 0..MaxMoves /\ clock \in 0..MaxMoves
      /\ crashes \in 0..MaxCrash /\ missed \in BOOLEAN
      /\ MaxMoves \in Nat /\ MaxCrash \in Nat /\ Len(Line) \in Nat
  BY HubAssumption DEF HubInv, TypeOK
<1>2. ready' \in 0..Len(Line)
  <2>1. ready' = ready \/ ready' = 0 \/ (ready < Len(Line) /\ ready' = ready + 1)
    BY DEF Next, SetUpNext, StartupFails, EnterLoop, UpdatePosition, UpdateCopy, HandleMessage,
           TakeCommand, ConnectionEnds, HubEnds, Stop, Crash, ForwarderTakes, ForwarderSends,
           ForwarderEnds, TaskStep, JournalError, LeaveNext, Trader, Broker, vars, hubVars
  <2>2. QED
    BY <1>1, <2>1, SMT
<1>3. moves' \in 0..MaxMoves
  <2>1. moves' = moves \/ (moves < MaxMoves /\ moves' = moves + 1)
    BY DEF Next, SetUpNext, StartupFails, EnterLoop, UpdatePosition, UpdateCopy, HandleMessage,
           TakeCommand, ConnectionEnds, HubEnds, Crash, ForwarderTakes, ForwarderSends,
           ForwarderEnds, TaskStep, JournalError, LeaveNext, Trader, Broker, vars, brokerVars
  <2>2. QED
    BY <1>1, <2>1, SMT
<1>4. clock' \in 0..MaxMoves
  <2>1. clock' = clock \/ (clock < MaxMoves /\ clock' = clock + 1)
    BY DEF Next, SetUpNext, StartupFails, EnterLoop, UpdatePosition, UpdateCopy, HandleMessage,
           TakeCommand, ConnectionEnds, HubEnds, Crash, ForwarderTakes, ForwarderSends,
           ForwarderEnds, TaskStep, JournalError, LeaveNext, Trader, Broker, vars, historyVars
  <2>2. QED
    BY <1>1, <2>1, SMT
<1>5. crashes' \in 0..MaxCrash
  <2>1. crashes' = crashes \/ (crashes < MaxCrash /\ crashes' = crashes + 1)
    BY DEF Next, SetUpNext, StartupFails, EnterLoop, UpdatePosition, UpdateCopy, HandleMessage,
           TakeCommand, ConnectionEnds, HubEnds, Crash, ForwarderTakes, ForwarderSends,
           ForwarderEnds, TaskStep, JournalError, LeaveNext, Trader, Broker, vars, historyVars
  <2>2. QED
    BY <1>1, <2>1, SMT
<1>6. missed' \in BOOLEAN
  BY <1>1 DEF Next, SetUpNext, StartupFails, EnterLoop, UpdatePosition, UpdateCopy,
           HandleMessage, TakeCommand, ConnectionEnds, HubEnds, Crash, ForwarderTakes,
           ForwarderSends, ForwarderEnds, TaskStep, JournalError, LeaveNext, Trader, Broker,
           vars, historyVars
<1>7. QED
  BY <1>2, <1>3, <1>4, <1>5, <1>6

LEMMA RefusedMoves ==
    ASSUME HubInv, [Next]_vars
    PROVE  refused' \subseteq CommandId
<1>1. refused \subseteq CommandId
  BY DEF HubInv, TypeOK
<1>2. CASE TakeCommand
  <2>1. Carried(Head(commands))
    BY <1>2, FirstOf DEF TakeCommand, HubInv, TypeOK, InHand
  <2>2. refused' \subseteq refused \cup {Head(commands).id}
    BY <1>2 DEF TakeCommand, Acknowledge
  <2>3. QED
    BY <1>1, <2>1, <2>2, CommandFacts
<1>3. CASE HandleMessage
  <2>1. refused' \subseteq refused \cup {c.id : c \in pending \cup protecting}
    BY <1>3 DEF HandleMessage, HandleProtection, HandleOutcome, HandleUnmatched, Acknowledge
  <2>2. \A c \in pending \cup protecting : c.id \in CommandId
    BY CommandFacts DEF HubInv, InHand
  <2>3. QED
    BY <1>1, <2>1, <2>2
<1>4. CASE refused' = refused
  BY <1>1, <1>4
<1>5. QED
  BY <1>2, <1>3, <1>4
     DEF Next, SetUpNext, StartupFails, EnterLoop, UpdatePosition, UpdateCopy, ConnectionEnds,
         HubEnds, Crash, ForwarderTakes, ForwarderSends, ForwarderEnds, TaskStep, JournalError,
         LeaveNext, Trader, Broker, vars, historyVars

LEMMA HubStep ==
    ASSUME HubInv, [Next]_vars
    PROVE  HubInv'
<1>1. RuntimeStep(AckType)
  BY AnyStep
<1>2. ReachInv' /\ RuntimeTypeInv'
  BY <1>1, ReachStep DEF HubInv, ReachInv, MirrorInv, OrderlyInv, KeyedInv
<1>3. HandFacts
  BY HandMoves
<1>4. \A c \in pending' \cup protecting' : c \in CommandType
  BY <1>3, CommandFacts DEF HandFacts, InHand
<1>5. TypeOK'
  BY <1>2, <1>3, <1>4, RequestsMove, InboxMoves, PositionsMove, CountersMove, RefusedMoves
     DEF TypeOK, HandFacts, RuntimeTypeInv
<1>6. QED
  BY <1>2, <1>3, <1>5, RequestsMove, InboxMoves DEF HubInv, HandFacts, Carried

(* Every variable of the daemon, the hub and the broker keeps its type.     *)
THEOREM TypeCorrect == Spec => []TypeOK
<1>1. Init => HubInv
  BY HubStart
<1>2. HubInv /\ [Next]_vars => HubInv'
  BY HubStep
<1>3. HubInv => TypeOK
  BY DEF HubInv
<1>4. QED
  BY <1>1, <1>2, <1>3, PTL DEF Spec

-----------------------------------------------------------------------------
(* No event finds a binding with which a route could not be computed        *)
(* (RouteError::InvalidMirror), in whatever order the broker's messages     *)
(* come, whatever is lost with a connection and however often the daemon    *)
(* restarts.                                                                *)
THEOREM BindingsAreValid == Spec => []MirrorsAreValid
<1>1. Init => HubInv
  BY HubStart
<1>2. HubInv /\ [Next]_vars => HubInv'
  BY HubStep
<1>3. HubInv => MirrorsAreValid
  BY MirrorValid DEF HubInv, ReachInv
<1>4. QED
  BY <1>1, <1>2, <1>3, PTL DEF Spec

-----------------------------------------------------------------------------
(* The promises of CommandLedger: what the hub acknowledges was taken off a *)
(* channel, and is therefore on record.                                     *)

HubLedger == HubInv /\ LedgerInv /\ \A c \in InHand : Issued(c.id)

LEMMA HandOrigin ==
    ASSUME HubInv, [Next]_vars, NEW c \in InHand'
    PROVE  c \in InHand \/ \E s \in Session : chan[s].queue # <<>> /\ c = Head(chan[s].queue)
<1>1. /\ forward \in [Task -> CommandType \cup {Idle}]
      /\ commands \in Seq(CommandType) /\ sid \in [Task -> 0..MaxSession] /\ MaxSession \in Nat
  BY RuntimeAssumption DEF HubInv, TypeOK, RuntimeTypeOK
<1> DEFINE Kept == /\ \A k \in Task : forward'[k] # Idle => forward'[k] \in InHand
                   /\ \A i \in DOMAIN commands' : commands'[i] \in InHand
                   /\ pending' \subseteq InHand /\ protecting' \subseteq InHand
<1>2. Kept => c \in InHand
  BY DEF InHand
<1>3. /\ \A k \in Task : forward[k] # Idle => forward[k] \in InHand
      /\ \A i \in DOMAIN commands : commands[i] \in InHand
      /\ pending \subseteq InHand /\ protecting \subseteq InHand
  BY DEF InHand
<1> HIDE DEF Kept
<1>4. CASE UNCHANGED <<forward, commands, pending, protecting>>
  BY <1>2, <1>3, <1>4 DEF Kept
<1>5. CASE TakeCommand
  <2>1. /\ commands' = Tail(commands) /\ commands # <<>> /\ forward' = forward
        /\ protecting' = protecting /\ pending' \subseteq pending \cup {Head(commands)}
    BY <1>5 DEF TakeCommand, Await
  <2>2. /\ Head(commands) \in {commands[i] : i \in DOMAIN commands}
        /\ \A i \in DOMAIN Tail(commands) :
              Tail(commands)[i] \in {commands[j] : j \in DOMAIN commands}
    BY <1>1, <2>1, FirstOf
  <2>3. Kept
    BY <1>3, <2>1, <2>2 DEF Kept
  <2>4. QED
    BY <1>2, <2>3
<1>6. CASE HandleMessage
  <2>1. /\ forward' = forward /\ commands' = commands
        /\ pending' \subseteq pending /\ protecting' \subseteq pending \cup protecting
    BY <1>6 DEF HandleMessage, HandleProtection, HandleOutcome, HandleUnmatched
  <2>2. QED
    BY <1>2, <1>3, <2>1 DEF Kept
<1>7. ASSUME NEW k \in Task, ForwarderTakes(k)
      PROVE  c \in InHand \/ \E s \in Session : chan[s].queue # <<>> /\ c = Head(chan[s].queue)
  <2> DEFINE d == Head(chan[sid[k]].queue)
  <2>1. sid[k] \in Session /\ chan[sid[k]].queue # <<>>
    BY <1>1, <1>7, SMT DEF ForwarderTakes, Session
  <2>2. forward' = [forward EXCEPT ![k] = d] /\ UNCHANGED <<commands, pending, protecting>>
    BY <1>7 DEF ForwarderTakes
  <2> HIDE DEF d
  <2>3. \A j \in Task : forward'[j] = forward[j] \/ forward'[j] = d
    BY <1>1, <2>2
  <2>4. c \in InHand \/ c = d
    BY <1>3, <2>2, <2>3 DEF InHand
  <2>5. QED
    BY <2>1, <2>4 DEF d
<1>8. ASSUME NEW k \in Task, ForwarderSends(k) PROVE c \in InHand
  <2>1. /\ commands' = Append(commands, forward[k]) /\ forward' = [forward EXCEPT ![k] = Idle]
        /\ UNCHANGED <<pending, protecting>> /\ forward[k] \in CommandType /\ forward[k] \in InHand
    BY <1>1, <1>3, <1>8 DEF ForwarderSends
  <2> DEFINE d == forward[k]
  <2> HIDE DEF d
  <2>2. \A i \in DOMAIN Append(commands, d) :
          d \in CommandType => Append(commands, d)[i] = d
            \/ (i \in DOMAIN commands /\ Append(commands, d)[i] = commands[i])
    BY <1>1, SMT
  <2>3. \A i \in DOMAIN commands' : commands'[i] \in InHand
    BY <1>3, <2>1, <2>2 DEF d
  <2>4. \A j \in Task : forward'[j] # Idle => forward'[j] = forward[j]
    BY <1>1, <2>1
  <2>5. QED
    BY <1>2, <1>3, <2>1, <2>3, <2>4 DEF Kept
<1>9. ASSUME NEW k \in Task, ForwarderEnds(k) PROVE c \in InHand
  <2>1. /\ forward' = [forward EXCEPT ![k] = Idle] /\ UNCHANGED <<commands, pending, protecting>>
    BY <1>9 DEF ForwarderEnds
  <2>2. \A j \in Task : forward'[j] # Idle => forward'[j] = forward[j]
    BY <1>1, <2>1
  <2>3. QED
    BY <1>2, <1>3, <2>1, <2>2 DEF Kept
<1>10. CASE Crash \/ StartupFails
  BY <1>2, <1>3, <1>10 DEF Crash, StartupFails, Kept
<1>11. CASE HubEnds \/ \E k \in Task : TaskStep(k) \/ JournalError(k)
  <2>1. UNCHANGED <<forward, commands, pending, protecting>> \/ Stop
        \/ (forward' = forward /\ commands' = commands /\ pending' = pending
            /\ protecting' = protecting)
    BY <1>11 DEF HubEnds, TaskStep, JournalError, hubVars
  <2>2. QED
    BY <1>2, <1>3, <1>4, <2>1 DEF Stop, Kept
<1>12. QED
  BY <1>4, <1>5, <1>6, <1>7, <1>8, <1>9, <1>10, <1>11
     DEF Next, SetUpNext, EnterLoop, UpdatePosition, UpdateCopy, ConnectionEnds,
         LeaveNext, Trader, Broker, vars, hubVars

LEMMA StepAcknowledged ==
    ASSUME HubLedger, [Next]_vars
    PROVE  RuntimeStep(IssuedAcks)
<1>1. Acked \subseteq IssuedAcks
  BY DEF Acked, IssuedAcks, HubLedger
<1>2. QED
  BY <1>1, StepMapped, FewerAcks DEF HubLedger

LEMMA HubLedgerStep ==
    ASSUME HubLedger, [Next]_vars
    PROVE  HubLedger' /\ [Ledger!LedgerNext]_Ledger!ledgerVars
<1>1. LedgerInv' /\ Onward /\ [Ledger!LedgerNext]_Ledger!ledgerVars
  BY StepAcknowledged, LedgerStep DEF HubLedger
<1>2. ASSUME NEW c \in InHand' PROVE c.id \in CommandId /\ Issued(c.id)
  <2>1. Carried(c)
    BY HandMoves DEF HandFacts, HubLedger
  <2>2. QED
    BY <2>1, CommandFacts, HandOrigin, TakenIssued DEF HubLedger
<1>3. \A c \in InHand' : Issued(c.id)'
  BY <1>1, <1>2 DEF Onward
<1>4. QED
  BY <1>1, <1>3, HubStep DEF HubLedger

(* The hub implements CommandLedger: in whatever order the broker answers,  *)
(* however often the daemon restarts and whichever append fails, the record *)
(* of a command only moves forward, and what is put on a channel is on      *)
(* record as issued first.                                                  *)
THEOREM LedgerImplemented == Spec => ImplementsLedger
<1>1. Init => HubLedger /\ Ledger!LedgerInit
  BY HubStart, LedgerStart, EmptyHanded DEF Init, HubLedger
<1>2. HubLedger /\ [Next]_vars => HubLedger' /\ [Ledger!LedgerNext]_Ledger!ledgerVars
  BY HubLedgerStep
<1>3. QED
  BY <1>1, <1>2, PTL DEF Spec, ImplementsLedger, Ledger!LedgerSpec

(* run_hub calls the handlers of an account for no one else: the account    *)
(* has one task.                                                            *)
LEMMA OneTaskEach == \A j, k \in Task : Owner[j] = Owner[k] => j = k
<1> SUFFICES ASSUME NEW j \in Task, NEW k \in Task, Owner[j] = Owner[k] PROVE j = k
  OBVIOUS
<1>1. PICK m \in DOMAIN Line : Line[m] = j
  BY HubAssumption
<1>2. PICK n \in DOMAIN Line : Line[n] = k
  BY HubAssumption
<1>3. m = n
  BY <1>1, <1>2, HubAssumption
<1>4. QED
  BY <1>1, <1>2, <1>3

(* A command whose terminal acknowledgement the hub has journaled is never  *)
(* tracked again: the event it came from is not planned a second time.      *)
THEOREM SettledFinal == Spec => []SettledIsFinal
<1>1. Init => HubInv /\ FinalInv
  BY HubStart, FinalStart DEF Init
<1>2. HubInv /\ FinalInv /\ [Next]_vars => HubInv' /\ FinalInv'
  BY HubStep, AnyStep, FinalStep, OneTaskEach DEF OnePublisher
<1>3. FinalInv => SettledIsFinal
  BY FinalSettled
<1>4. QED
  BY <1>1, <1>2, <1>3, PTL DEF Spec

(* What was put on the channel of an account is in the journal as           *)
(* dispatched, UNKNOWN or ended for good, whatever becomes of the hub: no   *)
(* restart can find it new or still queued.                                 *)
THEOREM WrittenAhead == Spec => []WriteAhead
<1>1. Init => HubLedger /\ HandedInv /\ FinalInv
  BY HubStart, LedgerStart, EmptyHanded, HandedStart, FinalStart DEF Init, HubLedger
<1>2. HubLedger /\ HandedInv /\ FinalInv /\ [Next]_vars
        => HubLedger' /\ HandedInv' /\ FinalInv'
  <2> SUFFICES ASSUME HubLedger, HandedInv, FinalInv, [Next]_vars
               PROVE  HubLedger' /\ HandedInv' /\ FinalInv'
    OBVIOUS
  <2>1. HandedInv'
    BY StepAcknowledged, HandedStep DEF HubLedger
  <2>2. FinalInv'
    BY AnyStep, FinalStep, OneTaskEach DEF OnePublisher, HubLedger
  <2>3. QED
    BY <2>1, <2>2, HubLedgerStep
<1>3. HubLedger /\ HandedInv /\ FinalInv => WriteAhead
  BY AheadWritten DEF HubLedger
<1>4. QED
  BY <1>1, <1>2, <1>3, PTL DEF Spec

(* However the hub's tasks interleave their appends with their              *)
(* applications, with no failing append a restart finds what the memory     *)
(* held.                                                                    *)
THEOREM RestartFindsMemory == Spec => []RecoveryEquivalence
<1>1. Init => HubInv /\ LevelInv
  BY HubStart, LevelStart DEF Init
<1>2. HubInv /\ LevelInv /\ [Next]_vars => HubInv' /\ LevelInv'
  BY HubStep, AnyStep, LevelStep, OneTaskEach DEF OneTask
<1>3. LevelInv => RecoveryEquivalence
  BY LevelEquivalent
<1>4. QED
  BY <1>1, <1>2, <1>3, PTL DEF Spec

-----------------------------------------------------------------------------
(* What the hub is told of its traders' positions, and in which order.      *)

Gone(o) == o \in traded /\ held[o] = Unlisted
Hooked(o) == TaskOf(AccountOf(o)) \in SetUp
About(m, o) == m.about = "trader" /\ m.order = o

Truthful(m) ==
    m.about = "trader" =>
        /\ m.order \in traded /\ Hooked(m.order)
        /\ m.snapshot = Unlisted => Gone(m.order)

(* That a position is closed is the last that is said of it.                *)
InOrder(q) ==
    \A i, j \in DOMAIN q :
        i < j /\ q[i].about = "trader" /\ About(q[j], q[i].order) => q[i].snapshot # Unlisted

StreamInv ==
    /\ \A o \in OrderId : held[o] # Unlisted => o \in traded
    /\ \A i \in DOMAIN inbox : Truthful(inbox[i])
    /\ InOrder(inbox)
    /\ message # NoMessage =>
         /\ Truthful(message)
         /\ message.about = "trader" /\ message.snapshot = Unlisted =>
                \A i \in DOMAIN inbox : ~About(inbox[i], message.order)
    /\ phase = "startup" => message = NoMessage

LEMMA StreamStart == Init => StreamInv
BY DEF Init, StreamInv, InOrder

LEMMA AppendOne ==
    ASSUME NEW q \in Seq(MessageType), NEW m \in MessageType
    PROVE  /\ q \o <<m>> \in Seq(MessageType)
           /\ \A i \in DOMAIN (q \o <<m>>) :
                \/ i \in DOMAIN q /\ (q \o <<m>>)[i] = q[i]
                \/ i = Len(q) + 1 /\ (q \o <<m>>)[i] = m
           /\ \A i \in DOMAIN q : i \in Nat /\ i < Len(q) + 1
           /\ Len(q) \in Nat
BY SMT

LEMMA AppendInOrder ==
    ASSUME NEW q \in Seq(MessageType), NEW m \in MessageType, InOrder(q),
           \A i \in DOMAIN q :
              q[i].about = "trader" /\ About(m, q[i].order) => q[i].snapshot # Unlisted
    PROVE  InOrder(q \o <<m>>)
<1> DEFINE r == q \o <<m>>
<1>1. /\ \A i \in DOMAIN r : (i \in DOMAIN q /\ r[i] = q[i]) \/ (i = Len(q) + 1 /\ r[i] = m)
      /\ \A i \in DOMAIN q : i \in Nat /\ i < Len(q) + 1
      /\ Len(q) \in Nat
  BY AppendOne
<1> HIDE DEF r
<1>2. ASSUME NEW i \in DOMAIN r, NEW j \in DOMAIN r, i < j, r[i].about = "trader",
             About(r[j], r[i].order)
      PROVE  r[i].snapshot # Unlisted
  <2>1. i \in DOMAIN q /\ r[i] = q[i]
    <3>1. CASE i = Len(q) + 1
      <4>1. j \in Nat /\ j <= Len(q) + 1
        BY <1>1, SMT
      <4>2. QED
        BY <1>1, <1>2, <3>1, <4>1, SMT
    <3>2. QED
      BY <1>1, <3>1
  <2>2. QED
    BY <1>1, <1>2, <2>1 DEF InOrder
<1>3. QED
  BY <1>2 DEF InOrder, r

LEMMA TailInOrder ==
    ASSUME NEW q \in Seq(MessageType), q # <<>>, InOrder(q)
    PROVE  /\ InOrder(Tail(q))
           /\ \A i \in DOMAIN Tail(q) : \E j \in DOMAIN q : Tail(q)[i] = q[j]
           /\ Head(q).about = "trader" /\ Head(q).snapshot = Unlisted =>
                \A i \in DOMAIN Tail(q) : ~About(Tail(q)[i], Head(q).order)
<1>1. /\ \A i \in DOMAIN Tail(q) :
           /\ i \in Nat /\ i + 1 \in DOMAIN q /\ Tail(q)[i] = q[i + 1] /\ 1 < i + 1
      /\ 1 \in DOMAIN q /\ Head(q) = q[1]
  BY SMT
<1>2. \A i, j \in DOMAIN Tail(q) : i < j => i + 1 < j + 1
  BY <1>1, SMT
<1>3. QED
  BY <1>1, <1>2 DEF InOrder

(* The account of a position does not change, and it is set up once.        *)
LEMMA SetUpMoves ==
    ASSUME HubInv, [Next]_vars
    PROVE  \/ SetUp' = SetUp /\ ~SetUpNext
           \/ Crash /\ SetUp' = {}
           \/ /\ SetUpNext /\ Line[ready + 1] \in Task
              /\ SetUp' = SetUp \cup {Line[ready + 1]}
<1>1. CASE SetUpNext
  <2>1. Line \in Seq(Task) /\ ready \in 0..Len(Line) /\ ready < Len(Line) /\ ready' = ready + 1
    BY <1>1, HubAssumption DEF SetUpNext, HubInv, TypeOK
  <2>2. Line[ready + 1] \in Task
    BY <2>1, SMT
  <2>3. 1..(ready + 1) = (1..ready) \cup {ready + 1}
    BY <2>1, SMT
  <2>4. QED
    BY <1>1, <2>1, <2>2, <2>3 DEF SetUp
<1>2. CASE Crash
  <2>1. ready' = 0 /\ 1..0 = {}
    BY <1>2, SMT DEF Crash
  <2>2. QED
    BY <1>2, <2>1 DEF SetUp
<1>3. CASE ~SetUpNext /\ ~Crash
  <2>1. ready' = ready
    BY <1>3 DEF Next, StartupFails, EnterLoop, UpdatePosition, UpdateCopy, HandleMessage,
           TakeCommand, ConnectionEnds, HubEnds, Stop, ForwarderTakes, ForwarderSends,
           ForwarderEnds, TaskStep, JournalError, LeaveNext, Trader, Broker, vars, hubVars
  <2>2. QED
    BY <1>3, <2>1 DEF SetUp
<1>4. QED
  BY <1>1, <1>2, <1>3

LEMMA TraderMoves ==
    ASSUME HubInv, StreamInv, [Next]_vars
    PROVE  /\ traded \subseteq traded'
           /\ \A o \in OrderId : held'[o] # Unlisted => o \in traded'
           /\ \A o \in OrderId : Gone(o) => Gone(o)' /\ ~Trader(o)
<1>1. ASSUME NEW o \in OrderId, Trader(o)
      PROVE  /\ traded \subseteq traded' /\ ~Gone(o)
             /\ \A p \in OrderId : held'[p] # Unlisted => p \in traded'
             /\ \A p \in OrderId : Gone(p) => Gone(p)'
  <2>1. PICK new \in Snapshot \cup {Unlisted} :
          /\ held[o] = Unlisted => o \notin traded
          /\ held' = [held EXCEPT ![o] = new]
    BY <1>1 DEF Trader
  <2>2. traded' = traded \cup {o}
    BY <1>1 DEF Trader
  <2>3. held \in [OrderId -> Snapshot \cup {Unlisted}]
    BY DEF HubInv, TypeOK
  <2>4. QED
    BY <2>1, <2>2, <2>3 DEF StreamInv, Gone
<1>2. CASE UNCHANGED <<held, traded>> /\ \A o \in OrderId : ~Trader(o)
  BY <1>2 DEF StreamInv, Gone
<1>3. CASE \A o \in OrderId : ~Trader(o)
  <2>1. UNCHANGED <<held, traded>>
    BY <1>3 DEF Next, SetUpNext, StartupFails, EnterLoop, UpdatePosition, UpdateCopy,
           HandleMessage, TakeCommand, ConnectionEnds, HubEnds, Crash, ForwarderTakes,
           ForwarderSends, ForwarderEnds, TaskStep, JournalError, LeaveNext, Broker, vars,
           brokerVars
  <2>2. QED
    BY <1>2, <1>3, <2>1
<1>4. QED
  BY <1>1, <1>3

(* How the broker answers a request: that a protection is set only when it  *)
(* is, and of an open nothing but the position it opened.                   *)
AnswerOf(r, m) ==
    /\ m.about = "request" /\ m.id = r.command.id
    /\ m.protection /\ m.type \in {"filled", "replaced"} => m.id \in guarded'
    /\ r.command.action = "open" => m.position \in {m.id, NoPosition}

(* What a trader's step can say: the truth, about a position it opened at   *)
(* an account that is set up.                                               *)
Said(m) ==
    /\ m \in MessageType
    /\ m.about = "trader" \/ \E r \in requests : AnswerOf(r, m)
    /\ m.about = "trader" =>
         /\ m.order \in OrderId /\ Trader(m.order)
         /\ m.order \in traded' /\ Hooked(m.order)
         /\ m.snapshot = Unlisted => held'[m.order] = Unlisted

Grows ==
    \/ \E m : Said(m) /\ inbox' = inbox \o <<m>>
    \/ \E m, n : Said(m) /\ Said(n) /\ inbox' = (inbox \o <<m>>) \o <<n>>
                 /\ (m.about = "trader" => m.snapshot # Unlisted)

LEMMA TraderSays ==
    ASSUME HubInv, NEW o \in OrderId, Trader(o)
    PROVE  inbox' = inbox \/ Grows
<1> DEFINE report(type, snapshot) ==
             [about |-> "trader", type |-> type, order |-> o, snapshot |-> snapshot]
<1>1. PICK new \in (Snapshot \cup {Unlisted}) \ {held[o]}, announced \in BOOLEAN :
        /\ announced => held[o] = Unlisted
        /\ held' = [held EXCEPT ![o] = new]
        /\ Tell(AccountOf(o),
                (IF announced THEN <<report("accepted", [new EXCEPT !.volume = 0])>> ELSE <<>>)
                \o <<report("filled", new)>>)
  BY DEF Trader
<1>2. /\ inbox \in Seq(MessageType) /\ o \in traded' /\ MaxVolume \in Nat
      /\ held \in [OrderId -> Snapshot \cup {Unlisted}]
  BY HubAssumption DEF HubInv, TypeOK, Trader
<1>3. held'[o] = new
  BY <1>1, <1>2
<1> DEFINE first == report("accepted", [new EXCEPT !.volume = 0])
           last == report("filled", new)
<1>4. CASE ~Hooked(o)
  BY <1>1, <1>4 DEF Tell, Hooked
<1>5. CASE Hooked(o)
  <2>1. Said(last)
    <3>1. last \in MessageType
      BY SMT DEF MessageType
    <3>2. QED
      BY <1>2, <1>3, <1>5, <3>1 DEF Said
  <2>2. announced => Said(first) /\ first.snapshot # Unlisted
    <3>1. SUFFICES ASSUME announced PROVE Said(first) /\ first.snapshot # Unlisted
      OBVIOUS
    <3>2. new \in Snapshot /\ 0 \in 0..MaxVolume
      BY <1>1, <1>2, <3>1, SMT
    <3>3. [new EXCEPT !.volume = 0] \in Snapshot /\ [new EXCEPT !.volume = 0].volume = 0
      BY <3>2 DEF Snapshot
    <3>4. first \in MessageType
      BY <3>3, SMT DEF MessageType
    <3>5. first.snapshot # Unlisted
      BY <3>3 DEF Unlisted
    <3>6. QED
      BY <1>2, <1>5, <3>4, <3>5 DEF Said
  <2>3. \/ inbox' = inbox
        \/ inbox' = inbox \o ((IF announced THEN <<first>> ELSE <<>>) \o <<last>>)
    BY <1>1 DEF Tell
  <2> HIDE DEF first, last
  <2>4. last \in MessageType /\ (announced => first \in MessageType)
    BY <2>1, <2>2 DEF Said
  <2>5. CASE announced
    <3>1. inbox \o (<<first>> \o <<last>>) = (inbox \o <<first>>) \o <<last>>
      BY <1>2, <2>4, <2>5, SMT
    <3>2. QED
      BY <2>1, <2>2, <2>3, <2>5, <3>1 DEF Grows
  <2>6. CASE ~announced
    <3>1. inbox \o (<<>> \o <<last>>) = inbox \o <<last>>
      BY <1>2, <2>4, SMT
    <3>2. QED
      BY <2>1, <2>3, <2>6, <3>1 DEF Grows
  <2>7. QED
    BY <2>5, <2>6
<1>6. QED
  BY <1>4, <1>5

LEMMA BrokerSays ==
    ASSUME HubInv, NEW r \in requests, Broker(r)
    PROVE  inbox' = inbox \/ \E m \in MessageType : AnswerOf(r, m) /\ inbox' = inbox \o <<m>>
<1>1. /\ book \in [CommandId -> Nat] /\ r \in RequestType /\ Carried(r.command)
  BY DEF HubInv, TypeOK
<1>2. /\ r.volume \in Nat /\ r.protection \in BOOLEAN /\ r.command.id \in CommandId
      /\ r.command.action # "open" => r.command.position \in CommandId
  BY <1>1, CommandFacts DEF RequestType
<1> DEFINE p == IF r.command.action = "open" THEN r.command.id ELSE r.command.position
           Right(type, position) ==
              /\ r.protection /\ type \in {"filled", "replaced"} => r.command.id \in guarded'
              /\ r.command.action = "open" => position \in {r.command.id, NoPosition}
<1>3. ASSUME NEW type \in ExecutionType \cup {"error"},
             NEW position \in CommandId \cup {NoPosition}, NEW volume \in Nat,
             Reply(r, type, position, volume), Right(type, position)
      PROVE  inbox' = inbox \/ \E m \in MessageType : AnswerOf(r, m) /\ inbox' = inbox \o <<m>>
  <2> DEFINE m == [about |-> "request", type |-> type, id |-> r.command.id,
                   protection |-> r.protection, position |-> position, volume |-> volume]
  <2>1. m \in MessageType /\ AnswerOf(r, m)
    BY <1>2, <1>3, SMT DEF MessageType, AnswerOf
  <2>2. QED
    BY <1>3, <2>1 DEF Reply, Tell
<1>4. /\ {"filled", "partial", "replaced", "cancelled", "rejected", "other", "error"}
            \subseteq ExecutionType \cup {"error"}
      /\ 0 \in Nat /\ 1 \in Nat
  BY SMT DEF ExecutionType
<1> DEFINE Replied == \E type \in ExecutionType \cup {"error"},
                         position \in CommandId \cup {NoPosition}, volume \in Nat :
                        Reply(r, type, position, volume) /\ Right(type, position)
<1>5. p \in CommandId /\ (r.command.action = "open" => p = r.command.id)
  BY <1>2
<1>6. CASE Fill(r)
  <2> DEFINE left == IF r.command.action = "open" THEN r.volume
                     ELSE NotNegative(book[p] - r.volume)
  <2>1. left \in Nat
    BY <1>1, <1>2, <1>5, SMT DEF NotNegative
  <2>2. ~r.protection /\ (Reply(r, "filled", p, left) \/ Reply(r, "filled", NoPosition, 0))
    BY <1>6 DEF Fill
  <2> HIDE DEF left, p
  <2>3. Replied
    BY <1>4, <1>5, <2>1, <2>2
  <2>4. QED
    BY <1>3, <2>3
<1>7. CASE PartialFill(r)
  BY <1>2, <1>3, <1>4, <1>7 DEF PartialFill
<1>8. CASE Amend(r)
  <2> DEFINE q == IF r.protection THEN r.command.id ELSE r.command.position
  <2>1. Reply(r, "replaced", q, book[q]) /\ q \in CommandId /\ Right("replaced", q)
    BY <1>2, <1>8 DEF Amend
  <2> HIDE DEF q
  <2>2. Replied
    BY <1>1, <1>4, <2>1
  <2>3. QED
    BY <1>3, <2>2
<1>9. CASE Refuse(r)
  <2>1. \/ \E type \in {"rejected", "error", "cancelled"} : Reply(r, type, p, book[p])
        \/ \E type \in {"rejected", "error", "other"} : Reply(r, type, NoPosition, 0)
    BY <1>9 DEF Refuse
  <2> HIDE DEF p
  <2>2. Replied
    BY <1>1, <1>4, <1>5, <2>1
  <2>3. QED
    BY <1>3, <2>2
<1>10. QED
  BY <1>6, <1>7, <1>8, <1>9 DEF Broker

LEMMA StreamMoves ==
    ASSUME HubInv, StreamInv, [Next]_vars
    PROVE  \/ inbox' = <<>> /\ message' = NoMessage
           \/ HandleMessage
           \/ /\ inbox' = inbox \/ Grows
              /\ (message' = message /\ phase' = phase) \/ message' = NoMessage
              /\ SetUp' = SetUp
<1>1. CASE \E o \in OrderId : Trader(o)
  <2>1. inbox' = inbox \/ Grows
    BY <1>1, TraderSays
  <2>2. UNCHANGED <<message, phase, ready>>
    BY <1>1 DEF Trader, hubVars
  <2>3. QED
    BY <2>1, <2>2 DEF SetUp
<1>2. CASE \E r \in requests : Broker(r)
  <2>1. inbox' = inbox \/ \E r \in requests, m \in MessageType :
                            AnswerOf(r, m) /\ inbox' = inbox \o <<m>>
    BY <1>2, BrokerSays
  <2>2. inbox' = inbox \/ Grows
    BY <2>1 DEF Grows, Said, AnswerOf
  <2>3. UNCHANGED <<message, phase, ready>>
    BY <1>2 DEF Broker, hubVars
  <2>4. QED
    BY <2>2, <2>3 DEF SetUp
<1>3. CASE SetUpNext \/ Crash
  BY <1>3 DEF SetUpNext, Crash, StreamInv
<1>4. CASE HandleMessage
  BY <1>4
<1>5. CASE \/ StartupFails \/ EnterLoop \/ UpdatePosition \/ UpdateCopy
           \/ ConnectionEnds \/ HubEnds \/ TakeCommand
           \/ \E k \in Task : \/ ForwarderTakes(k) \/ ForwarderSends(k) \/ ForwarderEnds(k)
                              \/ TaskStep(k) \/ JournalError(k) \/ LeaveNext(k)
           \/ UNCHANGED vars
  <2>1. inbox' = inbox
    BY <1>5 DEF StartupFails, EnterLoop, UpdatePosition, UpdateCopy, ConnectionEnds, HubEnds,
         TakeCommand, ForwarderTakes, ForwarderSends, ForwarderEnds, TaskStep, JournalError,
         LeaveNext, brokerVars, vars
  <2>2. ready' = ready
    BY <1>5 DEF StartupFails, EnterLoop, UpdatePosition, UpdateCopy, ConnectionEnds, HubEnds, Stop,
         TakeCommand, ForwarderTakes, ForwarderSends, ForwarderEnds, TaskStep, JournalError,
         LeaveNext, hubVars, vars
  <2>3. (message' = message /\ phase' = phase) \/ message' = NoMessage
    BY <1>5 DEF StreamInv, StartupFails, EnterLoop, UpdatePosition, UpdateCopy, ConnectionEnds,
         HubEnds, Stop, TakeCommand, ForwarderTakes, ForwarderSends, ForwarderEnds, TaskStep,
         JournalError, LeaveNext, hubVars, vars
  <2>4. QED
    BY <2>1, <2>2, <2>3 DEF SetUp
<1>6. QED
  BY <1>1, <1>2, <1>3, <1>4, <1>5 DEF Next

(* The same of a message after the step, and of a queue and the message in  *)
(* hand.                                                                    *)
TruthfulNext(m) ==
    m.about = "trader" =>
        /\ m.order \in traded' /\ TaskOf(AccountOf(m.order)) \in SetUp'
        /\ m.snapshot = Unlisted => held'[m.order] = Unlisted
LastWord(m, q) ==
    m.about = "trader" /\ m.snapshot = Unlisted => \A i \in DOMAIN q : ~About(q[i], m.order)

LEMMA TruthStays ==
    ASSUME HubInv, StreamInv, [Next]_vars, SetUp' = SetUp, NEW m \in MessageType, Truthful(m)
    PROVE  TruthfulNext(m)
<1>1. m.about = "trader" => m.order \in OrderId
  BY MessageTyped
<1>2. traded \subseteq traded' /\ \A o \in OrderId : Gone(o) => Gone(o)'
  BY TraderMoves
<1>3. QED
  BY <1>1, <1>2 DEF Truthful, TruthfulNext, Hooked, Gone

(* A message that is put behind the others agrees with them: what is said   *)
(* to be closed has no trader any more.                                     *)
LEMMA SayMore ==
    ASSUME SetUp' = SetUp, NEW m, Said(m),
           NEW q \in Seq(MessageType), InOrder(q),
           \A i \in DOMAIN q : q[i].about = "trader" /\ q[i].snapshot = Unlisted =>
                                  ~Trader(q[i].order),
           \A i \in DOMAIN q : TruthfulNext(q[i])
    PROVE  /\ InOrder(q \o <<m>>) /\ q \o <<m>> \in Seq(MessageType)
           /\ \A i \in DOMAIN (q \o <<m>>) : TruthfulNext((q \o <<m>>)[i])
           /\ \A i \in DOMAIN (q \o <<m>>) :
                 (q \o <<m>>)[i] = m \/ \E j \in DOMAIN q : (q \o <<m>>)[i] = q[j]
<1>1. m \in MessageType
  BY DEF Said
<1>2. \A i \in DOMAIN q : q[i].about = "trader" /\ About(m, q[i].order) => q[i].snapshot # Unlisted
  BY DEF Said, About
<1>3. InOrder(q \o <<m>>)
  BY <1>1, <1>2, AppendInOrder
<1>4. TruthfulNext(m)
  BY DEF Said, TruthfulNext, Hooked
<1>5. QED
  BY <1>1, <1>3, <1>4, AppendOne

LEMMA StreamStep ==
    ASSUME HubInv, StreamInv, [Next]_vars
    PROVE  StreamInv'
<1>1. /\ inbox \in Seq(MessageType) /\ message \in MessageType \cup {NoMessage}
      /\ \A i \in DOMAIN inbox : inbox[i] \in MessageType
  BY DEF HubInv, TypeOK
<1>2. \A o \in OrderId : held'[o] # Unlisted => o \in traded'
  BY TraderMoves
<1>3. InOrder(inbox) /\ \A i \in DOMAIN inbox : Truthful(inbox[i])
  BY DEF StreamInv
<1>4. SUFFICES
        /\ InOrder(inbox') /\ \A i \in DOMAIN inbox' : TruthfulNext(inbox'[i])
        /\ message' # NoMessage => TruthfulNext(message') /\ LastWord(message', inbox')
        /\ phase' = "startup" => message' = NoMessage
  <2>1. \A m : TruthfulNext(m) =>
          (m.about = "trader" =>
             /\ m.order \in traded' /\ Hooked(m.order)'
             /\ m.snapshot = Unlisted => Gone(m.order)')
    BY DEF TruthfulNext, Hooked, Gone
  <2>2. QED
    BY <1>2, <1>4, <2>1 DEF StreamInv, Truthful, LastWord, InOrder, About, TruthfulNext, Hooked,
                            Gone
<1>5. CASE inbox' = <<>> /\ message' = NoMessage
  BY <1>5 DEF InOrder
<1>6. CASE HandleMessage
  <2>1. /\ inbox # <<>> /\ inbox' = Tail(inbox) /\ phase = "loop"
        /\ \/ UNCHANGED <<phase, message>>
           \/ phase' = "update" /\ message' = Head(inbox)
        /\ ready' = ready
    BY <1>6 DEF HandleMessage
  <2>2. SetUp' = SetUp
    BY <2>1 DEF SetUp
  <2>3. Head(inbox) \in MessageType /\ Truthful(Head(inbox))
    BY <1>1, <1>3, <2>1, FirstOf
  <2>4. TruthfulNext(Head(inbox)) /\ \A i \in DOMAIN inbox : TruthfulNext(inbox[i])
    BY <1>1, <1>3, <2>2, <2>3, TruthStays
  <2>5. /\ InOrder(Tail(inbox))
        /\ \A i \in DOMAIN Tail(inbox) : \E j \in DOMAIN inbox : Tail(inbox)[i] = inbox[j]
        /\ LastWord(Head(inbox), Tail(inbox))
    BY <1>1, <1>3, <2>1, TailInOrder DEF LastWord
  <2>6. message # NoMessage => TruthfulNext(message) /\ LastWord(message, Tail(inbox))
    <3>1. message # NoMessage => Truthful(message) /\ LastWord(message, inbox)
      BY DEF StreamInv, LastWord
    <3>2. QED
      BY <1>1, <2>2, <2>5, <3>1, TruthStays DEF LastWord
  <2>7. QED
    BY <2>1, <2>4, <2>5, <2>6
<1>7. CASE /\ inbox' = inbox \/ Grows
           /\ (message' = message /\ phase' = phase) \/ message' = NoMessage
           /\ SetUp' = SetUp
  <2>1. \A i \in DOMAIN inbox :
          /\ TruthfulNext(inbox[i])
          /\ inbox[i].about = "trader" /\ inbox[i].snapshot = Unlisted => ~Trader(inbox[i].order)
    <3>1. \A i \in DOMAIN inbox : inbox[i].about = "trader" => inbox[i].order \in OrderId
      BY <1>1, MessageTyped
    <3>2. QED
      BY <1>1, <1>3, <1>7, <3>1, TruthStays, TraderMoves DEF Truthful
  <2>2. message # NoMessage => TruthfulNext(message) /\ LastWord(message, inbox)
    BY <1>1, <1>7, TruthStays DEF StreamInv, LastWord
  <2>3. \A m : Said(m) /\ message # NoMessage /\ message.about = "trader"
                 /\ message.snapshot = Unlisted => ~About(m, message.order)
    <3>1. message # NoMessage /\ message.about = "trader" => message.order \in OrderId
      BY <1>1, MessageTyped
    <3>2. message # NoMessage /\ message.about = "trader" /\ message.snapshot = Unlisted
            => ~Trader(message.order)
      BY <3>1, TraderMoves DEF StreamInv, Truthful
    <3>3. QED
      BY <3>2 DEF Said, About
  <2>4. CASE inbox' = inbox
    BY <1>3, <1>7, <2>1, <2>2, <2>4 DEF StreamInv
  <2>5. ASSUME NEW m, Said(m), inbox' = inbox \o <<m>>
        PROVE  /\ InOrder(inbox') /\ \A i \in DOMAIN inbox' : TruthfulNext(inbox'[i])
               /\ \A i \in DOMAIN inbox' :
                    Said(inbox'[i]) \/ \E j \in DOMAIN inbox : inbox'[i] = inbox[j]
    BY <1>1, <1>3, <1>7, <2>1, <2>5, SayMore
  <2>6. ASSUME NEW m, NEW n, Said(m), Said(n), m.about = "trader" => m.snapshot # Unlisted,
               inbox' = (inbox \o <<m>>) \o <<n>>
        PROVE  /\ InOrder(inbox') /\ \A i \in DOMAIN inbox' : TruthfulNext(inbox'[i])
               /\ \A i \in DOMAIN inbox' :
                    Said(inbox'[i]) \/ \E j \in DOMAIN inbox : inbox'[i] = inbox[j]
    <3> DEFINE q == inbox \o <<m>>
    <3>1. /\ InOrder(q) /\ q \in Seq(MessageType)
          /\ \A i \in DOMAIN q : TruthfulNext(q[i])
          /\ \A i \in DOMAIN q : q[i] = m \/ \E j \in DOMAIN inbox : q[i] = inbox[j]
      BY <1>1, <1>3, <1>7, <2>1, <2>6, SayMore
    <3> HIDE DEF q
    <3>2. \A i \in DOMAIN q : q[i].about = "trader" /\ q[i].snapshot = Unlisted =>
                                 ~Trader(q[i].order)
      BY <2>1, <2>6, <3>1
    <3>3. /\ InOrder(q \o <<n>>)
          /\ \A i \in DOMAIN (q \o <<n>>) : TruthfulNext((q \o <<n>>)[i])
          /\ \A i \in DOMAIN (q \o <<n>>) :
               (q \o <<n>>)[i] = n \/ \E j \in DOMAIN q : (q \o <<n>>)[i] = q[j]
      BY <1>7, <2>6, <3>1, <3>2, SayMore
    <3>4. inbox' = q \o <<n>>
      BY <2>6 DEF q
    <3>5. \A i \in DOMAIN inbox' : inbox'[i] = n \/ inbox'[i] = m
                                   \/ \E j \in DOMAIN inbox : inbox'[i] = inbox[j]
      BY <3>1, <3>3, <3>4
    <3>6. QED
      BY <2>6, <3>3, <3>4, <3>5
  <2>7. CASE Grows
    <3>1. /\ InOrder(inbox') /\ \A i \in DOMAIN inbox' : TruthfulNext(inbox'[i])
          /\ \A i \in DOMAIN inbox' :
               Said(inbox'[i]) \/ \E j \in DOMAIN inbox : inbox'[i] = inbox[j]
      BY <2>5, <2>6, <2>7 DEF Grows
    <3>2. message # NoMessage => LastWord(message, inbox')
      BY <2>2, <2>3, <3>1 DEF LastWord
    <3>3. QED
      BY <1>7, <2>2, <3>1, <3>2 DEF StreamInv
  <2>8. QED
    BY <1>7, <2>4, <2>7
<1>8. QED
  BY <1>5, <1>6, <1>7, StreamMoves

(* What has been reported of a position, and what is known of one that is   *)
(* reported as opened: it is known to the hub, or closed, with nothing more *)
(* to be read about it.                                                     *)
Opened(o) == \E i \in EventId : Reported(i) /\ i[1] = o /\ i[2] = "open"
Over(o) ==
    /\ Gone(o)
    /\ message # NoMessage => ~About(message, o)
    /\ \A i \in DOMAIN inbox : ~About(inbox[i], o)

OpeningsKnown ==
    \A o \in OrderId : Opened(o) /\ Hooked(o) /\ known[o] = Unlisted => Over(o)
OpeningsDiffer ==
    \A i, j \in EventId :
        Reported(i) /\ Reported(j) /\ i[1] = j[1] /\ i[2] = "open" /\ j[2] = "open" => i = j

ReportInv ==
    /\ HubInv /\ OrderlyInv /\ StreamInv
    /\ \A i \in EventId : Reported(i) => i[1] \in traded
    /\ OpeningsKnown /\ OpeningsDiffer

LEMMA ReportStart ==
    ASSUME Init
    PROVE  ReportInv
<1>1. HubInv /\ OrderlyInv /\ StreamInv
  BY HubStart, OrderlyStart, StreamStart DEF Init
<1>2. \A i : ~Reported(i)
  BY DEF Init, RuntimeInit, FreshTasks, EmptyReplay, NoRecord, Reported, Pending, IsPlanned
<1>3. QED
  BY <1>1, <1>2 DEF ReportInv, Opened, OpeningsKnown, OpeningsDiffer

LEMMA MessageThere == NoMessage \notin MessageType
<1>1. \A m \in MessageType : "about" \in DOMAIN m
  BY SMT DEF MessageType
<1>2. "about" \notin DOMAIN NoMessage
  BY DEF NoMessage
<1>3. QED
  BY <1>1, <1>2

(* Only the comparison of a trader's message with what the hub knows        *)
(* reports anything.                                                        *)
LEMMA NewReport ==
    ASSUME ReportInv, [Next]_vars, NEW i \in EventId, Reported(i)', ~Reported(i)
    PROVE  /\ UpdatePosition /\ i = EventFor(message.order, known[message.order],
                                            message.snapshot).id
           /\ i[1] = message.order /\ i[2] = Difference(known[message.order], message.snapshot)
<1>1. HubInv /\ OrderlyInv
  BY DEF ReportInv
<1>2. CASE ~UpdatePosition
  <2>1. Silent(Acked)
    BY <1>1, <1>2, StepSilent
  <2>2. Silent(AckType)
    BY <2>1 DEF Silent, SilentTask, Acked
  <2>3. QED
    BY <1>1, <2>2, SilentReports
<1>3. CASE UpdatePosition
  <2> DEFINE e == EventFor(message.order, known[message.order], message.snapshot)
             k == TaskOf(AccountOf(message.order))
  <2>1. ~UNCHANGED runtimeVars
    BY DEF runtimeVars, taskVars, Reported, Pending
  <2>2. k \in Task /\ e \in Event /\ HandleEvent(k, e)
    BY <1>1, <1>3, <2>1, UpdateReported
  <2>3. /\ e.id[1] = message.order
        /\ e.id[2] = Difference(known[message.order], message.snapshot)
    BY DEF EventFor, Report
  <2> HIDE DEF e, k
  <2>4. e.id = i
    BY <1>1, <2>2, EventReports
  <2>5. QED
    BY <1>3, <2>3, <2>4 DEF e
<1>4. QED
  BY <1>2, <1>3

(* The message that is compared is true, and about an account set up.       *)
LEMMA UpdateTrue ==
    ASSUME HubInv, StreamInv, UpdatePosition
    PROVE  /\ message # NoMessage /\ About(message, message.order) /\ message.order \in OrderId
           /\ Truthful(message) /\ LastWord(message, inbox)
           /\ message.order \in traded /\ Hooked(message.order)
<1>1. message \in MessageType /\ message.about = "trader"
  BY DEF UpdatePosition, HubInv
<1>2. message # NoMessage
  BY <1>1, MessageThere
<1>3. QED
  BY <1>1, <1>2, MessageTyped DEF StreamInv, Truthful, LastWord, About

LEMMA OverStays ==
    ASSUME HubInv, StreamInv, [Next]_vars, NEW o \in OrderId, Over(o)
    PROVE  Over(o)'
<1>1. Gone(o)' /\ ~Trader(o)
  BY TraderMoves DEF Over
<1>2. inbox \in Seq(MessageType)
  BY DEF HubInv, TypeOK
<1>3. CASE inbox' = <<>> /\ message' = NoMessage
  BY <1>1, <1>3 DEF Over
<1>4. CASE HandleMessage
  <2>1. /\ inbox # <<>> /\ inbox' = Tail(inbox)
        /\ message' = message \/ message' = Head(inbox)
    BY <1>4 DEF HandleMessage
  <2>2. /\ Head(inbox) \in {inbox[i] : i \in DOMAIN inbox}
        /\ \A i \in DOMAIN Tail(inbox) : Tail(inbox)[i] \in {inbox[j] : j \in DOMAIN inbox}
    BY <1>2, <2>1, FirstOf
  <2>3. QED
    BY <1>1, <2>1, <2>2 DEF Over, About
<1>5. CASE (inbox' = inbox \/ Grows) /\ (message' = message \/ message' = NoMessage)
  <2>1. \A m : Said(m) => ~About(m, o) /\ m \in MessageType
    BY <1>1 DEF Said, About
  <2>2. \A i \in DOMAIN inbox' : ~About(inbox'[i], o)
    <3>1. CASE inbox' = inbox
      BY <3>1 DEF Over
    <3>2. ASSUME NEW m, Said(m), inbox' = inbox \o <<m>>
          PROVE  \A i \in DOMAIN inbox' : ~About(inbox'[i], o)
      BY <1>2, <2>1, <3>2, AppendOne DEF Over
    <3>3. ASSUME NEW m, NEW n, Said(m), Said(n), inbox' = (inbox \o <<m>>) \o <<n>>
          PROVE  \A i \in DOMAIN inbox' : ~About(inbox'[i], o)
      <4> DEFINE q == inbox \o <<m>>
      <4>1. q \in Seq(MessageType) /\ \A i \in DOMAIN q : ~About(q[i], o)
        BY <1>2, <2>1, <3>3, AppendOne DEF Over
      <4>2. inbox' = q \o <<n>>
        BY <3>3
      <4> HIDE DEF q
      <4>3. QED
        BY <2>1, <3>3, <4>1, <4>2, AppendOne
    <3>4. QED
      BY <1>5, <3>1, <3>2, <3>3 DEF Grows
  <2>3. QED
    BY <1>1, <1>5, <2>2 DEF Over, About
<1>6. QED
  BY <1>3, <1>4, <1>5, StreamMoves

(* What the hub knows of a position changes when it is compared, when its   *)
(* account is set up, and at a restart.                                     *)
LEMMA KnownMoves ==
    ASSUME HubInv, [Next]_vars, NEW o \in OrderId
    PROVE  \/ known'[o] = known[o] /\ ~SetUpNext /\ ~Crash
           \/ UpdatePosition /\ o = message.order /\ known'[o] = message.snapshot
           \/ /\ SetUpNext /\ inbox' = <<>> /\ UNCHANGED <<message, held, traded>>
              /\ \/ known'[o] = held[o]
                 \/ known'[o] = known[o] /\ AccountOf(o) # Owner[Line[ready + 1]]
           \/ Crash
<1>1. known \in [OrderId -> Snapshot \cup {Unlisted}]
  BY DEF HubInv, TypeOK
<1>2. CASE UpdatePosition
  <2>1. known' = [known EXCEPT ![message.order] = message.snapshot]
    BY <1>2 DEF UpdatePosition, KeepPosition
  <2>2. ~SetUpNext /\ ~Crash
    BY <1>2 DEF UpdatePosition, SetUpNext, Crash
  <2>3. QED
    BY <1>1, <1>2, <2>1, <2>2
<1>3. CASE SetUpNext
  BY <1>3 DEF SetUpNext, ReconcilePositions, OfAccount, DrawSessionId, taskVars
<1>4. CASE ~UpdatePosition /\ ~SetUpNext /\ ~Crash
  <2>1. known' = known
    BY <1>4 DEF Next, StartupFails, EnterLoop, UpdateCopy, HandleMessage,
           TakeCommand, ConnectionEnds, HubEnds, Stop, ForwarderTakes, ForwarderSends,
           ForwarderEnds, TaskStep, JournalError, LeaveNext, Trader, Broker, vars, hubVars
  <2>2. QED
    BY <1>4, <2>1
<1>5. QED
  BY <1>2, <1>3, <1>4

LEMMA OpenedWhenNew ==
    ASSUME NEW old \in Snapshot \cup {Unlisted}, NEW new \in Snapshot \cup {Unlisted},
           Difference(old, new) = "open"
    PROVE  old = Unlisted /\ new # Unlisted
BY SMT DEF Difference, Snapshot, Unlisted

LEMMA ComparedTyped ==
    ASSUME HubInv, UpdatePosition
    PROVE  /\ message.order \in OrderId
           /\ known[message.order] \in Snapshot \cup {Unlisted}
           /\ message.snapshot \in Snapshot \cup {Unlisted}
<1>1. message \in MessageType /\ message.about = "trader"
  BY DEF UpdatePosition, HubInv
<1>2. message.order \in OrderId /\ message.snapshot \in Snapshot \cup {Unlisted}
  BY <1>1, MessageTyped
<1>3. QED
  BY <1>2 DEF HubInv, TypeOK

LEMMA CrashApart ==
    ASSUME HubInv, Crash
    PROVE  ~SetUpNext /\ ~UpdatePosition
<1>1. crashes \in Nat /\ crashes' = crashes + 1
  BY HubAssumption, SMT DEF Crash, HubInv, TypeOK
<1>2. crashes' # crashes
  BY <1>1
<1>3. QED
  BY <1>2 DEF SetUpNext, UpdatePosition

LEMMA OpeningsDifferStep ==
    ASSUME ReportInv, [Next]_vars
    PROVE  OpeningsDiffer'
<1>1. HubInv /\ StreamInv /\ OpeningsKnown /\ OpeningsDiffer
  BY DEF ReportInv
<1>2. ASSUME NEW i \in EventId, NEW j \in EventId, Reported(i)', Reported(j)', i[1] = j[1],
             i[2] = "open", j[2] = "open", ~Reported(i)
      PROVE  i = j
  <2>1. /\ UpdatePosition
        /\ i = EventFor(message.order, known[message.order], message.snapshot).id
        /\ i[1] = message.order /\ Difference(known[message.order], message.snapshot) = "open"
    BY <1>2, NewReport
  <2>2. /\ message.order \in OrderId /\ Hooked(message.order)
        /\ message # NoMessage /\ About(message, message.order)
    BY <1>1, <2>1, UpdateTrue
  <2>3. CASE Reported(j)
    <3>1. known[message.order] = Unlisted
      BY <1>1, <2>1, ComparedTyped, OpenedWhenNew
    <3>2. Opened(message.order)
      BY <1>2, <2>1, <2>3 DEF Opened
    <3>3. QED
      BY <1>1, <2>2, <3>1, <3>2 DEF OpeningsKnown, Over
  <2>4. CASE ~Reported(j)
    <3>1. j = EventFor(message.order, known[message.order], message.snapshot).id
      BY <1>2, <2>4, NewReport
    <3>2. QED
      BY <2>1, <3>1
  <2>5. QED
    BY <2>3, <2>4
<1>3. QED
  BY <1>1, <1>2 DEF OpeningsDiffer

LEMMA OpeningsKnownStep ==
    ASSUME ReportInv, [Next]_vars
    PROVE  OpeningsKnown'
<1>1. HubInv /\ StreamInv /\ OpeningsKnown
  BY DEF ReportInv
<1>2. ASSUME NEW o \in OrderId, Opened(o)', Hooked(o)', known'[o] = Unlisted
      PROVE  Over(o)'
  <2>1. Opened(o) \/ /\ UpdatePosition /\ o = message.order
                     /\ Difference(known[o], message.snapshot) = "open"
    <3>1. PICK i \in EventId : Reported(i)' /\ i[1] = o /\ i[2] = "open"
      BY <1>2 DEF Opened
    <3>2. QED
      BY <3>1, NewReport DEF Opened
  <2>2. CASE UpdatePosition /\ o = message.order /\ known'[o] = message.snapshot
    <3>1. Opened(o)
      BY <1>2, <2>1, <2>2 DEF Difference
    <3>2. /\ Gone(o) /\ \A i \in DOMAIN inbox : ~About(inbox[i], o)
      BY <1>1, <1>2, <2>2, UpdateTrue DEF Truthful, LastWord, About
    <3>3. inbox' = inbox /\ message' = NoMessage
      BY <2>2 DEF UpdatePosition, brokerVars
    <3>4. Gone(o)'
      BY <1>1, <3>2, TraderMoves
    <3>5. QED
      BY <3>2, <3>3, <3>4 DEF Over
  <2>3. CASE SetUpNext
    <3>1. Opened(o)
      BY <2>1, <2>3 DEF UpdatePosition, SetUpNext
    <3>2. o \in traded
      BY <3>1 DEF ReportInv, Opened
    <3>3. inbox' = <<>> /\ UNCHANGED <<message, held, traded>> /\ message = NoMessage
      BY <1>1, <2>3 DEF SetUpNext, StreamInv
    <3>4. CASE held[o] = Unlisted
      BY <3>2, <3>3, <3>4 DEF Over, Gone
    <3>5. CASE held[o] # Unlisted
      <4>1. known'[o] = known[o] /\ AccountOf(o) # Owner[Line[ready + 1]]
        BY <1>1, <1>2, <2>3, <3>3, <3>5, KnownMoves, CrashApart DEF UpdatePosition, SetUpNext
      <4>2. Hooked(o)
        <5>1. SetUp' = SetUp \cup {Line[ready + 1]}
          BY <1>1, <2>3, SetUpMoves, CrashApart
        <5>2. TaskOf(AccountOf(o)) \in SetUp \cup {Line[ready + 1]}
          BY <1>2, <5>1 DEF Hooked
        <5>3. QED
          BY <4>1, <5>2, OrderServed DEF Hooked
      <4>3. QED
        BY <1>1, <1>2, <3>1, <4>1, <4>2, OverStays DEF OpeningsKnown
    <3>6. QED
      BY <3>4, <3>5
  <2>4. CASE Crash
    <3>1. SetUp' = {}
      BY <2>4, SMT DEF Crash, SetUp
    <3>2. QED
      BY <1>2, <3>1 DEF Hooked
  <2>5. CASE known'[o] = known[o] /\ ~SetUpNext /\ ~Crash
    <3>1. Opened(o)
      <4>1. CASE UpdatePosition /\ o = message.order /\ Difference(known[o], message.snapshot) = "open"
        <5>1. known'[o] = message.snapshot
          BY <1>1, <4>1 DEF UpdatePosition, KeepPosition, HubInv, TypeOK
        <5>2. QED
          BY <1>2, <4>1, <5>1 DEF Difference
      <4>2. QED
        BY <2>1, <4>1
    <3>2. Hooked(o)
      BY <1>1, <1>2, <2>5, SetUpMoves DEF Hooked
    <3>3. QED
      BY <1>1, <1>2, <2>5, <3>1, <3>2, OverStays DEF OpeningsKnown
  <2>6. QED
    BY <1>1, <2>2, <2>3, <2>4, <2>5, KnownMoves
<1>3. QED
  BY <1>2 DEF OpeningsKnown

LEMMA ReportStep ==
    ASSUME ReportInv, [Next]_vars
    PROVE  ReportInv'
<1>1. HubInv /\ OrderlyInv /\ StreamInv
  BY DEF ReportInv
<1>2. HubInv' /\ OrderlyInv' /\ StreamInv'
  BY <1>1, HubStep, AnyStep, OrderlyStep, StreamStep
<1>3. ASSUME NEW i \in EventId, Reported(i)' PROVE i[1] \in traded'
  <2>1. i[1] \in traded
    BY <1>1, <1>3, NewReport, UpdateTrue DEF ReportInv
  <2>2. QED
    BY <1>1, <2>1, TraderMoves
<1>4. QED
  BY <1>2, <1>3, OpeningsKnownStep, OpeningsDifferStep DEF ReportInv

(* A position of a trader is reported as opened, and copied, at most once,  *)
(* however often the hub restarts and whatever the broker still has to tell *)
(* when it does: what was reported is in the baseline run_hub starts from,  *)
(* or it is closed and nothing more is said of it.                          *)
THEOREM OpensOnce == Spec => []OpenedOnce
<1>1. Init => ReportInv
  BY ReportStart
<1>2. ReportInv /\ [Next]_vars => ReportInv'
  BY ReportStep
<1>3. ReportInv => OpenedOnce
  <2> SUFFICES ASSUME ReportInv, NEW o \in OrderId
               PROVE  Cardinality(ReportsOf(o, "open")) <= 1
    BY DEF OpenedOnce
  <2>1. \A i, j \in ReportsOf(o, "open") : i = j
    <3>1. \A i \in ReportsOf(o, "open") :
            i \in EventId /\ Reported(i) /\ i[1] = o /\ i[2] = "open"
      BY Types, SMT DEF ReportInv, OrderlyInv, ReplayType, Reported, ReportsOf
    <3>2. QED
      BY <3>1 DEF ReportInv, OpeningsDiffer
  <2>2. CASE ReportsOf(o, "open") = {}
    BY <2>2, FS_EmptySet
  <2>3. CASE ReportsOf(o, "open") # {}
    <3>1. PICK i : ReportsOf(o, "open") = {i}
      BY <2>1, <2>3
    <3>2. Cardinality({i}) = 1
      BY FS_Singleton
    <3>3. QED
      BY <3>1, <3>2
  <2>4. QED
    BY <2>2, <2>3
<1>4. QED
  BY <1>1, <1>2, <1>3, PTL DEF Spec

-----------------------------------------------------------------------------
(* Which positions have the protection they need.  Every position that is   *)
(* named, by a binding or by a record about to be written, is one that      *)
(* needs none or got it; and so is what an answer still to be read says.    *)

Shielded == {p \in CommandId : OrderOf(p) \in Protected => p \in guarded}

MessageSafe(m) ==
    m.about = "request" =>
        /\ m.protection /\ m.type \in {"filled", "replaced"} => m.id \in guarded
        /\ EventOf(m.id)[2] = "open" => m.position \in {m.id, NoPosition}

GuardInv ==
    /\ HubInv /\ StreamInv
    /\ \A i \in DOMAIN inbox : MessageSafe(inbox[i])
    /\ Names(mem, Shielded) /\ Names(file, Shielded)
    /\ \A k \in Task : NamesIn(rec[k], Shielded)

LEMMA GuardStart ==
    ASSUME Init
    PROVE  GuardInv
<1>1. HubInv /\ StreamInv
  BY HubStart, StreamStart
<1>2. QED
  BY <1>1 DEF GuardInv, Init, RuntimeInit, FreshTasks, EmptyReplay, NoRecord, Names, NamesIn

(* What a command is about can be read off its id.                          *)
LEMMA OrderFacts ==
    ASSUME NEW c, SoundCommand(c)
    PROVE  c.order = OrderOf(c.id) /\ c.action = EventOf(c.id)[2]
<1>1. PICK e \in Event, i \in DOMAIN Rules :
        c.id = CommandIdOf(e, Rules[i]) /\ c.order = e.order /\ c.action = e.action
  BY BuiltFacts
<1>2. EventOf(c.id) = e.id
  BY <1>1 DEF CommandIdOf, EventOf
<1>3. \A f \in Event : f.id = e.id => f.order = e.order
  BY ReportAssumption
<1>4. OrderOf(c.id) = e.order
  BY <1>2, <1>3 DEF OrderOf
<1>5. QED
  BY <1>1, <1>2, <1>4, ReportAssumption

LEMMA GuardedGrows ==
    ASSUME HubInv, [Next]_vars
    PROVE  guarded \subseteq guarded' /\ Shielded \subseteq Shielded'
<1>1. CASE \E r \in requests : Broker(r)
  BY <1>1 DEF Broker, Fill, PartialFill, Amend, Refuse, Shielded
<1>2. CASE ~\E r \in requests : Broker(r)
  BY <1>2 DEF Next, SetUpNext, StartupFails, EnterLoop, UpdateCopy, UpdatePosition,
       HandleMessage, TakeCommand, ConnectionEnds, HubEnds, ForwarderTakes, ForwarderSends,
       ForwarderEnds, TaskStep, JournalError, LeaveNext, Trader, Crash, vars, brokerVars, Shielded
<1>3. QED
  BY <1>1, <1>2

LEMMA MessagesSafe ==
    ASSUME GuardInv, [Next]_vars
    PROVE  \A m : (\E i \in DOMAIN inbox' : m = inbox'[i]) => MessageSafe(m)'
<1>1. HubInv /\ StreamInv /\ inbox \in Seq(MessageType) /\ \A i \in DOMAIN inbox : MessageSafe(inbox[i])
  BY DEF GuardInv, HubInv, TypeOK
<1>2. ASSUME NEW m, m \in {inbox[i] : i \in DOMAIN inbox} PROVE MessageSafe(m)'
  BY <1>1, <1>2, GuardedGrows DEF MessageSafe
<1>3. ASSUME NEW m, Said(m) PROVE MessageSafe(m)'
  <2>1. CASE m.about = "trader"
    BY <2>1 DEF MessageSafe
  <2>2. ASSUME NEW r \in requests, AnswerOf(r, m) PROVE MessageSafe(m)'
    <3>1. r.command.action = EventOf(m.id)[2]
      BY <1>1, <2>2, OrderFacts DEF HubInv, Carried, AnswerOf
    <3>2. QED
      BY <2>2, <3>1 DEF AnswerOf, MessageSafe
  <2>3. QED
    BY <1>3, <2>1, <2>2 DEF Said
<1>4. CASE HandleMessage
  <2>1. inbox # <<>> /\ inbox' = Tail(inbox)
    BY <1>4 DEF HandleMessage
  <2>2. QED
    BY <1>1, <1>2, <2>1, FirstOf
<1>5. ASSUME NEW m, Said(m), inbox' = inbox \o <<m>>
      PROVE  \A n : (\E i \in DOMAIN inbox' : n = inbox'[i]) => MessageSafe(n)'
  BY <1>1, <1>2, <1>3, <1>5, AppendOne DEF Said
<1>6. ASSUME NEW l, NEW m, Said(l), Said(m), inbox' = (inbox \o <<l>>) \o <<m>>
      PROVE  \A n : (\E i \in DOMAIN inbox' : n = inbox'[i]) => MessageSafe(n)'
  <2> DEFINE q == inbox \o <<l>>
  <2>1. q \in Seq(MessageType) /\ \A n : (\E i \in DOMAIN q : n = q[i]) => MessageSafe(n)'
    BY <1>1, <1>2, <1>3, <1>6, AppendOne DEF Said
  <2>2. inbox' = q \o <<m>>
    BY <1>6
  <2> HIDE DEF q
  <2>3. QED
    BY <1>3, <1>6, <2>1, <2>2, AppendOne DEF Said
<1>7. CASE inbox' = inbox \/ inbox' = <<>>
  <2>1. \A i \in DOMAIN inbox' : inbox'[i] \in {inbox[j] : j \in DOMAIN inbox}
    BY <1>7
  <2>2. QED
    BY <1>2, <2>1
<1>8. QED
  BY <1>1, <1>4, <1>5, <1>6, <1>7, StreamMoves DEF Grows

(* An open is acknowledged as filled only with the protection it needs.     *)
LEMMA AnswersSafe ==
    ASSUME GuardInv, NEW ack, NEW m, m \in {inbox[i] : i \in DOMAIN inbox},
           ProtectionAcked(m, ack) \/ OutcomeAcked(m, ack),
           Tracked(mem, ack.id), mem.commands[ack.id].command.action = "open",
           ack.status \in Success, ack.position # NoPosition
    PROVE  ack.position \in Shielded
<1>1. HubInv /\ MessageSafe(m) /\ m \in MessageType
  BY DEF GuardInv, HubInv, TypeOK
<1>2. \A type : Outcome(type) \in Success => type \in {"filled", "replaced"}
  BY DEF Outcome, Success
<1>3. \A c \in pending \cup protecting : SoundCommand(c) /\ c.id \in CommandId
  BY <1>1, CommandFacts DEF HubInv, InHand, Carried
<1>4. CASE ProtectionAcked(m, ack)
  <2>1. PICK c \in protecting :
          /\ IsFor(m, c) /\ m.protection
          /\ ack = AckOf(c, IF m.type = "error" THEN "unknown" ELSE Outcome(m.type), c.id)
    BY <1>4 DEF ProtectionAcked
  <2>2. ack.position = c.id /\ m.id = c.id /\ m.about = "request"
        /\ m.type \in {"filled", "replaced"}
    BY <1>2, <2>1 DEF AckOf, IsFor, Success
  <2>3. QED
    BY <1>1, <1>3, <2>1, <2>2 DEF MessageSafe, Shielded
<1>5. CASE OutcomeAcked(m, ack)
  <2>1. PICK c \in pending :
          /\ IsFor(m, c)
          /\ \/ ack = AckOf(c, "unknown", NoPosition)
             \/ /\ ~(NeedsProtection(c) /\ Outcome(m.type) = "filled")
                /\ ack = AckOf(c, IF m.type = "error" THEN "rejected" ELSE Outcome(m.type),
                               m.position)
    BY <1>5 DEF OutcomeAcked
  <2>2. /\ ack.id = c.id /\ ack.position = m.position /\ m.id = c.id /\ m.about = "request"
        /\ ~NeedsProtection(c)
    BY <1>2, <2>1 DEF AckOf, IsFor, Success, Outcome
  <2>3. SoundCommand(c) /\ SoundCommand(mem.commands[c.id].command)
        /\ mem.commands[c.id].command.id = c.id
    BY <1>1, <1>3, <2>1, <2>2 DEF HubInv, ReachInv, MirrorInv, SoundState, OrderlyInv, KeyedInv,
       WellKeyed
  <2>4. c.action = "open" /\ c.order = OrderOf(c.id) /\ EventOf(c.id)[2] = "open"
    BY <2>2, <2>3, OrderFacts
  <2>5. m.position = c.id /\ c.order \notin Protected
    BY <1>1, <2>2, <2>4 DEF MessageSafe, NeedsProtection
  <2>6. QED
    BY <1>3, <2>2, <2>4, <2>5 DEF Shielded
<1>6. QED
  BY <1>4, <1>5

LEMMA GuardNames ==
    ASSUME GuardInv, [Next]_vars
    PROVE  Names(mem', Shielded) /\ Names(file', Shielded) /\ \A k \in Task : NamesIn(rec'[k], Shielded)
<1>1. HubInv /\ OrderlyInv
  BY DEF GuardInv, HubInv, ReachInv, MirrorInv
<1> DEFINE Unsafe(ack) == /\ Tracked(mem, ack.id) /\ ack.position \notin Shielded
                          /\ mem.commands[ack.id].command.action = "open"
                          /\ ack.status \in Success /\ ack.position # NoPosition
           acks == {ack \in AckType : ~Unsafe(ack)}
<1>2. RuntimeStep(acks)
  <2>1. CASE UpdatePosition
    BY <1>1, <2>1, UpdateReported DEF RuntimeStep
  <2>2. CASE TakeCommand \/ HandleMessage
    <3>1. ASSUME NEW ack \in Acked, \A other : ack \in other => Silent(other),
                 \/ TakeCommand /\ TakeRefused(ack)
                 \/ HandleMessage /\ ProtectionAcked(Head(inbox), ack)
                 \/ HandleMessage /\ OutcomeAcked(Head(inbox), ack)
          PROVE  Silent(acks)
      <4>1. TakeRefused(ack) => ~Unsafe(ack)
        BY DEF TakeRefused, AckOf, Success
      <4>2. HandleMessage => Head(inbox) \in {inbox[i] : i \in DOMAIN inbox}
        BY <1>1, FirstOf DEF HandleMessage, HubInv, TypeOK
      <4>3. ~Unsafe(ack)
        BY <3>1, <4>1, <4>2, AnswersSafe
      <4>4. ack \in acks
        BY <4>3 DEF Acked
      <4> HIDE DEF acks
      <4>5. QED
        BY <3>1, <4>4
    <3> HIDE DEF acks
    <3>2. Silent({}) => Silent(acks)
      BY MoreAcks
    <3>3. Silent(acks)
      BY <1>1, <2>2, <3>1, <3>2, Answers
    <3>4. QED
      BY <3>3, SilentStep
  <2>3. CASE ~UpdatePosition /\ ~TakeCommand /\ ~HandleMessage
    BY <1>1, <2>3, StepQuiet, MoreAcks, SilentStep
  <2>4. QED
    BY <2>1, <2>2, <2>3
<1>3. QED
  BY <1>1, <1>2, NamesStep DEF GuardInv

LEMMA GuardStep ==
    ASSUME GuardInv, [Next]_vars
    PROVE  GuardInv'
<1>1. HubInv' /\ StreamInv'
  BY HubStep, StreamStep DEF GuardInv
<1>2. Shielded \subseteq Shielded'
  BY GuardedGrows DEF GuardInv
<1>3. Names(mem, Shielded)' /\ Names(file, Shielded)' /\ \A k \in Task : NamesIn(rec[k], Shielded)'
  BY <1>2, GuardNames DEF Names, NamesIn
<1>4. \A i \in DOMAIN inbox' : MessageSafe(inbox[i])'
  BY MessagesSafe DEF MessageSafe
<1>5. QED
  BY <1>1, <1>3, <1>4 DEF GuardInv

(* A position is bound only when the stop loss or take profit it must have  *)
(* is set: process_execution waits for the answer to the protection before  *)
(* it acknowledges the open, and neither a restart, nor a late answer, nor  *)
(* a change of the binding by a reduce, binds one that has none.            *)
THEOREM BoundProtected == Spec => []BoundIsProtected
<1>1. Init => GuardInv
  BY GuardStart
<1>2. GuardInv /\ [Next]_vars => GuardInv'
  BY GuardStep
<1>3. GuardInv => BoundIsProtected
  <2>1. NoPosition \notin CommandId
    BY IdIsNoMarker
  <2>2. QED
    BY <2>1 DEF GuardInv, Names, Shielded, BoundIsProtected, BoundTo, NoBinding
<1>4. QED
  BY <1>1, <1>2, <1>3, PTL DEF Spec

-----------------------------------------------------------------------------
(* A command is sent once.  The hub runs one handler at a time, so nothing  *)
(* comes between a look at the memory and what is done about it; of a set   *)
(* of commands to dispatch, none has been sent and no two have one id.      *)

Busy(k) == pc[k] \notin {"off", "idle", "dead"}
Alone == \A j, k \in Task : Busy(j) /\ Busy(k) => j = k
OnlyTask(k) == \A j \in Task \ {k} : ~Busy(j)

Sent == {c \in CommandId : handed[c] > 0}
Distinct(S) == \A c, d \in S : c.id = d.id => c = d

FirstTime(k) ==
    /\ Resumes(k) => Distinct(todo[k]) /\ FreshCommands(todo[k], Sent)
    /\ pc[k] = "route" =>
         /\ ev[k].id \notin mem.seen
         /\ \A i \in routes[k], d \in todo[k] : d.id # CommandIdOf(ev[k], Rules[i])
    /\ pc[k] = "send" => StateOf(mem, rec[k].id) # "queued"

OnceInv ==
    /\ SeasonedInv
    /\ Alone
    /\ SentOnce
    /\ PastState(mem, Sent)
    /\ \A k \in Task : FirstTime(k)

LEMMA OnceStart ==
    ASSUME Init
    PROVE  OnceInv
<1>1. /\ \A k \in Task : pc[k] = "off" /\ todo[k] = {}
      /\ \A c \in CommandId : handed[c] = 0
  BY DEF Init, RuntimeInit, FreshTasks
<1>2. Sent = {} /\ SentOnce
  BY <1>1 DEF Sent, SentOnce
<1>3. \A k \in Task : FirstTime(k)
  BY <1>1 DEF FirstTime, Distinct, FreshCommands
<1>4. SeasonedInv
  BY SeasonedStart DEF Init
<1>5. QED
  BY <1>1, <1>2, <1>3, <1>4 DEF OnceInv, Alone, Busy, PastState

(* Handlers run one at a time.                                              *)
LEMMA StepTurns ==
    ASSUME HubInv, Alone, [Next]_vars
    PROVE  \/ Restarts
           \/ UNCHANGED <<mem, taskVars, handed>>
           \/ \E k \in Task : TaskStepOf(k) /\ OnlyTask(k)
<1>1. \/ \E k \in Task : TaskStepOf(k)
      \/ Restarts
      \/ UNCHANGED <<mem, taskVars, handed>>
  BY AnyStep, StepKinds
<1>2. CASE AtRest
  BY <1>1, <1>2 DEF AtRest, OnlyTask, Busy
<1>3. ASSUME NEW k \in Task, TaskStep(k) \/ JournalError(k)
      PROVE  TaskStepOf(k) /\ OnlyTask(k)
  <2>1. TaskStepOf(k)
    BY <1>3 DEF TaskStep, JournalError, TaskStepOf, Exit
  <2>2. Busy(k)
    BY <1>3 DEF TaskStep, JournalError, AppendFails, HandlerStep, InsertSession, SnapshotQueued,
                RouteEvent, RoutePanics, AppendRecord, ApplyRecord, DispatchNext, Send,
                SendFails, MutateReduced, Unregister, SnapshotDispatched, MarkOrphan, Busy
  <2>3. QED
    BY <2>1, <2>2 DEF Alone, OnlyTask
<1>4. CASE HubEnds \/ UNCHANGED vars \/ \E o \in OrderId : Trader(o)
  BY <1>4 DEF HubEnds, Trader, vars, runtimeVars
<1>5. CASE \E r \in requests : Broker(r)
  BY <1>5 DEF Broker, runtimeVars
<1>6. CASE \E k \in Task : ForwarderTakes(k) \/ ForwarderSends(k) \/ ForwarderEnds(k)
  BY <1>6 DEF ForwarderTakes, ForwarderSends, ForwarderEnds, runtimeVars
<1>7. CASE Crash
  BY <1>7 DEF Crash, Restarts, FreshTasks
<1>8. QED
  BY <1>2, <1>3, <1>4, <1>5, <1>6, <1>7
     DEF Next, SetUpNext, StartupFails, EnterLoop, TakeCommand, HandleMessage, UpdatePosition,
         UpdateCopy, ConnectionEnds, LeaveNext

LEMMA HandedStays ==
    ASSUME NEW k \in Task, TaskStepOf(k), ~Send(k)
    PROVE  handed' = handed
BY DEF TaskStepOf, HandlerStep, DrawSessionId, Leaves, InsertSession, SnapshotQueued, RouteEvent,
       RoutePanics, AppendRecord, ApplyRecord, DispatchNext, SendFails, MutateReduced,
       Unregister, SnapshotDispatched, MarkOrphan, AppendFails, Ends, HandleEvent, HandleAck

LEMMA FewerToSend ==
    ASSUME NEW S, NEW T, T \subseteq S, Distinct(S), FreshCommands(S, Sent)
    PROVE  Distinct(T) /\ FreshCommands(T, Sent)
BY DEF Distinct, FreshCommands

(* What a snapshot finds queued was never sent.                             *)
LEMMA SnapshotOnce ==
    ASSUME OnceInv, NEW a \in Account
    PROVE  /\ Distinct(CommandsIn("queued", a))
           /\ FreshCommands(CommandsIn("queued", a), Sent)
<1>1. WellKeyed(mem)
  BY DEF OnceInv, SeasonedInv, FinalInv, MirrorInv, OrderlyInv, KeyedInv
<1>2. ASSUME NEW d \in CommandsIn("queued", a)
      PROVE  /\ d.id \in CommandId /\ StateOf(mem, d.id) = "queued"
             /\ d = mem.commands[d.id].command
  BY <1>1 DEF CommandsIn, WellKeyed, Tracked
<1>3. QED
  BY <1>2 DEF Distinct, FreshCommands, OnceInv, PastState

(* A route adds a command of its own id for an event not seen before.       *)
LEMMA RouteOnce ==
    ASSUME OnceInv, NEW k \in Task, RouteEvent(k), KeyedInv
    PROVE  FirstTime(k)'
<1> DEFINE e == ev[k]
           b(i) == mem.mirrors[KeyOf(e.source, e.order, Rules[i].target)]
           planned(i) == todo[k] \cup IF Builds(Rules[i], e, b(i))
                                       THEN {BuiltCommand(Rules[i], e, b(i))} ELSE {}
<1>1. PICK i \in routes[k] :
        /\ todo' = [todo EXCEPT ![k] = planned(i)]
        /\ routes' = [routes EXCEPT ![k] = @ \ {i}]
        /\ IF routes[k] = {i}
           THEN Journal(k, EventPlanned(e.id, planned(i)), "dispatch")
           ELSE UNCHANGED <<pc, rec, ret>>
  BY DEF RouteEvent
<1>2. /\ pc[k] = "route" /\ ev' = ev /\ mem' = mem /\ handed' = handed
      /\ routes \in [Task -> SUBSET DOMAIN Rules]
  BY DEF RouteEvent, KeyedInv, RuntimeTypeInv, RuntimeTypeOK
<1>3. /\ Distinct(todo[k]) /\ FreshCommands(todo[k], Sent)
      /\ e.id \notin mem.seen
      /\ \A j \in routes[k], d \in todo[k] : d.id # CommandIdOf(e, Rules[j])
  BY <1>2 DEF OnceInv, FirstTime, Resumes
<1> DEFINE built == BuiltCommand(Rules[i], e, b(i))
<1>4. built.id = CommandIdOf(e, Rules[i]) /\ EventOf(built.id) = e.id
  BY DEF BuiltCommand, CommandIdOf, EventOf
<1>5. built.id \notin Sent
  BY <1>3, <1>4 DEF OnceInv, PastState
<1>6. planned(i) \subseteq todo[k] \cup {built}
  OBVIOUS
<1>7. \A j \in routes[k] \ {i} : CommandIdOf(e, Rules[j]) # built.id
  <2> SUFFICES ASSUME NEW j \in routes[k] \ {i}, CommandIdOf(e, Rules[j]) = built.id
               PROVE  FALSE
    OBVIOUS
  <2>1. Rules[j].id = Rules[i].id /\ i \in DOMAIN Rules /\ j \in DOMAIN Rules
    BY <1>2, <1>4 DEF CommandIdOf
  <2>2. QED
    BY <2>1, RulesAssumption
<1> HIDE DEF built, planned
<1>8. Distinct(planned(i)) /\ FreshCommands(planned(i), Sent)
  BY <1>3, <1>4, <1>5, <1>6 DEF Distinct, FreshCommands
<1>9. todo'[k] = planned(i) /\ routes'[k] = routes[k] \ {i} /\ ev'[k] = e
  BY <1>1, <1>2, Types
<1>10. \A j \in routes'[k], d \in todo'[k] : d.id # CommandIdOf(ev'[k], Rules[j])
  BY <1>3, <1>6, <1>7, <1>9
<1>11. pc'[k] \in {"route", "append"}
  BY <1>1, <1>2, Types DEF Journal, Goto
<1>12. Sent' = Sent
  BY <1>2 DEF Sent
<1>13. QED
  BY <1>2, <1>3, <1>8, <1>9, <1>10, <1>11, <1>12 DEF FirstTime

(* The steps that neither write nor send.                                   *)
LEMMA QuietOnce ==
    ASSUME OnceInv, NEW k \in Task, TaskStepOf(k), ~Writes(k), ~Send(k)
    PROVE  FirstTime(k)'
<1>1. KeyedInv /\ Orderly(k) /\ FirstTime(k)
  BY DEF OnceInv, SeasonedInv, FinalInv, MirrorInv, OrderlyInv
<1>2. handed' = handed /\ Sent' = Sent
  BY HandedStays DEF Sent
<1>3. ASSUME pc'[k] \notin {"route", "send"},
             Resumes(k)' => Distinct(todo'[k]) /\ FreshCommands(todo'[k], Sent)
      PROVE  FirstTime(k)'
  BY <1>2, <1>3 DEF FirstTime
<1>4. Distinct({}) /\ FreshCommands({}, Sent)
  BY DEF Distinct, FreshCommands
<1>5. CASE DrawSessionId(k) \/ Leaves(k) \/ InsertSession(k) \/ Unregister(k)
  BY <1>1, <1>3, <1>4, <1>5, Types DEF DrawSessionId, Leaves, InsertSession, Unregister, Goto,
                                       Orderly, AtEase
<1>6. CASE RoutePanics(k) \/ \E label \in Exit : Ends(k, label)
  BY <1>1, <1>3, <1>4, <1>6, Types DEF RoutePanics, Ends, Fail, Goto, Exit
<1>7. CASE SnapshotDispatched(k)
  BY <1>1, <1>3, <1>4, <1>7, Types DEF SnapshotDispatched, Loop, Resumes
<1>8. CASE SnapshotQueued(k)
  <2>1. todo'[k] = CommandsIn("queued", Owner[k]) /\ pc'[k] \in {"dispatch", "idle"}
    BY <1>1, <1>8, Types DEF SnapshotQueued, Loop
  <2>2. QED
    BY <1>1, <1>3, <2>1, Types, SnapshotOnce
<1>9. CASE MarkOrphan(k)
  BY <1>1, <1>3, <1>9, Types DEF MarkOrphan, Journal, Goto, Resumes
<1>10. CASE MutateReduced(k)
  BY <1>1, <1>3, <1>4, <1>10, Types DEF MutateReduced, Journal, Goto
<1>11. CASE RouteEvent(k)
  BY <1>1, <1>11, RouteOnce
<1>12. ASSUME NEW e \in Event, HandleEvent(k, e) PROVE FirstTime(k)'
  <2>1. todo'[k] = {}
    BY <1>1, <1>12 DEF HandleEvent, Orderly, AtEase
  <2>2. CASE RoutesFor(e.source) = {}
    BY <1>1, <1>3, <1>4, <1>12, <2>1, <2>2, Types DEF HandleEvent, Journal, Goto
  <2>3. CASE RoutesFor(e.source) # {}
    <3>1. pc'[k] = "route" /\ ev'[k] = e /\ mem' = mem /\ e.id \notin mem.seen
      BY <1>1, <1>12, <2>3, Types DEF HandleEvent, Goto, AlreadySeen
    <3>2. QED
      BY <1>2, <1>4, <2>1, <3>1 DEF FirstTime
  <2>4. QED
    BY <2>2, <2>3
<1>13. ASSUME NEW ack \in AckType, HandleAck(k, ack) PROVE FirstTime(k)'
  <2>1. todo[k] = {}
    BY <1>1, <1>13 DEF HandleAck, Orderly, AtEase
  <2>2. pc'[k] = "mirror" \/ (pc'[k] = "append" /\ todo' = todo)
    BY <1>1, <1>13, Types DEF HandleAck, Journal, Goto
  <2>3. QED
    BY <1>3, <1>4, <2>1, <2>2 DEF Resumes
<1>14. CASE DispatchNext(k) \/ SendFails(k)
  <2>1. todo'[k] \subseteq todo[k] /\ pc'[k] \in {"dispatch", "idle", "append"}
    BY <1>1, <1>14, Types DEF DispatchNext, SendFails, Loop, Journal, Goto
  <2>2. Resumes(k)
    BY <1>14 DEF DispatchNext, SendFails, Resumes
  <2>3. QED
    BY <1>1, <1>3, <2>1, <2>2, FewerToSend DEF FirstTime
<1>15. QED
  BY <1>5, <1>6, <1>7, <1>8, <1>9, <1>10, <1>11, <1>12, <1>13, <1>14
     DEF TaskStepOf, HandlerStep, Writes

(* Appends and applications.                                                *)
LEMMA WriteOnce ==
    ASSUME OnceInv, NEW k \in Task, Writes(k)
    PROVE  PastState(mem', Sent) /\ FirstTime(k)'
<1>1. KeyedInv /\ Orderly(k) /\ FirstTime(k) /\ Standing(k)
  BY DEF OnceInv, SeasonedInv, FinalInv, MirrorInv, OrderlyInv, KeyedInv, RuntimeTypeInv
<1>2. handed' = handed /\ Sent' = Sent
  BY DEF Sent, Writes, AppendRecord, ApplyRecord, AppendFails
<1>3. PastState(mem, Sent) /\ Sent \in SUBSET CommandId
  BY DEF OnceInv, Sent
<1>4. Distinct({}) /\ FreshCommands({}, Sent)
  BY DEF Distinct, FreshCommands
<1>5. CASE \E label \in Exit : AppendFails(k, label)
  BY <1>1, <1>2, <1>3, <1>4, <1>5, Types DEF AppendFails, Fail, Goto, Exit, FirstTime
<1>6. CASE AppendRecord(k)
  <2>1. mem' = mem /\ pc[k] = "append" /\ pc'[k] = "apply" /\ UNCHANGED <<ret, todo>>
    BY <1>1, <1>6, Types DEF AppendRecord, Goto
  <2>2. Resumes(k)' <=> Resumes(k)
    BY <2>1 DEF Resumes
  <2>3. QED
    BY <1>1, <1>2, <1>3, <2>1, <2>2 DEF FirstTime
<1>7. CASE ApplyRecord(k)
  <2> DEFINE r == rec[k]
  <2>1. /\ r \in RecordType /\ pc[k] = "apply" /\ mem' = Apply(mem, r)
        /\ ret[k] \in {"idle", "dispatch", "send", "orphans"}
    BY <1>1, <1>7 DEF ApplyRecord, Standing, KeyedInv, RuntimeTypeInv, RuntimeTypeOK
  <2>2. Resumes(k) => Distinct(todo[k]) /\ FreshCommands(todo[k], Sent)
    BY <1>1 DEF FirstTime
  <2>3. FreshRecord(r, Sent)
    BY <1>1, <2>1, <2>2 DEF FreshRecord, Orderly, Resumes
  <2>4. PastState(mem', Sent)
    BY <1>1, <1>3, <2>1, <2>3, PastApplied, Types
  <2>5. CASE ret[k] = "orphans"
    BY <1>1, <1>2, <1>4, <1>7, <2>4, <2>5, Types DEF ApplyRecord, Loop, FirstTime, Resumes
  <2>6. CASE ret[k] = "dispatch"
    <3>1. todo'[k] = todo[k] /\ pc'[k] \in {"dispatch", "idle"}
      BY <1>1, <1>7, <2>6, Types DEF ApplyRecord, Loop
    <3>2. QED
      BY <1>2, <2>1, <2>2, <2>4, <2>6, <3>1 DEF FirstTime, Resumes
  <2>7. CASE ret[k] = "idle"
    <3>1. todo'[k] = {} /\ pc'[k] = "idle"
      BY <1>1, <1>7, <2>1, <2>7, Types DEF ApplyRecord, Goto, Orderly
    <3>2. QED
      BY <1>2, <1>4, <2>4, <3>1 DEF FirstTime
  <2>8. CASE ret[k] = "send"
    <3>1. /\ todo'[k] = todo[k] /\ pc'[k] = "send" /\ rec'[k] = r
      BY <1>1, <1>7, <2>8, Types DEF ApplyRecord, Goto, KeyedInv, RuntimeTypeInv, RuntimeTypeOK
    <3>2. r.kind = "CommandDispatched" /\ ~IsPlanned(r) /\ ~IsFinalAck(r) /\ r.id \in CommandId
      BY <1>1, <2>1, <2>8, RecordShape DEF Standing, IsPlanned, IsFinalAck
    <3>3. StateOf(mem', r.id) # "queued"
      BY <1>1, <2>1, <3>2, OtherEntry, Types DEF StateOf, Tracked
    <3>4. QED
      BY <1>2, <2>1, <2>2, <2>4, <2>8, <3>1, <3>3 DEF FirstTime, Resumes
  <2>9. QED
    BY <2>1, <2>5, <2>6, <2>7, <2>8
<1>8. QED
  BY <1>5, <1>6, <1>7 DEF Writes

(* What is sent is on record as dispatched, and the other commands in hand  *)
(* have other ids.                                                          *)
LEMMA SendOnce ==
    ASSUME OnceInv, NEW k \in Task, Send(k)
    PROVE  SentOnce' /\ PastState(mem', Sent') /\ FirstTime(k)'
<1>1. /\ KeyedInv /\ Orderly(k) /\ FirstTime(k) /\ Standing(k) /\ FinalInv /\ SeasonedTask(k)
      /\ handed \in [CommandId -> 0..2]
  BY DEF OnceInv, SeasonedInv, FinalInv, MirrorInv, OrderlyInv, KeyedInv, RuntimeTypeInv,
         RuntimeTypeOK
<1>2. PICK c \in todo[k] :
        /\ c.id = rec[k].id
        /\ handed' = [handed EXCEPT ![c.id] = IF @ = 2 THEN 2 ELSE @ + 1]
        /\ Loop(k, "dispatch", todo[k] \ {c})
  BY DEF Send
<1>3. c.id \in CommandId
  BY <1>1, <1>2, Types, SMT DEF CommandType
<1>4. Distinct(todo[k]) /\ FreshCommands(todo[k], Sent) /\ StateOf(mem, c.id) # "queued"
  BY <1>1, <1>2 DEF Send, FirstTime, Resumes
<1>5. handed[c.id] = 0
  BY <1>1, <1>2, <1>3, <1>4 DEF FreshCommands, Sent
<1>6. handed'[c.id] = 1 /\ \A d \in CommandId \ {c.id} : handed'[d] = handed[d]
  BY <1>1, <1>2, <1>3, <1>5
<1>7. Sent' = Sent \cup {c.id}
  BY <1>3, <1>6 DEF Sent
<1>8. EventOf(c.id) \in mem.seen
  <2>1. Seasoned(c.id)
    BY <1>1, <1>2 DEF Send, SeasonedTask, Standing, IsPlanned
  <2>2. QED
    BY <1>1, <1>3, <2>1 DEF Seasoned, FinalInv, Past
<1>9. mem' = mem
  BY DEF Send
<1>10. PastState(mem', Sent')
  BY <1>4, <1>7, <1>8, <1>9 DEF OnceInv, PastState
<1>11. SentOnce'
  BY <1>6 DEF OnceInv, SentOnce
<1>12. todo'[k] = todo[k] \ {c} /\ pc'[k] \in {"dispatch", "idle"}
  BY <1>1, <1>2, Types DEF Loop
<1>13. Distinct(todo'[k]) /\ FreshCommands(todo'[k], Sent')
  BY <1>4, <1>7, <1>12 DEF Distinct, FreshCommands
<1>14. QED
  BY <1>10, <1>11, <1>12, <1>13 DEF FirstTime

LEMMA TaskOnce ==
    ASSUME OnceInv, NEW k \in Task, TaskStepOf(k)
    PROVE  SentOnce' /\ PastState(mem', Sent') /\ FirstTime(k)'
<1>1. KeyedInv
  BY DEF OnceInv, SeasonedInv, FinalInv, MirrorInv, OrderlyInv
<1>2. CASE Send(k)
  BY <1>2, SendOnce
<1>3. CASE ~Send(k)
  <2>1. handed' = handed
    BY <1>3, HandedStays
  <2>2. Sent' = Sent /\ SentOnce'
    BY <2>1 DEF Sent, OnceInv, SentOnce
  <2>3. CASE Writes(k)
    BY <2>2, <2>3, WriteOnce
  <2>4. CASE ~Writes(k)
    <3>1. mem' = mem
      BY <1>1, <2>4, QuietTask
    <3>2. QED
      BY <1>3, <2>2, <2>4, <3>1, QuietOnce DEF OnceInv
  <2>5. QED
    BY <2>3, <2>4
<1>4. QED
  BY <1>2, <1>3

LEMMA OnceStep ==
    ASSUME HubInv, OnceInv, WriteAhead, [Next]_vars
    PROVE  OnceInv'
<1>1. SeasonedInv'
  BY AnyStep, SeasonedStep, OneTaskEach DEF OnePublisher, OnceInv
<1>2. KeyedInv /\ RuntimeTypeInv /\ \A k \in Task : Orderly(k) /\ FirstTime(k)
  BY DEF OnceInv, SeasonedInv, FinalInv, MirrorInv, OrderlyInv, KeyedInv
<1>3. CASE Restarts
  <2>1. mem' = Finalize(file) /\ handed' = handed /\ \A k \in Task : pc'[k] = "off" /\ todo'[k] = {}
    BY <1>3 DEF Restarts, FreshTasks
  <2>2. Sent' = Sent /\ SentOnce'
    BY <2>1 DEF Sent, OnceInv, SentOnce
  <2>3. PastState(mem', Sent')
    <3> SUFFICES ASSUME NEW c \in Sent PROVE EventOf(c) \in mem'.seen /\ StateOf(mem', c) # "queued"
      BY <2>2 DEF PastState
    <3>1. c \in CommandId /\ EventOf(c) \in file.seen /\ StateOf(file, c) # "queued"
      BY DEF Sent, WriteAhead
    <3>2. QED
      BY <1>2, <2>1, <3>1, FinalizeEffect, Types
  <2>4. \A k \in Task : ~Busy(k)' /\ FirstTime(k)'
    BY <2>1 DEF Busy, FirstTime, Distinct, FreshCommands
  <2>5. QED
    BY <1>1, <2>2, <2>3, <2>4 DEF OnceInv, Alone
<1>4. CASE UNCHANGED <<mem, taskVars, handed>>
  BY <1>1, <1>4 DEF OnceInv, taskVars, Sent, SentOnce, Alone, Busy, FirstTime, Resumes
<1>5. ASSUME NEW k \in Task, TaskStepOf(k), OnlyTask(k) PROVE OnceInv'
  <2>1. \A j \in Task \ {k} : pc'[j] = pc[j] /\ todo'[j] = todo[j] /\ ~Busy(j)
    BY <1>2, <1>5, OthersStay DEF Unmoved, OnlyTask
  <2>2. \A j \in Task \ {k} : ~Busy(j)' /\ todo'[j] = {}
    BY <1>2, <2>1 DEF Busy, Orderly, AtEase
  <2>3. \A j \in Task \ {k} : FirstTime(j)'
    BY <2>2 DEF FirstTime, Busy, Distinct, FreshCommands
  <2>4. QED
    BY <1>1, <1>5, <2>2, <2>3, TaskOnce DEF OnceInv, Alone
<1>6. QED
  BY <1>3, <1>4, <1>5, StepTurns DEF OnceInv

(* A command is put on a channel once in its life, however often the hub's  *)
(* accounts are attached again and the daemon restarts: the backlog of an   *)
(* account and the commands of a live event are never the same ones.        *)
THEOREM SendsOnce == Spec => []SentOnce
<1>1. Init => HubLedger /\ HandedInv /\ OnceInv
  BY HubStart, LedgerStart, EmptyHanded, HandedStart, OnceStart DEF Init, HubLedger
<1>2. HubLedger /\ HandedInv /\ OnceInv /\ [Next]_vars => HubLedger' /\ HandedInv' /\ OnceInv'
  <2> SUFFICES ASSUME HubLedger, HandedInv, OnceInv, [Next]_vars
               PROVE  HubLedger' /\ HandedInv' /\ OnceInv'
    OBVIOUS
  <2>1. HandedInv'
    BY StepAcknowledged, HandedStep DEF HubLedger
  <2>2. WriteAhead
    BY AheadWritten DEF HubLedger, OnceInv, SeasonedInv
  <2>3. OnceInv'
    BY <2>2, OnceStep DEF HubLedger
  <2>4. QED
    BY <2>1, <2>3, HubLedgerStep
<1>3. OnceInv => SentOnce
  BY DEF OnceInv
<1>4. QED
  BY <1>1, <1>2, <1>3, PTL DEF Spec

-----------------------------------------------------------------------------
(* Sessions.  The session in an account's place in the map, and the one a   *)
(* task has captured to send on, is that of a task, so that a forwarder     *)
(* empties its channel; an account set up later than both draws another.    *)

InUse(s) == s # 0 /\ \E j \in Task : sid[j] = s
GoesOnToSend(k) ==
    pc[k] \in {"append", "apply"} /\ rec[k].kind = "CommandDispatched" => ret[k] = "send"

SeatInv ==
    /\ Seated
    /\ \A k \in Task \ SetUp : sid[k] = 0
    /\ \A k \in Task : sid[k] < nextId
    /\ \A a \in Account : sessions[a] # 0 => InUse(sessions[a])
    /\ \A k \in Task : Sending(k) => InUse(sess[k])
    /\ \A k \in Task : GoesOnToSend(k)

LEMMA SeatStart ==
    ASSUME Init
    PROVE  SeatInv
<1>1. /\ \A k \in Task : pc[k] = "off" /\ sid[k] = 0
      /\ nextId = 1 /\ \A a \in Account : sessions[a] = 0
  BY DEF Init, RuntimeInit, FreshTasks
<1>2. QED
  BY <1>1, SeatedStart DEF Init, SeatInv, Sending, GoesOnToSend

(* What a task's own steps change of that.                                  *)
LEMMA DispatchSeat ==
    ASSUME HubInv, SeatInv, NEW k \in Task, DispatchNext(k), Sending(k)'
    PROVE  InUse(sess'[k])
<1>1. KeyedInv /\ sess \in [Task -> 0..MaxSession]
  BY DEF HubInv, ReachInv, MirrorInv, OrderlyInv, KeyedInv, RuntimeTypeInv, RuntimeTypeOK
<1>2. PICK c \in todo[k] :
        IF sessions[c.target] = 0
        THEN Loop(k, "dispatch", todo[k] \ {c})
        ELSE sess' = [sess EXCEPT ![k] = sessions[c.target]]
  BY DEF DispatchNext
<1>3. sessions[c.target] # 0
  BY <1>1, <1>2, Types DEF Loop, Sending
<1>4. c.target \in Account
  BY <1>1, <1>2, Types, SMT DEF CommandType
<1>5. QED
  BY <1>1, <1>2, <1>3, <1>4 DEF SeatInv

LEMMA SessStays ==
    ASSUME KeyedInv, NEW k \in Task, TaskStepOf(k), ~DispatchNext(k), Sending(k)'
    PROVE  sess'[k] = sess[k]
<1> USE Types DEF Sending
<1>1. CASE RoutePanics(k) \/ \E label \in Exit : AppendFails(k, label) \/ Ends(k, label)
  BY <1>1 DEF RoutePanics, AppendFails, Ends, Fail, Goto, Exit
<1>2. CASE SendFails(k)
  BY <1>2 DEF SendFails, Journal, Goto
<1>3. CASE Send(k)
  BY <1>3 DEF Send, Loop
<1>4. QED
  BY <1>1, <1>2, <1>3 DEF TaskStepOf, HandlerStep, DrawSessionId, Leaves, InsertSession,
     SnapshotQueued, RouteEvent, AppendRecord, ApplyRecord, MutateReduced, Unregister,
     SnapshotDispatched, MarkOrphan, HandleEvent, HandleAck

LEMMA DispatchedGoesOn ==
    ASSUME OrderlyInv, NEW k \in Task, GoesOnToSend(k), TaskStepOf(k)
    PROVE  GoesOnToSend(k)'
<1>1. KeyedInv /\ Orderly(k)
  BY DEF OrderlyInv
<1> USE <1>1, Types DEF GoesOnToSend
<1>2. CASE \/ DrawSessionId(k) \/ Leaves(k) \/ InsertSession(k) \/ Unregister(k)
           \/ SnapshotQueued(k) \/ SnapshotDispatched(k)
  BY <1>2 DEF DrawSessionId, Leaves, InsertSession, Unregister, SnapshotQueued,
              SnapshotDispatched, Goto, Loop
<1>3. CASE RoutePanics(k) \/ \E label \in Exit : AppendFails(k, label) \/ Ends(k, label)
  BY <1>3 DEF RoutePanics, AppendFails, Ends, Fail, Goto, Exit
<1>4. CASE MarkOrphan(k) \/ SendFails(k)
  BY <1>4 DEF MarkOrphan, SendFails, Journal, Goto, CommandUnknown
<1>5. CASE MutateReduced(k)
  <2>1. rec[k].kind = "AckApplied"
    BY <1>5 DEF MutateReduced, KeyedInv, RuntimeTypeInv, Standing
  <2>2. rec'[k].kind = "AckApplied"
    BY <1>5, <2>1 DEF MutateReduced, Journal, AckApplied
  <2>3. QED
    BY <2>2
<1>6. CASE Send(k)
  BY <1>6 DEF Send, Loop
<1>7. CASE RouteEvent(k)
  <2>1. pc'[k] \notin {"append", "apply"} \/ rec'[k].kind = "EventPlanned"
    BY <1>7 DEF RouteEvent, Journal, Goto, EventPlanned
  <2>2. QED
    BY <2>1
<1>8. CASE AppendRecord(k)
  BY <1>8 DEF AppendRecord, Goto
<1>9. CASE ApplyRecord(k)
  <2>1. pc'[k] \notin {"append", "apply"}
    BY <1>9 DEF ApplyRecord, Goto, Loop, KeyedInv, RuntimeTypeInv, RuntimeTypeOK
  <2>2. QED
    BY <2>1
<1>10. CASE DispatchNext(k)
  BY <1>10 DEF DispatchNext, Journal, Goto, Loop
<1>11. ASSUME NEW e \in Event, HandleEvent(k, e) PROVE GoesOnToSend(k)'
  BY <1>11 DEF HandleEvent, Journal, Goto, EventPlanned
<1>12. ASSUME NEW ack \in AckType, HandleAck(k, ack) PROVE GoesOnToSend(k)'
  <2> DEFINE c == mem.commands[ack.id].command
  <2>1. c \in CommandType
    BY <1>12, StoredTyped DEF HandleAck, AckType
  <2>2. AckRecord(c, ack).kind # "CommandDispatched"
    BY <2>1, AckRecordShape
  <2>3. pc'[k] = "mirror" \/ rec'[k] = AckRecord(c, ack)
    BY <1>12 DEF HandleAck, Journal, Goto
  <2>4. QED
    BY <2>2, <2>3
<1>13. QED
  BY <1>2, <1>3, <1>4, <1>5, <1>6, <1>7, <1>8, <1>9, <1>10, <1>11, <1>12
     DEF TaskStepOf, HandlerStep

(* Only an account that is set up draws an id.                              *)
LEMMA IdsStay ==
    ASSUME [Next]_vars, ~SetUpNext, ~Crash
    PROVE  UNCHANGED <<nextId, sid, ready>>
<1>1. \A k, e : HandleEvent(k, e) => UNCHANGED <<nextId, sid>>
  BY DEF HandleEvent
<1>2. \A c, status, position : Acknowledge(c, status, position) => UNCHANGED <<nextId, sid>>
  BY DEF Acknowledge, HandleAck, runtimeVars, taskVars
<1>3. ASSUME NEW k \in Task, TaskStep(k) \/ JournalError(k) PROVE UNCHANGED <<nextId, sid, ready>>
  <2>1. UNCHANGED <<nextId, sid>>
    BY <1>3 DEF TaskStep, JournalError, AppendFails, Fail, HandlerStep, InsertSession,
                SnapshotQueued, RouteEvent, RoutePanics, AppendRecord, ApplyRecord, DispatchNext,
                Send, SendFails, MutateReduced, Unregister, SnapshotDispatched, MarkOrphan
  <2>2. ready' = ready
    BY <1>3 DEF TaskStep, JournalError, Stop, hubVars
  <2>3. QED
    BY <2>1, <2>2
<1>4. CASE TakeCommand
  BY <1>2, <1>4 DEF TakeCommand, runtimeVars, taskVars
<1>5. CASE HandleMessage
  BY <1>2, <1>5 DEF HandleMessage, HandleProtection, HandleOutcome, HandleUnmatched, runtimeVars,
                    taskVars
<1>6. CASE UpdatePosition
  BY <1>6 DEF UpdatePosition, HandleEvent, runtimeVars, taskVars
<1>7. CASE StartupFails \/ EnterLoop \/ UpdateCopy \/ ConnectionEnds \/ HubEnds
  BY <1>7 DEF StartupFails, EnterLoop, UpdateCopy, ConnectionEnds, HubEnds, Stop, runtimeVars,
              taskVars
<1>8. ASSUME NEW k \in Task, ForwarderTakes(k) \/ ForwarderSends(k) \/ ForwarderEnds(k) \/ LeaveNext(k)
      PROVE  UNCHANGED <<nextId, sid, ready>>
  BY <1>8 DEF ForwarderTakes, ForwarderSends, ForwarderEnds, LeaveNext, hubVars, runtimeVars, taskVars
<1>9. ASSUME NEW o \in OrderId, Trader(o) PROVE UNCHANGED <<nextId, sid, ready>>
  BY <1>9 DEF Trader, hubVars, runtimeVars, taskVars
<1>10. ASSUME NEW r \in requests, Broker(r) PROVE UNCHANGED <<nextId, sid, ready>>
  BY <1>10 DEF Broker, hubVars, runtimeVars, taskVars
<1>11. CASE UNCHANGED vars
  BY <1>11 DEF vars, hubVars, runtimeVars, taskVars
<1>12. QED
  BY <1>3, <1>4, <1>5, <1>6, <1>7, <1>8, <1>9, <1>10, <1>11 DEF Next

LEMMA SessionsMove ==
    ASSUME NEW k \in Task, TaskStepOf(k)
    PROVE  sessions' = sessions \/ InsertSession(k) \/ Unregister(k)
BY DEF TaskStepOf, HandlerStep, DrawSessionId, Leaves, SnapshotQueued, RouteEvent, RoutePanics,
       AppendRecord, ApplyRecord, DispatchNext, Send, SendFails, MutateReduced,
       SnapshotDispatched, MarkOrphan, AppendFails, Ends, HandleEvent, HandleAck

(* The next account in the line has no session yet.                         *)
LEMMA NextInLine ==
    ASSUME HubInv, SetUpNext
    PROVE  /\ Line[ready + 1] \in Task \ SetUp
           /\ SetUp' = SetUp \cup {Line[ready + 1]}
<1>1. Line \in Seq(Task) /\ ready \in 0..Len(Line) /\ ready < Len(Line) /\ ready' = ready + 1
  BY HubAssumption DEF SetUpNext, HubInv, TypeOK
<1>2. Len(Line) \in Nat /\ DOMAIN Line = 1..Len(Line)
  BY <1>1, SMT
<1>3. ready \in Nat /\ ready + 1 \in DOMAIN Line /\ Line[ready + 1] \in Task
  BY <1>1, <1>2, SMT
<1>4. \A i \in 1..ready : i \in DOMAIN Line /\ i # ready + 1
  BY <1>1, <1>2, SMT
<1>5. Line[ready + 1] \notin SetUp
  BY <1>3, <1>4, HubAssumption DEF SetUp
<1>6. 1..(ready + 1) = 1..ready \cup {ready + 1}
  BY <1>3, SMT
<1>7. QED
  BY <1>1, <1>3, <1>5, <1>6 DEF SetUp

LEMMA SeatStep ==
    ASSUME HubInv, SeatInv, [Next]_vars
    PROVE  SeatInv'
<1>1. OrderlyInv /\ KeyedInv /\ RuntimeTypeInv
  BY DEF HubInv, ReachInv, MirrorInv, OrderlyInv, KeyedInv
<1>2. /\ sid \in [Task -> 0..MaxSession] /\ nextId \in Nat /\ MaxSession \in Nat
      /\ sessions \in [Account -> 0..MaxSession] /\ Owner \in [Task -> Account]
  BY <1>1, RuntimeAssumption, SMT DEF RuntimeTypeInv, RuntimeTypeOK
<1>3. Seated'
  BY <1>1, AnyStep, SeatedStep DEF SeatInv
<1>4. CASE SetUpNext
  <2> DEFINE k == Line[ready + 1]
  <2>1. k \in Task \ SetUp /\ SetUp' = SetUp \cup {k}
    BY <1>4, NextInLine
  <2> HIDE DEF k
  <2>2. DrawSessionId(k)
    BY <1>4 DEF SetUpNext, k
  <2>3. /\ sid' = [sid EXCEPT ![k] = nextId] /\ nextId' = nextId + 1
        /\ pc'[k] = "register" /\ sessions' = sessions
    BY <1>1, <2>1, <2>2, Types DEF DrawSessionId, Goto
  <2>4. sid[k] = 0 /\ \A j \in Task : sid[j] < nextId
    BY <2>1 DEF SeatInv
  <2>5. \A j \in Task : sid'[j] = IF j = k THEN nextId ELSE sid[j]
    BY <1>2, <2>3
  <2>6. \A j \in Task : sid'[j] < nextId'
    BY <1>2, <2>3, <2>4, <2>5, SMT
  <2>7. ASSUME NEW s, InUse(s) PROVE InUse(s)'
    BY <2>4, <2>5, <2>7 DEF InUse
  <2>8. TaskStepOf(k)
    BY <2>2 DEF TaskStepOf
  <2>9. \A j \in Task \ {k} : Unmoved(j)
    BY <1>1, <2>1, <2>8, OthersStay
  <2>10. \A a \in Account : sessions'[a] # 0 => InUse(sessions[a])'
    BY <2>3, <2>7 DEF SeatInv
  <2>11. \A j \in Task : Sending(j)' => InUse(sess[j])'
    BY <2>3, <2>7, <2>9 DEF SeatInv, Sending, Unmoved, InUse
  <2>12. \A j \in Task : GoesOnToSend(j)'
    BY <2>3, <2>9 DEF SeatInv, GoesOnToSend, Unmoved
  <2>13. \A j \in Task \ SetUp' : sid'[j] = 0
    BY <2>1, <2>5 DEF SeatInv
  <2>14. QED
    BY <1>3, <2>6, <2>10, <2>11, <2>12, <2>13 DEF SeatInv
<1>5. CASE Crash
  <2>1. /\ \A k \in Task : pc'[k] = "off" /\ sid'[k] = 0
        /\ nextId' = 1 /\ \A a \in Account : sessions'[a] = 0
    BY <1>5 DEF Crash
  <2>2. QED
    BY <1>3, <2>1 DEF SeatInv, Sending, GoesOnToSend
<1>6. CASE ~SetUpNext /\ ~Crash
  <2>1. UNCHANGED <<nextId, sid, ready>>
    BY <1>6, IdsStay
  <2>2. SetUp' = SetUp /\ \A s : InUse(s)' <=> InUse(s)
    BY <2>1 DEF SetUp, InUse
  <2>3. ASSUME NEW k \in Task, TaskStepOf(k) PROVE SeatInv'
    <3>1. \A j \in Task \ {k} : Unmoved(j)
      BY <1>1, <2>3, OthersStay
    <3>2. GoesOnToSend(k)'
      BY <1>1, <2>3, DispatchedGoesOn DEF SeatInv
    <3>3. ASSUME Sending(k)' PROVE InUse(sess'[k])
      <4>1. CASE DispatchNext(k)
        BY <3>3, <4>1, DispatchSeat
      <4>2. CASE ~DispatchNext(k)
        BY <1>1, <2>3, <3>3, <4>2, SessStays, SendingStep DEF SeatInv
      <4>3. QED
        BY <4>1, <4>2
    <3>4. ASSUME NEW a \in Account, sessions'[a] # 0 PROVE InUse(sessions'[a])
      <4>1. CASE InsertSession(k)
        <5>1. sessions'[a] = IF a = Owner[k] THEN sid[k] ELSE sessions[a]
          BY <1>2, <4>1 DEF InsertSession
        <5>2. QED
          BY <3>4, <5>1 DEF SeatInv, InUse
      <4>2. CASE Unregister(k)
        <5>1. sessions'[a] = sessions[a] \/ sessions'[a] = 0
          BY <1>2, <4>2 DEF Unregister
        <5>2. QED
          BY <3>4, <5>1 DEF SeatInv
      <4>3. CASE sessions' = sessions
        BY <3>4, <4>3 DEF SeatInv
      <4>4. QED
        BY <2>3, <4>1, <4>2, <4>3, SessionsMove
    <3>5. \A j \in Task : Sending(j)' => InUse(sess[j])'
      BY <2>2, <3>1, <3>3 DEF SeatInv, Sending, Unmoved
    <3>6. \A j \in Task : GoesOnToSend(j)'
      BY <3>1, <3>2 DEF SeatInv, GoesOnToSend, Unmoved
    <3>7. \A a \in Account : sessions'[a] # 0 => InUse(sessions[a])'
      BY <2>2, <3>4
    <3>8. QED
      BY <1>3, <2>1, <2>2, <3>5, <3>6, <3>7 DEF SeatInv
  <2>4. CASE UNCHANGED <<sessions, taskVars>>
    BY <1>3, <2>1, <2>2, <2>4 DEF SeatInv, Sending, GoesOnToSend, taskVars
  <2>5. ASSUME Restarts PROVE SeatInv'
    <3>1. \A k \in Task : pc'[k] = "off"
      BY <2>5 DEF Restarts, FreshTasks
    <3>2. \A a \in Account : sessions'[a] = 0
      BY <2>5 DEF Restarts, FreshTasks
    <3>3. QED
      BY <1>3, <2>1, <2>2, <3>1, <3>2 DEF SeatInv, Sending, GoesOnToSend
  <2>6. QED
    BY <2>3, <2>4, <2>5, AnyStep, StepKinds
<1>7. QED
  BY <1>4, <1>5, <1>6

-----------------------------------------------------------------------------
(* While the hub runs, what is dispatched is pursued: a handler passes it   *)
(* from a record to a channel, the forwarder and the hub pass it on.        *)

RecordOf(k, c) ==
    rec[k].kind \in {"CommandDispatched", "CommandUnknown", "AckApplied"} /\ rec[k].id = c
QueuedFor(c) ==
    \E k \in Task :
        sid[k] # 0 /\ \E i \in DOMAIN chan[sid[k]].queue : chan[sid[k]].queue[i].id = c
Held(c) ==
    \/ \E k \in Task : forward[k].id = c
    \/ \E i \in DOMAIN commands : commands[i].id = c
    \/ \E d \in pending \cup protecting : d.id = c

(* What applying a record calls dispatched was so before, or is what the    *)
(* record is about.                                                         *)
LEMMA ApplyPursues ==
    ASSUME NEW s \in ReplayType, NEW r \in RecordType, NEW c \in CommandId,
           StateOf(Apply(s, r), c) = "dispatched"
    PROVE  /\ StateOf(s, c) = "dispatched" \/ (r.kind = "CommandDispatched" /\ r.id = c)
           /\ ~IsPlanned(r) /\ r.id = c => r.kind = "CommandDispatched"
<1>1. CASE IsPlanned(r)
  BY <1>1, PlannedEntry DEF StateOf
<1>2. CASE ~IsPlanned(r) /\ r.id # c
  BY <1>2, OtherEntry DEF StateOf
<1>3. CASE ~IsPlanned(r) /\ r.id = c
  <2>1. Tracked(s, c)
    BY <1>3, OtherEntry DEF StateOf, Tracked
  <2>2. ~IsFinalAck(r)
    BY <1>3, OtherEntry DEF Tracked, StateOf
  <2>3. QED
    BY <1>3, <2>1, <2>2, OtherEntry
<1>4. QED
  BY <1>1, <1>2, <1>3

LEMMA ChannelsStay ==
    ASSUME NEW k \in Task, TaskStepOf(k), ~DrawSessionId(k), ~Send(k)
    PROVE  UNCHANGED <<chan, sid>>
BY DEF TaskStepOf, HandlerStep, Leaves, InsertSession, SnapshotQueued, RouteEvent, RoutePanics,
       AppendRecord, ApplyRecord, DispatchNext, SendFails, MutateReduced, Unregister, Fail,
       SnapshotDispatched, MarkOrphan, AppendFails, Ends, HandleEvent, HandleAck

(* Sending keeps what is in the channels and adds what is sent.             *)
LEMMA SendQueues ==
    ASSUME HubInv, SeatInv, NEW k \in Task, Send(k), NEW c,
           QueuedFor(c) \/ RecordOf(k, c)
    PROVE  QueuedFor(c)'
<1>1. /\ chan \in [Session -> [open : BOOLEAN, queue : Seq(CommandType)]]
      /\ sid \in [Task -> 0..MaxSession] /\ MaxSession \in Nat /\ sid' = sid
  BY RuntimeAssumption DEF HubInv, TypeOK, RuntimeTypeOK, Send
<1>2. PICK d \in todo[k] :
        /\ d.id = rec[k].id
        /\ chan' = [chan EXCEPT ![sess[k]].queue = Append(@, d)]
  BY DEF Send
<1>3. PICK j \in Task : sid[j] = sess[k] /\ sid[j] # 0
  BY DEF SeatInv, Sending, Send, InUse
<1>4. \A t \in Task : sid[t] # 0 => sid[t] \in Session
  BY <1>1, SMT DEF Session
<1> DEFINE q(s) == chan[s].queue
<1>5. /\ \A s \in Session : q(s) \in Seq(CommandType)
      /\ \A s \in Session : chan'[s].queue = IF s = sess[k] THEN Append(q(s), d) ELSE q(s)
      /\ d \in CommandType
  <2>1. d \in CommandType
    BY Types DEF HubInv, ReachInv, MirrorInv, OrderlyInv
  <2>2. QED
    BY <1>1, <1>2, <2>1
<1> HIDE DEF q
<1>6. ASSUME NEW s \in Session
      PROVE  /\ \A i \in DOMAIN q(s) : i \in DOMAIN Append(q(s), d) /\ Append(q(s), d)[i] = q(s)[i]
             /\ Len(q(s)) + 1 \in DOMAIN Append(q(s), d) /\ Append(q(s), d)[Len(q(s)) + 1] = d
  BY <1>5, SMT
<1>7. CASE QueuedFor(c)
  <2>1. PICK t \in Task : sid[t] # 0 /\ \E i \in DOMAIN q(sid[t]) : q(sid[t])[i].id = c
    BY <1>7 DEF QueuedFor, q
  <2>2. \E i \in DOMAIN chan'[sid[t]].queue : chan'[sid[t]].queue[i].id = c
    BY <1>4, <1>5, <1>6, <2>1
  <2>3. QED
    BY <1>1, <2>1, <2>2 DEF QueuedFor
<1>8. CASE RecordOf(k, c)
  <2>1. sess[k] \in Session /\ d.id = c
    BY <1>2, <1>3, <1>4, <1>8 DEF RecordOf
  <2>2. chan'[sid[j]].queue = Append(q(sess[k]), d)
    BY <1>3, <1>5, <2>1
  <2>3. \E i \in DOMAIN Append(q(sess[k]), d) : Append(q(sess[k]), d)[i] = d
    BY <1>6, <2>1
  <2>4. QED
    BY <1>1, <1>3, <2>1, <2>2, <2>3 DEF QueuedFor
<1>9. QED
  BY <1>7, <1>8

(* A record passes to what follows it.                                      *)
LEMMA RecordPasses ==
    ASSUME HubInv, SeatInv, NEW k \in Task, TaskStepOf(k),
           \A label \in Exit : ~AppendFails(k, label),
           NEW c \in CommandId, RecordOf(k, c), StateOf(mem', c) = "dispatched"
    PROVE  RecordOf(k, c)' \/ QueuedFor(c)'
<1>1. /\ KeyedInv /\ Orderly(k) /\ Standing(k) /\ GoesOnToSend(k)
      /\ ret[k] \in {"idle", "dispatch", "send", "orphans"}
      /\ DOMAIN rec = Task
  BY Types DEF HubInv, ReachInv, MirrorInv, OrderlyInv, KeyedInv, RuntimeTypeInv, RuntimeTypeOK,
               SeatInv
<1>2. pc[k] \in {"append", "apply", "send", "mirror"}
  BY <1>1 DEF Orderly, RecordOf, NoRecord
<1>3. \/ AppendRecord(k) \/ ApplyRecord(k) \/ Send(k) \/ SendFails(k) \/ MutateReduced(k)
  BY <1>2 DEF TaskStepOf, HandlerStep, DrawSessionId, Leaves, InsertSession, SnapshotQueued,
              RouteEvent, RoutePanics, DispatchNext, Unregister, SnapshotDispatched, MarkOrphan,
              Ends, HandleEvent, HandleAck
<1>4. CASE AppendRecord(k)
  BY <1>4 DEF AppendRecord, RecordOf
<1>5. CASE ApplyRecord(k)
  <2>1. rec[k] \in RecordType /\ pc[k] = "apply" /\ mem' = Apply(mem, rec[k])
    BY <1>1, <1>5 DEF ApplyRecord, Standing
  <2>2. ~IsPlanned(rec[k])
    BY DEF RecordOf, IsPlanned
  <2>3. rec[k].kind = "CommandDispatched" /\ ret[k] = "send"
    BY <1>1, <2>1, <2>2, ApplyPursues, Types DEF RecordOf, GoesOnToSend
  <2>4. rec'[k] = rec[k]
    BY <1>1, <1>5, <2>3 DEF ApplyRecord
  <2>5. QED
    BY <2>4 DEF RecordOf
<1>6. CASE Send(k)
  BY <1>6, SendQueues
<1>7. CASE SendFails(k)
  BY <1>1, <1>7 DEF SendFails, Journal, RecordOf, CommandUnknown
<1>8. CASE MutateReduced(k)
  <2>1. PICK d \in todo[k] :
          rec'[k] = rec[k] \/ \E status, m : rec'[k] = AckApplied(d.id, status, m)
    BY <1>1, <1>8 DEF MutateReduced, Journal
  <2>2. d.id = rec[k].id
    BY <1>1, <1>8 DEF MutateReduced, Orderly
  <2>3. ASSUME NEW status, NEW m, rec'[k] = AckApplied(d.id, status, m)
        PROVE  RecordOf(k, c)'
    <3>1. rec'[k].kind = "AckApplied" /\ rec'[k].id = d.id
      BY <2>3 DEF AckApplied
    <3>2. QED
      BY <2>2, <3>1 DEF RecordOf
  <2>4. QED
    BY <2>1, <2>3 DEF RecordOf
<1>9. QED
  BY <1>3, <1>4, <1>5, <1>6, <1>7, <1>8

Pursued(c) == (\E k \in Task : RecordOf(k, c)) \/ QueuedFor(c)

LEMMA TaskPursues ==
    ASSUME HubInv, SeatInv, NEW k \in Task, TaskStepOf(k), ~DrawSessionId(k),
           \A label \in Exit : ~AppendFails(k, label),
           NEW c \in CommandId, StateOf(mem', c) = "dispatched"
    PROVE  /\ StateOf(mem, c) = "dispatched" \/ Pursued(c)'
           /\ Pursued(c) => Pursued(c)'
<1>1. KeyedInv /\ RuntimeTypeInv /\ Standing(k) /\ GoesOnToSend(k) /\ DOMAIN rec = Task
  BY Types DEF HubInv, ReachInv, MirrorInv, OrderlyInv, KeyedInv, RuntimeTypeInv, SeatInv
<1>2. StateOf(mem, c) = "dispatched" \/ Pursued(c)'
  <2>1. CASE ApplyRecord(k)
    <3>1. rec[k] \in RecordType /\ pc[k] = "apply" /\ mem' = Apply(mem, rec[k])
      BY <1>1, <2>1 DEF ApplyRecord, Standing
    <3>2. CASE rec[k].kind = "CommandDispatched" /\ rec[k].id = c
      <4>1. rec'[k] = rec[k]
        BY <1>1, <2>1, <3>1, <3>2 DEF ApplyRecord, GoesOnToSend
      <4>2. QED
        BY <3>2, <4>1 DEF Pursued, RecordOf
    <3>3. QED
      BY <1>1, <3>1, <3>2, ApplyPursues, Types
  <2>2. CASE ~ApplyRecord(k)
    <3>1. mem' = mem
      BY <1>1, <2>2, QuietTask DEF Writes, AppendRecord
    <3>2. QED
      BY <3>1
  <2>3. QED
    BY <2>1, <2>2
<1>3. ASSUME QueuedFor(c) PROVE QueuedFor(c)'
  <2>1. CASE Send(k)
    BY <1>3, <2>1, SendQueues
  <2>2. CASE ~Send(k)
    BY <1>3, <2>2, ChannelsStay DEF QueuedFor
  <2>3. QED
    BY <2>1, <2>2
<1>4. ASSUME NEW j \in Task, RecordOf(j, c) PROVE Pursued(c)'
  <2>1. CASE j = k
    BY <1>4, <2>1, RecordPasses DEF Pursued
  <2>2. CASE j # k
    BY <1>1, <1>4, <2>2, OthersStay DEF Unmoved, Pursued, RecordOf
  <2>3. QED
    BY <2>1, <2>2
<1>5. QED
  BY <1>2, <1>3, <1>4 DEF Pursued

LEMMA WaysTaken ==
    ASSUME NEW c
    PROVE  /\ OnItsWay(c) <=> Pursued(c) \/ Held(c)
           /\ OnItsWay(c)' <=> Pursued(c)' \/ Held(c)'
BY DEF OnItsWay, Pursued, RecordOf, QueuedFor, Held

(* An acknowledgement of a dispatched command is written down next.         *)
LEMMA AckPursues ==
    ASSUME HubInv, SeatInv, NEW d, Carried(d),
           NEW status \in AckStatus, NEW position \in CommandId \cup {NoPosition},
           Acknowledge(d, status, position),
           NEW c \in CommandId, StateOf(mem', c) = "dispatched"
    PROVE  /\ StateOf(mem, c) = "dispatched"
           /\ Pursued(c) \/ d.id = c => Pursued(c)'
<1> DEFINE k == TaskOf(d.target)
           ack == [id |-> d.id, status |-> status, position |-> position]
<1>1. d.id \in CommandId /\ k \in Task /\ ack \in AckType
  BY CommandFacts DEF AckType, Position
<1>2. KeyedInv /\ RuntimeTypeInv /\ DOMAIN rec = Task
  BY Types DEF HubInv, ReachInv, MirrorInv, OrderlyInv, KeyedInv
<1>3. CASE Tracked(mem, d.id)
  <2>1. HandleAck(k, ack)
    BY <1>3 DEF Acknowledge
  <2>2. mem' = mem /\ pc[k] = "idle"
    BY <2>1 DEF HandleAck
  <2>3. TaskStepOf(k) /\ ~DrawSessionId(k) /\ \A label \in Exit : ~AppendFails(k, label)
    BY <1>1, <2>1, <2>2 DEF TaskStepOf, DrawSessionId, AppendFails
  <2>4. Pursued(c) => Pursued(c)'
    BY <1>1, <2>3, TaskPursues
  <2> DEFINE command == mem.commands[d.id].command
  <2>5. command \in CommandType /\ command.id = d.id
    BY <1>1, <1>2, <1>3, Types, StoredTyped DEF KeyedInv, WellKeyed
  <2>6. rec'[k] = AckRecord(command, ack)
    BY <1>1, <1>2, <2>1 DEF HandleAck, Journal
  <2> HIDE DEF command
  <2>7. RecordOf(k, d.id)'
    BY <2>5, <2>6, AckRecordShape DEF RecordOf
  <2>8. QED
    BY <1>1, <2>2, <2>4, <2>7 DEF Pursued
<1>4. CASE ~Tracked(mem, d.id)
  <2>1. UNCHANGED <<mem, rec, sid, chan>>
    BY <1>4 DEF Acknowledge, runtimeVars, taskVars
  <2>2. d.id # c
    BY <1>4, <2>1 DEF Tracked
  <2>3. QED
    BY <2>1, <2>2 DEF Pursued, RecordOf, QueuedFor
<1>5. QED
  BY <1>3, <1>4

(* What is in a channel is at its head or stays in it.                      *)
LEMMA HeadOrTail ==
    ASSUME NEW S, NEW q \in Seq(S), q # <<>>, NEW i \in DOMAIN q
    PROVE  q[i] = Head(q) \/ \E j \in DOMAIN Tail(q) : Tail(q)[j] = q[i]
<1>1. i \in 1..Len(q) /\ Len(q) \in Nat /\ Head(q) = q[1] /\ Tail(q) \in Seq(S)
      /\ Len(Tail(q)) = Len(q) - 1
  BY SMT
<1>2. i # 1 => i - 1 \in DOMAIN Tail(q) /\ Tail(q)[i - 1] = q[i]
  BY <1>1, SMT
<1>3. QED
  BY <1>1, <1>2

LEMMA AppendKeeps ==
    ASSUME NEW S, NEW q \in Seq(S), NEW x \in S, NEW longer, longer = Append(q, x)
    PROVE  /\ \A i \in DOMAIN q : \E j \in DOMAIN longer : longer[j] = q[i]
           /\ \E j \in DOMAIN longer : longer[j] = x
<1>1. /\ \A i \in DOMAIN q : i \in DOMAIN longer /\ longer[i] = q[i]
      /\ Len(q) + 1 \in DOMAIN longer /\ longer[Len(q) + 1] = x
  BY SMT
<1>2. QED
  BY <1>1

(* The hub asks the broker for the next command, or acknowledges it.        *)
LEMMA TakePursues ==
    ASSUME HubInv, SeatInv, TakeCommand,
           NEW c \in CommandId, StateOf(mem', c) = "dispatched"
    PROVE  /\ StateOf(mem, c) = "dispatched"
           /\ OnItsWay(c) => OnItsWay(c)'
<1> DEFINE d == Head(commands)
<1>1. /\ commands \in Seq(CommandType) /\ commands # <<>> /\ commands' = Tail(commands)
      /\ forward' = forward /\ protecting' = protecting
  BY DEF TakeCommand, HubInv, TypeOK
<1>2. Carried(d)
  BY <1>1, FirstOf DEF HubInv, InHand
<1>3. \/ /\ UNCHANGED runtimeVars
         /\ pending' = pending \cup {d}
      \/ /\ Acknowledge(d, "rejected", NoPosition)
         /\ pending' = pending
  BY DEF TakeCommand, Await
<1> HIDE DEF d
<1>4. \A i \in DOMAIN commands :
        commands[i] = d \/ \E j \in DOMAIN commands' : commands'[j] = commands[i]
  BY <1>1, HeadOrTail DEF d
<1>5. Held(c) => d.id = c \/ Held(c)'
  BY <1>1, <1>3, <1>4 DEF Held
<1>6. CASE UNCHANGED runtimeVars /\ pending' = pending \cup {d}
  <2>1. UNCHANGED <<mem, rec, sid, chan>>
    BY <1>6 DEF runtimeVars, taskVars
  <2>2. Pursued(c) => Pursued(c)'
    BY <2>1 DEF Pursued, RecordOf, QueuedFor
  <2>3. d.id = c => Held(c)'
    BY <1>6 DEF Held
  <2>4. QED
    BY <1>5, <2>1, <2>2, <2>3, WaysTaken
<1>7. CASE Acknowledge(d, "rejected", NoPosition) /\ pending' = pending
  BY <1>2, <1>5, <1>7, AckPursues, OutcomeTyped, WaysTaken
<1>8. QED
  BY <1>3, <1>6, <1>7

(* An answer takes what it answers to its protection or acknowledges it.    *)
LEMMA AnswerPursues ==
    ASSUME HubInv, SeatInv, HandleMessage,
           NEW c \in CommandId, StateOf(mem', c) = "dispatched"
    PROVE  /\ StateOf(mem, c) = "dispatched"
           /\ OnItsWay(c) => OnItsWay(c)'
<1> DEFINE m == Head(inbox)
<1>1. m \in MessageType /\ commands' = commands /\ forward' = forward
  BY FirstOf DEF HandleMessage, HubInv, TypeOK
<1>2. \A d \in pending \cup protecting : Carried(d)
  BY DEF HubInv, InHand
<1> HIDE DEF m
<1>3. ASSUME NEW d, Carried(d), NEW status \in AckStatus,
             NEW position \in CommandId \cup {NoPosition}, Acknowledge(d, status, position),
             (pending \cup protecting) \ {d} \subseteq pending' \cup protecting'
      PROVE  StateOf(mem, c) = "dispatched" /\ (OnItsWay(c) => OnItsWay(c)')
  <2>1. Held(c) => d.id = c \/ Held(c)'
    BY <1>1, <1>3 DEF Held
  <2>2. QED
    BY <1>3, <2>1, AckPursues, WaysTaken
<1>4. ASSUME UNCHANGED runtimeVars, pending \cup protecting \subseteq pending' \cup protecting'
      PROVE  StateOf(mem, c) = "dispatched" /\ (OnItsWay(c) => OnItsWay(c)')
  <2>1. UNCHANGED <<mem, rec, sid, chan>>
    BY <1>4 DEF runtimeVars, taskVars
  <2>2. Held(c) => Held(c)'
    BY <1>1, <1>4 DEF Held
  <2>3. Pursued(c) => Pursued(c)'
    BY <2>1 DEF Pursued, RecordOf, QueuedFor
  <2>4. QED
    BY <2>1, <2>2, <2>3, WaysTaken
<1>5. CASE HandleProtection(m)
  <2>1. PICK d \in protecting :
          /\ protecting' = protecting \ {d} /\ pending' = pending
          /\ Acknowledge(d, IF m.type = "error" THEN "unknown" ELSE Outcome(m.type), d.id)
    BY <1>5 DEF HandleProtection
  <2>2. Carried(d) /\ d.id \in CommandId
    BY <1>2, CommandFacts
  <2>3. (IF m.type = "error" THEN "unknown" ELSE Outcome(m.type)) \in AckStatus
    BY OutcomeTyped
  <2>4. QED
    BY <1>3, <2>1, <2>2, <2>3
<1>6. CASE HandleOutcome(m)
  <2>1. PICK d \in pending :
          /\ IsFor(m, d) /\ pending' = pending \ {d}
          /\ \/ protecting' = protecting \cup {d} /\ UNCHANGED runtimeVars
             \/ protecting' = protecting /\ Acknowledge(d, "unknown", NoPosition)
             \/ /\ protecting' = protecting
                /\ Acknowledge(d, IF m.type = "error" THEN "rejected" ELSE Outcome(m.type),
                               m.position)
    BY <1>6 DEF HandleOutcome
  <2>2. Carried(d)
    BY <1>2
  <2>3. /\ m.position \in CommandId \cup {NoPosition}
        /\ (IF m.type = "error" THEN "rejected" ELSE Outcome(m.type)) \in AckStatus
    BY <1>1, <2>1, MessageTyped, OutcomeTyped DEF IsFor
  <2>4. CASE protecting' = protecting \cup {d} /\ UNCHANGED runtimeVars
    BY <1>4, <2>1, <2>4
  <2>5. CASE protecting' = protecting /\ Acknowledge(d, "unknown", NoPosition)
    BY <1>3, <2>1, <2>2, <2>5, OutcomeTyped
  <2>6. CASE /\ protecting' = protecting
             /\ Acknowledge(d, IF m.type = "error" THEN "rejected" ELSE Outcome(m.type),
                            m.position)
    BY <1>3, <2>1, <2>2, <2>3, <2>6
  <2>7. QED
    BY <2>1, <2>4, <2>5, <2>6
<1>7. CASE HandleUnmatched(m)
  BY <1>4, <1>7 DEF HandleUnmatched
<1>8. QED
  BY <1>5, <1>6, <1>7 DEF HandleMessage, m

(* A forwarder takes the head of its channel and puts it in the hub's.      *)
LEMMA ForwardPursues ==
    ASSUME HubInv, SeatInv, NEW k \in Task, ForwarderTakes(k) \/ ForwarderSends(k),
           NEW c \in CommandId, OnItsWay(c)
    PROVE  OnItsWay(c)'
<1>1. /\ chan \in [Session -> [open : BOOLEAN, queue : Seq(CommandType)]]
      /\ sid \in [Task -> 0..MaxSession] /\ MaxSession \in Nat
      /\ forward \in [Task -> CommandType \cup {Idle}]
      /\ commands \in Seq(CommandType)
  BY RuntimeAssumption DEF HubInv, TypeOK, RuntimeTypeOK
<1>2. \A t \in Task : sid[t] # 0 => sid[t] \in Session
  BY <1>1, SMT DEF Session
<1>3. Idle.id # c
  BY SMT DEF Idle, NoPosition, CommandId
<1>4. UNCHANGED <<rec, sid, pending, protecting>>
  BY DEF ForwarderTakes, ForwarderSends, runtimeVars, taskVars
<1>5. CASE ForwarderTakes(k)
  <2> DEFINE s == sid[k]
             q == chan[s].queue
  <2>1. /\ s \in Session /\ q # <<>> /\ q \in Seq(CommandType)
        /\ forward[k] = Idle /\ commands' = commands
        /\ forward' = [forward EXCEPT ![k] = Head(q)]
        /\ chan' = [chan EXCEPT ![s].queue = Tail(@)]
    BY <1>1, <1>2, <1>5 DEF ForwarderTakes
  <2>2. /\ chan'[s].queue = Tail(q) /\ \A t \in Session \ {s} : chan'[t] = chan[t]
        /\ forward'[k] = Head(q) /\ \A j \in Task \ {k} : forward'[j] = forward[j]
    BY <1>1, <2>1
  <2> HIDE DEF q
  <2>3. \A i \in DOMAIN q :
          q[i] = forward'[k] \/ \E j \in DOMAIN chan'[s].queue : chan'[s].queue[j] = q[i]
    BY <2>1, <2>2, HeadOrTail
  <2>4. Held(c) => Held(c)'
    BY <1>3, <1>4, <2>1, <2>2 DEF Held
  <2>5. ASSUME QueuedFor(c) PROVE QueuedFor(c)' \/ Held(c)'
    <3>1. PICK t \in Task : /\ sid[t] # 0
                            /\ \E i \in DOMAIN chan[sid[t]].queue : chan[sid[t]].queue[i].id = c
      BY <2>5 DEF QueuedFor
    <3>2. CASE sid[t] = s
      BY <1>4, <2>3, <3>1, <3>2 DEF q, QueuedFor, Held
    <3>3. CASE sid[t] # s
      <4>1. chan'[sid[t]] = chan[sid[t]]
        BY <1>2, <2>2, <3>1, <3>3
      <4>2. QED
        BY <1>4, <3>1, <4>1 DEF QueuedFor
    <3>4. QED
      BY <3>2, <3>3
  <2>6. (\E j \in Task : RecordOf(j, c)) => \E j \in Task : RecordOf(j, c)'
    BY <1>4 DEF RecordOf
  <2>7. QED
    BY <2>4, <2>5, <2>6, WaysTaken DEF Pursued
<1>6. CASE ForwarderSends(k)
  <2>1. /\ forward[k] \in CommandType /\ commands' = Append(commands, forward[k])
        /\ \A j \in Task \ {k} : forward'[j] = forward[j]
        /\ chan' = chan
    BY <1>1, <1>6 DEF ForwarderSends, runtimeVars
  <2>2. Held(c) => Held(c)'
    <3>1. commands \in Seq(CommandType) /\ forward[k] \in CommandType
      BY <1>1, <2>1
    <3>2. /\ \A i \in DOMAIN commands : \E j \in DOMAIN commands' : commands'[j] = commands[i]
          /\ \E j \in DOMAIN commands' : commands'[j] = forward[k]
      BY <2>1, <3>1, AppendKeeps
    <3>3. QED
      BY <1>4, <2>1, <3>2 DEF Held
  <2>3. Pursued(c) => Pursued(c)'
    BY <1>4, <2>1 DEF Pursued, RecordOf, QueuedFor
  <2>4. QED
    BY <2>2, <2>3, WaysTaken
<1>7. QED
  BY <1>5, <1>6

(* An account that is set up gets a channel of its own.                     *)
LEMMA SetUpPursues ==
    ASSUME HubInv, SeatInv, SetUpNext, NEW c \in CommandId, OnItsWay(c)
    PROVE  OnItsWay(c)'
<1> DEFINE k == Line[ready + 1]
<1>1. k \in Task \ SetUp
  BY NextInLine
<1>2. DrawSessionId(k) /\ UNCHANGED <<forward, commands, pending, protecting>>
  BY DEF SetUpNext
<1> HIDE DEF k
<1>3. /\ sid \in [Task -> 0..MaxSession] /\ MaxSession \in Nat /\ nextId \in Nat
      /\ chan \in [Session -> [open : BOOLEAN, queue : Seq(CommandType)]]
  BY RuntimeAssumption, SMT DEF HubInv, TypeOK, RuntimeTypeOK
<1>4. /\ sid' = [sid EXCEPT ![k] = nextId] /\ rec' = rec
      /\ chan' = [chan EXCEPT ![nextId] = [open |-> TRUE, queue |-> <<>>]]
  BY <1>2 DEF DrawSessionId
<1>5. ASSUME NEW t \in Task, sid[t] # 0
      PROVE  sid'[t] = sid[t] /\ chan'[sid[t]] = chan[sid[t]]
  <2>1. t # k /\ sid[t] < nextId
    BY <1>1, <1>5 DEF SeatInv
  <2>2. sid[t] # nextId /\ sid[t] \in Session
    BY <1>3, <1>5, <2>1, SMT DEF Session
  <2>3. QED
    BY <1>3, <1>4, <2>1, <2>2
<1>6. QueuedFor(c) => QueuedFor(c)'
  BY <1>5 DEF QueuedFor
<1>7. (\E j \in Task : RecordOf(j, c)) => \E j \in Task : RecordOf(j, c)'
  BY <1>4 DEF RecordOf
<1>8. Held(c) => Held(c)'
  BY <1>2 DEF Held
<1>9. QED
  BY <1>6, <1>7, <1>8, WaysTaken DEF Pursued

(* Whoever runs after a step ran before it, and pursues what he pursued.    *)
LEMMA StepPursues ==
    ASSUME HubInv, SeatInv, [Next]_vars, ~Crash, Running',
           NEW c \in CommandId, StateOf(mem', c) = "dispatched"
    PROVE  /\ Running
           /\ (StateOf(mem, c) = "dispatched" => OnItsWay(c)) => OnItsWay(c)'
<1> DEFINE Goal == /\ Running
                   /\ (StateOf(mem, c) = "dispatched" => OnItsWay(c)) => OnItsWay(c)'
<1>1. KeyedInv /\ RuntimeTypeInv /\ faults \in Nat
  BY RuntimeAssumption, SMT DEF HubInv, ReachInv, MirrorInv, OrderlyInv, KeyedInv,
     RuntimeTypeInv, RuntimeTypeOK
<1>2. ASSUME NEW k \in Task, TaskStepOf(k), ~DrawSessionId(k),
             \A label \in Exit : ~AppendFails(k, label),
             UNCHANGED <<forward, commands, pending, protecting>>
      PROVE  (StateOf(mem, c) = "dispatched" => OnItsWay(c)) => OnItsWay(c)'
  <2>1. Held(c) => Held(c)'
    BY <1>2 DEF Held
  <2>2. QED
    BY <1>2, <2>1, TaskPursues, WaysTaken
<1>3. ASSUME UNCHANGED <<runtimeVars, forward, commands, pending, protecting>>
      PROVE  (StateOf(mem, c) = "dispatched" => OnItsWay(c)) => OnItsWay(c)'
  BY <1>3 DEF OnItsWay, runtimeVars, taskVars
<1>4. CASE SetUpNext
  <2>1. mem' = mem /\ Running
    BY <1>4 DEF SetUpNext, DrawSessionId, Running
  <2>2. QED
    BY <1>4, <2>1, SetUpPursues
<1>5. CASE TakeCommand
  BY <1>5, TakePursues DEF TakeCommand, Running
<1>6. CASE HandleMessage
  BY <1>6, AnswerPursues DEF HandleMessage, Running
<1>7. CASE UpdatePosition
  <2>1. Running /\ UNCHANGED <<forward, commands, pending, protecting>>
    BY <1>7 DEF UpdatePosition, Running
  <2>2. UNCHANGED runtimeVars \/ \E k \in Task, e \in Event : HandleEvent(k, e)
    BY <1>7, UpdateReported
  <2>3. ASSUME NEW k \in Task, NEW e \in Event, HandleEvent(k, e)
        PROVE  /\ TaskStepOf(k) /\ ~DrawSessionId(k)
               /\ \A label \in Exit : ~AppendFails(k, label)
    BY <2>3 DEF TaskStepOf, HandleEvent, DrawSessionId, AppendFails
  <2>4. QED
    BY <1>2, <1>3, <2>1, <2>2, <2>3
<1>8. CASE EnterLoop \/ UpdateCopy \/ UNCHANGED vars
  BY <1>3, <1>8 DEF EnterLoop, UpdateCopy, vars, hubVars, Running
<1>9. CASE StartupFails \/ ConnectionEnds \/ HubEnds
  BY <1>9 DEF StartupFails, ConnectionEnds, HubEnds, Stop, Running
<1>10. ASSUME NEW o \in OrderId, Trader(o) PROVE Goal
  BY <1>3, <1>10 DEF Trader, hubVars, Running
<1>11. ASSUME NEW r \in requests, Broker(r) PROVE Goal
  BY <1>3, <1>11 DEF Broker, hubVars, Running
<1>12. ASSUME NEW k \in Task, ForwarderTakes(k) \/ ForwarderSends(k) PROVE Goal
  <2>1. mem' = mem /\ Running
    BY <1>12 DEF ForwarderTakes, ForwarderSends, runtimeVars, Running
  <2>2. QED
    BY <1>12, <2>1, ForwardPursues
<1>13. ASSUME NEW k \in Task, ForwarderEnds(k) \/ LeaveNext(k) \/ JournalError(k) PROVE Goal
  BY <1>13 DEF ForwarderEnds, LeaveNext, JournalError, Stop, hubVars, Running
<1>14. ASSUME NEW k \in Task, TaskStep(k) PROVE Goal
  <2>1. HandlerStep(k) /\ UNCHANGED hubVars
    BY <1>14 DEF TaskStep, Stop, Running
  <2>2. TaskStepOf(k) /\ pc[k] # "off"
    BY <2>1 DEF TaskStepOf, HandlerStep, InsertSession, SnapshotQueued, RouteEvent, RoutePanics,
                AppendRecord, ApplyRecord, DispatchNext, Send, SendFails, MutateReduced,
                Unregister, SnapshotDispatched, MarkOrphan
  <2>3. faults' = faults
    BY <2>1 DEF HandlerStep, InsertSession, SnapshotQueued, RouteEvent, RoutePanics,
                AppendRecord, ApplyRecord, DispatchNext, Send, SendFails, MutateReduced,
                Unregister, SnapshotDispatched, MarkOrphan
  <2>4. \A label \in Exit : ~AppendFails(k, label)
    <3>1. faults + 1 # faults
      BY <1>1, SMT
    <3>2. QED
      BY <2>3, <3>1 DEF AppendFails
  <2>5. Running
    BY <2>1 DEF hubVars, Running
  <2>6. QED
    BY <1>2, <2>1, <2>2, <2>4, <2>5 DEF DrawSessionId, hubVars
<1>15. QED
  BY <1>4, <1>5, <1>6, <1>7, <1>8, <1>9, <1>10, <1>11, <1>12, <1>13, <1>14 DEF Next

(* After a restart nothing is called dispatched: it is UNKNOWN.             *)
LEMMA CrashPursues ==
    ASSUME HubInv, Crash
    PROVE  \A c \in CommandId : StateOf(mem', c) # "dispatched"
BY FinalizeEffect DEF Crash, HubInv, TypeOK, RuntimeTypeOK

(* While the hub runs, somebody pursues every command the journal calls     *)
(* dispatched: it is in a channel, asked of the broker, or acknowledged.    *)
THEOREM DispatchedPursued == Spec => []DispatchedIsPursued
<1>1. Init => HubInv /\ SeatInv /\ DispatchedIsPursued
  <2> SUFFICES ASSUME Init PROVE HubInv /\ SeatInv /\ DispatchedIsPursued
    OBVIOUS
  <2>1. \A c \in CommandId : StateOf(mem, c) # "dispatched"
    BY DEF Init, RuntimeInit, EmptyReplay, StateOf, Absent
  <2>2. QED
    BY <2>1, HubStart, SeatStart DEF DispatchedIsPursued
<1>2. /\ HubInv /\ SeatInv /\ DispatchedIsPursued /\ [Next]_vars
      => HubInv' /\ SeatInv' /\ DispatchedIsPursued'
  <2> SUFFICES ASSUME HubInv, SeatInv, DispatchedIsPursued, [Next]_vars
               PROVE  HubInv' /\ SeatInv' /\ DispatchedIsPursued'
    OBVIOUS
  <2>1. HubInv' /\ SeatInv'
    BY HubStep, SeatStep
  <2>2. ASSUME Running', NEW c \in CommandId, StateOf(mem', c) = "dispatched"
        PROVE  OnItsWay(c)'
    BY <2>2, StepPursues, CrashPursues DEF DispatchedIsPursued
  <2>3. DispatchedIsPursued'
    BY <2>2 DEF DispatchedIsPursued
  <2>4. QED
    BY <2>1, <2>3
<1>3. QED
  BY <1>1, <1>2, PTL DEF Spec

-----------------------------------------------------------------------------
(* What the hub is told last of a position is how the trader has it.  The   *)
(* last word about it is in the inbox, in the message being handled, or     *)
(* already in the hub's snapshot.                                           *)

ToldLast(q, o, snapshot) ==
    \E i \in DOMAIN q :
        /\ About(q[i], o) /\ q[i].snapshot = snapshot
        /\ \A j \in DOMAIN q : About(q[j], o) => j <= i
Untold(q, o) == \A i \in DOMAIN q : ~About(q[i], o)

Learned(o) ==
    IF message # NoMessage /\ About(message, o) THEN message.snapshot ELSE known[o]
UpToDate(o) ==
    ToldLast(inbox, o, held[o]) \/ (Untold(inbox, o) /\ Learned(o) = held[o])

SyncInv ==
    /\ phase # "update" => message = NoMessage
    /\ phase \in {"loop", "update"} => SetUp = Task
    /\ Running /\ ~missed => \A o \in OrderId : Hooked(o) => UpToDate(o)

LEMMA SyncStart ==
    ASSUME Init
    PROVE  SyncInv
<1>1. SetUp = {}
  BY SMT DEF Init, SetUp
<1>2. QED
  BY <1>1, OrderServed DEF Init, SyncInv, Hooked

LEMMA ToldMore ==
    ASSUME NEW q \in Seq(MessageType), NEW m \in MessageType, NEW o, NEW snapshot,
           NEW longer, longer = q \o <<m>>
    PROVE  /\ About(m, o) /\ m.snapshot = snapshot => ToldLast(longer, o, snapshot)
           /\ ~About(m, o) /\ ToldLast(q, o, snapshot) => ToldLast(longer, o, snapshot)
           /\ ~About(m, o) /\ Untold(q, o) => Untold(longer, o)
           /\ longer \in Seq(MessageType)
<1>1. /\ Len(q) \in Nat /\ DOMAIN longer = 1..(Len(q) + 1) /\ DOMAIN q = 1..Len(q)
      /\ longer[Len(q) + 1] = m /\ \A i \in DOMAIN q : longer[i] = q[i]
      /\ longer \in Seq(MessageType)
  BY SMT
<1>2. Len(q) + 1 \in DOMAIN longer /\ \A i \in DOMAIN longer : i <= Len(q) + 1
  BY <1>1, SMT
<1>3. \A i \in DOMAIN longer : i \in DOMAIN q \/ i = Len(q) + 1
  BY <1>1, SMT
<1>4. \A i \in DOMAIN q : i \in DOMAIN longer
  BY <1>1, SMT
<1>5. About(m, o) /\ m.snapshot = snapshot => ToldLast(longer, o, snapshot)
  BY <1>1, <1>2 DEF ToldLast
<1>6. ~About(m, o) /\ ToldLast(q, o, snapshot) => ToldLast(longer, o, snapshot)
  BY <1>1, <1>3, <1>4 DEF ToldLast
<1>7. ~About(m, o) /\ Untold(q, o) => Untold(longer, o)
  BY <1>1, <1>3 DEF Untold
<1>8. QED
  BY <1>1, <1>5, <1>6, <1>7

(* The head of the inbox is the last word about a position or is followed   *)
(* by it.                                                                   *)
LEMMA ToldLess ==
    ASSUME NEW q \in Seq(MessageType), q # <<>>, NEW o, NEW snapshot
    PROVE  /\ ToldLast(q, o, snapshot) =>
                \/ ToldLast(Tail(q), o, snapshot)
                \/ Untold(Tail(q), o) /\ About(Head(q), o) /\ Head(q).snapshot = snapshot
           /\ Untold(q, o) => Untold(Tail(q), o) /\ ~About(Head(q), o)
<1> DEFINE t == Tail(q)
<1>1. /\ Len(q) \in Nat /\ Head(q) = q[1] /\ 1 \in DOMAIN q
      /\ \A j \in DOMAIN t : j \in Nat /\ j > 0 /\ j + 1 \in DOMAIN q /\ t[j] = q[j + 1]
      /\ \A i \in DOMAIN q : i \in Nat /\ (i # 1 => i - 1 \in DOMAIN t /\ t[i - 1] = q[i])
  BY SMT
<1> HIDE DEF t
<1>2. Untold(q, o) => Untold(t, o) /\ ~About(Head(q), o)
  BY <1>1 DEF Untold
<1>3. ASSUME NEW i \in DOMAIN q, About(q[i], o), q[i].snapshot = snapshot,
             \A j \in DOMAIN q : About(q[j], o) => j <= i
      PROVE  \/ ToldLast(t, o, snapshot)
             \/ Untold(t, o) /\ About(Head(q), o) /\ Head(q).snapshot = snapshot
  <2>1. ASSUME NEW j \in DOMAIN t, About(t[j], o) PROVE j + 1 <= i
    BY <1>1, <1>3, <2>1
  <2>2. CASE i = 1
    <3>1. \A j \in DOMAIN t : j + 1 > 1
      BY <1>1, SMT
    <3>2. Untold(t, o)
      <4>1. ASSUME NEW j \in DOMAIN t, About(t[j], o) PROVE FALSE
        <5>1. j + 1 <= 1 /\ j \in Nat /\ j > 0
          BY <1>1, <2>1, <2>2, <4>1
        <5>2. QED
          BY <5>1, SMT
      <4>2. QED
        BY <4>1 DEF Untold
    <3>3. QED
      BY <1>1, <1>3, <2>2, <3>2
  <2>3. CASE i # 1
    <3>1. i - 1 \in DOMAIN t /\ t[i - 1] = q[i]
      BY <1>1, <2>3
    <3>2. ASSUME NEW j \in DOMAIN t, About(t[j], o) PROVE j <= i - 1
      <4>1. j + 1 <= i /\ j \in Nat /\ i \in Nat
        BY <1>1, <2>1, <3>2
      <4>2. QED
        BY <4>1, SMT
    <3>3. QED
      BY <1>3, <3>1, <3>2 DEF ToldLast
  <2>4. QED
    BY <2>2, <2>3
<1>4. QED
  BY <1>2, <1>3 DEF ToldLast, t

(* A trader's change is told at once, behind everything said before.        *)
LEMMA TraderTells ==
    ASSUME HubInv, NEW o \in OrderId, Trader(o), Running, Hooked(o)
    PROVE  \E m \in MessageType :
             /\ m.about = "trader" /\ m.order = o /\ m.snapshot = held'[o]
             /\ \/ inbox' = inbox \o <<m>>
                \/ \E n \in MessageType :
                     /\ n.about = "trader" /\ n.order = o
                     /\ inbox' = (inbox \o <<n>>) \o <<m>>
<1> DEFINE report(type, snapshot) ==
             [about |-> "trader", type |-> type, order |-> o, snapshot |-> snapshot]
<1>1. PICK new \in (Snapshot \cup {Unlisted}) \ {held[o]}, announced \in BOOLEAN :
        /\ new.volume # 0
        /\ announced => held[o] = Unlisted
        /\ held' = [held EXCEPT ![o] = new]
        /\ Tell(AccountOf(o),
                (IF announced THEN <<report("accepted", [new EXCEPT !.volume = 0])>> ELSE <<>>)
                \o <<report("filled", new)>>)
  BY DEF Trader
<1>2. /\ inbox \in Seq(MessageType) /\ MaxVolume \in Nat
      /\ held \in [OrderId -> Snapshot \cup {Unlisted}]
  BY HubAssumption DEF HubInv, TypeOK
<1>3. held'[o] = new
  BY <1>1, <1>2
<1> DEFINE first == report("accepted", [new EXCEPT !.volume = 0])
           last == report("filled", new)
<1>4. last \in MessageType /\ last.about = "trader" /\ last.order = o /\ last.snapshot = new
  BY SMT DEF MessageType
<1>5. first.about = "trader" /\ first.order = o
  OBVIOUS
<1>6. announced => first \in MessageType
  <2>1. SUFFICES ASSUME announced PROVE first \in MessageType
    OBVIOUS
  <2>2. new \in Snapshot /\ 0 \in 0..MaxVolume
    BY <1>1, <1>2, <2>1, SMT
  <2>3. [new EXCEPT !.volume = 0] \in Snapshot
    BY <2>2 DEF Snapshot
  <2>4. QED
    BY <2>3, SMT DEF MessageType
<1>7. inbox' = inbox \o ((IF announced THEN <<first>> ELSE <<>>) \o <<last>>)
  BY <1>1 DEF Tell, Hooked
<1> HIDE DEF first, last
<1>8. CASE announced
  <2>1. inbox \o (<<first>> \o <<last>>) = (inbox \o <<first>>) \o <<last>>
    BY <1>2, <1>4, <1>6, <1>8, SMT
  <2>2. inbox' = (inbox \o <<first>>) \o <<last>>
    BY <1>7, <1>8, <2>1
  <2>3. QED
    BY <1>3, <1>4, <1>5, <1>6, <1>8, <2>2
<1>9. CASE ~announced
  <2>1. inbox \o (<<>> \o <<last>>) = inbox \o <<last>>
    BY <1>2, <1>4, SMT
  <2>2. inbox' = inbox \o <<last>>
    BY <1>7, <1>9, <2>1
  <2>3. QED
    BY <1>3, <1>4, <2>2
<1>10. QED
  BY <1>8, <1>9

LEMMA TraderSyncs ==
    ASSUME HubInv, SyncInv, Running, ~missed, NEW o \in OrderId, Trader(o)
    PROVE  \A p \in OrderId : Hooked(p) => UpToDate(p)'
<1>1. /\ UNCHANGED <<message, known>> /\ inbox \in Seq(MessageType)
      /\ held \in [OrderId -> Snapshot \cup {Unlisted}]
      /\ \E new : held' = [held EXCEPT ![o] = new]
  BY DEF Trader, hubVars, HubInv, TypeOK
<1>2. \A p \in OrderId \ {o} : held'[p] = held[p]
  BY <1>1
<1>3. \A p \in OrderId : Hooked(p) => UpToDate(p)
  BY DEF SyncInv
<1>4. CASE ~Hooked(o)
  <2>1. inbox' = inbox
    BY <1>4 DEF Trader, Tell, Hooked
  <2>2. QED
    BY <1>1, <1>2, <1>3, <1>4, <2>1 DEF UpToDate, Learned
<1>5. CASE Hooked(o)
  <2>1. PICK m \in MessageType :
           /\ m.about = "trader" /\ m.order = o /\ m.snapshot = held'[o]
           /\ \/ inbox' = inbox \o <<m>>
              \/ \E n \in MessageType :
                   /\ n.about = "trader" /\ n.order = o
                   /\ inbox' = (inbox \o <<n>>) \o <<m>>
    BY <1>5, TraderTells
  <2>2. About(m, o) /\ \A p : p # o => ~About(m, p)
    BY <2>1 DEF About
  <2>3. CASE inbox' = inbox \o <<m>>
    <3>1. ToldLast(inbox', o, held'[o])
      BY <1>1, <2>1, <2>2, <2>3, ToldMore
    <3>2. ASSUME NEW p \in OrderId, p # o, Hooked(p) PROVE UpToDate(p)'
      <4>1. /\ ToldLast(inbox, p, held[p]) => ToldLast(inbox', p, held[p])
            /\ Untold(inbox, p) => Untold(inbox', p)
        BY <1>1, <2>1, <2>2, <2>3, <3>2, ToldMore
      <4>2. QED
        BY <1>1, <1>2, <1>3, <3>2, <4>1 DEF UpToDate, Learned, ToldLast, Untold
    <3>3. QED
      BY <3>1, <3>2 DEF UpToDate, ToldLast
  <2>4. ASSUME NEW n \in MessageType, n.about = "trader", n.order = o,
               inbox' = (inbox \o <<n>>) \o <<m>>
        PROVE  \A p \in OrderId : Hooked(p) => UpToDate(p)'
    <3> DEFINE q == inbox \o <<n>>
    <3>1. inbox' = q \o <<m>> /\ q = inbox \o <<n>>
      BY <2>4
    <3> HIDE DEF q
    <3>2. q \in Seq(MessageType)
      BY <1>1, <2>4, <3>1, ToldMore
    <3>3. ToldLast(inbox', o, held'[o])
      BY <2>1, <2>2, <3>1, <3>2, ToldMore
    <3>4. ASSUME NEW p \in OrderId, p # o, Hooked(p) PROVE UpToDate(p)'
      <4>1. ~About(n, p)
        BY <2>4, <3>4 DEF About
      <4>2. /\ ToldLast(inbox, p, held[p]) => ToldLast(q, p, held[p])
            /\ Untold(inbox, p) => Untold(q, p)
        BY <1>1, <2>4, <3>1, <4>1, ToldMore
      <4>3. /\ ToldLast(q, p, held[p]) => ToldLast(inbox', p, held[p])
            /\ Untold(q, p) => Untold(inbox', p)
        BY <2>1, <2>2, <3>1, <3>2, <3>4, ToldMore
      <4>4. QED
        BY <1>1, <1>2, <1>3, <3>4, <4>2, <4>3 DEF UpToDate, Learned, ToldLast, Untold
    <3>5. QED
      BY <3>3, <3>4 DEF UpToDate, ToldLast
  <2>5. QED
    BY <2>1, <2>3, <2>4
<1>6. QED
  BY <1>4, <1>5

LEMMA BrokerSyncs ==
    ASSUME HubInv, SyncInv, Running, ~missed, NEW r \in requests, Broker(r)
    PROVE  \A p \in OrderId : Hooked(p) => UpToDate(p)'
<1>1. UNCHANGED <<message, known, held>> /\ inbox \in Seq(MessageType)
  BY DEF Broker, hubVars, HubInv, TypeOK
<1>2. ASSUME NEW p \in OrderId, Hooked(p) PROVE UpToDate(p)'
  <2>1. UpToDate(p)
    BY <1>2 DEF SyncInv
  <2>2. CASE inbox' = inbox
    BY <1>1, <2>1, <2>2 DEF UpToDate, Learned
  <2>3. ASSUME NEW m \in MessageType, m.about = "request", inbox' = inbox \o <<m>>
        PROVE  UpToDate(p)'
    <3>1. ~About(m, p)
      BY <2>3 DEF About
    <3>2. /\ ToldLast(inbox, p, held[p]) => ToldLast(inbox', p, held[p])
          /\ Untold(inbox, p) => Untold(inbox', p)
      BY <1>1, <2>3, <3>1, ToldMore
    <3>3. QED
      BY <1>1, <2>1, <3>2 DEF UpToDate, Learned, ToldLast, Untold
  <2>4. QED
    BY <2>2, <2>3, BrokerSays DEF AnswerOf
<1>3. QED
  BY <1>2

LEMMA SetUpSyncs ==
    ASSUME HubInv, SyncInv, SetUpNext, ~missed'
    PROVE  \A p \in OrderId : Hooked(p)' => UpToDate(p)'
<1> DEFINE k == Line[ready + 1]
<1>1. k \in Task /\ SetUp' = SetUp \cup {k}
  BY NextInLine
<1>2. /\ ~missed /\ inbox = <<>> /\ inbox' = <<>> /\ message = NoMessage /\ message' = NoMessage
      /\ Running /\ held' = held
  BY DEF SetUpNext, SyncInv, Running
<1>3. \A o \in OrderId : known'[o] = IF AccountOf(o) = Owner[k] THEN held[o] ELSE known[o]
  BY DEF SetUpNext, ReconcilePositions, OfAccount
<1> HIDE DEF k
<1>4. ASSUME NEW p \in OrderId, Hooked(p)' PROVE UpToDate(p)'
  <2>1. TaskOf(AccountOf(p)) \in SetUp \cup {k}
    BY <1>1, <1>4 DEF Hooked
  <2>2. known'[p] = held[p]
    <3>1. CASE AccountOf(p) = Owner[k]
      BY <1>3, <3>1
    <3>2. CASE AccountOf(p) # Owner[k]
      <4>1. Hooked(p)
        BY <2>1, <3>2, OrderServed DEF Hooked
      <4>2. UpToDate(p)
        BY <1>2, <4>1 DEF SyncInv
      <4>3. known[p] = held[p]
        BY <1>2, <4>2 DEF UpToDate, ToldLast, Learned
      <4>4. QED
        BY <1>3, <3>2, <4>3
    <3>3. QED
      BY <3>1, <3>2
  <2>3. QED
    BY <1>2, <2>2 DEF UpToDate, Untold, Learned
<1>5. QED
  BY <1>4

(* The message that is taken off the inbox is in hand until it is handled.  *)
LEMMA ReadSyncs ==
    ASSUME HubInv, SyncInv, ~missed, HandleMessage \/ UpdatePosition \/ UpdateCopy
    PROVE  \A p \in OrderId : Hooked(p) => UpToDate(p)'
<1>1. /\ inbox \in Seq(MessageType) /\ held' = held
      /\ known \in [OrderId -> Snapshot \cup {Unlisted}] /\ Running
      /\ \A i \in DOMAIN inbox : inbox[i] \in MessageType
      /\ phase = "update" => message \in MessageType
  BY DEF HandleMessage, UpdatePosition, UpdateCopy, brokerVars, Running, HubInv, TypeOK
<1>2. NoMessage \notin MessageType
  BY MessageThere
<1>3. ASSUME NEW p \in OrderId, Hooked(p) PROVE UpToDate(p)'
  <2>1. UpToDate(p)
    BY <1>1, <1>3 DEF SyncInv
  <2>2. CASE HandleMessage
    <3> DEFINE m == Head(inbox)
    <3>1. /\ inbox # <<>> /\ inbox' = Tail(inbox) /\ known' = known /\ message = NoMessage
          /\ \/ m.type = "error" /\ message' = message
             \/ message' = m
      BY <2>2 DEF HandleMessage, SyncInv
    <3>2. m \in MessageType
      BY <1>1, <3>1, FirstOf
    <3> HIDE DEF m
    <3>3. m.type = "error" => ~About(m, p)
      BY <3>2, SMT DEF MessageType, About, ExecutionType
    <3>4. /\ ToldLast(inbox, p, held[p]) =>
               \/ ToldLast(inbox', p, held[p])
               \/ Untold(inbox', p) /\ About(m, p) /\ m.snapshot = held[p]
          /\ Untold(inbox, p) => Untold(inbox', p) /\ ~About(m, p)
      BY <1>1, <3>1, ToldLess DEF m
    <3>5. Learned(p) = known[p]
      BY <3>1 DEF Learned
    <3>6. /\ About(m, p) => Learned(p)' = m.snapshot
          /\ ~About(m, p) => Learned(p)' = known[p]
      BY <1>2, <3>1, <3>2, <3>3 DEF Learned, About
    <3>7. QED
      BY <1>1, <2>1, <3>4, <3>5, <3>6 DEF UpToDate, ToldLast, Untold
  <2>3. CASE UpdatePosition
    <3>1. /\ inbox' = inbox /\ message' = NoMessage /\ message \in MessageType
          /\ message.about = "trader"
          /\ known' = [known EXCEPT ![message.order] = message.snapshot]
      BY <1>1, <2>3 DEF UpdatePosition, KeepPosition, brokerVars
    <3>2. known'[p] = Learned(p)
      BY <1>1, <1>2, <3>1 DEF Learned, About
    <3>3. Learned(p)' = known'[p]
      BY <3>1 DEF Learned
    <3>4. QED
      BY <1>1, <2>1, <3>1, <3>2, <3>3 DEF UpToDate
  <2>4. CASE UpdateCopy
    <3>1. /\ inbox' = inbox /\ message' = NoMessage /\ message.about = "request"
          /\ known' = known
      BY <2>4 DEF UpdateCopy, brokerVars
    <3>2. Learned(p)' = Learned(p)
      BY <3>1 DEF Learned, About
    <3>3. QED
      BY <1>1, <2>1, <3>1, <3>2 DEF UpToDate
  <2>5. QED
    BY <2>2, <2>3, <2>4
<1>4. QED
  BY <1>3

(* Where the hub stands after a step that leaves its inbox alone.           *)
LEMMA QuietHub ==
    ASSUME HubInv, SyncInv, [Next]_vars, ~SetUpNext, ~Crash, ~HandleMessage, ~UpdatePosition,
           ~UpdateCopy, ~\E o \in OrderId : Trader(o), ~\E r \in requests : Broker(r)
    PROVE  /\ UNCHANGED <<inbox, held, known, missed, ready, copies, book>>
           /\ \/ message' = message /\ phase' = phase
              \/ message' = message /\ EnterLoop
              \/ message' = NoMessage /\ phase' \in {"leaving", "stopped"}
<1>1. CASE StartupFails \/ EnterLoop \/ ConnectionEnds \/ HubEnds \/ TakeCommand
  BY <1>1 DEF StartupFails, EnterLoop, ConnectionEnds, HubEnds, Stop, TakeCommand, brokerVars,
              historyVars, SyncInv
<1>2. ASSUME NEW k \in Task, ForwarderTakes(k) \/ ForwarderSends(k) \/ ForwarderEnds(k)
                             \/ LeaveNext(k)
      PROVE  UNCHANGED <<inbox, held, known, missed, ready, copies, book, message, phase>>
  BY <1>2 DEF ForwarderTakes, ForwarderSends, ForwarderEnds, LeaveNext, brokerVars, historyVars,
              hubVars
<1>3. ASSUME NEW k \in Task, TaskStep(k) \/ JournalError(k)
      PROVE  /\ UNCHANGED <<inbox, held, known, missed, ready, copies, book>>
             /\ \/ message' = message /\ phase' = phase
                \/ message' = NoMessage /\ phase' \in {"leaving", "stopped"}
  BY <1>3 DEF TaskStep, JournalError, Stop, brokerVars, historyVars, hubVars
<1>4. CASE UNCHANGED vars
  BY <1>4 DEF vars, brokerVars, historyVars, hubVars
<1>5. QED
  BY <1>1, <1>2, <1>3, <1>4 DEF Next

LEMMA SyncStep ==
    ASSUME HubInv, SyncInv, [Next]_vars
    PROVE  SyncInv'
<1>1. CASE SetUpNext
  <2>1. phase' = "startup" /\ phase = "startup" /\ message' = message
    BY <1>1 DEF SetUpNext
  <2>2. ~missed' => \A p \in OrderId : Hooked(p)' => UpToDate(p)'
    BY <1>1, SetUpSyncs
  <2>3. QED
    BY <2>1, <2>2 DEF SyncInv
<1>2. CASE Crash
  <2>1. phase' = "startup" /\ message' = NoMessage /\ ready' = 0
    BY <1>2 DEF Crash
  <2>2. SetUp' = {}
    BY <2>1, SMT DEF SetUp
  <2>3. \A o \in OrderId : ~Hooked(o)'
    BY <2>2 DEF Hooked
  <2>4. QED
    BY <2>1, <2>3 DEF SyncInv
<1>3. CASE HandleMessage \/ UpdatePosition \/ UpdateCopy
  <2>1. /\ UNCHANGED <<ready, missed>> /\ phase \in {"loop", "update"}
        /\ phase' # "update" => message' = NoMessage
    BY <1>3 DEF HandleMessage, UpdatePosition, UpdateCopy, historyVars, SyncInv
  <2>2. SetUp' = SetUp
    BY <2>1 DEF SetUp
  <2>3. ~missed => \A p \in OrderId : Hooked(p) => UpToDate(p)'
    BY <1>3, ReadSyncs
  <2>4. QED
    BY <2>1, <2>2, <2>3 DEF SyncInv, Hooked
<1>4. CASE (\E o \in OrderId : Trader(o)) \/ (\E r \in requests : Broker(r))
  <2>1. UNCHANGED <<phase, message, ready, missed>>
    BY <1>4 DEF Trader, Broker, hubVars, historyVars
  <2>2. SetUp' = SetUp /\ Running' = Running
    BY <2>1 DEF SetUp, Running
  <2>3. Running /\ ~missed => \A p \in OrderId : Hooked(p) => UpToDate(p)'
    BY <1>4, TraderSyncs, BrokerSyncs
  <2>4. QED
    BY <2>1, <2>2, <2>3 DEF SyncInv, Hooked
<1>5. CASE /\ ~SetUpNext /\ ~Crash /\ ~HandleMessage /\ ~UpdatePosition /\ ~UpdateCopy
           /\ ~\E o \in OrderId : Trader(o)
           /\ ~\E r \in requests : Broker(r)
  <2>1. /\ UNCHANGED <<inbox, held, known, missed, ready>>
        /\ \/ message' = message /\ phase' = phase
           \/ message' = message /\ EnterLoop
           \/ message' = NoMessage /\ phase' \in {"leaving", "stopped"}
    BY <1>5, QuietHub
  <2>2. SetUp' = SetUp
    BY <2>1 DEF SetUp
  <2>3. CASE message' = message /\ phase' = phase
    BY <2>1, <2>2, <2>3 DEF SyncInv, Running, Hooked, UpToDate, Learned, ToldLast, Untold
  <2>4. CASE message' = message /\ EnterLoop
    <3>1. phase = "startup" /\ phase' = "loop" /\ ready = Len(Line)
      BY <2>4 DEF EnterLoop
    <3>2. SetUp = Task
      <4>1. DOMAIN Line = 1..Len(Line) /\ \A i \in DOMAIN Line : Line[i] \in Task
        BY HubAssumption, SMT
      <4>2. QED
        BY <3>1, <4>1, HubAssumption DEF SetUp
    <3>3. QED
      BY <2>1, <2>2, <2>4, <3>1, <3>2
         DEF SyncInv, Running, Hooked, UpToDate, Learned, ToldLast, Untold
  <2>5. CASE message' = NoMessage /\ phase' \in {"leaving", "stopped"}
    BY <2>5 DEF SyncInv, Running
  <2>6. QED
    BY <2>1, <2>3, <2>4, <2>5
<1>6. QED
  BY <1>1, <1>2, <1>3, <1>4, <1>5

LEMMA SyncGives ==
    ASSUME HubInv, SyncInv
    PROVE  InStep
<1>1. SUFFICES ASSUME phase = "loop", inbox = <<>>, ~missed
               PROVE  known = held
  BY DEF InStep
<1>2. /\ known \in [OrderId -> Snapshot \cup {Unlisted}]
      /\ held \in [OrderId -> Snapshot \cup {Unlisted}]
  BY DEF HubInv, TypeOK
<1>3. ASSUME NEW o \in OrderId PROVE known[o] = held[o]
  <2>1. Hooked(o) /\ Running /\ message = NoMessage
    BY <1>1, OrderServed DEF SyncInv, Hooked, Running
  <2>2. UpToDate(o)
    BY <1>1, <2>1 DEF SyncInv
  <2>3. QED
    BY <1>1, <2>1, <2>2 DEF UpToDate, ToldLast, Learned
<1>4. QED
  BY <1>2, <1>3

(* When the hub has read everything and handles nothing, it knows every     *)
(* position of the traders as the broker has it, whatever was said while    *)
(* it reconciled: update_position_from_execution compares with that.        *)
THEOREM KnownInStep == Spec => []InStep
<1>1. Init => HubInv /\ SyncInv
  BY HubStart, SyncStart
<1>2. HubInv /\ SyncInv /\ [Next]_vars => (HubInv /\ SyncInv)'
  BY HubStep, SyncStep
<1>3. HubInv /\ SyncInv => InStep
  BY SyncGives
<1>4. QED
  BY <1>1, <1>2, <1>3, PTL DEF Spec

-----------------------------------------------------------------------------
(* The fills of commands.  Until it is finished, a command that was handed  *)
(* over is in one place: in a session's channel, with a forwarder, among    *)
(* the commands of the hub, or a request at the broker.                     *)
Forwarded(c) == \E k \in Task : forward[k].id = c
Collected(c) == \E i \in DOMAIN commands : commands[i].id = c
Asks(r, c)   == ~r.protection /\ r.command.id = c
Requested(c) == \E r \in requests : Asks(r, c)

Under(c) == InChannel(c) \/ Forwarded(c) \/ Collected(c) \/ Requested(c)

OneForwarded(c) == \A j, k \in Task : forward[j].id = c /\ forward[k].id = c => j = k
OneCollected(c) == \A i, j \in DOMAIN commands : commands[i].id = c /\ commands[j].id = c => i = j
OneRequested(c) == \A r, q \in requests : Asks(r, c) /\ Asks(q, c) => r = q

OneOf(c) ==
    /\ OneQueued(c) /\ OneForwarded(c) /\ OneCollected(c) /\ OneRequested(c)
    /\ InChannel(c) => ~Forwarded(c) /\ ~Collected(c) /\ ~Requested(c)
    /\ Forwarded(c) => ~Collected(c) /\ ~Requested(c)
    /\ Collected(c) => ~Requested(c)

Finished(c) == handed[c] > 0 /\ ~Under(c)

(* One step of a command between its places: it leaves them, moves to       *)
(* another, or is handed over.                                              *)
Stays(c) ==
    /\ handed'[c] = handed[c]
    /\ Under(c)' => Under(c)
    /\ OneOf(c) => OneOf(c)'

HandsOver(c) ==
    /\ handed[c] = 0 /\ handed'[c] = 1
    /\ ~Under(c) => OneOf(c)'
    /\ UNCHANGED <<mem, file, settled, book, refused>>
    /\ \E k \in Task : Send(k) /\ rec[k].id = c

LEMMA IdleIsNone == \A c \in CommandId : Idle.id # c
<1>1. NoPosition \notin CommandId
  BY IdIsNoMarker
<1>2. QED
  BY <1>1 DEF Idle

(* The hub's own places lose commands.                                      *)
FewerForwards == \A k \in Task : forward'[k] \in {forward[k], Idle}
FewerCommands == commands' \in {commands, <<>>}
FewerRequests == \A r \in requests' : ~r.protection => r \in requests

LEMMA PlacesFewer ==
    ASSUME NEW c \in CommandId
    PROVE  /\ FewerForwards => /\ Forwarded(c)' => Forwarded(c)
                               /\ OneForwarded(c) => OneForwarded(c)'
           /\ FewerCommands => /\ Collected(c)' => Collected(c)
                               /\ OneCollected(c) => OneCollected(c)'
           /\ FewerRequests => /\ Requested(c)' => Requested(c)
                               /\ OneRequested(c) => OneRequested(c)'
<1>1. ASSUME FewerForwards, NEW k \in Task, forward'[k].id = c PROVE forward[k].id = c
  BY <1>1, IdleIsNone DEF FewerForwards
<1>2. FewerCommands => /\ Collected(c)' => Collected(c)
                       /\ OneCollected(c) => OneCollected(c)'
  <2>1. CASE commands' = commands
    BY <2>1 DEF Collected, OneCollected
  <2>2. CASE commands' = <<>>
    BY <2>2 DEF Collected, OneCollected
  <2>3. QED
    BY <2>1, <2>2 DEF FewerCommands
<1>3. FewerRequests => /\ Requested(c)' => Requested(c)
                       /\ OneRequested(c) => OneRequested(c)'
  BY DEF FewerRequests, Requested, OneRequested, Asks
<1>4. FewerForwards => /\ Forwarded(c)' => Forwarded(c)
                       /\ OneForwarded(c) => OneForwarded(c)'
  BY <1>1 DEF Forwarded, OneForwarded
<1>5. QED
  BY <1>2, <1>3, <1>4

(* A step that moves nothing between the hub's own places.                  *)
LEMMA StaysOrSent ==
    ASSUME HubInv, OnceInv', [Next]_vars, NEW c \in CommandId,
           FewerForwards, FewerCommands, FewerRequests,
           (\E k \in Task : Send(k)) =>
               UNCHANGED <<forward, commands, requests, mem, file, settled, book, refused>>
    PROVE  Stays(c) \/ HandsOver(c)
<1> USE DEF Stays, Under, OneOf
<1>1. RuntimeTypeInv /\ RuntimeStep(AckType) /\ handed[c] \in 0..2
  BY AnyStep DEF HubInv, ReachInv, MirrorInv, OrderlyInv, KeyedInv, RuntimeTypeInv, RuntimeTypeOK
<1>2. CASE \A k \in Task : ~(Send(k) /\ rec[k].id = c)
  <2>1. /\ handed'[c] = handed[c]
        /\ InChannel(c)' => InChannel(c)
        /\ OneQueued(c) => OneQueued(c)'
    BY <1>1, <1>2, QueueFewer
  <2>2. QED
    BY <2>1, PlacesFewer
<1>3. ASSUME NEW k \in Task, Send(k), rec[k].id = c PROVE HandsOver(c)
  <2>1. /\ handed'[c] = IF handed[c] = 2 THEN 2 ELSE handed[c] + 1
        /\ ~InChannel(c) => OneQueued(c)'
    BY <1>1, <1>3, SendCounts
  <2>2. handed'[c] <= 1
    BY DEF OnceInv, SentOnce
  <2>3. handed[c] = 0 /\ handed'[c] = 1
    BY <1>1, <2>1, <2>2, SMT
  <2>4. UNCHANGED <<forward, commands, requests>>
    BY <1>3
  <2>5. ASSUME ~Under(c) PROVE OneOf(c)'
    BY <2>1, <2>4, <2>5 DEF Forwarded, Collected, Requested, OneForwarded, OneCollected,
       OneRequested, Asks
  <2>6. QED
    BY <1>3, <2>3, <2>5 DEF HandsOver
<1>4. QED
  BY <1>2, <1>3

LEMMA TakesStays ==
    ASSUME HubInv, NEW k \in Task, ForwarderTakes(k), NEW c \in CommandId
    PROVE  Stays(c)
<1>1. /\ RuntimeTypeInv /\ forward \in [Task -> CommandType \cup {Idle}] /\ sid[k] \in Session
  <2>1. sid[k] \in Session
    BY RuntimeAssumption, SMT DEF ForwarderTakes, HubInv, TypeOK, RuntimeTypeOK, Session
  <2>2. QED
    BY <2>1 DEF HubInv, ReachInv, MirrorInv, OrderlyInv, KeyedInv, TypeOK
<1> DEFINE d == Head(chan[sid[k]].queue)
<1>2. /\ Takes(sid[k]) /\ handed' = handed /\ UNCHANGED <<commands, requests>>
      /\ forward[k] = Idle /\ forward' = [forward EXCEPT ![k] = d]
  BY DEF ForwarderTakes, Takes, brokerVars
<1>3. \A j \in Task : ~(Send(j) /\ rec[j].id = c)
  <2>1. pc' = pc /\ pc \in [Task -> Label]
    BY <1>1, <1>2 DEF Takes, taskVars, RuntimeTypeInv, RuntimeTypeOK
  <2>2. ASSUME NEW j \in Task, Send(j) PROVE FALSE
    <3>1. pc[j] = "send" /\ pc'[j] \in {"dispatch", "idle", "off"}
      BY <2>1, <2>2 DEF Send, Loop
    <3>2. QED
      BY <2>1, <3>1
  <2>3. QED
    BY <2>2
<1>4. /\ InChannel(c)' => InChannel(c)
      /\ OneQueued(c) => OneQueued(c)'
  <2>1. RuntimeStep(AckType)
    BY <1>1, <1>2 DEF RuntimeStep
  <2>2. QED
    BY <1>1, <1>3, <2>1, QueueFewer
<1>5. d.id = c => InChannel(c) /\ (OneQueued(c) => ~InChannel(c)')
  BY <1>1, <1>2, TakesMoves, TakenOut DEF InChannel
<1>6. /\ forward[k].id # c /\ forward'[k] = d
      /\ \A j \in Task \ {k} : forward'[j] = forward[j]
  BY <1>1, <1>2, IdleIsNone
<1> HIDE DEF d
<1>7. CASE d.id = c
  <2>1. Under(c)
    BY <1>5, <1>7 DEF Under
  <2>2. ASSUME OneOf(c) PROVE OneOf(c)'
    <3>1. /\ ~InChannel(c)' /\ OneQueued(c)'
          /\ ~Forwarded(c) /\ ~Collected(c) /\ ~Requested(c) /\ OneCollected(c) /\ OneRequested(c)
      BY <1>4, <1>5, <1>7, <2>2 DEF OneOf
    <3>2. OneForwarded(c)'
      BY <1>6, <3>1 DEF OneForwarded, Forwarded
    <3>3. ~Collected(c)' /\ ~Requested(c)' /\ OneCollected(c)' /\ OneRequested(c)'
      BY <1>2, <3>1 DEF Collected, Requested, OneCollected, OneRequested, Asks
    <3>4. QED
      BY <3>1, <3>2, <3>3 DEF OneOf
  <2>3. QED
    BY <1>2, <2>1, <2>2 DEF Stays
<1>8. CASE d.id # c
  <2>1. /\ Forwarded(c)' <=> Forwarded(c)
        /\ OneForwarded(c) => OneForwarded(c)'
    BY <1>6, <1>8 DEF Forwarded, OneForwarded
  <2>2. /\ Collected(c)' <=> Collected(c)
        /\ OneCollected(c)' <=> OneCollected(c)
    BY <1>2 DEF Collected, OneCollected
  <2>3. /\ Requested(c)' <=> Requested(c)
        /\ OneRequested(c)' <=> OneRequested(c)
    BY <1>2 DEF Requested, OneRequested, Asks
  <2>4. QED
    BY <1>2, <1>4, <2>1, <2>2, <2>3 DEF Stays, Under, OneOf
<1>9. QED
  BY <1>7, <1>8

LEMMA SendsStays ==
    ASSUME HubInv, NEW k \in Task, ForwarderSends(k), NEW c \in CommandId
    PROVE  Stays(c)
<1>1. /\ forward \in [Task -> CommandType \cup {Idle}] /\ commands \in Seq(CommandType)
  BY DEF HubInv, TypeOK
<1> DEFINE d == forward[k]
<1>2. /\ UNCHANGED <<chan, handed, requests>> /\ d \in CommandType
      /\ commands' = Append(commands, d) /\ forward' = [forward EXCEPT ![k] = Idle]
  BY <1>1 DEF ForwarderSends, runtimeVars, brokerVars
<1>3. /\ forward'[k].id # c /\ \A j \in Task \ {k} : forward'[j] = forward[j]
  BY <1>1, <1>2, IdleIsNone
<1>4. /\ InChannel(c)' <=> InChannel(c)
      /\ OneQueued(c)' <=> OneQueued(c)
      /\ Requested(c)' <=> Requested(c)
      /\ OneRequested(c)' <=> OneRequested(c)
  BY <1>2 DEF InChannel, OneQueued, Requested, OneRequested, Asks
<1>5. Forwarded(c)' => Forwarded(c)
  BY <1>3 DEF Forwarded
<1>6. OneForwarded(c) => OneForwarded(c)' /\ (d.id = c => ~Forwarded(c)')
  BY <1>3 DEF OneForwarded, Forwarded
<1>7. d.id = c => Forwarded(c)
  BY DEF Forwarded
<1> HIDE DEF d
<1>8. /\ \A i \in DOMAIN commands' :
           \/ i \in DOMAIN commands /\ commands'[i] = commands[i]
           \/ i = Len(commands) + 1 /\ commands'[i] = d
  BY <1>1, <1>2, SMT
<1>9. /\ Collected(c)' => Collected(c) \/ d.id = c
      /\ OneCollected(c) /\ (d.id = c => ~Collected(c)) => OneCollected(c)'
  BY <1>8 DEF Collected, OneCollected
<1>10. QED
  BY <1>2, <1>4, <1>5, <1>6, <1>7, <1>9 DEF Stays, Under, OneOf

LEMMA TakeStays ==
    ASSUME HubInv, TakeCommand, NEW c \in CommandId
    PROVE  /\ Stays(c)
           /\ OneOf(c) /\ Head(commands).id = c /\ requests' = requests => ~Under(c)'
<1> DEFINE d == Head(commands)
           r == [command |-> d, protection |-> FALSE, volume |-> RequestVolume(d)]
<1>1. commands \in Seq(CommandType)
  BY DEF HubInv, TypeOK
<1>2. /\ UNCHANGED <<chan, handed, forward>> /\ commands # <<>> /\ commands' = Tail(commands)
      /\ requests' = requests \/ requests' = requests \cup {r}
  BY DEF TakeCommand, Acknowledge, HandleAck, runtimeVars
<1>3. Asks(r, c) <=> d.id = c
  BY DEF Asks
<1> HIDE DEF r
<1>4. /\ 1 \in DOMAIN commands /\ d = commands[1]
      /\ \A i \in DOMAIN commands' : /\ i + 1 \in DOMAIN commands /\ i + 1 # 1 /\ i \in Nat
                                     /\ commands'[i] = commands[i + 1]
  BY <1>1, <1>2, SMT
<1>5. d.id = c => Collected(c)
  BY <1>4 DEF Collected
<1> HIDE DEF d
<1>6. Collected(c)' => Collected(c)
  BY <1>4 DEF Collected
<1>7. OneCollected(c) => OneCollected(c)' /\ (d.id = c => ~Collected(c)')
  <2>1. ASSUME OneCollected(c), NEW i \in DOMAIN commands', NEW j \in DOMAIN commands',
               commands'[i].id = c, commands'[j].id = c
        PROVE  i = j
    <3>1. i + 1 = j + 1 /\ i \in Nat /\ j \in Nat
      BY <1>4, <2>1 DEF OneCollected
    <3>2. QED
      BY <3>1, SMT
  <2>2. ASSUME OneCollected(c), d.id = c PROVE ~Collected(c)'
    BY <1>4, <2>2 DEF OneCollected, Collected
  <2>3. QED
    BY <2>1, <2>2 DEF OneCollected
<1>8. /\ InChannel(c)' <=> InChannel(c)
      /\ OneQueued(c)' <=> OneQueued(c)
      /\ Forwarded(c)' <=> Forwarded(c)
      /\ OneForwarded(c)' <=> OneForwarded(c)
  BY <1>2 DEF InChannel, OneQueued, Forwarded, OneForwarded
<1>9. /\ Requested(c)' => Requested(c) \/ d.id = c
      /\ OneRequested(c) /\ (d.id = c => ~Requested(c)) => OneRequested(c)'
      /\ requests' = requests => (Requested(c)' <=> Requested(c))
  BY <1>2, <1>3 DEF Requested, OneRequested, Asks
<1>10. QED
  BY <1>2, <1>5, <1>6, <1>7, <1>8, <1>9 DEF Stays, Under, OneOf, d

LEMMA LiveTask ==
    ASSUME NEW k \in Task, TaskStep(k)
    PROVE  pc[k] # "dead"
BY DEF TaskStep, HandlerStep, InsertSession, SnapshotQueued,
       RouteEvent, RoutePanics, AppendRecord, ApplyRecord, DispatchNext, Send,
       SendFails, MutateReduced, Unregister, SnapshotDispatched, MarkOrphan

(* A command is sent while the hub does nothing else.                       *)
LEMMA SendAlone ==
    ASSUME HubInv, OnceInv', [Next]_vars, NEW k \in Task, Send(k)
    PROVE  UNCHANGED <<hubVars, brokerVars, historyVars, mem, file, settled>>
<1>1. RuntimeTypeInv /\ handed \in [CommandId -> 0..2] /\ pc \in [Task -> Label]
  BY DEF HubInv, ReachInv, MirrorInv, OrderlyInv, KeyedInv, RuntimeTypeInv, RuntimeTypeOK
<1>2. handed' # handed
  <2>1. PICK d \in todo[k] : d.id = rec[k].id
                          /\ handed' = [handed EXCEPT ![d.id] = IF @ = 2 THEN 2 ELSE @ + 1]
    BY <1>1, SendMoves
  <2>2. d.id \in CommandId
    BY <1>1, SMT DEF RuntimeTypeInv, RuntimeTypeOK, CommandType
  <2>3. handed'[d.id] <= 1 /\ handed[d.id] \in 0..2
    BY <1>1, <2>2 DEF OnceInv, SentOnce
  <2>4. handed'[d.id] = IF handed[d.id] = 2 THEN 2 ELSE handed[d.id] + 1
    BY <1>1, <2>1, <2>2
  <2>5. QED
    BY <2>3, <2>4, SMT
<1>3. pc[k] = "send" /\ UNCHANGED <<mem, file, settled>>
      /\ \E label \in {"dispatch", "idle", "off"} : pc' = [pc EXCEPT ![k] = label]
  BY DEF Send, Loop, Goto
<1>4. PICK j \in Task : TaskStep(j)
  <2>1. ~AtRest
    BY <1>3 DEF AtRest
  <2>2. ~\E j \in Task : \/ ForwarderTakes(j) \/ ForwarderSends(j) \/ ForwarderEnds(j)
                         \/ JournalError(j)
    BY <1>2 DEF ForwarderTakes, ForwarderSends, ForwarderEnds, JournalError, AppendFails,
                runtimeVars
  <2>3. ~HubEnds /\ ~Crash /\ ~(\E o \in OrderId : Trader(o)) /\ ~(\E r \in requests : Broker(r))
        /\ ~UNCHANGED vars
    BY <1>2 DEF HubEnds, Crash, Trader, Broker, vars, runtimeVars
  <2>4. QED
    BY <2>1, <2>2, <2>3
       DEF Next, SetUpNext, StartupFails, EnterLoop, TakeCommand, HandleMessage, UpdatePosition,
           UpdateCopy, ConnectionEnds, LeaveNext
<1>5. pc[j] # "dead"
  BY <1>4, LiveTask
<1>6. pc'[j] # "dead"
  BY <1>1, <1>3, <1>5
<1>7. QED
  BY <1>3, <1>4, <1>6 DEF TaskStep

LEMMA TokensStep ==
    ASSUME HubInv, OnceInv', [Next]_vars, NEW c \in CommandId
    PROVE  Stays(c) \/ HandsOver(c)
<1>1. CASE \E k \in Task : ForwarderTakes(k) \/ ForwarderSends(k)
  BY <1>1, TakesStays, SendsStays
<1>2. CASE TakeCommand
  BY <1>2, TakeStays
<1>3. CASE ~TakeCommand /\ ~\E k \in Task : ForwarderTakes(k) \/ ForwarderSends(k)
  <2>1. FewerForwards /\ FewerCommands
    <3>1. forward \in [Task -> CommandType \cup {Idle}]
      BY DEF HubInv, TypeOK
    <3>2. QED
      BY <1>3, <3>1
         DEF Next, FewerForwards, FewerCommands, SetUpNext, StartupFails, EnterLoop, HandleMessage,
             UpdatePosition, UpdateCopy, ConnectionEnds, HubEnds, Stop, ForwarderEnds, TaskStep,
             JournalError, LeaveNext, Trader, Broker, Crash, vars, hubVars
  <2>2. FewerRequests
    <3>1. CASE HandleMessage
      BY <3>1 DEF HandleMessage, HandleProtection, HandleOutcome, HandleUnmatched, FewerRequests
    <3>2. CASE \E r \in requests : Broker(r)
      BY <3>2 DEF Broker, Fill, PartialFill, Amend, Refuse, FewerRequests
    <3>3. CASE ~HandleMessage /\ ~\E r \in requests : Broker(r)
      BY <1>3, <3>3
         DEF Next, FewerRequests, SetUpNext, StartupFails, EnterLoop,
             UpdatePosition, UpdateCopy, ConnectionEnds, HubEnds, Stop, ForwarderEnds, TaskStep,
             JournalError, LeaveNext, Trader, Crash, vars, brokerVars
    <3>4. QED
      BY <3>1, <3>2, <3>3
  <2>3. (\E k \in Task : Send(k)) =>
            UNCHANGED <<forward, commands, requests, mem, file, settled, book, refused>>
    BY SendAlone DEF hubVars, brokerVars, historyVars
  <2>4. QED
    BY <2>1, <2>2, <2>3, StaysOrSent
<1>4. QED
  BY <1>1, <1>2, <1>3

LEMMA StaysFinished ==
    ASSUME HubInv, OnceInv', [Next]_vars, NEW c \in CommandId, Finished(c)
    PROVE  Finished(c)' /\ handed'[c] = handed[c]
<1>1. handed[c] \in 0..2
  BY DEF HubInv, TypeOK, RuntimeTypeOK
<1>2. CASE Stays(c)
  BY <1>2 DEF Stays, Finished
<1>3. CASE HandsOver(c)
  BY <1>1, <1>3, SMT DEF HandsOver, Finished
<1>4. QED
  BY <1>2, <1>3, TokensStep

(* What the websocket says of a position that a command opened, and whether *)
(* the hub is told anything of an account.                                  *)
Tells(m, x)  == m.about = "request" /\ m.position = x /\ m.type # "error"
Watching(a)  == Running /\ \E k \in SetUp : Owner[k] = a

LEMMA ToldWhenWatching ==
    ASSUME HubInv, NEW a, Served(a)
    PROVE  Watching(a) <=> (Running /\ TaskOf(a) \in SetUp)
<1>1. TaskOf(a) \in Task /\ Owner[TaskOf(a)] = a
  BY DEF Served, TaskOf
<1>2. SetUp \subseteq Task
  <2>1. Line \in Seq(Task) /\ ready \in 0..Len(Line)
    BY HubAssumption DEF HubInv, TypeOK
  <2>2. QED
    BY <2>1, SMT DEF SetUp
<1>3. \A k \in SetUp : Owner[k] = a => k = TaskOf(a)
  BY <1>1, <1>2, OneTaskEach
<1>4. QED
  BY <1>1, <1>3 DEF Watching

(* What the broker does for a request, and what it says of it.              *)
Replied(r, m) ==
    /\ m \in MessageType /\ m.about = "request"
    /\ m.id = r.command.id /\ m.protection = r.protection
    /\ inbox' = IF Watching(r.command.target) THEN inbox \o <<m>> ELSE inbox

Deal(r, m) ==
    /\ Replied(r, m)
    /\ requests' = requests \ {r} \/ (requests' = requests /\ m.type \in NonFinal)
    /\ \A x \in CommandId : Tells(m, x) => m.volume = book'[x]
    /\ \A x \in CommandId : book'[x] # book[x] =>
         /\ ~r.protection
         /\ \/ r.command.action = "open" /\ x = r.command.id
            \/ /\ r.command.action # "open" /\ x = r.command.position
               /\ book'[x] < book[x] /\ Tells(m, x)
    /\ ~r.protection /\ Outcome(m.type) = "filled" /\ r.command.action = "close" =>
         (r.volume >= book[r.command.position] => book'[r.command.position] = 0)

LEMMA BrokerDeals ==
    ASSUME HubInv, NEW r \in requests, Broker(r)
    PROVE  \E m : Deal(r, m)
<1>1. /\ book \in [CommandId -> Nat] /\ r \in RequestType /\ Carried(r.command)
  BY DEF HubInv, TypeOK
<1>2. /\ r.volume \in Nat /\ r.protection \in BOOLEAN /\ r.command.id \in CommandId
      /\ r.command.action # "open" => r.command.position \in CommandId
  BY <1>1, CommandFacts DEF RequestType
<1> DEFINE message_(type, position, volume) ==
             [about |-> "request", type |-> type, id |-> r.command.id,
              protection |-> r.protection, position |-> position, volume |-> volume]
<1>3. ASSUME NEW type \in ExecutionType \cup {"error"},
             NEW position \in CommandId \cup {NoPosition}, NEW volume \in Nat,
             Reply(r, type, position, volume)
      PROVE  \E m : Replied(r, m) /\ m.type = type /\ m.position = position /\ m.volume = volume
  <2> DEFINE m == message_(type, position, volume)
  <2>1. m \in MessageType
    BY <1>2, <1>3, SMT DEF MessageType
  <2>2. Tell(r.command.target, <<m>>)
    BY <1>3 DEF Reply
  <2>3. inbox' = IF Watching(r.command.target) THEN inbox \o <<m>> ELSE inbox
    BY <1>1, <2>2, ToldWhenWatching DEF Tell, Carried
  <2>4. QED
    <3>1. Replied(r, m) /\ m.type = type /\ m.position = position /\ m.volume = volume
      BY <2>1, <2>3 DEF Replied
    <3>2. QED
      BY <3>1
<1>4. /\ {"filled", "partial", "replaced", "cancelled", "rejected", "other", "error"}
            \subseteq ExecutionType \cup {"error"}
      /\ 0 \in Nat /\ 1 \in Nat /\ NoPosition \notin CommandId
  BY SMT DEF ExecutionType, NoPosition, CommandId, CommandIdOf
<1> DEFINE p == IF r.command.action = "open" THEN r.command.id ELSE r.command.position
<1>5. p \in CommandId
  BY <1>2
<1>6. CASE Fill(r)
  <2> DEFINE left == IF r.command.action = "open" THEN r.volume
                     ELSE NotNegative(book[p] - r.volume)
  <2>1. left \in Nat
    BY <1>1, <1>2, <1>5, SMT DEF NotNegative
  <2>2. /\ ~r.protection /\ r.volume > 0 /\ requests' = requests \ {r}
        /\ r.command.action # "open" => book[p] > 0
        /\ book' = [book EXCEPT ![p] = left]
        /\ \/ Reply(r, "filled", p, left)
           \/ r.command.action = "open" /\ Reply(r, "filled", NoPosition, 0)
    BY <1>6 DEF Fill
  <2>3. r.command.action # "open" =>
          left < book[p] /\ (r.volume >= book[p] => left = 0)
    BY <1>1, <1>2, <1>5, <2>2, SMT DEF NotNegative
  <2>4. /\ book'[p] = left /\ \A x \in CommandId \ {p} : book'[x] = book[x]
    BY <1>1, <1>5, <2>2
  <2>5. /\ r.command.action = "open" => p = r.command.id
        /\ r.command.action # "open" => p = r.command.position
    OBVIOUS
  <2> HIDE DEF left, p
  <2>6. CASE Reply(r, "filled", p, left)
    <3>1. PICK m :
               /\ Replied(r, m) /\ m.type = "filled" /\ m.position = p /\ m.volume = left
      BY <1>3, <1>4, <1>5, <2>1, <2>6
    <3>2. Deal(r, m)
      BY <2>2, <2>3, <2>4, <2>5, <3>1 DEF Deal, Replied, Tells
    <3>3. QED
      BY <3>2
  <2>7. CASE r.command.action = "open" /\ Reply(r, "filled", NoPosition, 0)
    <3>1. PICK m :
               /\ Replied(r, m) /\ m.type = "filled" /\ m.position = NoPosition
      BY <1>3, <1>4, <2>7
    <3>2. Deal(r, m)
      BY <1>4, <2>2, <2>4, <2>5, <2>7, <3>1 DEF Deal, Replied, Tells
    <3>3. QED
      BY <3>2
  <2>8. QED
    BY <2>2, <2>6, <2>7
<1>7. CASE PartialFill(r)
  <2>1. /\ ~r.protection /\ r.command.action = "open" /\ requests' = requests
        /\ book' = [book EXCEPT ![r.command.id] = 1]
        /\ Reply(r, "partial", r.command.id, 1)
    BY <1>7 DEF PartialFill
  <2>2. PICK m :
             /\ Replied(r, m) /\ m.type = "partial" /\ m.position = r.command.id /\ m.volume = 1
    BY <1>2, <1>3, <1>4, <2>1
  <2>3. Deal(r, m)
    BY <1>1, <1>2, <2>1, <2>2 DEF Deal, Replied, Tells, NonFinal
  <2>4. QED
    BY <2>3
<1>8. CASE Amend(r)
  <2> DEFINE q == IF r.protection THEN r.command.id ELSE r.command.position
  <2>1. /\ Reply(r, "replaced", q, book[q]) /\ q \in CommandId /\ book' = book
        /\ requests' = requests \ {r} /\ (r.protection \/ r.command.action = "modify")
    BY <1>2, <1>8 DEF Amend
  <2> HIDE DEF q
  <2>2. PICK m :
             /\ Replied(r, m) /\ m.type = "replaced" /\ m.position = q /\ m.volume = book[q]
    BY <1>1, <1>3, <1>4, <2>1
  <2>3. Deal(r, m)
    BY <2>1, <2>2 DEF Deal, Replied, Tells
  <2>4. QED
    BY <2>3
<1>9. CASE Refuse(r)
  <2>1. /\ requests' = requests \ {r} /\ book' = book
        /\ \/ \E type \in {"rejected", "error", "cancelled"} : Reply(r, type, p, book[p])
           \/ \E type \in {"rejected", "error", "other"} : Reply(r, type, NoPosition, 0)
    BY <1>9 DEF Refuse
  <2> HIDE DEF p
  <2>2. PICK m :
             /\ Replied(r, m) /\ m.type \in {"rejected", "error", "cancelled", "other"}
             /\ \/ m.position = p /\ m.volume = book[p]
                \/ m.position = NoPosition
    <3>1. \A type \in {"rejected", "error", "cancelled", "other"} :
            type \in ExecutionType \cup {"error"}
      BY <1>4
    <3>2. CASE \E type \in {"rejected", "error", "cancelled"} : Reply(r, type, p, book[p])
      <4>1. PICK type \in {"rejected", "error", "cancelled"} : Reply(r, type, p, book[p])
        BY <3>2
      <4>2. \E m : Replied(r, m) /\ m.type = type /\ m.position = p /\ m.volume = book[p]
        BY <1>1, <1>3, <1>5, <3>1, <4>1
      <4>3. QED
        BY <4>2
    <3>3. CASE \E type \in {"rejected", "error", "other"} : Reply(r, type, NoPosition, 0)
      BY <1>3, <1>4, <3>1, <3>3
    <3>4. QED
      BY <2>1, <3>2, <3>3
  <2>3. Outcome(m.type) # "filled"
    BY <2>2 DEF Outcome
  <2>4. Deal(r, m)
    BY <1>4, <2>1, <2>2, <2>3 DEF Deal, Replied, Tells
  <2>5. QED
    BY <2>4
<1>10. QED
  BY <1>6, <1>7, <1>8, <1>9 DEF Broker

(* What a queue of messages says of a position: nothing, a volume as its    *)
(* last word, and from its i-th message on no volume less than v.           *)
Wordless(q, x) == \A i \in DOMAIN q : ~Tells(q[i], x)
LastSays(q, x, v) ==
    \E i \in DOMAIN q :
        /\ Tells(q[i], x) /\ q[i].volume = v
        /\ \A j \in DOMAIN q : Tells(q[j], x) => j <= i
SaysEnough(q, x, v, i) ==
    \A j \in DOMAIN q : i <= j /\ Tells(q[j], x) => q[j].volume >= v

LEMMA SaidMore ==
    ASSUME NEW q \in Seq(MessageType), NEW m \in MessageType, NEW x, NEW v,
           NEW longer, longer = q \o <<m>>
    PROVE  /\ Tells(m, x) /\ m.volume = v => LastSays(longer, x, v)
           /\ ~Tells(m, x) /\ LastSays(q, x, v) => LastSays(longer, x, v)
           /\ ~Tells(m, x) /\ Wordless(q, x) => Wordless(longer, x)
           /\ (Tells(m, x) => m.volume >= v)
              => \A i \in Nat : SaysEnough(q, x, v, i) => SaysEnough(longer, x, v, i)
           /\ \A i \in DOMAIN q : i \in DOMAIN longer /\ longer[i] = q[i]
           /\ \A i \in DOMAIN longer : i \in DOMAIN q \/ (i = Len(q) + 1 /\ longer[i] = m)
           /\ longer \in Seq(MessageType)
<1>1. /\ Len(q) \in Nat /\ DOMAIN longer = 1..(Len(q) + 1) /\ DOMAIN q = 1..Len(q)
      /\ longer[Len(q) + 1] = m /\ \A i \in DOMAIN q : longer[i] = q[i]
      /\ longer \in Seq(MessageType)
  BY SMT
<1>2. Len(q) + 1 \in DOMAIN longer /\ \A i \in DOMAIN longer : i <= Len(q) + 1
  BY <1>1, SMT
<1>3. \A i \in DOMAIN longer : i \in DOMAIN q \/ i = Len(q) + 1
  BY <1>1, SMT
<1>4. \A i \in DOMAIN q : i \in DOMAIN longer
  BY <1>1, SMT
<1>5. Tells(m, x) /\ m.volume = v => LastSays(longer, x, v)
  BY <1>1, <1>2 DEF LastSays
<1>6. ~Tells(m, x) /\ LastSays(q, x, v) => LastSays(longer, x, v)
  BY <1>1, <1>3, <1>4 DEF LastSays
<1>7. ~Tells(m, x) /\ Wordless(q, x) => Wordless(longer, x)
  BY <1>1, <1>3 DEF Wordless
<1>8. ASSUME Tells(m, x) => m.volume >= v, NEW i \in Nat, SaysEnough(q, x, v, i)
      PROVE  SaysEnough(longer, x, v, i)
  BY <1>1, <1>3, <1>8 DEF SaysEnough
<1>9. QED
  BY <1>1, <1>3, <1>4, <1>5, <1>6, <1>7, <1>8

LEMMA SaidLess ==
    ASSUME NEW q \in Seq(MessageType), q # <<>>, NEW x, NEW v
    PROVE  /\ LastSays(q, x, v) =>
                \/ LastSays(Tail(q), x, v)
                \/ Wordless(Tail(q), x) /\ Tells(Head(q), x) /\ Head(q).volume = v
           /\ Wordless(q, x) => Wordless(Tail(q), x) /\ ~Tells(Head(q), x)
           /\ SaysEnough(q, x, v, 1) =>
                SaysEnough(Tail(q), x, v, 1) /\ (Tells(Head(q), x) => Head(q).volume >= v)
           /\ \A i \in DOMAIN Tail(q) : SaysEnough(q, x, v, i + 1) => SaysEnough(Tail(q), x, v, i)
           /\ \A i \in DOMAIN Tail(q) : i + 1 \in DOMAIN q /\ Tail(q)[i] = q[i + 1]
           /\ 1 \in DOMAIN q /\ q[1] = Head(q)
<1> DEFINE t == Tail(q)
<1>1. /\ Len(q) \in Nat /\ Head(q) = q[1] /\ 1 \in DOMAIN q
      /\ \A j \in DOMAIN t : j \in Nat /\ j > 0 /\ j + 1 \in DOMAIN q /\ t[j] = q[j + 1]
      /\ \A i \in DOMAIN q : i \in Nat /\ (i # 1 => i - 1 \in DOMAIN t /\ t[i - 1] = q[i])
  BY SMT
<1> HIDE DEF t
<1>2. Wordless(q, x) => Wordless(t, x) /\ ~Tells(Head(q), x)
  BY <1>1 DEF Wordless
<1>3. ASSUME NEW i \in DOMAIN q, Tells(q[i], x), q[i].volume = v,
             \A j \in DOMAIN q : Tells(q[j], x) => j <= i
      PROVE  \/ LastSays(t, x, v)
             \/ Wordless(t, x) /\ Tells(Head(q), x) /\ Head(q).volume = v
  <2>1. ASSUME NEW j \in DOMAIN t, Tells(t[j], x) PROVE j + 1 <= i
    BY <1>1, <1>3, <2>1
  <2>2. CASE i = 1
    <3>1. \A j \in DOMAIN t : ~(j + 1 <= 1)
      BY <1>1, SMT
    <3>2. Wordless(t, x)
      BY <2>1, <2>2, <3>1 DEF Wordless
    <3>3. QED
      BY <1>1, <1>3, <2>2, <3>2
  <2>3. CASE i # 1
    <3>1. i - 1 \in DOMAIN t /\ t[i - 1] = q[i]
      BY <1>1, <2>3
    <3>2. ASSUME NEW j \in DOMAIN t, Tells(t[j], x) PROVE j <= i - 1
      <4>1. j + 1 <= i /\ j \in Nat /\ i \in Nat
        BY <1>1, <2>1, <3>2
      <4>2. QED
        BY <4>1, SMT
    <3>3. QED
      BY <1>3, <3>1, <3>2 DEF LastSays
  <2>4. QED
    BY <2>2, <2>3
<1>4. ASSUME NEW i \in Nat, SaysEnough(q, x, v, i + 1) PROVE SaysEnough(t, x, v, i)
  <2> SUFFICES ASSUME NEW j \in DOMAIN t, i <= j, Tells(t[j], x) PROVE t[j].volume >= v
    BY DEF SaysEnough
  <2>1. i + 1 <= j + 1
    BY <1>1, SMT
  <2>2. QED
    BY <1>1, <1>4, <2>1 DEF SaysEnough
<1>5. SaysEnough(q, x, v, 1) =>
        SaysEnough(t, x, v, 1) /\ (Tells(Head(q), x) => Head(q).volume >= v)
  <2> SUFFICES ASSUME SaysEnough(q, x, v, 1)
               PROVE  SaysEnough(t, x, v, 1) /\ (Tells(Head(q), x) => Head(q).volume >= v)
    OBVIOUS
  <2>1. \A j \in DOMAIN t : 1 <= j + 1
    BY <1>1, SMT
  <2>2. 1 <= 1
    OBVIOUS
  <2>3. QED
    BY <1>1, <2>1, <2>2 DEF SaysEnough
<1>6. (\A i \in DOMAIN t : i \in Nat)
  BY <1>1
<1>7. QED
  BY <1>1, <1>2, <1>3, <1>4, <1>5, <1>6 DEF LastSays, t

LEMMA SaysLess ==
    ASSUME NEW q \in Seq(MessageType), NEW x, NEW v \in Nat, NEW w \in Nat, w <= v,
           NEW i, SaysEnough(q, x, v, i)
    PROVE  SaysEnough(q, x, w, i)
<1> SUFFICES ASSUME NEW j \in DOMAIN q, i <= j, Tells(q[j], x) PROVE q[j].volume >= w
  BY DEF SaysEnough
<1>1. q[j] \in MessageType
  BY SMT
<1>2. q[j].volume \in Nat
  BY <1>1, MessageTyped DEF Tells
<1>3. q[j].volume >= v
  BY DEF SaysEnough
<1>4. QED
  BY <1>2, <1>3, SMT

(* What a trader makes the websocket say is about the trader's positions.   *)
LEMMA TraderApart ==
    ASSUME HubInv, NEW o \in OrderId, Trader(o)
    PROVE  /\ inbox' \in Seq(MessageType)
           /\ \A i \in DOMAIN inbox' :
                inbox'[i].about = "trader" \/ (i \in DOMAIN inbox /\ inbox'[i] = inbox[i])
           /\ \A x, v : /\ LastSays(inbox, x, v) => LastSays(inbox', x, v)
                        /\ Wordless(inbox, x) => Wordless(inbox', x)
                        /\ \A i \in Nat : SaysEnough(inbox, x, v, i) => SaysEnough(inbox', x, v, i)
<1> DEFINE Apart(q, r) ==
      /\ r \in Seq(MessageType)
      /\ \A i \in DOMAIN r : r[i].about = "trader" \/ (i \in DOMAIN q /\ r[i] = q[i])
      /\ \A x, v : /\ LastSays(q, x, v) => LastSays(r, x, v)
                   /\ Wordless(q, x) => Wordless(r, x)
                   /\ \A i \in Nat : SaysEnough(q, x, v, i) => SaysEnough(r, x, v, i)
<1>1. inbox \in Seq(MessageType)
  BY DEF HubInv, TypeOK
<1>2. ASSUME NEW q \in Seq(MessageType), NEW m \in MessageType, m.about = "trader"
      PROVE  Apart(q, q \o <<m>>)
  <2>1. PICK r : r = q \o <<m>>
    OBVIOUS
  <2>2. \A x : ~Tells(m, x)
    BY <1>2 DEF Tells
  <2>3. /\ r \in Seq(MessageType)
        /\ \A i \in DOMAIN q : r[i] = q[i]
        /\ \A i \in DOMAIN r : i \in DOMAIN q \/ r[i] = m
    BY <2>1, SaidMore
  <2>4. ASSUME NEW x, NEW v
        PROVE  /\ LastSays(q, x, v) => LastSays(r, x, v)
               /\ Wordless(q, x) => Wordless(r, x)
               /\ \A i \in Nat : SaysEnough(q, x, v, i) => SaysEnough(r, x, v, i)
    BY <2>1, <2>2, SaidMore
  <2>5. Apart(q, r)
    BY <1>2, <2>3, <2>4
  <2>6. QED
    BY <2>1, <2>5
<1>3. CASE inbox' = inbox
  BY <1>1, <1>3
<1>4. CASE Running /\ Hooked(o)
  <2>1. PICK m \in MessageType :
           /\ m.about = "trader"
           /\ \/ inbox' = inbox \o <<m>>
              \/ \E n \in MessageType :
                   n.about = "trader" /\ inbox' = (inbox \o <<n>>) \o <<m>>
    BY <1>4, TraderTells
  <2>2. CASE inbox' = inbox \o <<m>>
    BY <1>1, <1>2, <2>1, <2>2
  <2>3. ASSUME NEW n \in MessageType, n.about = "trader", inbox' = (inbox \o <<n>>) \o <<m>>
        PROVE  Apart(inbox, inbox')
    <3>1. PICK q : q = inbox \o <<n>>
      OBVIOUS
    <3>2. Apart(inbox, q)
      BY <1>1, <1>2, <2>3, <3>1
    <3>3. Apart(q, inbox')
      BY <1>2, <2>1, <2>3, <3>1, <3>2
    <3>4. QED
      BY <3>2, <3>3
  <2>4. QED
    BY <2>1, <2>2, <2>3
<1>5. CASE ~(Running /\ Hooked(o))
  BY <1>3, <1>5 DEF Trader, Tell, Hooked
<1>6. QED
  BY <1>4, <1>5

(* The volume the hub has for a position that a command opened, or will     *)
(* have when it has dealt with the message in hand.  A position is leveled  *)
(* when that, and whatever is still to be read of it, is at least what the  *)
(* broker has; and the last word of it exactly that.                        *)
Copied(x) ==
    IF message # NoMessage /\ message.about = "request" /\ message.position = x
    THEN message.volume ELSE copies[x]

Leveled(x) ==
    Watching(TargetOf(x)) =>
        /\ Copied(x) >= book[x] /\ SaysEnough(inbox, x, book[x], 1)
        /\ ~missed => \/ LastSays(inbox, x, book[x])
                      \/ Wordless(inbox, x) /\ Copied(x) = book[x]

FinishedIds == {c \in CommandId : Finished(c)}
EmptiedIds  == {c \in CommandId : c \in refused \/ (Finished(c) /\ book[c] = 0)}
LeveledIds  == {c \in CommandId : Finished(c) /\ Leveled(c)}
LevelRefs   == OpenRefs(LeveledIds)

LEMMA HubIdsTell == IdsTell
BY ReportAssumption DEF IdsTell

LEMMA RefersLevel ==
    ASSUME NEW d, Refers(d, LevelRefs), d.action # "open"
    PROVE  /\ d.position \in CommandId /\ Opens(d.position) /\ d.position \in LeveledIds
           /\ KeyOfId(d.position) = KeyOf(d.source, d.order, d.target)
           /\ TargetOf(d.position) = d.target
<1>1. /\ d.position \in CommandId /\ Opens(d.position) /\ d.position \in LeveledIds
      /\ KeyOfId(d.position) = KeyOf(d.source, d.order, d.target)
  BY DEF Refers, LevelRefs, OpenRefs
<1>2. QED
  BY <1>1 DEF KeyOfId, KeyOf

(* The broker changes what it holds of a finished position only for a       *)
(* command that reduces or closes it, and says so to a hub that listens.    *)
Referred == \A r \in requests : Refers(r.command, LevelRefs)

LEMMA DealFinished ==
    ASSUME HubInv, Referred, NEW r \in requests, NEW m, Deal(r, m),
           NEW x \in CommandId, Finished(x), book'[x] # book[x]
    PROVE  /\ r.command.action # "open" /\ ~r.protection /\ x = r.command.position
           /\ book'[x] < book[x] /\ Tells(m, x) /\ m.volume = book'[x]
           /\ r.command.target = TargetOf(x)
<1>1. ~r.protection => r.command.id # x
  BY DEF Finished, Under, Requested, Asks
<1>2. /\ r.command.action # "open" /\ ~r.protection /\ x = r.command.position
      /\ book'[x] < book[x] /\ Tells(m, x) /\ m.volume = book'[x]
  BY <1>1 DEF Deal
<1>3. QED
  BY <1>2, RefersLevel DEF Referred

LEMMA DealLevels ==
    ASSUME HubInv, Referred, NEW r \in requests, Broker(r),
           NEW x \in CommandId, Finished(x), Leveled(x)
    PROVE  Leveled(x)'
<1>1. /\ inbox \in Seq(MessageType) /\ book[x] \in Nat /\ book'[x] \in Nat
      /\ copies \in [CommandId -> Nat] /\ 1 \in Nat
  BY BrokerTyped DEF HubInv, TypeOK
<1>2. UNCHANGED <<message, copies, phase, ready, missed>>
  BY DEF Broker, hubVars, historyVars
<1>3. /\ Watching(TargetOf(x))' <=> Watching(TargetOf(x))
      /\ Copied(x)' = Copied(x)
  BY <1>2 DEF Watching, Running, SetUp, Copied
<1> SUFFICES ASSUME Watching(TargetOf(x))
             PROVE  /\ Copied(x) >= book'[x] /\ SaysEnough(inbox', x, book'[x], 1)
                    /\ ~missed => \/ LastSays(inbox', x, book'[x])
                                  \/ Wordless(inbox', x) /\ Copied(x) = book'[x]
  BY <1>2, <1>3 DEF Leveled, SaysEnough, LastSays, Wordless
<1>4. /\ Copied(x) >= book[x] /\ SaysEnough(inbox, x, book[x], 1)
      /\ ~missed => \/ LastSays(inbox, x, book[x])
                    \/ Wordless(inbox, x) /\ Copied(x) = book[x]
  BY DEF Leveled
<1>5. PICK m : Deal(r, m)
  BY BrokerDeals
<1>6. m \in MessageType /\ (Tells(m, x) => m.volume = book'[x])
  BY <1>5 DEF Deal, Replied
<1>7. CASE book'[x] = book[x]
  <2>1. CASE inbox' = inbox
    BY <1>4, <1>7, <2>1
  <2>2. CASE inbox' = inbox \o <<m>>
    <3>1. book[x] >= book[x]
      BY <1>1, SMT
    <3>2. SaysEnough(inbox', x, book[x], 1)
      <4>1. Tells(m, x) => m.volume >= book[x]
        BY <1>6, <1>7, <3>1
      <4>2. \A i \in Nat : SaysEnough(inbox, x, book[x], i) => SaysEnough(inbox', x, book[x], i)
        BY <1>1, <1>6, <2>2, <4>1, SaidMore
      <4>3. QED
        BY <1>1, <1>4, <4>2
    <3>3. ~missed => \/ LastSays(inbox', x, book[x])
                     \/ Wordless(inbox', x) /\ Copied(x) = book[x]
      BY <1>1, <1>4, <1>6, <1>7, <2>2, SaidMore
    <3>4. QED
      BY <1>4, <1>7, <3>2, <3>3
  <2>3. QED
    BY <1>5, <2>1, <2>2 DEF Deal, Replied
<1>8. CASE book'[x] # book[x]
  <2>1. /\ book'[x] < book[x] /\ Tells(m, x) /\ r.command.target = TargetOf(x)
    BY <1>5, <1>8, DealFinished
  <2>2. inbox' = inbox \o <<m>>
    BY <1>5, <2>1 DEF Deal, Replied
  <2>3. /\ book'[x] <= book[x] /\ book'[x] >= book'[x]
    BY <1>1, <2>1, SMT
  <2>4. SaysEnough(inbox, x, book'[x], 1)
    BY <1>1, <1>4, <2>3, SaysLess
  <2>5. SaysEnough(inbox', x, book'[x], 1)
    <3>1. Tells(m, x) => m.volume >= book'[x]
      BY <1>6, <2>3
    <3>2. \A i \in Nat : SaysEnough(inbox, x, book'[x], i) => SaysEnough(inbox', x, book'[x], i)
      BY <1>1, <1>6, <2>2, <3>1, SaidMore
    <3>3. QED
      BY <1>1, <2>4, <3>2
  <2>6. LastSays(inbox', x, book'[x])
    BY <1>1, <1>6, <2>1, <2>2, SaidMore
  <2>7. Copied(x) >= book'[x]
    <3>1. Copied(x) \in Nat
      <4>1. phase = "update" => message \in MessageType
        BY DEF HubInv
      <4>2. message # NoMessage => message \in MessageType
        BY DEF HubInv, TypeOK
      <4>3. QED
        BY <1>1, <4>2, MessageTyped DEF Copied
    <3>2. QED
      BY <1>1, <1>4, <2>3, <3>1, SMT
  <2>8. QED
    BY <2>5, <2>6, <2>7
<1>9. QED
  BY <1>7, <1>8

LEMMA SetUpLevels ==
    ASSUME HubInv, SyncInv, SetUpNext, NEW x \in CommandId, Leveled(x)
    PROVE  Leveled(x)'
<1> DEFINE k == Line[ready + 1]
<1>1. k \in Task /\ SetUp' = SetUp \cup {k}
  BY NextInLine
<1>2. /\ inbox' = <<>> /\ message = NoMessage /\ message' = NoMessage /\ Running /\ book' = book
      /\ missed' = (missed \/ inbox # <<>>)
  BY DEF SetUpNext, SyncInv, Running
<1>3. copies'[x] = IF TargetOf(x) = Owner[k] THEN book[x] ELSE copies[x]
  BY DEF SetUpNext, ReconcilePositions
<1> HIDE DEF k
<1>4. Copied(x)' = copies'[x] /\ Copied(x) = copies[x] /\ book[x] \in Nat
  BY <1>2 DEF Copied, HubInv, TypeOK
<1>5. Wordless(inbox', x) /\ SaysEnough(inbox', x, book[x], 1)
  BY <1>2 DEF Wordless, SaysEnough
<1>6. CASE TargetOf(x) = Owner[k]
  <2>1. Copied(x)' = book[x] /\ book[x] >= book[x]
    BY <1>3, <1>4, <1>6, SMT
  <2>2. QED
    BY <1>2, <1>5, <2>1 DEF Leveled, Wordless, SaysEnough
<1>7. CASE TargetOf(x) # Owner[k]
  <2>1. Watching(TargetOf(x))' => Watching(TargetOf(x))
    BY <1>1, <1>2, <1>7 DEF Watching
  <2>2. SUFFICES ASSUME Watching(TargetOf(x)) PROVE Leveled(x)'
    BY <2>1 DEF Leveled
  <2>3. copies[x] >= book[x] /\ (~missed' => copies[x] = book[x])
    <3>1. inbox = <<>> => ~LastSays(inbox, x, book[x])
      BY DEF LastSays
    <3>2. ~missed' => ~missed /\ inbox = <<>>
      BY <1>2
    <3>3. QED
      BY <1>4, <2>2, <3>1, <3>2 DEF Leveled
  <2>4. QED
    BY <1>2, <1>3, <1>4, <1>5, <1>7, <2>3 DEF Leveled, Wordless, SaysEnough
<1>8. QED
  BY <1>6, <1>7

LEMMA ReadLevels ==
    ASSUME HubInv, SyncInv, HandleMessage \/ UpdatePosition \/ UpdateCopy,
           NEW x \in CommandId, Leveled(x)
    PROVE  Leveled(x)'
<1>1. /\ inbox \in Seq(MessageType) /\ UNCHANGED <<book, ready, missed>> /\ Running
      /\ copies \in [CommandId -> Nat]
      /\ phase = "update" => message \in MessageType
      /\ phase # "update" => message = NoMessage
  BY DEF HandleMessage, UpdatePosition, UpdateCopy, brokerVars, historyVars, Running, HubInv,
         TypeOK, SyncInv
<1>2. NoMessage \notin MessageType
  BY MessageThere
<1>3. SUFFICES ASSUME Watching(TargetOf(x)) PROVE Leveled(x)'
  BY <1>1 DEF Leveled, Watching, SetUp
<1>4. /\ Copied(x) >= book[x] /\ SaysEnough(inbox, x, book[x], 1)
      /\ ~missed => \/ LastSays(inbox, x, book[x])
                    \/ Wordless(inbox, x) /\ Copied(x) = book[x]
  BY <1>3 DEF Leveled
<1>5. CASE HandleMessage
  <2> DEFINE m == Head(inbox)
  <2>1. /\ inbox # <<>> /\ inbox' = Tail(inbox) /\ copies' = copies /\ message = NoMessage
        /\ \/ m.type = "error" /\ message' = message
           \/ m.type # "error" /\ message' = m
    BY <1>1, <1>5 DEF HandleMessage
  <2>2. m \in MessageType
    BY <1>1, <2>1, FirstOf
  <2>3. /\ LastSays(inbox, x, book[x]) =>
              \/ LastSays(inbox', x, book[x])
              \/ Wordless(inbox', x) /\ Tells(m, x) /\ m.volume = book[x]
        /\ Wordless(inbox, x) => Wordless(inbox', x) /\ ~Tells(m, x)
        /\ SaysEnough(inbox', x, book[x], 1) /\ (Tells(m, x) => m.volume >= book[x])
    BY <1>1, <1>4, <2>1, SaidLess
  <2> HIDE DEF m
  <2>4. Copied(x) = copies[x]
    BY <2>1 DEF Copied
  <2>5. /\ Tells(m, x) => Copied(x)' = m.volume
        /\ ~Tells(m, x) => Copied(x)' = copies[x]
    BY <1>2, <2>1, <2>2 DEF Copied, Tells
  <2>6. QED
    BY <1>1, <1>4, <2>3, <2>4, <2>5 DEF Leveled, LastSays, Wordless, SaysEnough
<1>6. CASE UpdatePosition \/ UpdateCopy
  <2>1. inbox' = inbox /\ message' = NoMessage /\ message \in MessageType
    BY <1>1, <1>6 DEF UpdatePosition, UpdateCopy, brokerVars
  <2>2. Copied(x)' = Copied(x)
    <3>1. CASE UpdatePosition
      <4>1. message.about = "trader" /\ copies' = copies
        BY <3>1 DEF UpdatePosition
      <4>2. QED
        BY <2>1, <4>1 DEF Copied
    <3>2. CASE UpdateCopy
      <4>1. /\ message.about = "request"
            /\ copies' = IF message.position = NoPosition THEN copies
                         ELSE [copies EXCEPT ![message.position] = message.volume]
        BY <3>2 DEF UpdateCopy, KeepCopy
      <4>2. message.position \in CommandId \cup {NoPosition} /\ x # NoPosition
        <5>1. message.position \in CommandId \cup {NoPosition}
          BY <2>1, <4>1, MessageTyped
        <5>2. QED
          BY <5>1, IdIsNoMarker
      <4>3. copies'[x] = IF message.position = x THEN message.volume ELSE copies[x]
        BY <1>1, <4>1, <4>2
      <4>4. QED
        BY <1>2, <2>1, <4>1, <4>3 DEF Copied
    <3>3. QED
      BY <1>6, <3>1, <3>2
  <2>3. QED
    BY <1>1, <1>4, <2>1, <2>2 DEF Leveled, LastSays, Wordless, SaysEnough
<1>7. QED
  BY <1>5, <1>6

LEMMA LevelsStay ==
    ASSUME HubInv, SyncInv, Referred, [Next]_vars, NEW x \in CommandId, Finished(x), Leveled(x)
    PROVE  Leveled(x)'
<1>1. CASE \E r \in requests : Broker(r)
  BY <1>1, DealLevels
<1>2. CASE SetUpNext
  BY <1>2, SetUpLevels
<1>3. CASE HandleMessage \/ UpdatePosition \/ UpdateCopy
  BY <1>3, ReadLevels
<1>4. ASSUME NEW o \in OrderId, Trader(o) PROVE Leveled(x)'
  <2>1. UNCHANGED <<book, message, copies, phase, ready, missed>>
    BY <1>4 DEF Trader, hubVars, historyVars
  <2>2. /\ LastSays(inbox, x, book[x]) => LastSays(inbox', x, book[x])
        /\ Wordless(inbox, x) => Wordless(inbox', x)
        /\ SaysEnough(inbox, x, book[x], 1) => SaysEnough(inbox', x, book[x], 1)
    BY <1>4, TraderApart
  <2>3. Copied(x)' = Copied(x) /\ (Watching(TargetOf(x))' <=> Watching(TargetOf(x)))
    BY <2>1 DEF Copied, Watching, Running, SetUp
  <2>4. QED
    BY <2>1, <2>2, <2>3 DEF Leveled, LastSays, Wordless, SaysEnough
<1>5. CASE Crash
  <2>1. SetUp' = {}
    <3>1. ready' = 0
      BY <1>5 DEF Crash
    <3>2. QED
      BY <3>1, SMT DEF SetUp
  <2>2. QED
    BY <2>1 DEF Leveled, Watching
<1>6. CASE /\ ~SetUpNext /\ ~Crash /\ ~HandleMessage /\ ~UpdatePosition /\ ~UpdateCopy
           /\ ~\E o \in OrderId : Trader(o)
           /\ ~\E r \in requests : Broker(r)
  <2>1. /\ UNCHANGED <<inbox, missed, ready, copies, book>>
        /\ \/ message' = message /\ phase' = phase
           \/ message' = message /\ EnterLoop
           \/ message' = NoMessage /\ phase' \in {"leaving", "stopped"}
    BY <1>6, QuietHub
  <2>2. CASE message' = message /\ (phase' = phase \/ EnterLoop)
    <3>1. Running' <=> Running
      BY <2>2 DEF EnterLoop, Running
    <3>2. QED
      BY <2>1, <2>2, <3>1 DEF Leveled, Watching, SetUp, Copied, LastSays, Wordless, SaysEnough
  <2>3. CASE phase' \in {"leaving", "stopped"}
    BY <2>3 DEF Leveled, Watching, Running
  <2>4. QED
    BY <2>1, <2>2, <2>3
<1>7. QED
  BY <1>1, <1>2, <1>3, <1>4, <1>5, <1>6

(* What is finished, emptied and leveled stays so.                          *)
LEMMA BookFinished ==
    ASSUME HubInv, Referred, [Next]_vars, NEW x \in CommandId, Finished(x)
    PROVE  book'[x] <= book[x] /\ book'[x] \in Nat /\ book[x] \in Nat
<1>1. book \in [CommandId -> Nat] /\ book' \in [CommandId -> Nat]
  BY PositionsMove DEF HubInv, TypeOK
<1>2. CASE book' = book
  BY <1>1, <1>2, SMT
<1>3. CASE \E r \in requests : Broker(r)
  <2>1. PICK r \in requests : Broker(r)
    BY <1>3
  <2>2. PICK m : Deal(r, m)
    BY <2>1, BrokerDeals
  <2>3. book'[x] # book[x] => book'[x] < book[x]
    BY <2>2, DealFinished
  <2>4. QED
    BY <1>1, <2>3, SMT
<1>4. ~(\E r \in requests : Broker(r)) => book' = book
  BY DEF Next, SetUpNext, StartupFails, EnterLoop, UpdatePosition, UpdateCopy, HandleMessage,
         TakeCommand, ConnectionEnds, HubEnds, ForwarderTakes, ForwarderSends,
         ForwarderEnds, TaskStep, JournalError, LeaveNext, Trader, Crash, vars, brokerVars
<1>5. QED
  BY <1>2, <1>3, <1>4

LEMMA RefusedStays ==
    ASSUME [Next]_vars
    PROVE  refused \subseteq refused'
BY DEF Next, SetUpNext, StartupFails, EnterLoop, UpdatePosition, UpdateCopy, HandleMessage,
       HandleProtection, HandleOutcome, HandleUnmatched, Acknowledge, Broker,
       TakeCommand, ConnectionEnds, HubEnds, ForwarderTakes, ForwarderSends,
       ForwarderEnds, TaskStep, JournalError, LeaveNext, Trader, Crash, vars, historyVars

LEMMA IdsGrow ==
    ASSUME HubInv, OnceInv', SyncInv, Referred, [Next]_vars
    PROVE  /\ FinishedIds \subseteq FinishedIds' /\ EmptiedIds \subseteq EmptiedIds'
           /\ LeveledIds \subseteq LeveledIds' /\ LevelRefs \subseteq LevelRefs'
<1>1. \A c \in CommandId : Finished(c) => Finished(c)'
  BY StaysFinished
<1>2. \A c \in CommandId : Finished(c) /\ Leveled(c) => Leveled(c)'
  BY LevelsStay
<1>3. ASSUME NEW c \in CommandId, Finished(c), book[c] = 0 PROVE book'[c] = 0
  <2>1. book'[c] <= book[c] /\ book'[c] \in Nat
    BY <1>3, BookFinished
  <2>2. QED
    BY <1>3, <2>1, SMT
<1>4. refused \subseteq refused'
  BY RefusedStays
<1>5. FinishedIds \subseteq FinishedIds'
  BY <1>1 DEF FinishedIds
<1>6. LeveledIds \subseteq LeveledIds'
  BY <1>1, <1>2 DEF LeveledIds
<1>7. EmptiedIds \subseteq EmptiedIds'
  BY <1>1, <1>3, <1>4 DEF EmptiedIds
<1>8. LevelRefs \subseteq LevelRefs'
  BY <1>6 DEF LevelRefs, OpenRefs
<1>9. QED
  BY <1>5, <1>6, <1>7, <1>8

(* What each command has gone through.  Until it is finished it is tracked, *)
(* in memory and in the journal.                                            *)
Passage(c) ==
    /\ OneOf(c)
    /\ Under(c) => handed[c] > 0 /\ Tracked(mem, c) /\ Tracked(file, c)
    /\ handed[c] = 0 => c \notin settled
    /\ handed[c] > 0 => Served(TargetOf(c))
    /\ book[c] > 0 => Opens(c) /\ handed[c] > 0
    /\ c \in refused => Finished(c)

Passages == \A c \in CommandId : Passage(c)

(* What the hub holds and what it has asked for: of a close at least what   *)
(* the broker has.                                                          *)
HandInv ==
    /\ \A c \in InHand : Refers(c, LevelRefs)
    /\ \A c \in protecting : c.action = "open" /\ c.id \in LeveledIds
    /\ Referred
    /\ \A r \in requests :
         /\ r.protection => r.command.action = "open" /\ Finished(r.command.id)
         /\ ~r.protection /\ r.command.action = "close" => r.volume >= book[r.command.position]

(* An answer ends its command; a close that is filled has emptied a         *)
(* position of its key; and the answer to an open that is filled, where it  *)
(* names the position, is followed by whatever became of it since.          *)
AnswerAt(i) ==
    LET m == inbox[i]
    IN  m.about = "request" /\ m.type \notin NonFinal =>
          /\ Finished(m.id)
          /\ ~m.protection /\ Outcome(m.type) = "filled" =>
               /\ ActionOf(m.id) = "close" =>
                    \E x \in CommandId :
                       Opens(x) /\ KeyOfId(x) = KeyOfId(m.id) /\ Finished(x) /\ book[x] = 0
               /\ Opens(m.id) /\ m.position = m.id /\ Watching(TargetOf(m.id)) =>
                    SaysEnough(inbox, m.id, book[m.id], i) /\ LastSays(inbox, m.id, book[m.id])
AnswersInv == \A i \in DOMAIN inbox : AnswerAt(i)

LEMMA OutcomeFilled ==
    ASSUME NEW type, Outcome(type) = "filled"
    PROVE  type \in {"filled", "replaced"}
BY DEF Outcome

(* An answer that stays in the inbox.                                       *)
LEMMA AnswerKept ==
    ASSUME HubInv, OnceInv', Referred, [Next]_vars,
           NEW i \in DOMAIN inbox, AnswerAt(i), inbox[i] \in MessageType,
           NEW j \in DOMAIN inbox', inbox'[j] = inbox[i],
           \A x \in CommandId :
              /\ Finished(x) /\ Tells(inbox[i], x) /\ Watching(TargetOf(x))'
              /\ Watching(TargetOf(x)) =>
                    SaysEnough(inbox, x, book[x], i) /\ LastSays(inbox, x, book[x])
              => SaysEnough(inbox', x, book'[x], j) /\ LastSays(inbox', x, book'[x])
    PROVE  AnswerAt(j)'
<1>1. PICK m \in MessageType : m = inbox[i]
  OBVIOUS
<1>2. SUFFICES ASSUME m.about = "request", m.type \notin NonFinal
               PROVE  /\ Finished(m.id)'
                      /\ ~m.protection /\ Outcome(m.type) = "filled" =>
                           /\ ActionOf(m.id) = "close" =>
                                \E x \in CommandId : /\ Opens(x) /\ KeyOfId(x) = KeyOfId(m.id)
                                                     /\ Finished(x)' /\ book'[x] = 0
                           /\ Opens(m.id) /\ m.position = m.id /\ Watching(TargetOf(m.id))' =>
                                /\ SaysEnough(inbox', m.id, book'[m.id], j)
                                /\ LastSays(inbox', m.id, book'[m.id])
  BY <1>1 DEF AnswerAt, Finished, Under, InChannel, Forwarded, Collected, Requested, Asks,
              Watching, SaysEnough, LastSays
<1>3. m.id \in CommandId /\ Finished(m.id)
  BY <1>1, <1>2, MessageTyped DEF AnswerAt
<1>4. Finished(m.id)'
  BY <1>3, StaysFinished
<1>5. ASSUME ~m.protection, Outcome(m.type) = "filled", ActionOf(m.id) = "close"
      PROVE  \E x \in CommandId : /\ Opens(x) /\ KeyOfId(x) = KeyOfId(m.id)
                                  /\ Finished(x)' /\ book'[x] = 0
  <2>1. PICK x \in CommandId :
           Opens(x) /\ KeyOfId(x) = KeyOfId(m.id) /\ Finished(x) /\ book[x] = 0
    BY <1>1, <1>2, <1>5 DEF AnswerAt
  <2>2. book'[x] <= book[x] /\ book'[x] \in Nat
    BY <2>1, BookFinished
  <2>3. book'[x] = 0
    BY <2>1, <2>2, SMT
  <2>4. QED
    BY <2>1, <2>3, StaysFinished
<1>6. ASSUME ~m.protection, Outcome(m.type) = "filled", Opens(m.id), m.position = m.id,
             Watching(TargetOf(m.id))'
      PROVE  SaysEnough(inbox', m.id, book'[m.id], j) /\ LastSays(inbox', m.id, book'[m.id])
  <2>1. Tells(inbox[i], m.id)
    BY <1>1, <1>2, <1>6, OutcomeFilled DEF Tells
  <2>2. Watching(TargetOf(m.id)) =>
           SaysEnough(inbox, m.id, book[m.id], i) /\ LastSays(inbox, m.id, book[m.id])
    BY <1>1, <1>2, <1>6 DEF AnswerAt
  <2>3. QED
    BY <1>3, <1>6, <2>1, <2>2
<1>7. QED
  BY <1>4, <1>5, <1>6

LEMMA DealSays ==
    ASSUME HubInv, Referred, NEW r \in requests, NEW m, Deal(r, m),
           NEW x \in CommandId, Finished(x), book'[x] \in Nat,
           NEW i \in Nat, Watching(TargetOf(x)),
           SaysEnough(inbox, x, book[x], i), LastSays(inbox, x, book[x])
    PROVE  SaysEnough(inbox', x, book'[x], i) /\ LastSays(inbox', x, book'[x])
<1>1. inbox \in Seq(MessageType) /\ book[x] \in Nat
  BY DEF HubInv, TypeOK
<1>2. m \in MessageType /\ (Tells(m, x) => m.volume = book'[x])
  BY DEF Deal, Replied
<1>3. book'[x] # book[x] => /\ book'[x] < book[x] /\ Tells(m, x)
                            /\ inbox' = inbox \o <<m>>
  BY DealFinished DEF Deal, Replied
<1>4. book'[x] <= book[x] /\ book'[x] >= book'[x]
  BY <1>1, <1>3, SMT
<1>5. SaysEnough(inbox, x, book'[x], i)
  BY <1>1, <1>4, SaysLess
<1>6. CASE inbox' = inbox \o <<m>>
  <2>1. Tells(m, x) => m.volume >= book'[x]
    BY <1>2, <1>4
  <2>2. \A n \in Nat : SaysEnough(inbox, x, book'[x], n) => SaysEnough(inbox', x, book'[x], n)
    BY <1>1, <1>2, <1>6, <2>1, SaidMore
  <2>3. SaysEnough(inbox', x, book'[x], i)
    BY <1>5, <2>2
  <2>4. CASE Tells(m, x)
    BY <1>1, <1>2, <1>6, <2>3, <2>4, SaidMore
  <2>5. CASE ~Tells(m, x)
    BY <1>1, <1>2, <1>3, <1>6, <2>3, <2>5, SaidMore
  <2>6. QED
    BY <2>4, <2>5
<1>7. CASE inbox' = inbox
  <2>1. CASE book'[x] = book[x]
    BY <1>7, <2>1
  <2>2. CASE book'[x] # book[x]
    BY <1>3, <1>6, <2>2
  <2>3. QED
    BY <2>1, <2>2
<1>8. QED
  BY <1>6, <1>7 DEF Deal, Replied

LEMMA SaysItself ==
    ASSUME NEW q \in Seq(MessageType), NEW m \in MessageType, NEW x, NEW v \in Nat,
           Tells(m, x), m.volume = v, NEW longer, longer = q \o <<m>>
    PROVE  LastSays(longer, x, v) /\ SaysEnough(longer, x, v, Len(q) + 1)
<1>1. LastSays(longer, x, v)
  BY SaidMore
<1>2. Len(q) \in Nat /\ \A i \in DOMAIN q : ~(Len(q) + 1 <= i)
  BY SMT
<1>3. \A i \in DOMAIN longer : i \in DOMAIN q \/ longer[i] = m
  BY SaidMore
<1>4. \A i \in DOMAIN q : longer[i] = q[i]
  BY SaidMore
<1>5. m.volume >= v
  BY SMT
<1>6. QED
  BY <1>1, <1>2, <1>3, <1>4, <1>5 DEF SaysEnough

(* An answer that comes in.                                                 *)
LEMMA RequestDone ==
    ASSUME HubInv, OnceInv', Passages, [Next]_vars, NEW r \in requests,
           Broker(r), ~r.protection, requests' = requests \ {r}
    PROVE  Finished(r.command.id)'
<1> DEFINE c == r.command.id
<1>1. c \in CommandId /\ UNCHANGED <<chan, handed, forward, commands>>
  BY CommandFacts DEF HubInv, Broker, runtimeVars, hubVars
<1>2. Requested(c)
  BY DEF Requested, Asks
<1>3. OneOf(c) /\ handed[c] > 0
  BY <1>1, <1>2 DEF Passages, Passage, Under
<1> HIDE DEF c
<1>4. ~InChannel(c) /\ ~Forwarded(c) /\ ~Collected(c) /\ OneRequested(c)
  BY <1>2, <1>3 DEF OneOf
<1>5. ~InChannel(c)' /\ ~Forwarded(c)' /\ ~Collected(c)'
  BY <1>1, <1>4 DEF InChannel, Forwarded, Collected
<1>6. ~Requested(c)'
  <2>1. Asks(r, c)
    BY DEF Asks, c
  <2>2. \A q \in requests : Asks(q, c) => q = r
    BY <1>4, <2>1 DEF OneRequested
  <2>3. QED
    BY <2>2 DEF Requested, Asks
<1>7. handed'[c] > 0
  BY <1>1, <1>3
<1>8. QED
  BY <1>5, <1>6, <1>7 DEF Finished, Under, c

LEMMA AnswerComes ==
    ASSUME HubInv, OnceInv', Passages, HandInv, [Next]_vars, NEW r \in requests, NEW m,
           Broker(r), Deal(r, m), NEW j \in DOMAIN inbox', inbox'[j] = m,
           inbox' = inbox \o <<m>>, j = Len(inbox) + 1
    PROVE  AnswerAt(j)'
<1>1. /\ inbox \in Seq(MessageType) /\ m \in MessageType /\ m.about = "request"
      /\ m.id = r.command.id /\ m.protection = r.protection
      /\ Len(inbox) \in Nat /\ j \in Nat /\ \A i \in DOMAIN inbox : ~(j <= i)
      /\ book' \in [CommandId -> Nat]
  <2>1. inbox \in Seq(MessageType)
    BY DEF HubInv, TypeOK
  <2>2. Len(inbox) \in Nat /\ j \in Nat /\ \A i \in DOMAIN inbox : ~(j <= i)
    BY <2>1, SMT
  <2>3. QED
    BY <2>1, <2>2, BrokerTyped DEF Deal, Replied
<1>2. /\ SoundCommand(r.command) /\ r.command.id \in CommandId
      /\ r.command.action = ActionOf(m.id) /\ (r.command.action = "open" <=> Opens(m.id))
      /\ KeyOf(r.command.source, r.command.order, r.command.target) = KeyOfId(m.id)
  <2>1. SoundCommand(r.command)
    BY DEF HubInv, Carried
  <2>2. QED
    BY <1>1, <2>1, HubIdsTell, IdTells
<1>3. SUFFICES ASSUME m.type \notin NonFinal
               PROVE  /\ Finished(m.id)'
                      /\ ~m.protection /\ Outcome(m.type) = "filled" =>
                           /\ ActionOf(m.id) = "close" =>
                                \E x \in CommandId : /\ Opens(x) /\ KeyOfId(x) = KeyOfId(m.id)
                                                     /\ Finished(x)' /\ book'[x] = 0
                           /\ Opens(m.id) /\ m.position = m.id /\ Watching(TargetOf(m.id))' =>
                                /\ SaysEnough(inbox', m.id, book'[m.id], j)
                                /\ LastSays(inbox', m.id, book'[m.id])
  BY <1>1 DEF AnswerAt, Finished, Under, InChannel, Forwarded, Collected, Requested, Asks,
              Watching, SaysEnough, LastSays
<1>4. requests' = requests \ {r}
  BY <1>3 DEF Deal
<1>5. Finished(m.id)'
  <2>1. CASE r.protection
    BY <1>1, <1>2, <2>1, StaysFinished DEF HandInv
  <2>2. CASE ~r.protection
    BY <1>1, <1>4, <2>2, RequestDone
  <2>3. QED
    BY <2>1, <2>2
<1>6. ASSUME ~m.protection, Outcome(m.type) = "filled", ActionOf(m.id) = "close"
      PROVE  \E x \in CommandId : /\ Opens(x) /\ KeyOfId(x) = KeyOfId(m.id)
                                  /\ Finished(x)' /\ book'[x] = 0
  <2>1. PICK x \in CommandId :
          x = r.command.position /\ Opens(x) /\ Finished(x) /\ KeyOfId(x) = KeyOfId(m.id)
    BY <1>2, <1>6, RefersLevel DEF HandInv, Referred, LeveledIds
  <2>2. r.volume >= book[x]
    BY <1>1, <1>2, <1>6, <2>1 DEF HandInv
  <2>3. book'[x] = 0
    BY <1>1, <1>2, <1>6, <2>1, <2>2 DEF Deal
  <2>4. QED
    BY <2>1, <2>3, StaysFinished
<1>7. ASSUME Outcome(m.type) = "filled", m.position = m.id
      PROVE  SaysEnough(inbox', m.id, book'[m.id], j) /\ LastSays(inbox', m.id, book'[m.id])
  <2>1. Tells(m, m.id) /\ m.volume = book'[m.id] /\ book'[m.id] \in Nat
    BY <1>1, <1>2, <1>7, OutcomeFilled DEF Tells, Deal
  <2>2. QED
    BY <1>1, <2>1, SaysItself
<1>8. QED
  BY <1>5, <1>6, <1>7

LEMMA DealAnswers ==
    ASSUME HubInv, OnceInv', Passages, HandInv, AnswersInv, [Next]_vars,
           NEW r \in requests, Broker(r)
    PROVE  AnswersInv'
<1>1. PICK m : Deal(r, m)
  BY BrokerDeals
<1>2. /\ inbox \in Seq(MessageType) /\ m \in MessageType /\ Referred
      /\ book' \in [CommandId -> Nat]
      /\ \A i \in DOMAIN inbox : inbox[i] \in MessageType /\ i \in Nat
  <2>1. inbox \in Seq(MessageType)
    BY DEF HubInv, TypeOK
  <2>2. \A i \in DOMAIN inbox : inbox[i] \in MessageType /\ i \in Nat
    BY <2>1, SMT
  <2>3. QED
    BY <1>1, <2>1, <2>2, BrokerTyped DEF Deal, Replied, HandInv
<1>3. UNCHANGED <<phase, ready>>
  BY DEF Broker, hubVars
<1>4. \A a : Watching(a)' <=> Watching(a)
  BY <1>3 DEF Watching, Running, SetUp
<1>5. ASSUME NEW i \in DOMAIN inbox, i \in DOMAIN inbox', inbox'[i] = inbox[i]
      PROVE  AnswerAt(i)'
  <2>1. ASSUME NEW x \in CommandId, Finished(x), Tells(inbox[i], x), Watching(TargetOf(x))',
               Watching(TargetOf(x)) =>
                  SaysEnough(inbox, x, book[x], i) /\ LastSays(inbox, x, book[x])
        PROVE  SaysEnough(inbox', x, book'[x], i) /\ LastSays(inbox', x, book'[x])
    BY <1>1, <1>2, <1>4, <2>1, DealSays
  <2>2. AnswerAt(i)
    BY DEF AnswersInv
  <2>3. QED
    BY <1>2, <1>5, <2>1, <2>2, AnswerKept
<1>6. CASE inbox' = inbox
  <2>1. \A i \in DOMAIN inbox' : AnswerAt(i)'
    BY <1>5, <1>6
  <2>2. QED
    BY <2>1 DEF AnswersInv
<1>7. CASE inbox' = inbox \o <<m>>
  <2>1. /\ \A i \in DOMAIN inbox : i \in DOMAIN inbox' /\ inbox'[i] = inbox[i]
        /\ \A i \in DOMAIN inbox' :
             i \in DOMAIN inbox \/ (i = Len(inbox) + 1 /\ inbox'[i] = m)
    BY <1>2, <1>7, SaidMore
  <2>2. ASSUME NEW j \in DOMAIN inbox', j = Len(inbox) + 1, inbox'[j] = m
        PROVE  AnswerAt(j)'
    BY <1>1, <1>7, <2>2, AnswerComes
  <2>3. \A i \in DOMAIN inbox' : AnswerAt(i)'
    BY <1>5, <2>1, <2>2
  <2>4. QED
    BY <2>3 DEF AnswersInv
<1>8. QED
  BY <1>1, <1>6, <1>7 DEF Deal, Replied

LEMMA AnswersStep ==
    ASSUME HubInv, OnceInv', SyncInv, Passages, HandInv, AnswersInv, [Next]_vars
    PROVE  AnswersInv'
<1>1. /\ inbox \in Seq(MessageType) /\ Referred
      /\ \A i \in DOMAIN inbox : inbox[i] \in MessageType /\ i \in Nat
  <2>1. inbox \in Seq(MessageType)
    BY DEF HubInv, TypeOK
  <2>2. \A i \in DOMAIN inbox : inbox[i] \in MessageType /\ i \in Nat
    BY <2>1, SMT
  <2>3. QED
    BY <2>1, <2>2 DEF HandInv
<1>2. CASE \E r \in requests : Broker(r)
  BY <1>2, DealAnswers
<1>3. CASE SetUpNext \/ Crash
  <2>1. inbox' = <<>>
    BY <1>3 DEF SetUpNext, Crash
  <2>2. DOMAIN inbox' = {}
    BY <2>1
  <2>3. QED
    BY <2>2 DEF AnswersInv
<1>4. ASSUME NEW o \in OrderId, Trader(o) PROVE AnswersInv'
  <2>1. UNCHANGED <<book, phase, ready>>
    BY <1>4 DEF Trader, hubVars
  <2>2. \A a : Watching(a)' => Watching(a)
    BY <2>1 DEF Watching, Running, SetUp
  <2>3. ASSUME NEW j \in DOMAIN inbox' PROVE AnswerAt(j)'
    <3>1. inbox'[j].about = "trader" \/ (j \in DOMAIN inbox /\ inbox'[j] = inbox[j])
      BY <1>4, TraderApart
    <3>2. CASE inbox'[j].about = "trader"
      <4>1. inbox'[j].about # "request"
        BY <3>2
      <4>2. QED
        BY <4>1 DEF AnswerAt
    <3>3. CASE j \in DOMAIN inbox /\ inbox'[j] = inbox[j]
      <4>1. \A x \in CommandId :
              /\ SaysEnough(inbox, x, book[x], j) => SaysEnough(inbox', x, book'[x], j)
              /\ LastSays(inbox, x, book[x]) => LastSays(inbox', x, book'[x])
        BY <1>1, <1>4, <2>1, <3>3, TraderApart
      <4>2. AnswerAt(j)
        BY <3>3 DEF AnswersInv
      <4>3. QED
        BY <1>1, <2>2, <3>3, <4>1, <4>2, AnswerKept
    <3>4. QED
      BY <3>1, <3>2, <3>3
  <2>4. QED
    BY <2>3 DEF AnswersInv
<1>5. CASE HandleMessage
  <2>1. /\ UNCHANGED <<book, ready>> /\ phase = "loop" /\ inbox # <<>> /\ inbox' = Tail(inbox)
    BY <1>5 DEF HandleMessage
  <2>2. \A a : Watching(a)' => Watching(a)
    BY <2>1 DEF Watching, Running, SetUp
  <2>3. ASSUME NEW j \in DOMAIN inbox' PROVE AnswerAt(j)'
    <3>1. j + 1 \in DOMAIN inbox /\ inbox'[j] = inbox[j + 1]
      BY <1>1, <2>1, SaidLess
    <3>2. ASSUME NEW x \in CommandId, Tells(inbox[j + 1], x),
                 SaysEnough(inbox, x, book[x], j + 1), LastSays(inbox, x, book[x])
          PROVE  SaysEnough(inbox', x, book'[x], j) /\ LastSays(inbox', x, book'[x])
      <4>1. ~Wordless(inbox', x)
        BY <3>1, <3>2 DEF Wordless
      <4>2. QED
        BY <1>1, <2>1, <3>2, <4>1, SaidLess
    <3>3. AnswerAt(j + 1)
      BY <3>1 DEF AnswersInv
    <3>4. QED
      BY <1>1, <2>2, <3>1, <3>2, <3>3, AnswerKept
  <2>4. QED
    BY <2>3 DEF AnswersInv
<1>6. CASE /\ ~SetUpNext /\ ~Crash /\ ~HandleMessage
           /\ ~\E o \in OrderId : Trader(o)
           /\ ~\E r \in requests : Broker(r)
  <2>1. /\ UNCHANGED <<inbox, ready, book>>
        /\ \/ phase' = phase \/ EnterLoop
           \/ phase' \in {"leaving", "stopped"}
           \/ phase = "update"
    <3>1. CASE UpdatePosition \/ UpdateCopy
      BY <3>1 DEF UpdatePosition, UpdateCopy, brokerVars
    <3>2. CASE ~UpdatePosition /\ ~UpdateCopy
      BY <1>6, <3>2, QuietHub
    <3>3. QED
      BY <3>1, <3>2
  <2>2. \A a : Watching(a)' => Watching(a)
    BY <2>1 DEF Watching, Running, SetUp, EnterLoop
  <2>3. ASSUME NEW j \in DOMAIN inbox' PROVE AnswerAt(j)'
    <3>1. j \in DOMAIN inbox /\ inbox'[j] = inbox[j] /\ AnswerAt(j)
      BY <2>1 DEF AnswersInv
    <3>2. \A x \in CommandId :
            /\ SaysEnough(inbox, x, book[x], j) => SaysEnough(inbox', x, book'[x], j)
            /\ LastSays(inbox, x, book[x]) => LastSays(inbox', x, book'[x])
      BY <2>1
    <3>3. QED
      BY <1>1, <2>2, <3>1, <3>2, AnswerKept
  <2>4. QED
    BY <2>3 DEF AnswersInv
<1>7. QED
  BY <1>2, <1>3, <1>4, <1>5, <1>6

(* The answer to an open that names its position levels it.                 *)
LEMMA AnswerLevels ==
    ASSUME HubInv, SyncInv, AnswersInv, HandleMessage, NEW m, m = Head(inbox),
           m.about = "request", m.type \notin NonFinal, ~m.protection,
           Outcome(m.type) = "filled", Opens(m.id), m.position = m.id
    PROVE  Leveled(m.id)'
<1>1. /\ inbox \in Seq(MessageType) /\ inbox # <<>> /\ inbox' = Tail(inbox)
      /\ UNCHANGED <<book, ready, missed>> /\ phase = "loop"
      /\ message' = m /\ m.type # "error"
  <2>1. m.type # "error"
    BY OutcomeFilled
  <2>2. QED
    BY <2>1 DEF HandleMessage, HubInv, TypeOK
<1>2. m \in MessageType
  BY <1>1, FirstOf
<1>3. 1 \in DOMAIN inbox /\ inbox[1] = m
  BY <1>1, SaidLess
<1>4. PICK x \in CommandId : x = m.id
  BY <1>2, MessageTyped
<1>5. AnswerAt(1)
  BY <1>3 DEF AnswersInv
<1>6. Tells(m, x) /\ m # NoMessage
  BY <1>1, <1>2, <1>4, MessageThere DEF Tells
<1>7. (Watching(TargetOf(x))' => Watching(TargetOf(x))) /\ Copied(x)' = m.volume
  BY <1>1, <1>4, <1>6 DEF Watching, Running, SetUp, Copied
<1>8. SUFFICES ASSUME Watching(TargetOf(x)) PROVE Leveled(x)'
  BY <1>4, <1>7 DEF Leveled
<1>9. SaysEnough(inbox, x, book[x], 1) /\ LastSays(inbox, x, book[x])
  BY <1>3, <1>4, <1>5, <1>8 DEF AnswerAt
<1>10. /\ SaysEnough(inbox', x, book[x], 1) /\ m.volume >= book[x]
       /\ \/ LastSays(inbox', x, book[x])
          \/ Wordless(inbox', x) /\ m.volume = book[x]
  BY <1>1, <1>6, <1>9, SaidLess
<1>11. QED
  BY <1>1, <1>7, <1>10 DEF Leveled, LastSays, Wordless, SaysEnough

LEMMA RefersMore ==
    ASSUME LevelRefs \subseteq LevelRefs', NEW d, Refers(d, LevelRefs)
    PROVE  Refers(d, LevelRefs')
BY DEF Refers

(* A close asks for what the hub has, which is not less than what there is. *)
LEMMA ClosesEnough ==
    ASSUME HubInv, SyncInv, phase = "loop", NEW c, Carried(c), c.action = "close",
           Refers(c, LevelRefs)
    PROVE  RequestVolume(c) >= book[c.position]
<1>1. /\ c.position \in LeveledIds /\ TargetOf(c.position) = c.target
  BY RefersLevel
<1>2. PICK x \in CommandId : x = c.position /\ Leveled(x)
  BY <1>1 DEF LeveledIds
<1>3. Watching(TargetOf(x))
  BY <1>1, <1>2 DEF Watching, Running, Carried, Served, SyncInv
<1>4. /\ copies[x] >= book[x] /\ copies[x] \in Nat /\ book[x] \in Nat
  BY <1>2, <1>3 DEF Leveled, Copied, SyncInv, HubInv, TypeOK
<1>5. c.volume \in Nat
  BY CommandFacts DEF CommandType
<1>6. RequestVolume(c) = IF copies[x] > 0 THEN copies[x] ELSE c.volume
  BY <1>2 DEF RequestVolume
<1>7. CASE copies[x] > 0
  BY <1>2, <1>4, <1>6, <1>7
<1>8. CASE ~(copies[x] > 0)
  <2>1. book[x] = 0
    BY <1>4, <1>8, SMT
  <2>2. QED
    BY <1>2, <1>5, <1>6, <1>8, <2>1, SMT
<1>9. QED
  BY <1>7, <1>8

(* The protection that is asked for is that of an open that is filled.      *)
LEMMA ProtectsFilled ==
    ASSUME HubInv, OnceInv', SyncInv, GuardInv, AnswersInv, [Next]_vars,
           HandleMessage, NEW c \in pending, NEW m, m = Head(inbox),
           IsFor(m, c), ~m.protection, m.type \notin NonFinal,
           c.action = "open", Outcome(m.type) = "filled", m.position # NoPosition
    PROVE  c.id \in LeveledIds'
<1>1. c \in InHand /\ Carried(c) /\ m.about = "request" /\ m.id = c.id
  BY DEF InHand, HubInv, IsFor
<1>2. /\ SoundCommand(c) /\ c.id \in CommandId /\ Opens(c.id) /\ EventOf(c.id)[2] = "open"
  <2>1. SoundCommand(c)
    BY <1>1 DEF Carried
  <2>2. QED
    BY <2>1, OrderFacts, HubIdsTell, IdTells
<1>3. inbox \in Seq(MessageType) /\ inbox # <<>> /\ 1 \in DOMAIN inbox /\ inbox[1] = m
  <2>1. inbox \in Seq(MessageType) /\ inbox # <<>>
    BY DEF HandleMessage, HubInv, TypeOK
  <2>2. QED
    BY <2>1, SaidLess
<1>4. m.position = m.id
  BY <1>1, <1>2, <1>3 DEF GuardInv, MessageSafe
<1>5. Leveled(m.id)'
  BY <1>1, <1>2, <1>4, AnswerLevels
<1>6. Finished(m.id)
  BY <1>1, <1>3 DEF AnswersInv, AnswerAt
<1>7. QED
  BY <1>1, <1>2, <1>5, <1>6, StaysFinished DEF LeveledIds

(* Bindings and commands name leveled positions, and records say what is    *)
(* finished and emptied.                                                    *)
Linked == References(mem, file, rec, todo, chan, LevelRefs)
Judged == Verdicts(pc, rec, FinishedIds, EmptiedIds)

LEMMA RequestFrom ==
    ASSUME [Next]_vars, NEW r \in requests'
    PROVE  \/ r \in requests
           \/ /\ TakeCommand
              /\ r = [command |-> Head(commands), protection |-> FALSE,
                      volume |-> RequestVolume(Head(commands))]
           \/ /\ HandleMessage
              /\ \E c \in pending :
                   /\ r = [command |-> c, protection |-> TRUE, volume |-> 0]
                   /\ IsFor(Head(inbox), c) /\ ~Head(inbox).protection
                   /\ Head(inbox).type \notin NonFinal
                   /\ NeedsProtection(c) /\ Outcome(Head(inbox).type) = "filled"
                   /\ Head(inbox).position # NoPosition
<1>1. CASE TakeCommand
  BY <1>1 DEF TakeCommand
<1>2. CASE HandleMessage
  BY <1>2 DEF HandleMessage, HandleProtection, HandleOutcome, HandleUnmatched
<1>3. CASE \E q \in requests : Broker(q)
  BY <1>3 DEF Broker, Fill, PartialFill, Amend, Refuse
<1>4. CASE ~TakeCommand /\ ~HandleMessage /\ ~\E q \in requests : Broker(q)
  BY <1>4 DEF Next, SetUpNext, StartupFails, EnterLoop, UpdatePosition, UpdateCopy,
         ConnectionEnds, HubEnds, ForwarderTakes, ForwarderSends, ForwarderEnds,
         TaskStep, JournalError, LeaveNext, Trader, Crash, vars, brokerVars
<1>5. QED
  BY <1>1, <1>2, <1>3, <1>4

LEMMA ProtectingFrom ==
    ASSUME [Next]_vars, NEW c \in protecting'
    PROVE  \/ c \in protecting
           \/ /\ HandleMessage /\ c \in pending
              /\ IsFor(Head(inbox), c) /\ ~Head(inbox).protection
              /\ Head(inbox).type \notin NonFinal
              /\ NeedsProtection(c) /\ Outcome(Head(inbox).type) = "filled"
              /\ Head(inbox).position # NoPosition
<1>1. CASE HandleMessage
  BY <1>1 DEF HandleMessage, HandleProtection, HandleOutcome, HandleUnmatched
<1>2. CASE ~HandleMessage
  BY <1>2 DEF Next, SetUpNext, StartupFails, EnterLoop, TakeCommand, UpdatePosition, UpdateCopy,
         ConnectionEnds, HubEnds, Stop, ForwarderTakes, ForwarderSends, ForwarderEnds,
         TaskStep, JournalError, LeaveNext, Trader, Broker, Crash, vars, hubVars
<1>3. QED
  BY <1>1, <1>2

LEMMA HandStep ==
    ASSUME HubInv, OnceInv', SyncInv, GuardInv, Linked, HandInv, AnswersInv, [Next]_vars
    PROVE  HandInv'
<1>1. /\ FinishedIds \subseteq FinishedIds' /\ LeveledIds \subseteq LeveledIds'
      /\ LevelRefs \subseteq LevelRefs'
  BY IdsGrow DEF HandInv
<1>2. \A c \in InHand : Carried(c) /\ Refers(c, LevelRefs)
  BY DEF HubInv, HandInv
<1>3. ASSUME NEW c \in InHand' PROVE Refers(c, LevelRefs')
  <2>1. CASE c \in InHand
    BY <1>1, <1>2, <2>1, RefersMore
  <2>2. ASSUME NEW s \in Session, chan[s].queue # <<>>, c = Head(chan[s].queue)
        PROVE  Refers(c, LevelRefs')
    <3>1. chan[s].queue \in Seq(CommandType)
      BY DEF HubInv, TypeOK, RuntimeTypeOK
    <3>2. \E i \in DOMAIN chan[s].queue : c = chan[s].queue[i]
      BY <2>2, <3>1, FirstOf
    <3>3. c \in Referring(LevelRefs)
      BY <3>2 DEF Linked, References, Mentions, Among, InQueue
    <3>4. QED
      BY <1>1, <3>3, RefersMore DEF Referring
  <2>3. QED
    BY <2>1, <2>2, HandOrigin
<1>4. ASSUME NEW c \in protecting' PROVE c.action = "open" /\ c.id \in LeveledIds'
  <2>1. CASE c \in protecting
    BY <1>1, <2>1 DEF HandInv
  <2>2. CASE c \notin protecting
    BY <2>2, ProtectingFrom, ProtectsFilled DEF NeedsProtection
  <2>3. QED
    BY <2>1, <2>2
<1>5. ASSUME NEW r \in requests'
      PROVE  /\ Refers(r.command, LevelRefs')
             /\ r.protection => r.command.action = "open" /\ Finished(r.command.id)'
             /\ ~r.protection /\ r.command.action = "close" =>
                    r.volume >= book'[r.command.position]
  <2>1. CASE r \in requests
    <3>1. Refers(r.command, LevelRefs) /\ Carried(r.command)
      BY <2>1 DEF HandInv, Referred, HubInv
    <3>2. Refers(r.command, LevelRefs')
      BY <1>1, <3>1, RefersMore
    <3>3. ASSUME r.protection PROVE r.command.action = "open" /\ Finished(r.command.id)'
      BY <2>1, <3>1, <3>3, CommandFacts, StaysFinished DEF HandInv
    <3>4. ASSUME ~r.protection, r.command.action = "close"
          PROVE  r.volume >= book'[r.command.position]
      <4>1. PICK x \in CommandId : x = r.command.position /\ Finished(x)
        BY <3>1, <3>4, RefersLevel DEF LeveledIds
      <4>2. r.volume >= book[x] /\ r.volume \in Nat
        BY <2>1, <3>4, <4>1 DEF HandInv, HubInv, TypeOK, RequestType
      <4>3. book'[x] <= book[x] /\ book'[x] \in Nat /\ book[x] \in Nat
        BY <4>1, BookFinished DEF HandInv
      <4>4. QED
        BY <4>1, <4>2, <4>3, SMT
    <3>5. QED
      BY <3>2, <3>3, <3>4
  <2>2. CASE TakeCommand /\ r = [command |-> Head(commands), protection |-> FALSE,
                                  volume |-> RequestVolume(Head(commands))]
    <3>1. /\ commands \in Seq(CommandType) /\ commands # <<>> /\ phase = "loop" /\ book' = book
      BY <2>2 DEF TakeCommand, HubInv, TypeOK
    <3>2. Head(commands) \in InHand
      BY <3>1, FirstOf DEF InHand
    <3>3. Carried(r.command) /\ Refers(r.command, LevelRefs) /\ r.volume = RequestVolume(r.command)
      BY <1>2, <2>2, <3>2
    <3>4. r.command.action = "close" => r.volume >= book[r.command.position]
      BY <3>1, <3>3, ClosesEnough
    <3>5. QED
      BY <1>1, <2>2, <3>1, <3>3, <3>4, RefersMore
  <2>3. CASE /\ r \notin requests
             /\ ~(TakeCommand /\ r = [command |-> Head(commands), protection |-> FALSE,
                                      volume |-> RequestVolume(Head(commands))])
    <3>1. PICK c \in pending :
            /\ HandleMessage
            /\ r = [command |-> c, protection |-> TRUE, volume |-> 0]
            /\ IsFor(Head(inbox), c) /\ ~Head(inbox).protection
            /\ Head(inbox).type \notin NonFinal
            /\ NeedsProtection(c) /\ Outcome(Head(inbox).type) = "filled"
            /\ Head(inbox).position # NoPosition
      BY <2>3, RequestFrom
    <3>2. c.id \in LeveledIds' /\ c.action = "open"
      BY <3>1, ProtectsFilled DEF NeedsProtection
    <3>3. Finished(c.id)'
      BY <3>2 DEF LeveledIds
    <3>4. QED
      BY <3>1, <3>2, <3>3 DEF Refers
  <2>4. QED
    BY <2>1, <2>2, <2>3, RequestFrom
<1>6. (\A c \in protecting : c.action = "open" /\ c.id \in LeveledIds)'
  BY <1>4
<1>7. (\A c \in InHand : Refers(c, LevelRefs))'
  BY <1>3 DEF Refers
<1>8. Referred'
  BY <1>5 DEF Referred, Refers
<1>9. QED
  BY <1>5, <1>6, <1>7, <1>8 DEF HandInv

LEMMA RefusedFrom ==
    ASSUME HubInv, [Next]_vars, NEW c, c \in refused', c \notin refused
    PROVE  \/ TakeCommand /\ Head(commands).id = c /\ requests' = requests
           \/ /\ HandleMessage /\ Head(inbox).about = "request" /\ Head(inbox).id = c
              /\ Head(inbox).type \notin NonFinal
<1>1. CASE TakeCommand
  BY <1>1 DEF TakeCommand, Acknowledge
<1>2. CASE HandleMessage
  BY <1>2 DEF HandleMessage, HandleProtection, HandleOutcome, HandleUnmatched, Acknowledge, IsFor
<1>3. ~TakeCommand /\ ~HandleMessage => refused' = refused
  BY DEF Next, SetUpNext, StartupFails, EnterLoop, UpdatePosition, UpdateCopy,
         ConnectionEnds, HubEnds, ForwarderTakes, ForwarderSends, ForwarderEnds,
         TaskStep, JournalError, LeaveNext, Trader, Broker, Crash, vars, historyVars
<1>4. QED
  BY <1>1, <1>2, <1>3

LEMMA BookFrom ==
    ASSUME HubInv, Passages, HandInv, [Next]_vars, NEW c \in CommandId, book'[c] # book[c]
    PROVE  Opens(c) /\ handed[c] > 0 /\ (~Finished(c) => Under(c)) /\ UNCHANGED runtimeVars
<1>1. PICK r \in requests : Broker(r)
  BY DEF Next, SetUpNext, StartupFails, EnterLoop, TakeCommand, HandleMessage, UpdatePosition,
         UpdateCopy, ConnectionEnds, HubEnds, ForwarderTakes, ForwarderSends, ForwarderEnds,
         TaskStep, JournalError, LeaveNext, Trader, Crash, vars, brokerVars
<1>2. PICK m : Deal(r, m)
  BY <1>1, BrokerDeals
<1>3. UNCHANGED runtimeVars /\ Carried(r.command)
  BY <1>1 DEF Broker, HubInv
<1>4. CASE r.command.action = "open" /\ ~r.protection /\ c = r.command.id
  <2>1. Opens(c)
    BY <1>3, <1>4, HubIdsTell, IdTells DEF Carried
  <2>2. Under(c)
    BY <1>4 DEF Under, Requested, Asks
  <2>3. QED
    BY <1>3, <2>1, <2>2 DEF Passages, Passage
<1>5. CASE r.command.action # "open" /\ c = r.command.position
  BY <1>3, <1>5, RefersLevel DEF HandInv, Referred, LeveledIds, Finished
<1>6. QED
  BY <1>2, <1>4, <1>5 DEF Deal

LEMMA PassageStep ==
    ASSUME HubLedger, OnceInv, OnceInv', HandInv, AnswersInv, Passages, Judged, [Next]_vars
    PROVE  Passages'
<1> SUFFICES ASSUME NEW c \in CommandId PROVE Passage(c)'
  BY DEF Passages
<1>1. /\ HubInv /\ LedgerInv /\ KeyedInv /\ RuntimeStep(AckType) /\ SeasonedInv /\ ReachInv
      /\ RuntimeTypeInv
  BY AnyStep DEF HubLedger, HubInv, LedgerInv, OnceInv, KeyedInv
<1>2. Passage(c) /\ handed[c] \in 0..2
  BY <1>1 DEF Passages, HubInv, TypeOK, RuntimeTypeOK
<1>3. book'[c] > 0 => Opens(c) /\ handed[c] > 0
  BY <1>1, <1>2, BookFrom DEF Passage
<1>4. \A k \in Task : IsFinalAck(rec[k]) /\ rec[k].id = c => Finished(c)
  BY DEF Judged, Verdicts, Verdict, IsFinalAck, FinishedIds
<1>5. CASE HandsOver(c)
  <2>1. PICK k \in Task : Send(k) /\ rec[k].id = c
    BY <1>5 DEF HandsOver
  <2>2. /\ handed[c] = 0 /\ handed'[c] = 1 /\ UNCHANGED <<mem, file, settled, book, refused>>
        /\ ~Under(c)
    <3>1. handed[c] = 0 => ~(handed[c] > 0)
      BY SMT
    <3>2. QED
      BY <1>2, <1>5, <3>1 DEF HandsOver, Passage
  <2>3. OneOf(c)' /\ c \notin refused /\ c \notin settled
    BY <1>2, <1>5, <2>2 DEF HandsOver, Passage, Finished
  <2>4. Tracked(mem, c) /\ Tracked(file, c)
    <3>1. pc[k] = "send"
      BY <2>1 DEF Send
    <3>2. rec[k].kind = "CommandDispatched"
      BY <1>1, <3>1 DEF RuntimeTypeInv, Standing
    <3>3. Seasoned(c) /\ Issued(c)
      BY <1>1, <2>1, <3>1, <3>2 DEF SeasonedInv, SeasonedTask, NoRecord, IsPlanned, LedgerInv,
                                    LedgerTask
    <3>4. QED
      BY <2>3, <3>3 DEF Seasoned, Issued, Stage, Tracked
  <2>5. Served(TargetOf(c))
    BY <1>1, <2>1 DEF ReachInv, Sending, Send
  <2>6. handed'[c] > 0 /\ handed'[c] # 0
    BY <2>2, SMT
  <2>7. QED
    BY <1>3, <2>2, <2>3, <2>4, <2>5, <2>6 DEF Passage
<1>6. CASE Stays(c)
  <2>1. handed'[c] = handed[c] /\ (Under(c)' => Under(c)) /\ (OneOf(c) => OneOf(c)')
    BY <1>6 DEF Stays
  <2>2. handed[c] = 0 => c \notin settled'
    BY <1>1, <1>2, <1>4, SettledMoves, SMT DEF Finished, Passage
  <2>3. Under(c) => Tracked(mem', c) /\ Tracked(file', c)
    BY <1>1, <1>2, <1>4, TrackedMoves DEF Finished, Passage
  <2>4. ASSUME c \in refused' PROVE Finished(c)'
    <3>1. CASE c \in refused
      BY <1>1, <1>2, <3>1, StaysFinished DEF Passage
    <3>2. CASE TakeCommand /\ Head(commands).id = c /\ requests' = requests
      <4>1. ~Under(c)'
        BY <1>1, <1>2, <3>2, TakeStays DEF Passage
      <4>2. Collected(c)
        <5>1. commands \in Seq(CommandType) /\ commands # <<>>
          BY <1>1, <3>2 DEF TakeCommand, HubInv, TypeOK
        <5>2. QED
          BY <3>2, <5>1, FirstOf DEF Collected
      <4>3. QED
        BY <1>2, <2>1, <4>1, <4>2 DEF Passage, Under, Finished
    <3>3. CASE /\ HandleMessage /\ Head(inbox).about = "request" /\ Head(inbox).id = c
               /\ Head(inbox).type \notin NonFinal
      <4>1. inbox \in Seq(MessageType) /\ inbox # <<>>
        BY <1>1, <3>3 DEF HandleMessage, HubInv, TypeOK
      <4>2. 1 \in DOMAIN inbox /\ inbox[1] = Head(inbox)
        BY <4>1, SaidLess
      <4>3. Finished(c)
        BY <3>3, <4>2 DEF AnswersInv, AnswerAt
      <4>4. QED
        BY <1>1, <4>3, StaysFinished
    <3>4. QED
      BY <1>1, <2>4, <3>1, <3>2, <3>3, RefusedFrom
  <2>5. QED
    BY <1>2, <1>3, <2>1, <2>2, <2>3, <2>4 DEF Passage
<1>7. QED
  BY <1>1, <1>5, <1>6, TokensStep

(* A tracked command has, by its id, an action and a key.                   *)
LEMMA SameCommand ==
    ASSUME HubInv, NEW id \in CommandId, Tracked(mem, id)
    PROVE  LET c == mem.commands[id].command
           IN  /\ c.action = ActionOf(id) /\ (c.action = "open" <=> Opens(id))
               /\ KeyOf(c.source, c.order, c.target) = KeyOfId(id) /\ KeyOfId(id) \in Key
               /\ c.action = EventOf(id)[2]
<1> DEFINE c == mem.commands[id].command
<1>1. SoundCommand(c) /\ c.id = id
  BY DEF HubInv, ReachInv, MirrorInv, SoundState, OrderlyInv, KeyedInv, WellKeyed
<1>2. QED
  BY <1>1, HubIdsTell, IdTells, OrderFacts

(* The command that is acknowledged, with what.                             *)
LEMMA AckedWith ==
    ASSUME HubInv, HandInv, NEW ack \in Acked,
           \/ TakeCommand /\ TakeRefused(ack)
           \/ HandleMessage /\ ProtectionAcked(Head(inbox), ack)
           \/ HandleMessage /\ OutcomeAcked(Head(inbox), ack)
    PROVE  /\ ack.id \in CommandId /\ ack.status \in {"filled", "rejected", "unknown"}
           /\ ack.status = "rejected" => ack.id \in refused'
           /\ ack.status = "filled" =>
                LET m == Head(inbox)
                IN  \/ ack.id \in LeveledIds /\ ack.position = ack.id /\ Opens(ack.id)
                    \/ /\ HandleMessage /\ m.about = "request" /\ m.id = ack.id
                       /\ ~m.protection /\ m.type \notin NonFinal
                       /\ Outcome(m.type) = "filled" /\ ack.position = m.position
<1> DEFINE m == Head(inbox)
<1>1. \A c \in pending \cup protecting : Carried(c) /\ c.id \in CommandId
  BY CommandFacts DEF HubInv, InHand
<1>2. \A type : /\ Outcome(type) \in {"filled", "rejected", "unknown"}
                /\ Outcome(type) = "filled" => type \notin NonFinal
  BY DEF Outcome, NonFinal
<1>3. CASE TakeCommand /\ TakeRefused(ack)
  <2>1. commands \in Seq(CommandType) /\ commands # <<>>
    BY <1>3 DEF TakeCommand, HubInv, TypeOK
  <2>2. Head(commands) \in InHand
    BY <2>1, FirstOf DEF InHand
  <2>3. Head(commands).id \in CommandId
    BY <2>2, CommandFacts DEF HubInv
  <2>4. ack.id = Head(commands).id /\ ack.status = "rejected" /\ ack.id \in refused'
    BY <1>3 DEF TakeRefused, AckOf, Acknowledge
  <2>5. QED
    BY <2>3, <2>4
<1>4. CASE HandleMessage /\ ProtectionAcked(m, ack)
  <2>1. PICK c \in protecting :
          /\ ack = AckOf(c, IF m.type = "error" THEN "unknown" ELSE Outcome(m.type), c.id)
          /\ Acknowledge(c, ack.status, ack.position)
    BY <1>4 DEF ProtectionAcked
  <2>2. ack.id = c.id /\ ack.position = c.id
        /\ ack.status = IF m.type = "error" THEN "unknown" ELSE Outcome(m.type)
    BY <2>1 DEF AckOf
  <2>3. ack.status = "rejected" => ack.id \in refused'
    BY <2>1, <2>2 DEF Acknowledge
  <2>4. c.id \in LeveledIds /\ c.action = "open"
    BY <2>1 DEF HandInv
  <2>5. Opens(c.id)
    BY <1>1, <2>1, <2>4, HubIdsTell, IdTells DEF Carried
  <2>6. QED
    BY <1>1, <1>2, <2>1, <2>2, <2>3, <2>4, <2>5
<1>5. CASE HandleMessage /\ OutcomeAcked(m, ack)
  <2>1. PICK c \in pending :
          /\ IsFor(m, c) /\ ~m.protection
          /\ \/ ack = AckOf(c, "unknown", NoPosition)
             \/ ack = AckOf(c, IF m.type = "error" THEN "rejected" ELSE Outcome(m.type),
                            m.position)
          /\ Acknowledge(c, ack.status, ack.position)
    BY <1>5 DEF OutcomeAcked
  <2>2. /\ ack.id = c.id /\ m.about = "request" /\ m.id = ack.id
        /\ \/ ack.status = "unknown"
           \/ /\ ack.status = IF m.type = "error" THEN "rejected" ELSE Outcome(m.type)
              /\ ack.position = m.position
    BY <2>1 DEF AckOf, IsFor
  <2>3. ack.status = "rejected" => ack.id \in refused'
    BY <2>1, <2>2 DEF Acknowledge
  <2>4. QED
    BY <1>1, <1>2, <1>5, <2>1, <2>2, <2>3
<1>6. QED
  BY <1>3, <1>4, <1>5

(* What is acknowledged is finished; as rejected, it is emptied; as filled, *)
(* a close has emptied a position of its key, and an open is leveled.       *)
BindsLevel(ack) ==
    LET c == mem.commands[ack.id].command
    IN  Tracked(mem, ack.id) /\ c.action = "open"
          /\ ack.status \in Success /\ ack.position # NoPosition
          => <<ack.position, KeyOf(c.source, c.order, c.target)>> \in LevelRefs'

LEMMA AcksFit ==
    ASSUME HubInv, OnceInv', SyncInv, GuardInv, HandInv, AnswersInv, Passages', [Next]_vars,
           NEW ack \in Acked, Tracked(mem, ack.id),
           \/ TakeCommand /\ TakeRefused(ack)
           \/ HandleMessage /\ ProtectionAcked(Head(inbox), ack)
           \/ HandleMessage /\ OutcomeAcked(Head(inbox), ack)
    PROVE  Fits(ack, FinishedIds', EmptiedIds') /\ BindsLevel(ack)
<1> DEFINE m == Head(inbox)
           c == mem.commands[ack.id].command
<1>1. /\ ack.id \in CommandId /\ ack.status \in {"filled", "rejected", "unknown"}
      /\ ack.status = "rejected" => ack.id \in refused'
      /\ ack.status = "filled" =>
           \/ ack.id \in LeveledIds /\ ack.position = ack.id /\ Opens(ack.id)
           \/ /\ HandleMessage /\ m.about = "request" /\ m.id = ack.id
              /\ ~m.protection /\ m.type \notin NonFinal
              /\ Outcome(m.type) = "filled" /\ ack.position = m.position
  BY AckedWith
<1>2. /\ c.action = ActionOf(ack.id) /\ (c.action = "open" <=> Opens(ack.id))
      /\ KeyOf(c.source, c.order, c.target) = KeyOfId(ack.id) /\ KeyOfId(ack.id) \in Key
      /\ c.action = EventOf(ack.id)[2]
  BY <1>1, SameCommand
<1>3. /\ FinishedIds \subseteq FinishedIds' /\ EmptiedIds \subseteq EmptiedIds'
      /\ LeveledIds \subseteq LeveledIds'
  BY IdsGrow DEF HandInv
<1>4. "filled" \in Success /\ "rejected" \notin Success /\ "unknown" \notin Success
  BY DEF Success
<1> HIDE DEF c
<1>5. CASE ack.status = "unknown"
  BY <1>4, <1>5 DEF Fits, BindsLevel, c
<1>6. CASE ack.status = "rejected"
  <2>1. Finished(ack.id)'
    BY <1>1, <1>6 DEF Passages, Passage
  <2>2. ack.id \in FinishedIds' /\ ack.id \in EmptiedIds'
    BY <1>1, <1>6, <2>1 DEF FinishedIds, EmptiedIds
  <2>3. QED
    BY <1>4, <1>6, <2>2 DEF Fits, BindsLevel, c
<1>7. ASSUME ack.status = "filled",
             ack.id \in FinishedIds',
             Opens(ack.id) => ack.position \in {NoPosition, ack.id}
                              /\ (ack.position = ack.id => ack.id \in LeveledIds'),
             ActionOf(ack.id) = "close" =>
                \E x \in CommandId : Opens(x) /\ KeyOfId(x) = KeyOfId(ack.id) /\ x \in EmptiedIds'
      PROVE  Fits(ack, FinishedIds', EmptiedIds') /\ BindsLevel(ack)
  <2>1. Opens(ack.id) /\ ack.position # NoPosition
          => <<ack.position, KeyOfId(ack.id)>> \in LevelRefs'
    BY <1>1, <1>2, <1>7 DEF LevelRefs, OpenRefs
  <2>2. BindsLevel(ack)
    BY <1>2, <2>1 DEF BindsLevel, c
  <2>3. Fits(ack, FinishedIds', EmptiedIds')
    BY <1>2, <1>4, <1>7 DEF Fits, c
  <2>4. QED
    BY <2>2, <2>3
<1>8. CASE ack.status = "filled" /\ ack.id \in LeveledIds /\ ack.position = ack.id /\ Opens(ack.id)
  <2>1. ack.id \in FinishedIds /\ ActionOf(ack.id) # "close"
    BY <1>8 DEF LeveledIds, FinishedIds, Opens
  <2>2. QED
    BY <1>3, <1>7, <1>8, <2>1
<1>9. CASE /\ ack.status = "filled"
           /\ HandleMessage /\ m.about = "request" /\ m.id = ack.id
           /\ ~m.protection /\ m.type \notin NonFinal
           /\ Outcome(m.type) = "filled" /\ ack.position = m.position
  <2>1. inbox \in Seq(MessageType) /\ inbox # <<>>
    BY <1>9 DEF HandleMessage, HubInv, TypeOK
  <2>2. 1 \in DOMAIN inbox /\ inbox[1] = m
    BY <2>1, SaidLess
  <2>3. AnswerAt(1) /\ MessageSafe(m)
    BY <2>2 DEF AnswersInv, GuardInv
  <2>4. Finished(ack.id) /\ Finished(ack.id)'
    BY <1>1, <1>9, <2>2, <2>3, StaysFinished DEF AnswerAt
  <2>5. ack.id \in FinishedIds'
    BY <1>1, <2>4 DEF FinishedIds
  <2>6. ASSUME Opens(ack.id), ack.position = ack.id PROVE ack.id \in LeveledIds'
    <3>1. Leveled(ack.id)'
      BY <1>9, <2>6, AnswerLevels
    <3>2. QED
      BY <1>1, <2>4, <3>1 DEF LeveledIds
  <2>7. Opens(ack.id) => ack.position \in {NoPosition, ack.id}
    BY <1>2, <1>9, <2>3 DEF MessageSafe
  <2>8. ASSUME ActionOf(ack.id) = "close"
        PROVE  \E x \in CommandId : Opens(x) /\ KeyOfId(x) = KeyOfId(ack.id) /\ x \in EmptiedIds'
    <3>1. PICK x \in CommandId : Opens(x) /\ KeyOfId(x) = KeyOfId(ack.id) /\ Finished(x) /\ book[x] = 0
      BY <1>9, <2>2, <2>3, <2>8 DEF AnswerAt
    <3>2. x \in EmptiedIds
      BY <3>1 DEF EmptiedIds
    <3>3. QED
      BY <1>3, <3>1, <3>2
  <2>9. QED
    BY <1>7, <1>9, <2>5, <2>6, <2>7, <2>8
<1>10. QED
  BY <1>1, <1>5, <1>6, <1>8, <1>9

FittingAcks == {ack \in AckType : /\ Fits(ack, FinishedIds', EmptiedIds')
                                  /\ BindsLevel(ack)}

LEMMA StepFits ==
    ASSUME HubInv, OnceInv', SyncInv, GuardInv, HandInv, AnswersInv, Passages', [Next]_vars
    PROVE  RuntimeStep(FittingAcks)
<1>1. CASE UpdatePosition
  BY <1>1, UpdateReported DEF RuntimeStep
<1>2. CASE TakeCommand \/ HandleMessage
  <2>1. ASSUME NEW ack \in Acked, \A other : ack \in other => Silent(other),
               \/ TakeCommand /\ TakeRefused(ack)
               \/ HandleMessage /\ ProtectionAcked(Head(inbox), ack)
               \/ HandleMessage /\ OutcomeAcked(Head(inbox), ack)
        PROVE  Silent(FittingAcks)
    <3>1. Tracked(mem, ack.id) => Fits(ack, FinishedIds', EmptiedIds') /\ BindsLevel(ack)
      BY <2>1, AcksFit
    <3>2. ack \in FittingAcks
      BY <3>1 DEF FittingAcks, Fits, BindsLevel, Acked
    <3>3. QED
      BY <2>1, <3>2
  <2>2. Silent({}) => Silent(FittingAcks)
    BY MoreAcks
  <2>3. Silent(FittingAcks)
    BY <1>2, <2>1, <2>2, Answers
  <2>4. QED
    BY <2>3, SilentStep
<1>3. CASE ~UpdatePosition /\ ~TakeCommand /\ ~HandleMessage
  BY <1>3, StepQuiet, MoreAcks, SilentStep
<1>4. QED
  BY <1>1, <1>2, <1>3

LEMMA LinkedStep ==
    ASSUME HubInv, ShelvedInv, OnceInv', SyncInv, GuardInv, HandInv, AnswersInv, Passages',
           Linked, Judged, [Next]_vars
    PROVE  Linked' /\ Judged'
<1>1. /\ FinishedIds \subseteq FinishedIds' /\ EmptiedIds \subseteq EmptiedIds'
      /\ LevelRefs \subseteq LevelRefs'
  BY IdsGrow DEF HandInv
<1>2. PICK A \in SUBSET CommandId : A = FinishedIds'
  BY DEF FinishedIds
<1>3. PICK E : E = EmptiedIds'
  OBVIOUS
<1>4. PICK P : P = LevelRefs'
  OBVIOUS
<1>5. References(mem, file, rec, todo, chan, P)
  BY <1>1, <1>4, ReferencesMore DEF Linked
<1>6. Verdicts(pc, rec, A, E)
  BY <1>1, <1>2, <1>3, VerdictsMore DEF Judged
<1>7. PICK acks \in SUBSET AckType :
        RuntimeStep(acks) /\ \A ack \in acks : Fits(ack, A, E) /\ BindsLevel(ack)
  BY <1>2, <1>3, StepFits DEF FittingAcks
<1>8. References(mem', file', rec', todo', chan', P)
  BY <1>4, <1>5, <1>7, ReferencesStep DEF BindsLevel
<1>9. Verdicts(pc', rec', A, E)
  BY <1>6, <1>7, HubIdsTell, VerdictsStep DEF ShelvedInv
<1>10. QED
  BY <1>2, <1>3, <1>4, <1>8, <1>9 DEF Linked, Judged

-----------------------------------------------------------------------------
(* No fill is lost, and the copies are in step: the invariants of the hub   *)
(* that were proved above, and those of the fills.                          *)

FillGround ==
    /\ HubLedger /\ HandedInv /\ OnceInv /\ ShelvedInv /\ BuiltInv
    /\ ReportInv /\ GuardInv /\ SyncInv

LEMMA FillGroundStart ==
    ASSUME Init
    PROVE  FillGround
BY HubStart, LedgerStart, EmptyHanded, HandedStart, OnceStart, ShelvedStart, BuiltStart,
   ReportStart, GuardStart, SyncStart DEF Init, HubLedger, FillGround

LEMMA FillGroundStep ==
    ASSUME FillGround, [Next]_vars
    PROVE  FillGround'
<1>1. HubLedger /\ HubInv /\ LedgerInv /\ MirrorInv /\ RuntimeStep(AckType)
  BY AnyStep DEF FillGround, HubLedger, HubInv, ReachInv
<1>2. HandedInv'
  BY <1>1, StepAcknowledged, HandedStep DEF FillGround
<1>3. WriteAhead
  BY <1>1, AheadWritten DEF FillGround, OnceInv, SeasonedInv
<1>4. OnceInv'
  BY <1>1, <1>3, OnceStep DEF FillGround
<1>5. ShelvedInv' /\ BuiltInv'
  BY <1>1, ShelvedStep, BuiltStep DEF FillGround
<1>6. ReportInv' /\ GuardInv' /\ SyncInv'
  BY <1>1, ReportStep, GuardStep, SyncStep DEF FillGround
<1>7. QED
  BY <1>1, <1>2, <1>4, <1>5, <1>6, HubLedgerStep DEF FillGround

FillInv == FillGround /\ HandInv /\ AnswersInv /\ Passages /\ Linked /\ Judged

LEMMA FillStart ==
    ASSUME Init
    PROVE  FillInv
<1>1. FillGround /\ RuntimeInit
  BY FillGroundStart DEF Init
<1>2. InHand = {} /\ requests = {} /\ protecting = {} /\ inbox = <<>> /\ refused = {}
  BY EmptyHanded DEF Init
<1>3. HandInv
  BY <1>2 DEF HandInv, Referred
<1>4. AnswersInv
  BY <1>2 DEF AnswersInv
<1>5. ASSUME NEW c \in CommandId PROVE Passage(c)
  <2>1. handed[c] = 0 /\ book[c] = 0 /\ c \notin settled /\ ~(handed[c] > 0) /\ ~(book[c] > 0)
    BY SMT DEF Init, RuntimeInit
  <2>2. \A s \in Session : chan[s].queue = <<>>
    BY <1>1 DEF RuntimeInit, FreshTasks
  <2>3. ~InChannel(c) /\ OneQueued(c)
    BY <2>2 DEF InChannel, OneQueued
  <2>4. ~Forwarded(c) /\ ~Collected(c) /\ ~Requested(c)
    BY IdleIsNone DEF Init, Forwarded, Collected, Requested
  <2>5. OneForwarded(c) /\ OneCollected(c) /\ OneRequested(c)
    BY <2>4 DEF Forwarded, Collected, Requested, OneForwarded, OneCollected, OneRequested
  <2>6. QED
    BY <1>2, <2>1, <2>3, <2>4, <2>5 DEF Passage, OneOf, Under
<1>6. Judged
  BY <1>1 DEF RuntimeInit, FreshTasks, Judged, Verdicts, Verdict, NoRecord
<1>7. PICK P : P = LevelRefs
  OBVIOUS
<1>8. Linked
  BY <1>1, <1>7, ReferencesStart DEF Linked
<1>9. QED
  BY <1>1, <1>3, <1>4, <1>5, <1>6, <1>8 DEF FillInv, Passages

LEMMA FillStep ==
    ASSUME FillInv, [Next]_vars
    PROVE  FillInv'
<1>1. /\ HubLedger /\ HubInv /\ OnceInv /\ ShelvedInv /\ GuardInv /\ SyncInv
      /\ HandInv /\ AnswersInv /\ Passages /\ Linked /\ Judged /\ Referred
  BY DEF FillInv, FillGround, HubLedger, HandInv
<1>2. FillGround' /\ OnceInv'
  BY FillGroundStep DEF FillInv, FillGround
<1>3. Passages'
  BY <1>1, <1>2, PassageStep
<1>4. HandInv'
  BY <1>1, <1>2, HandStep
<1>5. AnswersInv'
  BY <1>1, <1>2, AnswersStep
<1>6. Linked' /\ Judged'
  BY <1>1, <1>2, <1>3, LinkedStep
<1>7. QED
  BY <1>2, <1>3, <1>4, <1>5, <1>6 DEF FillInv

(* When the hub has read everything, what it keeps of a bound position is   *)
(* what the broker has: reconciliation, the answers of requests that other  *)
(* requests overtook, and those of an earlier connection leave it the       *)
(* volume that a close has to ask for.                                      *)
THEOREM CopiesKnown == Spec => []CopiesInStep
<1>1. Init => FillInv
  BY FillStart
<1>2. FillInv /\ [Next]_vars => FillInv'
  BY FillStep
<1>3. FillInv => CopiesInStep
  <2> SUFFICES ASSUME FillInv, phase = "loop", inbox = <<>>, ~missed,
                      NEW c \in CommandId, BoundTo(c)
               PROVE  copies[c] = book[c]
    BY DEF CopiesInStep
  <2>1. PICK key \in Key : mem.mirrors[key].position = c
    BY DEF BoundTo
  <2>2. mem.mirrors[key] # NoBinding
    <3>1. NoPosition \notin CommandId
      BY IdIsNoMarker
    <3>2. QED
      BY <2>1, <3>1 DEF NoBinding
  <2>3. Finished(c) /\ Leveled(c)
    BY <2>1, <2>2 DEF FillInv, Linked, References, Binds, LevelRefs, OpenRefs, LeveledIds
  <2>4. Served(TargetOf(c))
    BY <2>3 DEF FillInv, Passages, Passage, Finished
  <2>5. SetUp = Task /\ message = NoMessage
    BY DEF FillInv, FillGround, SyncInv
  <2>6. Watching(TargetOf(c))
    BY <2>4, <2>5 DEF Watching, Running, Served
  <2>7. ~LastSays(inbox, c, book[c])
    BY DEF LastSays
  <2>8. Copied(c) = book[c]
    BY <2>3, <2>6, <2>7 DEF Leveled
  <2>9. QED
    BY <2>5, <2>8 DEF Copied
<1>4. QED
  BY <1>1, <1>2, <1>3, PTL DEF Spec

(* No two commands open a position under one key: the openings a trader's   *)
(* position is reported with are one, and so is the route that copies it.   *)
LEMMA OneOpening ==
    ASSUME OneRouteOpens, FillGround, NEW x \in CommandId, NEW y \in CommandId,
           Opens(x), Opens(y), KeyOfId(x) = KeyOfId(y), handed[x] > 0, handed[y] > 0
    PROVE  x = y
<1>1. WriteAhead
  BY AheadWritten DEF FillGround, HubLedger, OnceInv, SeasonedInv
<1>2. \A c \in CommandId : /\ EventOf(c) \in EventId
                            /\ EventOf(c)[1] = Reports(EventOf(c)).order
                            /\ EventOf(c)[2] = ActionOf(c)
  <2> SUFFICES ASSUME NEW c \in CommandId
               PROVE  /\ EventOf(c) \in EventId
                      /\ EventOf(c)[1] = Reports(EventOf(c)).order
                      /\ EventOf(c)[2] = ActionOf(c)
    OBVIOUS
  <2>1. PICK e \in Event : EventOf(c) = e.id
    BY DEF CommandId, EventOf
  <2>2. QED
    BY <2>1, HubIdsTell, ReportsLike, ReportAssumption DEF EventId, ActionOf
<1>3. Reported(EventOf(x)) /\ Reported(EventOf(y))
  BY <1>1 DEF WriteAhead, Reported
<1>4. EventOf(x)[1] = EventOf(y)[1] /\ EventOf(x)[2] = "open" /\ EventOf(y)[2] = "open"
  BY <1>2 DEF KeyOfId, KeyOf, Opens
<1>5. EventOf(x) = EventOf(y)
  BY <1>2, <1>3, <1>4 DEF FillGround, ReportInv, OpeningsDiffer
<1>6. Built(x) /\ Built(y)
  BY DEF FillGround, BuiltInv
<1>7. QED
  BY <1>5, <1>6, HubIdsTell, SameOpening

(* A position that the broker opened is accounted for, unless its open was  *)
(* acknowledged as rejected.                                                *)
Kept(s) == \A c \in CommandId : Opens(c) /\ book[c] > 0 /\ c \notin refused => Safe(s, c)

LEMMA KeptStep ==
    ASSUME OneRouteOpens, FillInv, Kept(mem), Kept(file), [Next]_vars
    PROVE  Kept(mem)' /\ Kept(file)'
<1>1. /\ HubInv /\ Referred /\ RuntimeStep(AckType) /\ RuntimeTypeInv
      /\ mem \in ReplayType /\ file \in ReplayType /\ HandInv /\ Passages
  BY AnyStep, Types
     DEF FillInv, FillGround, HubLedger, LedgerInv, KeyedInv, HandInv
<1> SUFFICES ASSUME NEW c \in CommandId, Opens(c), book'[c] > 0, c \notin refused'
             PROVE  Safe(mem', c) /\ Safe(file', c)
  BY DEF Kept
<1>2. Passage(c) /\ c \notin refused /\ book[c] \in Nat
  BY <1>1, RefusedStays DEF Passages, HubInv, TypeOK
<1>3. CASE ~(book[c] > 0)
  <2>1. book[c] = 0 /\ book'[c] # book[c]
    BY <1>2, <1>3, SMT
  <2>2. UNCHANGED <<mem, file>> /\ (~Finished(c) => Under(c))
    BY <1>1, <2>1, BookFrom DEF runtimeVars
  <2>3. ~Finished(c)
    <3>1. Finished(c) => book'[c] <= book[c] /\ book'[c] \in Nat
      BY <1>1, BookFinished
    <3>2. QED
      BY <2>1, <3>1, SMT
  <2>4. QED
    BY <1>2, <2>2, <2>3 DEF Passage, Safe
<1>4. CASE book[c] > 0
  <2>1. Safe(mem, c) /\ Safe(file, c) /\ handed[c] > 0
    BY <1>2, <1>4 DEF Kept, Passage
  <2>2. c \notin EmptiedIds
    BY <1>2, <1>4, SMT DEF EmptiedIds
  <2>3. ASSUME NEW x \in FinishedIds \cup EmptiedIds, Opens(x), KeyOfId(x) = KeyOfId(c)
        PROVE  x \in CommandId /\ x = c
    <3>1. x \in CommandId /\ handed[x] > 0
      BY <1>1, <2>3 DEF FinishedIds, EmptiedIds, Passages, Passage, Finished
    <3>2. QED
      BY <2>1, <2>3, <3>1, OneOpening DEF FillInv
  <2>4. ASSUME NEW k \in Task, rec[k] \in RecordType
        PROVE  Safe(Apply(mem, rec[k]), c) /\ Safe(Apply(file, rec[k]), c)
    <3>1. Verdict(rec[k], FinishedIds, EmptiedIds) /\ BindsIn(rec[k], LevelRefs)
      BY DEF FillInv, Judged, Verdicts, Linked, References
    <3>2. BindsIn(rec[k], OpenRefs(FinishedIds))
      BY <3>1 DEF BindsIn, LevelRefs, OpenRefs, LeveledIds, FinishedIds
    <3>3. \A x \in FinishedIds \cup EmptiedIds :
            x \in CommandId /\ Opens(x) /\ KeyOfId(x) = KeyOfId(c) => x = c
      BY <2>3
    <3>4. QED
      BY <1>1, <2>1, <2>2, <2>4, <3>1, <3>2, <3>3, HubIdsTell, ApplySafe
  <2>5. Safe(Finalize(file), c)
    BY <1>1, <2>1, FinalizeSafe
  <2>6. QED
    BY <1>1, <2>1, <2>4, <2>5, StatesMove
<1>5. QED
  BY <1>3, <1>4

(* Where one route copies an opening to a follower: whatever the broker     *)
(* answers and in whatever order, whether it fills an open in parts or      *)
(* leaves a request unanswered, whichever append fails and wherever a       *)
(* restart falls, a position the broker opened for a command is bound to    *)
(* its source, or the command is still tracked, or the hub acknowledged it  *)
(* as rejected.                                                             *)
THEOREM FillsKept ==
    ASSUME OneRouteOpens
    PROVE  Spec => []FillsNeverLost
<1>1. Init => FillInv /\ Kept(mem) /\ Kept(file)
  <2>1. Init => \A c \in CommandId : ~(book[c] > 0)
    BY SMT DEF Init
  <2>2. QED
    BY <2>1, FillStart DEF Kept
<1>2. FillInv /\ Kept(mem) /\ Kept(file) /\ [Next]_vars
        => FillInv' /\ Kept(mem)' /\ Kept(file)'
  BY FillStep, KeptStep
<1>3. FillInv /\ Kept(mem) => FillsNeverLost
  <2> SUFFICES ASSUME FillInv, Kept(mem), NEW c \in CommandId, book[c] > 0,
                      c \notin refused, ~Tracked(mem, c)
               PROVE  BoundTo(c)
    BY DEF FillsNeverLost
  <2>1. Opens(c)
    BY DEF FillInv, Passages, Passage
  <2>2. mem.mirrors[KeyOfId(c)].position = c
    BY <2>1 DEF Kept, Safe
  <2>3. KeyOfId(c) \in Key
    BY HubIdsTell, KeyOfIdTyped
  <2>4. QED
    BY <2>2, <2>3 DEF BoundTo
<1>4. QED
  BY <1>1, <1>2, <1>3, PTL DEF Spec
=============================================================================
