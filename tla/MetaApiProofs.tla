--------------------------- MODULE MetaApiProofs ---------------------------
(***************************************************************************)
(* Theorems about the accounts attached through MetaApi, for every          *)
(* configuration, every number of positions, restarts and journal errors.   *)
(***************************************************************************)
EXTENDS MetaApiVenue, RecoveryProofs, FiniteSetTheorems

-----------------------------------------------------------------------------
(* The invariant behind the types: a position that is not there has no stop *)
(* loss, so a difference of two snapshots is a valid event; and a task that *)
(* trades has a command.                                                    *)

Listed == {p \in Snapshot : p.volume = 0 => ~p.stop}

VenueInv ==
    /\ TypeOK
    /\ RuntimeTypeInv /\ Seated
    /\ held \in [OrderId -> Listed]
    /\ known \in [Task -> [OrderId -> Listed]]
    /\ current \in [Task -> [OrderId -> Listed]]
    /\ \A k \in Task : phase[k] \in {"trade", "executed", "refused"} => doing[k] \in CommandType

LEMMA VenueStart ==
    ASSUME Init
    PROVE  VenueInv
<1>1. MaxVolume \in Nat /\ {MaxMoves, MaxReports, MaxCrash} \subseteq Nat
  BY VenueAssumption
<1>2. Flat \in Listed /\ Flat \in Snapshot
  BY <1>1, SMT DEF Flat, Listed, Snapshot
<1>3. NoPositions \in [OrderId -> Listed] /\ NoPositions \in [OrderId -> Snapshot]
  BY <1>2 DEF NoPositions
<1>4. /\ phase \in [Task -> {"startup", "select", "trade", "executed", "refused", "diff"}]
      /\ doing \in [Task -> CommandType \cup {Idle}]
      /\ known \in [Task -> [OrderId -> Snapshot]] /\ known \in [Task -> [OrderId -> Listed]]
      /\ current \in [Task -> [OrderId -> Snapshot]] /\ current \in [Task -> [OrderId -> Listed]]
  BY <1>3 DEF Init, FreshVenues
<1>5. 0 \in Nat /\ 0 \in 0..2 /\ 0 \in 0..MaxMoves /\ 0 \in 0..MaxReports /\ 0 \in 0..MaxCrash
  BY <1>1, SMT
<1>6. TypeOK
  BY <1>3, <1>4, <1>5, RuntimeTypeInit, Zenon DEF Init, TypeOK, RuntimeTypeInv
<1>7. QED
  BY <1>3, <1>4, <1>6, RuntimeTypeInit, SeatedStart DEF Init, FreshVenues, VenueInv

-----------------------------------------------------------------------------
(* Every step is one of the steps of Runtime.  What is reported is an event *)
(* that can occur, and what is acknowledged is the command being executed.  *)

LEMMA DifferenceReported ==
    ASSUME NEW o \in OrderId, NEW old \in Listed, NEW new \in Listed, old # new,
           Difference(old, new) # "scale-in", clock \in Nat, clock < MaxReports
    PROVE  ToEvent(o, old, new) \in Event
<1> DEFINE action == Difference(old, new)
           volume == CASE action = "reduce" -> old.volume - new.volume
                       [] action = "close"  -> old.volume
                       [] OTHER             -> new.volume
           e == Report(o, action, clock, volume, new.volume)
<1>1. MaxVolume \in Nat /\ MaxReports \in Nat
  BY VenueAssumption
<1>2. /\ old.volume \in 0..MaxVolume /\ new.volume \in 0..MaxVolume
      /\ old.stop \in BOOLEAN /\ new.stop \in BOOLEAN
      /\ old = [volume |-> old.volume, stop |-> old.stop]
      /\ new = [volume |-> new.volume, stop |-> new.stop]
      /\ old.volume = 0 => ~old.stop
      /\ new.volume = 0 => ~new.stop
  BY DEF Listed, Snapshot
<1>3. ~(old.volume = 0 /\ new.volume = 0)
  BY <1>2
<1>5. /\ action \in Action /\ volume \in 0..MaxVolume
      /\ action \in {"open", "reduce"} => volume > 0
  BY <1>1, <1>2, <1>3, SMT DEF Difference, Action
<1>6. clock \in 0..(MaxReports - 1)
  BY <1>1, SMT
<1> HIDE DEF action, volume
<1>7. ValidEvent(e)
  <2> DEFINE like == CHOOSE f \in Event : f.order = o
  <2>1. like \in Event
    BY DEF OrderId
  <2>2. like.side # "none"
    BY <2>1, VenueAssumption
  <2>3. e.side = like.side /\ e.action = action /\ e.volume = volume
    BY DEF Report
  <2>4. QED
    BY <1>5, <2>2, <2>3 DEF ValidEvent
<1>8. e \in Event
  BY <1>2, <1>5, <1>6, <1>7, ReportAssumption
<1>9. QED
  BY <1>8 DEF ToEvent, action, volume

Executing ==
    {ack \in AckType :
        \E k \in Task : /\ phase[k] \in {"executed", "refused"}
                        /\ doing[k] \in CommandType /\ ack.id = doing[k].id}

LEMMA AnswerTyped ==
    ASSUME VenueInv, NEW k \in Task, phase[k] \in {"executed", "refused"},
           NEW ack \in Answers(doing[k], phase[k] = "executed")
    PROVE  ack \in Executing
<1>1. doing[k] \in CommandType
  BY DEF VenueInv
<1>2. doing[k].id \in CommandId
  BY <1>1, SMT DEF CommandType
<1>3. /\ ack.id = doing[k].id /\ ack.status \in AckStatus
      /\ ack.position \in Position \cup {NoPosition}
      /\ ack = [id |-> ack.id, status |-> ack.status, position |-> ack.position]
  BY <1>2, SMT DEF Answers, Acknowledge, AckStatus, Position
<1>4. QED
  BY <1>1, <1>2, <1>3 DEF Executing, AckType

LEMMA StepSilent ==
    ASSUME VenueInv, [Next]_vars, \A k \in Task : ~EmitDiff(k)
    PROVE  Silent(Executing)
<1>1. ASSUME NEW k \in Task, Start(k) \/ TaskStep(k) PROVE Silent(Executing)
  BY <1>1 DEF Start, TaskStep, Silent, SilentTask
<1>2. ASSUME NEW k \in Task, Baseline(k) \/ Poll(k) \/ Trade(k) PROVE Silent(Executing)
  BY <1>2 DEF Baseline, Poll, Trade, Silent, SilentTask
<1>3. ASSUME NEW k \in Task, TakeCommand(k) PROVE Silent(Executing)
  <2>1. sid[k] \in Session
    BY <1>3 DEF VenueInv, Seated, TakeCommand, AtLoop
  <2>2. Takes(sid[k])
    BY <1>3 DEF TakeCommand, Takes
  <2>3. QED
    BY <2>1, <2>2 DEF Silent, SilentTask
<1>4. ASSUME NEW k \in Task, Answer(k) PROVE Silent(Executing)
  <2>1. PICK ack \in Answers(doing[k], phase[k] = "executed") :
          IF Tracked(mem, ack.id) THEN HandleAck(k, ack) ELSE UNCHANGED runtimeVars
    BY <1>4 DEF Answer
  <2>2. ack \in Executing
    BY <1>4, AnswerTyped DEF Answer
  <2>3. QED
    BY <2>1, <2>2 DEF Silent, SilentTask
<1>5. ASSUME NEW k \in Task, JournalError(k) PROVE Silent(Executing)
  BY <1>5 DEF JournalError, Silent, SilentTask, Exit
<1>6. ASSUME NEW k \in Task, DropReceiver(k) PROVE Silent(Executing)
  <2>1. sid[k] \in Session
    BY <1>6, RuntimeAssumption, SMT DEF VenueInv, TypeOK, RuntimeTypeOK, DropReceiver, Session
  <2>2. Closes(sid[k])
    BY <1>6 DEF DropReceiver, Closes
  <2>3. QED
    BY <2>1, <2>2 DEF Silent, SilentTask
<1>7. ASSUME NEW o \in OrderId, Trader(o) PROVE Silent(Executing)
  BY <1>7 DEF Trader, Silent, SilentTask
<1>8. ASSUME NEW c \in late, ExecuteLate(c) PROVE Silent(Executing)
  BY <1>8 DEF ExecuteLate, Silent, SilentTask
<1>9. CASE Crash
  BY <1>9 DEF Crash, Silent, SilentTask, Restarts, FreshTasks
<1>10. CASE UNCHANGED vars
  BY <1>10 DEF vars, Silent, SilentTask
<1>11. QED
  BY <1>1, <1>2, <1>3, <1>4, <1>5, <1>6, <1>7, <1>8, <1>9, <1>10 DEF Next

LEMMA DiffReported ==
    ASSUME VenueInv, NEW k \in Task, EmitDiff(k)
    PROVE  \E o \in OrderId :
             /\ phase[k] = "diff" /\ known[k][o] # current[k][o]
             /\ known[k][o] \in Listed /\ current[k][o] \in Listed
             /\ known' = [known EXCEPT ![k][o] = current[k][o]]
             /\ current' = current \/ current' = [current EXCEPT ![k] = NoPositions]
             /\ \/ UNCHANGED runtimeVars
                \/ LET e == ToEvent(o, known[k][o], current[k][o])
                   IN  e \in Event /\ HandleEvent(k, e)
<1>1. PICK o \in Remaining(k) :
        /\ known' = [known EXCEPT ![k][o] = current[k][o]]
        /\ current' = current \/ current' = [current EXCEPT ![k] = NoPositions]
        /\ IF Difference(known[k][o], current[k][o]) = "scale-in" THEN UNCHANGED runtimeVars
           ELSE clock < MaxReports /\ HandleEvent(k, ToEvent(o, known[k][o], current[k][o]))
  BY DEF EmitDiff
<1>2. /\ o \in OrderId /\ known[k][o] # current[k][o]
      /\ known[k][o] \in Listed /\ current[k][o] \in Listed /\ clock \in Nat
  BY VenueAssumption, SMT DEF Remaining, VenueInv, TypeOK
<1>3. phase[k] = "diff"
  BY DEF EmitDiff
<1>4. CASE Difference(known[k][o], current[k][o]) = "scale-in"
  BY <1>1, <1>2, <1>3, <1>4
<1>5. CASE Difference(known[k][o], current[k][o]) # "scale-in"
  <2>1. ToEvent(o, known[k][o], current[k][o]) \in Event
    BY <1>1, <1>2, <1>5, DifferenceReported
  <2>2. QED
    BY <1>1, <1>2, <1>3, <1>5, <2>1
<1>6. QED
  BY <1>4, <1>5

LEMMA StepMapped ==
    ASSUME VenueInv, [Next]_vars
    PROVE  RuntimeStep(Executing)
<1>1. ASSUME NEW k \in Task, EmitDiff(k) PROVE RuntimeStep(Executing)
  BY <1>1, DiffReported DEF RuntimeStep
<1>2. CASE \A k \in Task : ~EmitDiff(k)
  BY <1>2, StepSilent, SilentStep
<1>3. QED
  BY <1>1, <1>2

LEMMA AnyStep ==
    ASSUME VenueInv, [Next]_vars
    PROVE  RuntimeStep(AckType)
BY StepMapped, FewerAcks DEF Executing

-----------------------------------------------------------------------------
(* The types.                                                               *)

LEMMA PollTyped ==
    ASSUME VenueInv, NEW k \in Task, NEW positions \in FetchPositions(Owner[k])
    PROVE  positions \in [OrderId -> Listed]
<1>1. MaxVolume \in Nat
  BY VenueAssumption
<1>2. Flat \in Listed
  BY <1>1, SMT DEF Flat, Listed, Snapshot
<1>3. held \in [OrderId -> Listed]
  BY DEF VenueInv
<1>4. QED
  BY <1>2, <1>3 DEF FetchPositions

LEMMA ExecuteTyped ==
    ASSUME book \in [CommandId -> Nat], fills \in [CommandId -> 0..2],
           NEW c \in CommandType, Execute(c)
    PROVE  book' \in [CommandId -> Nat] /\ fills' \in [CommandId -> 0..2]
<1> DEFINE more == IF fills[c.id] = 2 THEN 2 ELSE fills[c.id] + 1
<1>1. c.id \in CommandId /\ c.volume \in Nat /\ c.action \in Action
  BY SMT DEF CommandType
<1>2. more \in 0..2
  BY <1>1, SMT
<1>3. fills' = [fills EXCEPT ![c.id] = more]
  BY DEF Execute
<1>4. fills' \in [CommandId -> 0..2]
  <2> HIDE DEF more
  <2> QED BY <1>1, <1>2, <1>3
<1>5. book' \in [CommandId -> Nat]
  <2>1. \A i \in CommandId : book[i] + c.volume \in Nat /\ NotNegative(book[i] - c.volume) \in Nat
    BY <1>1, SMT DEF NotNegative
  <2>2. \/ c.action = "open" /\ book' = [book EXCEPT ![c.id] = @ + c.volume]
        \/ c.action = "modify" /\ book' = book
        \/ c.action = "reduce" /\ book' = [book EXCEPT ![c.position] = NotNegative(@ - c.volume)]
        \/ c.action = "close" /\ book' = [book EXCEPT ![c.position] = 0]
    BY <1>1, SMT DEF Execute, Action
  <2>3. QED
    BY <2>1, <2>2
<1>6. QED
  BY <1>4, <1>5

(* The trader, the broker and the counters.                                 *)
LEMMA BrokerTyped ==
    ASSUME VenueInv, [Next]_vars
    PROVE  /\ held' \in [OrderId -> Listed] /\ traded' \in SUBSET OrderId
           /\ moves' \in 0..MaxMoves /\ clock' \in 0..MaxReports
           /\ crashes' \in 0..MaxCrash /\ blind' \in BOOLEAN
           /\ book' \in [CommandId -> Nat] /\ fills' \in [CommandId -> 0..2]
           /\ late' \in SUBSET CommandType
<1> USE DEF VenueInv, TypeOK
<1>1. {MaxMoves, MaxReports, MaxCrash} \subseteq Nat
  BY VenueAssumption
<1>2. ASSUME NEW o \in OrderId, Trader(o)
      PROVE  held' \in [OrderId -> Listed] /\ traded' \in SUBSET OrderId /\ moves' \in 0..MaxMoves
  <2>1. PICK new \in Snapshot : (new.volume = 0 => ~new.stop) /\ held' = [held EXCEPT ![o] = new]
    BY <1>2 DEF Trader
  <2>2. new \in Listed
    BY <2>1 DEF Listed
  <2>3. moves' \in 0..MaxMoves
    BY <1>1, <1>2, SMT DEF Trader
  <2>4. QED
    BY <1>2, <2>1, <2>2, <2>3 DEF Trader
<1>3. held' \in [OrderId -> Listed] /\ traded' \in SUBSET OrderId /\ moves' \in 0..MaxMoves
  BY <1>2 DEF Next, vars, venueVars, brokerVars, Start, TaskStep, Baseline, Poll, EmitDiff,
              TakeCommand, Trade, Answer, JournalError, DropReceiver, ExecuteLate, Crash
<1>4. clock' \in 0..MaxReports
  <2>1. clock' = clock \/ (clock < MaxReports /\ clock' = clock + 1)
    <3> HIDE DEF VenueInv, TypeOK
    <3>1. ASSUME NEW k \in Task, EmitDiff(k)
          PROVE  clock' = clock \/ (clock < MaxReports /\ clock' = clock + 1)
      BY <3>1 DEF EmitDiff
    <3>2. CASE \A k \in Task : ~EmitDiff(k)
      BY <3>2 DEF Next, vars, venueVars, brokerVars, Start, TaskStep, Baseline, Poll, Trader,
                  TakeCommand, Trade, Answer, JournalError, DropReceiver, ExecuteLate, Crash
    <3>3. QED
      BY <3>1, <3>2
  <2>2. QED
    BY <1>1, <2>1, SMT
<1>5. crashes' \in 0..MaxCrash
  <2>1. crashes' = crashes \/ (crashes < MaxCrash /\ crashes' = crashes + 1)
    <3> HIDE DEF VenueInv, TypeOK
    <3>1. CASE Crash
      BY <3>1 DEF Crash
    <3>2. CASE ~Crash
      BY <3>2 DEF Next, vars, venueVars, brokerVars, Start, TaskStep, Baseline, Poll, EmitDiff,
                  Trader, TakeCommand, Trade, Answer, JournalError, DropReceiver, ExecuteLate
    <3>3. QED
      BY <3>1, <3>2
  <2>2. QED
    BY <1>1, <2>1, SMT
<1>6. blind' \in BOOLEAN
  BY DEF Next, vars, venueVars, brokerVars, Start, TaskStep, Baseline, Poll, EmitDiff, Trader,
              TakeCommand, Trade, Answer, JournalError, DropReceiver, ExecuteLate, Crash
<1>7. book' \in [CommandId -> Nat] /\ fills' \in [CommandId -> 0..2]
  <2>1. \/ UNCHANGED <<book, fills>>
        \/ \E k \in Task : phase[k] = "trade" /\ Execute(doing[k])
        \/ \E c \in late : Execute(c)
    BY DEF Next, vars, venueVars, brokerVars, Start, TaskStep, Baseline, Poll, EmitDiff, Trader,
              TakeCommand, Trade, Answer, JournalError, DropReceiver, ExecuteLate, Crash
  <2>2. \A c \in CommandType : Execute(c) =>
          book' \in [CommandId -> Nat] /\ fills' \in [CommandId -> 0..2]
    BY ExecuteTyped
  <2>3. QED
    BY <2>1, <2>2
<1>8. late' \in SUBSET CommandType
  <2>1. \/ late' = late
        \/ \E c \in late : late' = late \ {c}
        \/ \E k \in Task : phase[k] \in {"executed", "refused"} /\ late' = late \cup {doing[k]}
        \/ late' = late \cup {doing[k] : k \in {j \in Task : phase[j] = "trade"}}
    BY DEF Next, vars, venueVars, brokerVars, Start, TaskStep, Baseline, Poll, EmitDiff, Trader,
              TakeCommand, Trade, Answer, JournalError, DropReceiver, ExecuteLate, Crash
  <2>2. QED
    BY <2>1
<1>9. QED
  BY <1>3, <1>4, <1>5, <1>6, <1>7, <1>8

(* The venue tasks.                                                         *)
Doing(p, d) == \A k \in Task : p[k] \in {"trade", "executed", "refused"} => d[k] \in CommandType

LEMMA TaskTyped ==
    ASSUME VenueInv, [Next]_vars
    PROVE  /\ phase' \in [Task -> {"startup", "select", "trade", "executed", "refused", "diff"}]
           /\ doing' \in [Task -> CommandType \cup {Idle}]
           /\ Doing(phase', doing')
           /\ known' \in [Task -> [OrderId -> Listed]]
           /\ current' \in [Task -> [OrderId -> Listed]]
<1> DEFINE Phase == {"startup", "select", "trade", "executed", "refused", "diff"}
           Typed == /\ phase' \in [Task -> Phase]
                    /\ doing' \in [Task -> CommandType \cup {Idle}]
                    /\ Doing(phase', doing')
                    /\ known' \in [Task -> [OrderId -> Listed]]
                    /\ current' \in [Task -> [OrderId -> Listed]]
<1>1. /\ phase \in [Task -> Phase]
      /\ doing \in [Task -> CommandType \cup {Idle}]
      /\ Doing(phase, doing)
      /\ known \in [Task -> [OrderId -> Listed]]
      /\ current \in [Task -> [OrderId -> Listed]]
      /\ NoPositions \in [OrderId -> Listed]
  <2>1. Flat \in Listed
    BY VenueAssumption, SMT DEF Flat, Listed, Snapshot
  <2>2. QED
    BY <2>1 DEF VenueInv, TypeOK, Doing, NoPositions
<1>2. ASSUME UNCHANGED venueVars PROVE Typed
  BY <1>1, <1>2 DEF venueVars
<1>3. ASSUME NEW k \in Task, Baseline(k) PROVE Typed
  BY <1>1, <1>3, PollTyped DEF Baseline, Enter, Doing
<1>4. ASSUME NEW k \in Task, Poll(k) PROVE Typed
  BY <1>1, <1>4, PollTyped DEF Poll, Enter, Doing
<1>5. ASSUME NEW k \in Task, EmitDiff(k) PROVE Typed
  <2>1. PICK o \in OrderId :
          /\ known' = [known EXCEPT ![k][o] = current[k][o]]
          /\ \/ Enter(k, "select") /\ current' = [current EXCEPT ![k] = NoPositions]
             \/ UNCHANGED <<phase, current>>
          /\ doing' = doing
    BY <1>5 DEF EmitDiff, Remaining
  <2>2. known' \in [Task -> [OrderId -> Listed]]
    <3>1. [known[k] EXCEPT ![o] = current[k][o]] \in [OrderId -> Listed]
      BY <1>1
    <3>2. known' = [known EXCEPT ![k] = [known[k] EXCEPT ![o] = current[k][o]]]
      BY <2>1
    <3>3. QED
      BY <1>1, <3>1, <3>2
  <2>3. phase' \in [Task -> Phase] /\ Doing(phase', doing')
        /\ current' \in [Task -> [OrderId -> Listed]]
    BY <1>1, <2>1 DEF Enter, Doing
  <2>4. QED
    BY <1>1, <2>1, <2>2, <2>3
<1>6. ASSUME NEW k \in Task, TakeCommand(k) PROVE Typed
  <2>1. Head(chan[sid[k]].queue) \in CommandType
    <3>1. sid[k] \in Session
      BY <1>6 DEF VenueInv, Seated, TakeCommand, AtLoop
    <3>2. Takes(sid[k])
      BY <1>6 DEF TakeCommand, Takes
    <3>3. QED
      BY <3>1, <3>2, ChannelTyped DEF VenueInv
  <2>2. QED
    BY <1>1, <1>6, <2>1 DEF TakeCommand, Enter, Doing
<1>7. ASSUME NEW k \in Task, Trade(k) PROVE Typed
  BY <1>1, <1>7 DEF Trade, Enter, Doing
<1>8. ASSUME NEW k \in Task, Answer(k) PROVE Typed
  BY <1>1, <1>8 DEF Answer, Enter, Doing
<1>9. CASE Crash
  BY <1>1, <1>9 DEF Crash, Doing
<1>10. ASSUME NEW k \in Task, Start(k) \/ TaskStep(k) \/ JournalError(k) \/ DropReceiver(k)
       PROVE  Typed
  BY <1>2, <1>10 DEF Start, TaskStep, JournalError, DropReceiver
<1>11. ASSUME (\E o \in OrderId : Trader(o)) \/ (\E c \in late : ExecuteLate(c)) \/ UNCHANGED vars
       PROVE  Typed
  BY <1>2, <1>11 DEF Trader, ExecuteLate, vars
<1>12. QED
  BY <1>3, <1>4, <1>5, <1>6, <1>7, <1>8, <1>9, <1>10, <1>11 DEF Next

LEMMA VenueStep ==
    ASSUME VenueInv, [Next]_vars
    PROVE  VenueInv'
<1>1. RuntimeStep(AckType)
  BY AnyStep
<1>2. RuntimeTypeInv' /\ Seated'
  BY <1>1, StepTyped, SeatedStep DEF VenueInv
<1>3. Listed \subseteq Snapshot
  BY DEF Listed
<1>4. TypeOK'
  BY <1>2, <1>3, BrokerTyped, TaskTyped DEF TypeOK, RuntimeTypeInv
<1>5. QED
  BY <1>2, <1>4, BrokerTyped, TaskTyped DEF VenueInv, Doing

(* Every variable of the daemon, its tasks and the broker keeps its type.   *)
THEOREM TypeCorrect == Spec => []TypeOK
<1>1. Init => VenueInv
  BY VenueStart
<1>2. VenueInv /\ [Next]_vars => VenueInv'
  BY VenueStep
<1>3. VenueInv => TypeOK
  BY DEF VenueInv
<1>4. QED
  BY <1>1, <1>2, <1>3, PTL DEF Spec

-----------------------------------------------------------------------------
(* No event finds a binding with which a route could not be computed        *)
(* (RouteError::InvalidMirror), however often the broker reports, answers   *)
(* late or the daemon restarts.                                             *)
THEOREM BindingsAreValid == Spec => []MirrorsAreValid
<1>1. Init => VenueInv /\ MirrorInv
  BY VenueStart, MirrorStart DEF Init
<1>2. VenueInv /\ MirrorInv /\ [Next]_vars => VenueInv' /\ MirrorInv'
  BY VenueStep, AnyStep, MirrorStep
<1>3. MirrorInv => MirrorsAreValid
  BY MirrorValid
<1>4. QED
  BY <1>1, <1>2, <1>3, PTL DEF Spec

-----------------------------------------------------------------------------
(* The promises of CommandLedger: what the venue executes was taken from a  *)
(* channel, and is therefore on record.                                     *)

Pursued ==
    \A k \in Task : phase[k] \in {"trade", "executed", "refused"} => Issued(doing[k].id)

VenueLedger == VenueInv /\ LedgerInv /\ Pursued

LEMMA PursuedStep ==
    ASSUME VenueLedger, Onward, [Next]_vars
    PROVE  Pursued'
<1>1. ASSUME NEW k \in Task, phase'[k] \in {"trade", "executed", "refused"}
      PROVE  Issued(doing'[k].id)
  <2>1. CASE TakeCommand(k)
    <3>1. Issued(Head(chan[sid[k]].queue).id)
      BY <2>1, TakenIssued DEF VenueLedger, VenueInv, Seated, TakeCommand, AtLoop
    <3>2. doing'[k] = Head(chan[sid[k]].queue)
      BY <2>1 DEF TakeCommand, VenueLedger, VenueInv, TypeOK
    <3>3. QED
      BY <3>1, <3>2
  <2>2. CASE ~TakeCommand(k)
    <3>1. phase[k] \in {"trade", "executed", "refused"} /\ doing'[k] = doing[k]
      <4> DEFINE Enters == \E j \in Task : \/ Baseline(j) \/ Poll(j) \/ EmitDiff(j) \/ Answer(j)
                                           \/ Trade(j)
      <4>1. phase \in [Task -> {"startup", "select", "trade", "executed", "refused", "diff"}]
            /\ doing \in [Task -> CommandType \cup {Idle}]
        BY DEF VenueLedger, VenueInv, TypeOK
      <4>2. CASE Enters
        BY <1>1, <2>2, <4>1, <4>2 DEF Baseline, Poll, EmitDiff, Answer, Trade, Enter
      <4>3. CASE ~Enters
        <5>1. CASE UNCHANGED venueVars
          BY <1>1, <5>1 DEF venueVars
        <5>2. CASE Crash
          BY <1>1, <5>2 DEF Crash
        <5>3. ASSUME NEW j \in Task, TakeCommand(j)
              PROVE  phase[k] = phase'[k] /\ doing'[k] = doing[k]
          <6>1. j # k
            BY <2>2, <5>3
          <6>2. QED
            BY <4>1, <5>3, <6>1 DEF TakeCommand, Enter
        <5>4. QED
          BY <1>1, <4>3, <5>1, <5>2, <5>3
             DEF Next, vars, Start, TaskStep, JournalError, DropReceiver, Trader, ExecuteLate
      <4>4. QED
        BY <4>2, <4>3
    <3>2. QED
      BY <3>1 DEF VenueLedger, Pursued
  <2>3. QED
    BY <2>1, <2>2
<1>2. ASSUME NEW k \in Task, phase'[k] \in {"trade", "executed", "refused"}
      PROVE  Issued(doing[k].id)'
  <2>1. doing'[k] \in CommandType
    BY <1>2, TaskTyped DEF VenueLedger, Doing
  <2>2. doing'[k].id \in CommandId
    BY <2>1, SMT DEF CommandType
  <2>3. QED
    BY <1>1, <1>2, <2>2 DEF Onward
<1>3. QED
  BY <1>2 DEF Pursued

LEMMA StepAcknowledged ==
    ASSUME VenueLedger, [Next]_vars
    PROVE  RuntimeStep(IssuedAcks)
<1>1. Executing \subseteq IssuedAcks
  BY DEF Executing, IssuedAcks, AckType, VenueLedger, Pursued
<1>2. QED
  BY <1>1, StepMapped, FewerAcks DEF VenueLedger

LEMMA VenueLedgerStep ==
    ASSUME VenueLedger, [Next]_vars
    PROVE  VenueLedger' /\ [Ledger!LedgerNext]_Ledger!ledgerVars
<1>1. LedgerInv' /\ Onward /\ [Ledger!LedgerNext]_Ledger!ledgerVars
  BY StepAcknowledged, LedgerStep DEF VenueLedger
<1>2. QED
  BY <1>1, VenueStep, PursuedStep DEF VenueLedger

(* The venue implements CommandLedger: whatever the broker answers, however *)
(* often the daemon restarts and whichever append fails, the record of a    *)
(* command only moves forward, and what is put on a channel, and so what is *)
(* executed, is on record as issued first.                                  *)
THEOREM LedgerImplemented == Spec => ImplementsLedger
<1>1. Init => VenueLedger /\ Ledger!LedgerInit
  BY VenueStart, LedgerStart DEF Init, FreshVenues, VenueLedger, Pursued
<1>2. VenueLedger /\ [Next]_vars => VenueLedger' /\ [Ledger!LedgerNext]_Ledger!ledgerVars
  BY VenueLedgerStep
<1>3. QED
  BY <1>1, <1>2, PTL DEF Spec, ImplementsLedger, Ledger!LedgerSpec

(* The one task of an account is its only connection, so a command whose    *)
(* terminal acknowledgement is in the journal is never tracked again:       *)
(* handle_event cannot plan its event a second time.                        *)
THEOREM SettledFinal == Spec => []SettledIsFinal
<1>1. Init => VenueInv /\ FinalInv
  BY VenueStart, FinalStart DEF Init
<1>2. VenueInv /\ FinalInv /\ [Next]_vars => VenueInv' /\ FinalInv'
  BY VenueStep, AnyStep, FinalStep, VenueAssumption DEF OnePublisher
<1>3. FinalInv => SettledIsFinal
  BY FinalSettled
<1>4. QED
  BY <1>1, <1>2, <1>3, PTL DEF Spec

(* What was put on an account's channel is in the journal as dispatched,    *)
(* UNKNOWN or ended for good: no restart can find it new or still queued    *)
(* and hand it to run_account again on that ground.                         *)
THEOREM WrittenAhead == Spec => []WriteAhead
<1>1. Init => VenueLedger /\ HandedInv /\ FinalInv
  BY VenueStart, LedgerStart, HandedStart, FinalStart DEF Init, FreshVenues, VenueLedger, Pursued
<1>2. VenueLedger /\ HandedInv /\ FinalInv /\ [Next]_vars
        => VenueLedger' /\ HandedInv' /\ FinalInv'
  <2> SUFFICES ASSUME VenueLedger, HandedInv, FinalInv, [Next]_vars
               PROVE  VenueLedger' /\ HandedInv' /\ FinalInv'
    OBVIOUS
  <2>1. HandedInv'
    BY StepAcknowledged, HandedStep DEF VenueLedger
  <2>2. FinalInv'
    BY AnyStep, FinalStep, VenueAssumption DEF OnePublisher, VenueLedger
  <2>3. QED
    BY <2>1, <2>2, VenueLedgerStep
<1>3. VenueLedger /\ HandedInv /\ FinalInv => WriteAhead
  BY AheadWritten DEF VenueLedger
<1>4. QED
  BY <1>1, <1>2, <1>3, PTL DEF Spec

(* What the venue tasks append in whatever order is what they apply: with   *)
(* no failing append, a restart finds what the memory held.                 *)
THEOREM RestartFindsMemory == Spec => []RecoveryEquivalence
<1>1. Init => VenueInv /\ LevelInv
  BY VenueStart, LevelStart DEF Init
<1>2. VenueInv /\ LevelInv /\ [Next]_vars => VenueInv' /\ LevelInv'
  BY VenueStep, AnyStep, LevelStep, VenueAssumption DEF OneTask
<1>3. LevelInv => RecoveryEquivalence
  BY LevelEquivalent
<1>4. QED
  BY <1>1, <1>2, <1>3, PTL DEF Spec

-----------------------------------------------------------------------------
(* What the venue reports of the trader's positions.  A snapshot shows only *)
(* positions the trader did open, and one that vanished from a snapshot is  *)
(* gone for good: ids are not used again.                                   *)

Gone(o) == o \in traded /\ held[o] = Flat
Opened(o) == \E i \in EventId : Reported(i) /\ i[1] = o /\ i[2] = "open"

SnapshotsTrue ==
    /\ \A o \in OrderId : held[o] # Flat => o \in traded
    /\ \A k \in Task, o \in OrderId :
         /\ known[k][o] # Flat \/ current[k][o] # Flat => o \in traded /\ AccountOf(o) = Owner[k]
         /\ phase[k] = "diff" /\ known[k][o] # Flat /\ current[k][o] = Flat => Gone(o)

ReportsTrue ==
    \A i \in EventId : Reported(i) =>
        /\ i[1] \in traded /\ AccountOf(i[1]) \in Publishers
        /\ i[2] = "close" => Gone(i[1])

(* A task past its first snapshot knows every position it has reported as   *)
(* opened, or the position is gone.                                         *)
OpeningsKnown ==
    \A k \in Task, o \in OrderId :
        AccountOf(o) = Owner[k] /\ phase[k] # "startup" /\ Opened(o) /\ known[k][o] = Flat
            => Gone(o) /\ (phase[k] = "diff" => current[k][o] = Flat)
OpeningsDiffer ==
    \A i, j \in EventId :
        Reported(i) /\ Reported(j) /\ i[1] = j[1] /\ i[2] = "open" /\ j[2] = "open" => i = j

ReportInv ==
    /\ VenueInv /\ OrderlyInv
    /\ SnapshotsTrue /\ ReportsTrue
    /\ ~blind => OpeningsKnown /\ OpeningsDiffer

LEMMA ReportStart ==
    ASSUME Init
    PROVE  ReportInv
<1>1. VenueInv /\ OrderlyInv
  BY VenueStart, OrderlyStart DEF Init
<1>2. SnapshotsTrue
  BY DEF Init, FreshVenues, SnapshotsTrue, NoPositions
<1>3. \A i : ~Reported(i)
  BY DEF Init, RuntimeInit, FreshTasks, EmptyReplay, NoRecord, Reported, Pending, IsPlanned
<1>4. QED
  BY <1>1, <1>2, <1>3 DEF ReportInv, ReportsTrue, Opened, OpeningsKnown, OpeningsDiffer

(* The trader opens a position under an id of its own.                      *)
LEMMA TraderMoves ==
    ASSUME VenueInv, SnapshotsTrue, [Next]_vars
    PROVE  /\ traded \subseteq traded'
           /\ \A o \in OrderId : held'[o] # Flat => o \in traded'
           /\ \A o \in OrderId : Gone(o) => Gone(o)'
<1>1. ASSUME NEW o \in OrderId, Trader(o)
      PROVE  /\ traded \subseteq traded'
             /\ \A p \in OrderId : held'[p] # Flat => p \in traded'
             /\ \A p \in OrderId : Gone(p) => Gone(p)'
  <2>1. PICK new \in Snapshot : /\ held[o] = Flat => o \notin traded
                                /\ held' = [held EXCEPT ![o] = new]
    BY <1>1 DEF Trader
  <2>2. traded' = traded \cup {o}
    BY <1>1 DEF Trader
  <2>3. held \in [OrderId -> Listed]
    BY DEF VenueInv
  <2>4. QED
    BY <2>1, <2>2, <2>3 DEF SnapshotsTrue, Gone
<1>2. CASE UNCHANGED <<held, traded>>
  BY <1>2 DEF SnapshotsTrue, Gone
<1>3. QED
  BY <1>1, <1>2 DEF Next, vars, venueVars, brokerVars, Start, TaskStep, Baseline, Poll, EmitDiff,
                    TakeCommand, Trade, Answer, JournalError, DropReceiver, ExecuteLate, Crash

(* Only a first snapshot, a poll, a report and a restart change what a task *)
(* knows.                                                                   *)
Keeps(k) ==
    /\ known'[k] = known[k] /\ current'[k] = current[k]
    /\ phase'[k] = "diff" => phase[k] = "diff"
    /\ phase'[k] # "startup" => phase[k] # "startup"
Resets(k) == phase'[k] = "startup" /\ known'[k] = NoPositions /\ current'[k] = NoPositions

LEMMA TaskMoves ==
    ASSUME VenueInv, [Next]_vars, NEW k \in Task
    PROVE  Keeps(k) \/ Baseline(k) \/ Poll(k) \/ EmitDiff(k) \/ Resets(k)
<1>1. /\ phase = [j \in Task |-> phase[j]] /\ known = [j \in Task |-> known[j]]
      /\ current = [j \in Task |-> current[j]]
  BY DEF VenueInv, TypeOK
<1>2. CASE UNCHANGED venueVars
  BY <1>2 DEF venueVars, Keeps
<1>3. CASE Crash
  BY <1>3 DEF Crash, Resets
<1>4. ASSUME NEW j \in Task, TakeCommand(j) \/ Trade(j) \/ Answer(j)
      PROVE  Keeps(k)
  BY <1>1, <1>4 DEF TakeCommand, Trade, Answer, AtLoop, Enter, Keeps
<1>5. ASSUME NEW j \in Task, j # k, Baseline(j) \/ Poll(j) \/ EmitDiff(j)
      PROVE  Keeps(k)
  BY <1>1, <1>5 DEF Baseline, Poll, EmitDiff, Enter, Keeps
<1>6. QED
  BY <1>2, <1>3, <1>4, <1>5
     DEF Next, vars, Start, TaskStep, JournalError, DropReceiver, Trader, ExecuteLate

LEMMA SnapshotsStep ==
    ASSUME VenueInv, SnapshotsTrue, [Next]_vars
    PROVE  SnapshotsTrue'
<1>1. ASSUME NEW k \in Task, NEW o \in OrderId
      PROVE  /\ known'[k][o] # Flat \/ current'[k][o] # Flat =>
                  o \in traded' /\ AccountOf(o) = Owner[k]
             /\ phase'[k] = "diff" /\ known'[k][o] # Flat /\ current'[k][o] = Flat => Gone(o)'
  <2>1. /\ traded \subseteq traded' /\ (Gone(o) => Gone(o)')
        /\ (held[o] # Flat => o \in traded')
    BY TraderMoves DEF SnapshotsTrue
  <2>2. /\ phase = [j \in Task |-> phase[j]] /\ known = [j \in Task |-> known[j]]
        /\ current = [j \in Task |-> current[j]] /\ known[k] = [p \in OrderId |-> known[k][p]]
    BY DEF VenueInv, TypeOK
  <2>3. \A positions \in FetchPositions(Owner[k]) :
          positions[o] = IF AccountOf(o) = Owner[k] THEN held[o] ELSE Flat
    BY DEF FetchPositions
  <2>4. CASE Keeps(k)
    BY <2>1, <2>4 DEF Keeps, SnapshotsTrue
  <2>5. CASE Baseline(k)
    <3>1. /\ phase'[k] = "select" /\ current'[k] = current[k]
          /\ known'[k] = known[k] \/ known'[k] \in FetchPositions(Owner[k])
      BY <2>2, <2>5 DEF Baseline, Enter
    <3>2. QED
      BY <2>1, <2>3, <3>1 DEF SnapshotsTrue
  <2>6. CASE Poll(k)
    <3>1. /\ known'[k] = known[k] /\ current'[k] \in FetchPositions(Owner[k])
      BY <2>2, <2>6 DEF Poll, Enter
    <3>2. known[k][o] # Flat => o \in traded /\ AccountOf(o) = Owner[k]
      BY DEF SnapshotsTrue
    <3>3. current'[k][o] = IF AccountOf(o) = Owner[k] THEN held[o] ELSE Flat
      BY <2>3, <3>1
    <3>4. UNCHANGED <<held, traded>>
      BY <2>6 DEF Poll, brokerVars
    <3>5. QED
      BY <2>1, <3>1, <3>2, <3>3, <3>4 DEF Gone
  <2>7. CASE EmitDiff(k)
    <3>1. PICK p \in OrderId :
            /\ known' = [known EXCEPT ![k][p] = current[k][p]]
            /\ current' = current \/ current' = [current EXCEPT ![k] = NoPositions]
      BY <2>7, DiffReported
    <3>2. known'[k][o] = known[k][o] \/ (known'[k][o] = current[k][o] /\ o = p)
      BY <2>2, <3>1
    <3>3. /\ current'[k][o] = current[k][o] \/ current'[k][o] = Flat
          /\ current'[k][o] = current[k][o] \/ phase'[k] # "diff"
      <4>1. current'[k] = current[k] \/ (current'[k] = NoPositions /\ phase'[k] = "select")
        BY <2>2, <2>7 DEF EmitDiff, Enter
      <4>2. QED
        BY <4>1 DEF NoPositions
    <3>4. phase[k] = "diff" /\ known'[k][o] # Flat => known[k][o] # Flat \/ current[k][o] # Flat
      BY <3>2
    <3>5. phase[k] = "diff"
      BY <2>7 DEF EmitDiff
    <3>6. QED
      BY <2>1, <3>2, <3>3, <3>4, <3>5 DEF SnapshotsTrue
  <2>8. CASE Resets(k)
    BY <2>8 DEF Resets, NoPositions
  <2>9. QED
    BY <2>4, <2>5, <2>6, <2>7, <2>8, TaskMoves
<1>2. QED
  BY <1>1, TraderMoves DEF SnapshotsTrue

(* A report is about a position the trader did open, at an account that     *)
(* publishes; that it was closed is reported once it is gone, and that it   *)
(* was opened when it was not known before.                                 *)
DiffOf(k, o, e) ==
    /\ phase[k] = "diff" /\ HandleEvent(k, e)
    /\ e.id[1] = o /\ o \in traded /\ AccountOf(o) = Owner[k] /\ Owner[k] \in Publishers
    /\ e.id[2] = "close" => Gone(o)
    /\ e.id[2] = "open" => known[k][o] = Flat /\ current[k][o] # Flat
    /\ known' = [known EXCEPT ![k][o] = current[k][o]]

LEMMA DiffFacts ==
    ASSUME VenueInv, SnapshotsTrue, NEW k \in Task, EmitDiff(k)
    PROVE  \/ UNCHANGED runtimeVars
           \/ \E o \in OrderId, e \in Event : DiffOf(k, o, e)
<1>1. PICK o \in OrderId :
        /\ phase[k] = "diff" /\ known[k][o] # current[k][o]
        /\ known[k][o] \in Listed /\ current[k][o] \in Listed
        /\ known' = [known EXCEPT ![k][o] = current[k][o]]
        /\ \/ UNCHANGED runtimeVars
           \/ LET e == ToEvent(o, known[k][o], current[k][o])
              IN  e \in Event /\ HandleEvent(k, e)
  BY DiffReported
<1> DEFINE old == known[k][o]
           new == current[k][o]
           e == ToEvent(o, old, new)
<1>2. CASE e \in Event /\ HandleEvent(k, e)
  <2>1. e.id = <<o, Difference(old, new), clock>> /\ e.source = AccountOf(o)
    BY DEF ToEvent, Report, AccountOf
  <2>2. e.id[1] = o /\ e.id[2] = Difference(old, new)
    BY <2>1
  <2>3. AccountOf(o) = Owner[k] /\ Owner[k] \in Publishers
    BY <1>2, <2>1 DEF HandleEvent, Refused
  <2>4. old # Flat \/ new # Flat
    BY <1>1
  <2>5. /\ old.volume \in 0..MaxVolume /\ new.volume \in 0..MaxVolume /\ MaxVolume \in Nat
        /\ old.volume = 0 => old = Flat
        /\ new.volume = 0 => new = Flat
    BY <1>1, VenueAssumption DEF Listed, Snapshot, Flat
  <2>6. ~(old.volume = 0 /\ new.volume = 0)
    BY <2>4, <2>5
  <2>7. /\ Difference(old, new) = "close" => old.volume > 0 /\ new.volume = 0
        /\ Difference(old, new) = "open" => old.volume = 0
    BY <2>5, SMT DEF Difference
  <2>8. /\ Difference(old, new) = "close" => old # Flat /\ new = Flat
        /\ Difference(old, new) = "open" => old = Flat /\ new # Flat
    BY <2>4, <2>5, <2>7, SMT DEF Flat
  <2>9. o \in traded /\ (old # Flat /\ new = Flat => Gone(o))
    BY <1>1, <2>4 DEF SnapshotsTrue
  <2> HIDE DEF e
  <2>10. DiffOf(k, o, e)
    BY <1>1, <1>2, <2>2, <2>3, <2>8, <2>9 DEF DiffOf
  <2>11. QED
    BY <1>2, <2>10
<1>3. QED
  BY <1>1, <1>2

(* Every other step reports nothing.                                        *)
LEMMA NewReport ==
    ASSUME ReportInv, [Next]_vars, NEW i \in EventId, Reported(i)', ~Reported(i)
    PROVE  \E k \in Task, o \in OrderId, e \in Event :
             EmitDiff(k) /\ DiffOf(k, o, e) /\ e.id = i
<1>1. VenueInv /\ OrderlyInv /\ SnapshotsTrue
  BY DEF ReportInv
<1>2. CASE \E k \in Task : EmitDiff(k)
  <2>1. PICK k \in Task : EmitDiff(k)
    BY <1>2
  <2>2. ~UNCHANGED runtimeVars
    BY DEF runtimeVars, taskVars, Reported, Pending
  <2>3. PICK o \in OrderId, e \in Event : DiffOf(k, o, e)
    BY <1>1, <2>1, <2>2, DiffFacts
  <2>4. e.id = i
    BY <1>1, <2>3, EventReports DEF DiffOf
  <2>5. QED
    BY <2>1, <2>3, <2>4
<1>3. CASE ~\E k \in Task : EmitDiff(k)
  <2>1. Silent(Executing)
    BY <1>1, <1>3, StepSilent
  <2>2. Silent(AckType)
    BY <2>1 DEF Silent, SilentTask, Executing
  <2>3. QED
    BY <1>1, <2>2, SilentReports
<1>4. QED
  BY <1>2, <1>3

LEMMA ReportsStep ==
    ASSUME ReportInv, [Next]_vars
    PROVE  ReportsTrue'
<1>1. VenueInv /\ SnapshotsTrue /\ ReportsTrue
  BY DEF ReportInv
<1>2. ASSUME NEW i \in EventId, Reported(i)'
      PROVE  /\ i[1] \in traded' /\ AccountOf(i[1]) \in Publishers
             /\ i[2] = "close" => Gone(i[1])'
  <2>1. /\ i[1] \in traded /\ AccountOf(i[1]) \in Publishers
        /\ i[2] = "close" => Gone(i[1])
    <3>1. CASE Reported(i)
      BY <1>1, <3>1 DEF ReportsTrue
    <3>2. CASE ~Reported(i)
      BY <1>2, <3>2, NewReport DEF DiffOf
    <3>3. QED
      BY <3>1, <3>2
  <2>2. i[1] \in OrderId
    BY <1>1, <2>1 DEF VenueInv, TypeOK
  <2>3. QED
    BY <1>1, <2>1, <2>2, TraderMoves
<1>3. QED
  BY <1>2 DEF ReportsTrue

LEMMA StaysBlind ==
    ASSUME VenueInv, [Next]_vars, ~blind'
    PROVE  ~blind /\ \A k \in Task : Baseline(k) /\ Owner[k] \in Publishers =>
                        known' \in {[known EXCEPT ![k] = p] : p \in FetchPositions(Owner[k])}
<1>1. ~blind
  BY DEF VenueInv, TypeOK, Next, vars, Start, TaskStep, Baseline, Poll, EmitDiff, Trader,
         TakeCommand, Trade, Answer, JournalError, DropReceiver, ExecuteLate, Crash
<1>2. QED
  BY <1>1 DEF Baseline

LEMMA OpeningsDifferStep ==
    ASSUME ReportInv, OpeningsKnown, OpeningsDiffer, [Next]_vars
    PROVE  OpeningsDiffer'
<1>1. ASSUME NEW i \in EventId, NEW j \in EventId, Reported(i)', Reported(j)', i[1] = j[1],
             i[2] = "open", j[2] = "open", ~Reported(i)
      PROVE  i = j
  <2>1. PICK k \in Task, o \in OrderId, e \in Event : DiffOf(k, o, e) /\ e.id = i
    BY <1>1, NewReport
  <2>2. CASE Reported(j)
    <3>1. Opened(o)
      BY <1>1, <2>1, <2>2 DEF Opened, DiffOf
    <3>2. current[k][o] = Flat
      BY <1>1, <2>1, <3>1 DEF OpeningsKnown, DiffOf
    <3>3. QED
      BY <1>1, <2>1, <3>2 DEF DiffOf
  <2>3. CASE ~Reported(j)
    BY <1>1, <2>1, <2>3, EventReports DEF DiffOf, ReportInv
  <2>4. QED
    BY <2>2, <2>3
<1>2. QED
  BY <1>1 DEF OpeningsDiffer

LEMMA OpeningsKnownStep ==
    ASSUME ReportInv, ~blind', OpeningsKnown, [Next]_vars
    PROVE  OpeningsKnown'
<1>1. VenueInv /\ SnapshotsTrue /\ ReportsTrue
  BY DEF ReportInv
<1>2. ASSUME NEW k \in Task, NEW o \in OrderId, AccountOf(o) = Owner[k], phase'[k] # "startup",
             Opened(o)', known'[k][o] = Flat
      PROVE  Gone(o)' /\ (phase'[k] = "diff" => current'[k][o] = Flat)
  <2>1. /\ phase = [j \in Task |-> phase[j]] /\ known = [j \in Task |-> known[j]]
        /\ current = [j \in Task |-> current[j]] /\ known[k] = [p \in OrderId |-> known[k][p]]
    BY <1>1 DEF VenueInv, TypeOK
  <2>2. Opened(o)
    <3>1. PICK i \in EventId : Reported(i)' /\ i[1] = o /\ i[2] = "open"
      BY <1>2 DEF Opened
    <3>2. CASE ~Reported(i)
      <4>1. PICK j \in Task, p \in OrderId, e \in Event : DiffOf(j, p, e) /\ e.id = i
        BY <3>1, <3>2, NewReport
      <4>2. p = o /\ j = k
        BY <1>2, <3>1, <4>1, VenueAssumption DEF DiffOf
      <4>3. known'[k][o] = current[k][o] /\ current[k][o] # Flat
        BY <2>1, <3>1, <4>1, <4>2 DEF DiffOf
      <4>4. QED
        BY <1>2, <4>3
    <3>3. QED
      BY <3>1, <3>2 DEF Opened
  <2>3. o \in traded /\ Owner[k] \in Publishers
    BY <1>1, <1>2, <2>2 DEF Opened, ReportsTrue
  <2>4. Gone(o) => Gone(o)'
    BY <1>1, TraderMoves
  <2>5. \A positions \in FetchPositions(Owner[k]) : positions[o] = held[o]
    BY <1>2 DEF FetchPositions
  <2>6. CASE Keeps(k)
    BY <1>2, <2>2, <2>4, <2>6 DEF Keeps, OpeningsKnown
  <2>7. CASE Baseline(k)
    <3>1. known'[k] \in FetchPositions(Owner[k]) /\ phase'[k] = "select"
      BY <1>1, <2>1, <2>3, <2>7, StaysBlind DEF Baseline, Enter
    <3>2. Gone(o)
      BY <1>2, <2>3, <2>5, <3>1 DEF Gone
    <3>3. QED
      BY <2>4, <3>1, <3>2
  <2>8. CASE Poll(k)
    <3>1. /\ known'[k] = known[k] /\ current'[k] \in FetchPositions(Owner[k])
          /\ phase[k] # "startup"
      BY <2>1, <2>8 DEF Poll, AtLoop
    <3>2. Gone(o)
      BY <1>2, <2>2, <3>1 DEF OpeningsKnown
    <3>3. current'[k][o] = Flat
      BY <2>5, <3>1, <3>2 DEF Gone
    <3>4. QED
      BY <2>4, <3>2, <3>3
  <2>9. CASE EmitDiff(k)
    <3>1. phase[k] = "diff" /\ (current'[k] = current[k] \/ current'[k] = NoPositions)
      BY <2>1, <2>9 DEF EmitDiff
    <3>2. known'[k][o] = known[k][o] \/ known'[k][o] = current[k][o]
      <4>1. PICK p \in OrderId : known' = [known EXCEPT ![k][p] = current[k][p]]
        BY <1>1, <2>9, DiffReported
      <4>2. QED
        BY <2>1, <4>1
    <3>3. CASE known[k][o] = Flat
      <4>1. Gone(o) /\ current[k][o] = Flat
        BY <1>2, <2>2, <3>1, <3>3 DEF OpeningsKnown
      <4>2. QED
        BY <2>4, <3>1, <4>1 DEF NoPositions
    <3>4. CASE known[k][o] # Flat
      <4>1. current[k][o] = Flat
        BY <1>2, <3>2, <3>4
      <4>2. Gone(o)
        BY <1>1, <3>1, <3>4, <4>1 DEF SnapshotsTrue
      <4>3. QED
        BY <2>4, <3>1, <4>1, <4>2 DEF NoPositions
    <3>5. QED
      BY <3>3, <3>4
  <2>10. CASE Resets(k)
    BY <1>2, <2>10 DEF Resets
  <2>11. QED
    BY <1>1, <2>6, <2>7, <2>8, <2>9, <2>10, TaskMoves
<1>3. QED
  BY <1>2 DEF OpeningsKnown

LEMMA ReportStep ==
    ASSUME ReportInv, [Next]_vars
    PROVE  ReportInv'
<1>1. VenueInv' /\ OrderlyInv'
  BY VenueStep, AnyStep, OrderlyStep DEF ReportInv
<1>2. SnapshotsTrue' /\ ReportsTrue'
  BY SnapshotsStep, ReportsStep DEF ReportInv
<1>3. ~blind' => OpeningsKnown' /\ OpeningsDiffer'
  BY StaysBlind, OpeningsKnownStep, OpeningsDifferStep DEF ReportInv
<1>4. QED
  BY <1>1, <1>2, <1>3 DEF ReportInv

(* emit_position_diffs closes a position at the followers only once the     *)
(* master has closed it: a failed poll and a snapshot that is old when it   *)
(* is compared never do.                                                    *)
THEOREM ClosesAreTrue == Spec => []ClosesOnlyTheClosed
<1>1. Init => ReportInv
  BY ReportStart
<1>2. ReportInv /\ [Next]_vars => ReportInv'
  BY ReportStep
<1>3. ReportInv => ClosesOnlyTheClosed
  <2> SUFFICES ASSUME ReportInv, NEW o \in OrderId, ReportsOf(o, "close") # {}
               PROVE  held[o] = Flat
    BY DEF ClosesOnlyTheClosed
  <2>1. PICK i \in file.seen : i[1] = o /\ i[2] = "close"
    BY DEF ReportsOf
  <2>2. i \in EventId /\ Reported(i)
    BY <2>1, Types, SMT DEF ReportInv, OrderlyInv, ReplayType, Reported
  <2>3. QED
    BY <2>1, <2>2 DEF ReportInv, ReportsTrue, Gone
<1>4. QED
  BY <1>1, <1>2, <1>3, PTL DEF Spec

(* A position of a master is reported as opened, and copied, at most once,  *)
(* however often the daemon restarts: the snapshot it starts from holds     *)
(* what was reported before, unless that snapshot failed.                   *)
THEOREM OpensOnce == Spec => []OpenedOnce
<1>1. Init => ReportInv
  BY ReportStart
<1>2. ReportInv /\ [Next]_vars => ReportInv'
  BY ReportStep
<1>3. ReportInv => OpenedOnce
  <2> SUFFICES ASSUME ReportInv, ~blind, NEW o \in OrderId
               PROVE  Cardinality(ReportsOf(o, "open")) <= 1
    BY DEF OpenedOnce
  <2>1. \A i, j \in ReportsOf(o, "open") : i = j
    <3>1. \A i \in ReportsOf(o, "open") :
            i \in EventId /\ Reported(i) /\ i[1] = o /\ i[2] = "open"
      BY Types, SMT DEF ReportInv, OrderlyInv, ReplayType, Reported, ReportsOf
    <3>2. QED
      BY <3>1 DEF ReportInv, OpeningsDiffer
  <2>2. CASE ReportsOf(o, "open") = {}
    BY <2>2, FS_EmptySet
  <2>3. CASE ReportsOf(o, "open") # {}
    <3>1. PICK i : ReportsOf(o, "open") = {i}
      BY <2>1, <2>3
    <3>2. Cardinality({i}) = 1
      BY FS_Singleton
    <3>3. QED
      BY <3>1, <3>2
  <2>4. QED
    BY <2>2, <2>3
<1>4. QED
  BY <1>1, <1>2, <1>3, PTL DEF Spec

-----------------------------------------------------------------------------
(* What the broker executed.  A command that was handed over once is in one *)
(* place until it is answered: in the channel of its account, with the task *)
(* that executes it, or with the broker that may still execute it.          *)

Busy == {"trade", "executed", "refused"}

Rests(k) ==
    \/ phase'[k] = phase[k] /\ doing'[k] = doing[k]
    \/ phase[k] \notin Busy /\ phase'[k] \notin Busy

Calm ==
    /\ UNCHANGED <<book, late>>
    /\ \A k \in Task : Rests(k)
    /\ \/ \E k \in Task : OwnStep(k)
       \/ \E s \in Session : Closes(s)
       \/ UNCHANGED runtimeVars

LEMMA StepCases ==
    ASSUME VenueInv, [Next]_vars
    PROVE  \/ Calm \/ Crash
           \/ \E k \in Task : TakeCommand(k) \/ Trade(k) \/ Answer(k)
           \/ \E c \in late : ExecuteLate(c)
<1> USE DEF Calm
<1>1. phase \in [Task -> {"startup", "select", "trade", "executed", "refused", "diff"}]
  BY DEF VenueInv, TypeOK
<1>2. ASSUME NEW k \in Task, Start(k) \/ TaskStep(k) \/ JournalError(k) PROVE Calm
  <2>1. UNCHANGED <<phase, doing, book, late>>
    BY <1>2 DEF Start, TaskStep, JournalError, venueVars, brokerVars
  <2>2. OwnStep(k)
    BY <1>2 DEF Start, TaskStep, JournalError, OwnStep, Exit
  <2>3. QED
    BY <2>1, <2>2 DEF Rests
<1>3. ASSUME NEW k \in Task, Baseline(k) \/ Poll(k) PROVE Calm
  <2>1. UNCHANGED <<doing, book, late>> /\ UNCHANGED runtimeVars
    BY <1>3 DEF Baseline, Poll, brokerVars
  <2>2. phase[k] \notin Busy /\ \E p \in {"select", "diff"} : phase' = [phase EXCEPT ![k] = p]
    BY <1>3 DEF Baseline, Poll, AtLoop, Enter, Busy
  <2>3. \A j \in Task : Rests(j)
    BY <1>1, <2>1, <2>2 DEF Rests, Busy
  <2>4. QED
    BY <2>1, <2>3
<1>4. ASSUME NEW k \in Task, EmitDiff(k) PROVE Calm
  <2>1. UNCHANGED <<doing, book, late>>
    BY <1>4 DEF EmitDiff, brokerVars
  <2>2. phase[k] \notin Busy /\ (phase' = phase \/ phase' = [phase EXCEPT ![k] = "select"])
    BY <1>4 DEF EmitDiff, Enter, Busy
  <2>3. \A j \in Task : Rests(j)
    BY <1>1, <2>1, <2>2 DEF Rests, Busy
  <2>4. UNCHANGED runtimeVars \/ OwnStep(k)
    BY <1>4, DiffReported DEF OwnStep
  <2>5. QED
    BY <2>1, <2>3, <2>4
<1>5. ASSUME NEW k \in Task, DropReceiver(k) PROVE Calm
  <2>1. UNCHANGED <<phase, doing, book, late>>
    BY <1>5 DEF DropReceiver, venueVars, brokerVars
  <2>2. sid[k] \in Session
    BY <1>5, RuntimeAssumption, SMT DEF VenueInv, TypeOK, RuntimeTypeOK, DropReceiver, Session
  <2>3. Closes(sid[k])
    BY <1>5 DEF DropReceiver, Closes
  <2>4. QED
    BY <2>1, <2>2, <2>3 DEF Rests
<1>6. ASSUME NEW o \in OrderId, Trader(o) PROVE Calm
  BY <1>6 DEF Trader, venueVars, Rests
<1>7. CASE UNCHANGED vars
  BY <1>7 DEF vars, venueVars, brokerVars, Rests
<1>8. QED
  BY <1>2, <1>3, <1>4, <1>5, <1>6, <1>7 DEF Next

Carries(k, c) == phase[k] \in Busy /\ doing[k].id = c
IsHandled(c)  == \E k \in Task : Carries(k, c)
IsLate(c)     == \E d \in late : d.id = c
Abroad(c)     == InChannel(c) \/ IsHandled(c) \/ IsLate(c)

OneOf(c) ==
    /\ OneQueued(c)
    /\ \A j, k \in Task : Carries(j, c) /\ Carries(k, c) => j = k
    /\ \A d, e \in late : d.id = c /\ e.id = c => d = e
    /\ InChannel(c) => ~IsHandled(c) /\ ~IsLate(c)
    /\ IsHandled(c) => ~IsLate(c)

(* One step of a command between its places: it leaves them, moves to       *)
(* another, or is handed over (again).                                      *)
Stays(c) ==
    /\ handed'[c] = handed[c]
    /\ Abroad(c)' => Abroad(c)
    /\ OneOf(c) => OneOf(c)'

HandsOver(c) ==
    /\ handed'[c] = IF handed[c] = 2 THEN 2 ELSE handed[c] + 1
    /\ ~Abroad(c) => OneOf(c)'
    /\ UNCHANGED <<mem, file, settled, book, late>>
    /\ \A k \in Task : Carries(k, c)' <=> Carries(k, c)
    /\ \E k \in Task : Send(k) /\ rec[k].id = c

LEMMA CarriesSame ==
    ASSUME NEW k \in Task, Rests(k), NEW c
    PROVE  Carries(k, c)' <=> Carries(k, c)
BY DEF Rests, Carries

LEMMA TokensStep ==
    ASSUME VenueInv, [Next]_vars, NEW c \in CommandId
    PROVE  Stays(c) \/ HandsOver(c)
<1> USE DEF Stays, Abroad, OneOf
<1>1. /\ phase \in [Task -> {"startup", "select", "trade", "executed", "refused", "diff"}]
      /\ doing \in [Task -> CommandType \cup {Idle}]
      /\ RuntimeTypeInv /\ RuntimeStep(AckType)
  BY AnyStep DEF VenueInv, TypeOK
<1>2. ASSUME NEW k \in Task, Send(k), rec[k].id = c, Calm PROVE HandsOver(c)
  <2>1. /\ handed'[c] = IF handed[c] = 2 THEN 2 ELSE handed[c] + 1
        /\ ~InChannel(c) => OneQueued(c)'
    BY <1>1, <1>2, SendCounts
  <2>2. \A j \in Task : Carries(j, c)' <=> Carries(j, c)
    BY <1>2, CarriesSame DEF Calm
  <2>3. UNCHANGED <<mem, file, settled, book, late>>
    BY <1>2 DEF Send, Calm
  <2>4. ASSUME ~Abroad(c) PROVE OneOf(c)'
    BY <2>1, <2>2, <2>3, <2>4 DEF IsHandled, IsLate
  <2>5. QED
    BY <1>2, <2>1, <2>2, <2>3, <2>4 DEF HandsOver
<1>3. ASSUME \A k \in Task : ~(Send(k) /\ rec[k].id = c)
      PROVE  /\ handed'[c] = handed[c]
             /\ InChannel(c)' => InChannel(c)
             /\ OneQueued(c) => OneQueued(c)'
  BY <1>1, <1>3, QueueFewer
<1>4. CASE Calm
  <2>1. \A j \in Task : Carries(j, c)' <=> Carries(j, c)
    BY <1>4, CarriesSame DEF Calm
  <2>2. late' = late
    BY <1>4 DEF Calm
  <2>3. CASE \A k \in Task : ~(Send(k) /\ rec[k].id = c)
    BY <1>3, <2>1, <2>2, <2>3 DEF IsHandled, IsLate
  <2>4. QED
    BY <1>2, <1>4, <2>3
<1>5. ASSUME NEW k \in Task, TakeCommand(k) PROVE Stays(c)
  <2>1. sid[k] \in Session /\ Takes(sid[k])
    BY <1>5 DEF VenueInv, Seated, TakeCommand, AtLoop, Takes
  <2>2. \A j \in Task : ~Send(j)
    <3>1. pc' = pc /\ pc \in [Task -> Label]
      BY <1>1, <2>1 DEF Takes, taskVars, RuntimeTypeInv, RuntimeTypeOK
    <3>2. ASSUME NEW j \in Task, Send(j) PROVE FALSE
      <4>1. pc[j] = "send" /\ pc'[j] \in {"dispatch", "idle", "off"}
        BY <3>1, <3>2 DEF Send, Loop
      <4>2. QED
        BY <3>1, <4>1
    <3>3. QED
      BY <3>2
  <2>3. late' = late /\ phase[k] = "select"
        /\ doing' = [doing EXCEPT ![k] = Head(chan[sid[k]].queue)]
        /\ phase' = [phase EXCEPT ![k] = "trade"]
    BY <1>5 DEF TakeCommand, brokerVars, Enter, AtLoop
  <2>4. \A j \in Task : j # k => (Carries(j, c)' <=> Carries(j, c))
    BY <1>1, <2>3 DEF Carries
  <2>5. ~Carries(k, c) /\ (Carries(k, c)' <=> Head(chan[sid[k]].queue).id = c)
    BY <1>1, <2>3 DEF Carries, Busy
  <2>6. Head(chan[sid[k]].queue).id = c => InChannel(c) /\ (OneQueued(c) => ~InChannel(c)')
    BY <1>1, <2>1, TakesMoves, TakenOut DEF InChannel
  <2>7. QED
    BY <1>3, <2>2, <2>3, <2>4, <2>5, <2>6 DEF IsHandled, IsLate
<1>6. ASSUME NEW k \in Task, Trade(k) PROVE Stays(c)
  <2>1. UNCHANGED <<chan, handed, late, doing>>
    BY <1>6 DEF Trade, runtimeVars
  <2>2. phase[k] = "trade" /\ \E p \in Busy : phase' = [phase EXCEPT ![k] = p]
    BY <1>6 DEF Trade, Enter, Busy
  <2>3. \A j \in Task : Carries(j, c)' <=> Carries(j, c)
    BY <1>1, <2>1, <2>2 DEF Carries, Busy
  <2>4. QED
    BY <2>1, <2>3 DEF IsHandled, IsLate, InChannel, OneQueued
<1>7. ASSUME NEW k \in Task, Answer(k) PROVE Stays(c)
  <2>1. UNCHANGED <<chan, handed>>
    BY <1>7 DEF Answer, HandleAck, runtimeVars
  <2>2. /\ phase[k] \in Busy
        /\ late' = late \/ late' = late \cup {doing[k]}
        /\ phase' = [phase EXCEPT ![k] = "select"]
        /\ doing' = [doing EXCEPT ![k] = Idle]
    BY <1>7 DEF Answer, Enter, Busy
  <2>3. ~Carries(k, c)' /\ \A j \in Task : j # k => (Carries(j, c)' <=> Carries(j, c))
    BY <1>1, <2>2 DEF Carries, Busy
  <2>4. IsLate(c)' => IsLate(c) \/ (Carries(k, c) /\ late' = late \cup {doing[k]})
    BY <2>2 DEF IsLate, Carries
  <2>5. InChannel(c)' = InChannel(c) /\ OneQueued(c)' = OneQueued(c)
    BY <2>1 DEF InChannel, OneQueued
  <2>6. ASSUME OneOf(c) PROVE \A d, e \in late' : d.id = c /\ e.id = c => d = e
    <3>1. CASE Carries(k, c)
      BY <2>2, <2>6, <3>1 DEF IsHandled, IsLate
    <3>2. CASE ~Carries(k, c)
      BY <2>2, <2>6, <3>2 DEF Carries
    <3>3. QED
      BY <3>1, <3>2
  <2>7. QED
    BY <2>1, <2>3, <2>4, <2>5, <2>6 DEF IsHandled
<1>8. ASSUME NEW d \in late, ExecuteLate(d) PROVE Stays(c)
  <2>1. UNCHANGED <<chan, handed, phase, doing>> /\ late' = late \ {d}
    BY <1>8 DEF ExecuteLate, runtimeVars, venueVars
  <2>2. QED
    BY <2>1 DEF InChannel, OneQueued, Carries, IsHandled, IsLate
<1>9. CASE Crash
  <2>1. /\ \A s \in Session : chan'[s].queue = <<>>
        /\ handed' = handed
        /\ \A k \in Task : phase'[k] = "startup"
        /\ late' = late \cup {doing[k] : k \in {j \in Task : phase[j] = "trade"}}
    BY <1>9 DEF Crash
  <2>2. ~InChannel(c)' /\ ~IsHandled(c)' /\ OneQueued(c)'
    BY <2>1 DEF InChannel, IsHandled, Carries, Busy, OneQueued
  <2>3. IsLate(c)' => IsLate(c) \/ IsHandled(c)
    BY <2>1 DEF IsLate, IsHandled, Carries, Busy
  <2>4. ASSUME OneOf(c), NEW d \in late', NEW e \in late', d.id = c, e.id = c PROVE d = e
    <3>1. \A f \in late' : f.id = c =>
            f \in late \/ \E k \in Task : f = doing[k] /\ Carries(k, c)
      BY <2>1 DEF Carries, Busy
    <3>2. QED
      BY <2>4, <3>1 DEF IsHandled, IsLate
  <2>5. QED
    BY <2>1, <2>2, <2>3, <2>4 DEF IsHandled, Carries
<1>10. QED
  BY <1>4, <1>5, <1>6, <1>7, <1>8, <1>9, StepCases

(* A command was answered: it was handed over, and if only once it is       *)
(* nowhere any more; nothing is left of the position it opened.  Neither    *)
(* is ever undone.                                                          *)
Answered(c)   == handed[c] > 0 /\ (handed[c] = 1 => ~Abroad(c))
Emptied(c)    == Answered(c) /\ (handed[c] = 1 => book[c] = 0)
IsExecuted(c) == \E k \in Task : Carries(k, c) /\ phase[k] = "executed"

AnsweredStep == \A c \in CommandId : Answered(c) => Answered(c)'

LEMMA StaysAnswered ==
    ASSUME VenueInv, [Next]_vars
    PROVE  AnsweredStep
<1> SUFFICES ASSUME NEW c \in CommandId, Answered(c) PROVE Answered(c)'
  BY DEF AnsweredStep
<1>1. handed[c] \in 0..2
  BY DEF VenueInv, TypeOK, RuntimeTypeOK
<1>2. CASE Stays(c)
  BY <1>2 DEF Stays, Answered
<1>3. CASE HandsOver(c)
  BY <1>1, <1>3, SMT DEF HandsOver, Answered
<1>4. QED
  BY <1>2, <1>3, TokensStep

(* The positions that bindings and commands may name, and their keys.       *)
AnsweredIds  == {c \in CommandId : Answered(c)}
EmptiedIds   == {c \in CommandId : Emptied(c)}
AnsweredRefs == OpenRefs(AnsweredIds)

LEMMA RefsGrow ==
    ASSUME AnsweredStep
    PROVE  AnsweredRefs \subseteq AnsweredRefs'
BY DEF AnsweredStep, AnsweredRefs, AnsweredIds, OpenRefs

(* What the tasks and the broker hold was built from an event, and what     *)
(* changes a position names one that is known.                              *)
HeldInv ==
    /\ \A k \in Task : phase[k] \in Busy =>
         /\ SoundCommand(doing[k]) /\ Refers(doing[k], AnsweredRefs)
         /\ phase[k] = "executed" /\ doing[k].action = "close" =>
              \A c \in CommandId : doing[k].position = c => Emptied(c)
    /\ \A d \in late : SoundCommand(d) /\ Refers(d, AnsweredRefs)

LEMMA ExecuteBook ==
    ASSUME book \in [CommandId -> Nat], NEW d \in CommandType, Execute(d), NEW c \in CommandId
    PROVE  /\ book'[c] \in Nat
           /\ \/ book'[c] = book[c]
              \/ d.action = "open" /\ c = d.id
              \/ d.action # "open" /\ c = d.position /\ (book[c] = 0 => book'[c] = 0)
           /\ d.action = "close" /\ c = d.position => book'[c] = 0
<1>1. d.id \in CommandId /\ d.volume \in Nat /\ d.action \in Action
  BY SMT DEF CommandType
<1>2. \A i \in CommandId : /\ book[i] \in Nat /\ book[i] + d.volume \in Nat
                           /\ NotNegative(book[i] - d.volume) \in Nat
                           /\ book[i] = 0 => NotNegative(book[i] - d.volume) = 0
  BY <1>1, SMT DEF NotNegative
<1>3. \/ d.action = "open" /\ book' = [book EXCEPT ![d.id] = book[d.id] + d.volume]
      \/ d.action = "modify" /\ book' = book
      \/ /\ d.action = "reduce"
         /\ book' = [book EXCEPT ![d.position] = NotNegative(book[d.position] - d.volume)]
      \/ d.action = "close" /\ book' = [book EXCEPT ![d.position] = 0]
  BY <1>1, SMT DEF Execute, Action
<1>4. QED
  BY <1>1, <1>2, <1>3

LEMMA IdsTelling == IdsTell
BY ReportAssumption DEF IdsTell

LEMMA RefersOpened ==
    ASSUME NEW d, Refers(d, AnsweredRefs), d.action # "open"
    PROVE  /\ d.position \in CommandId /\ Opens(d.position) /\ Answered(d.position)
           /\ KeyOfId(d.position) = KeyOf(d.source, d.order, d.target)
BY DEF Refers, AnsweredRefs, AnsweredIds, OpenRefs

(* The broker changes what it holds of position c only for a command that   *)
(* is under way, and makes something of nothing only for c itself.          *)
LEMMA BookStep ==
    ASSUME VenueInv, HeldInv, [Next]_vars, NEW c \in CommandId
    PROVE  /\ book'[c] \in Nat /\ book[c] \in Nat
           /\ book'[c] # book[c] => Opens(c) /\ UNCHANGED runtimeVars
           /\ book[c] = 0 /\ book'[c] # 0 =>
                Abroad(c) /\ (OneOf(c) => IsExecuted(c)' \/ ~Abroad(c)')
<1>1. /\ book \in [CommandId -> Nat]
      /\ phase \in [Task -> {"startup", "select", "trade", "executed", "refused", "diff"}]
      /\ \A k \in Task : phase[k] \in Busy => doing[k] \in CommandType
      /\ late \in SUBSET CommandType
      /\ IdsTell
  BY IdsTelling DEF VenueInv, TypeOK, Busy
<1>2. CASE book' = book
  BY <1>1, <1>2
<1>3. ASSUME NEW d \in CommandType, Execute(d), UNCHANGED runtimeVars, SoundCommand(d),
             Refers(d, AnsweredRefs), Abroad(d.id),
             d.id = c => (OneOf(c) => IsExecuted(c)' \/ ~Abroad(c)')
      PROVE  /\ book'[c] \in Nat /\ book[c] \in Nat
             /\ book'[c] # book[c] => Opens(c) /\ UNCHANGED runtimeVars
             /\ book[c] = 0 /\ book'[c] # 0 =>
                  Abroad(c) /\ (OneOf(c) => IsExecuted(c)' \/ ~Abroad(c)')
  <2>1. \/ book'[c] = book[c]
        \/ d.action = "open" /\ c = d.id
        \/ d.action # "open" /\ c = d.position /\ (book[c] = 0 => book'[c] = 0)
    BY <1>1, <1>3, ExecuteBook
  <2>2. book'[c] \in Nat
    BY <1>1, <1>3, ExecuteBook
  <2>3. d.action = "open" => Opens(d.id)
    BY <1>1, <1>3, IdTells
  <2>4. d.action # "open" => Opens(d.position)
    BY <1>3, RefersOpened
  <2>5. QED
    BY <1>1, <1>3, <2>1, <2>2, <2>3, <2>4
<1>4. ASSUME NEW k \in Task, Trade(k), book' # book
      PROVE  /\ book'[c] \in Nat /\ book[c] \in Nat
             /\ book'[c] # book[c] => Opens(c) /\ UNCHANGED runtimeVars
             /\ book[c] = 0 /\ book'[c] # 0 =>
                  Abroad(c) /\ (OneOf(c) => IsExecuted(c)' \/ ~Abroad(c)')
  <2>1. /\ phase[k] = "trade" /\ Execute(doing[k]) /\ phase' = [phase EXCEPT ![k] = "executed"]
        /\ UNCHANGED runtimeVars /\ doing' = doing
    BY <1>4 DEF Trade, Enter
  <2>2. phase[k] \in Busy /\ phase'[k] = "executed"
    BY <1>1, <2>1 DEF Busy
  <2>3. doing[k] \in CommandType /\ SoundCommand(doing[k]) /\ Refers(doing[k], AnsweredRefs)
    BY <1>1, <2>2 DEF HeldInv
  <2>4. Abroad(doing[k].id)
    BY <2>2 DEF Abroad, IsHandled, Carries
  <2>5. doing[k].id = c => IsExecuted(c)'
    BY <2>1, <2>2 DEF IsExecuted, Carries, Busy
  <2>6. QED
    BY <1>3, <2>1, <2>3, <2>4, <2>5
<1>5. ASSUME NEW d \in late, ExecuteLate(d)
      PROVE  /\ book'[c] \in Nat /\ book[c] \in Nat
             /\ book'[c] # book[c] => Opens(c) /\ UNCHANGED runtimeVars
             /\ book[c] = 0 /\ book'[c] # 0 =>
                  Abroad(c) /\ (OneOf(c) => IsExecuted(c)' \/ ~Abroad(c)')
  <2>1. /\ Execute(d) /\ UNCHANGED runtimeVars /\ UNCHANGED <<phase, doing, chan>>
        /\ late' = late \ {d}
    BY <1>5 DEF ExecuteLate, venueVars, runtimeVars
  <2>2. d \in CommandType /\ SoundCommand(d) /\ Refers(d, AnsweredRefs)
    BY <1>1 DEF HeldInv
  <2>3. Abroad(d.id)
    BY DEF Abroad, IsLate
  <2>4. d.id = c => (OneOf(c) => ~Abroad(c)')
    BY <2>1 DEF OneOf, Abroad, IsLate, IsHandled, Carries, InChannel
  <2>5. QED
    BY <1>3, <2>1, <2>2, <2>3, <2>4
<1>6. book' = book \/ (\E k \in Task : Trade(k)) \/ (\E d \in late : ExecuteLate(d))
  BY StepCases DEF Calm, TakeCommand, Answer, Crash, brokerVars
<1>7. QED
  BY <1>2, <1>4, <1>5, <1>6

LEMMA StaysEmptied ==
    ASSUME VenueInv, HeldInv, [Next]_vars, NEW c \in CommandId, Emptied(c)
    PROVE  Emptied(c)'
<1>1. Answered(c)'
  BY StaysAnswered DEF AnsweredStep, Emptied
<1>2. handed[c] \in 0..2 /\ (Stays(c) \/ HandsOver(c))
  BY TokensStep DEF VenueInv, TypeOK, RuntimeTypeOK
<1>3. handed'[c] = 1 => handed[c] = 1
  BY <1>2, SMT DEF Emptied, Answered, Stays, HandsOver
<1>4. handed'[c] = 1 => book'[c] = 0
  BY <1>3, BookStep DEF Emptied, Answered
<1>5. QED
  BY <1>1, <1>4 DEF Emptied

(* What is known of the tasks, the journal and the reports without asking   *)
(* what the broker executed.                                                *)
Ground ==
    /\ VenueLedger /\ HandedInv /\ SeasonedInv /\ ShelvedInv /\ ReachInv /\ BuiltInv
    /\ ReportInv

LEMMA GroundStart ==
    ASSUME Init
    PROVE  Ground
<1>1. VenueInv /\ ReportInv /\ RuntimeInit
  BY VenueStart, ReportStart DEF Init
<1>2. LedgerInv /\ HandedInv /\ SeasonedInv /\ ShelvedInv /\ ReachInv /\ BuiltInv
  BY <1>1, LedgerStart, HandedStart, SeasonedStart, ShelvedStart, ReachStart, BuiltStart
<1>3. Pursued
  BY DEF Init, FreshVenues, Pursued
<1>4. QED
  BY <1>1, <1>2, <1>3 DEF Ground, VenueLedger

LEMMA GroundStep ==
    ASSUME Ground, [Next]_vars
    PROVE  Ground'
<1>1. VenueInv /\ LedgerInv /\ RuntimeStep(AckType) /\ RuntimeStep(IssuedAcks)
  BY AnyStep, StepAcknowledged DEF Ground, VenueLedger
<1>2. VenueLedger' /\ ReportInv'
  BY VenueLedgerStep, ReportStep DEF Ground
<1>3. HandedInv'
  BY <1>1, HandedStep DEF Ground
<1>4. SeasonedInv' /\ ShelvedInv' /\ ReachInv'
  BY <1>1, SeasonedStep, ShelvedStep, ReachStep, VenueAssumption DEF OnePublisher, Ground
<1>5. BuiltInv'
  BY <1>1, BuiltStep DEF Ground, ReachInv
<1>6. QED
  BY <1>2, <1>3, <1>4, <1>5 DEF Ground

(* What each command has gone through.  While it is under way it is tracked,*)
(* in memory and in the journal, and its position is empty until the task   *)
(* that carries it has seen it executed.                                    *)
Passage(c) ==
    /\ Abroad(c) => handed[c] > 0
    /\ handed[c] = 1 => OneOf(c)
    /\ handed[c] = 0 => book[c] = 0 /\ c \notin settled
    /\ ~Opens(c) => book[c] = 0
    /\ handed[c] = 1 /\ Abroad(c) => Tracked(mem, c) /\ Tracked(file, c)
    /\ handed[c] = 1 /\ Abroad(c) /\ Opens(c) /\ ~IsExecuted(c) => book[c] = 0

Passages == \A c \in CommandId : Passage(c)

(* What a task appends as an acknowledgement fits what was answered.        *)
Judged == Verdicts(pc, rec, AnsweredIds, EmptiedIds)
Linked == References(mem, file, rec, todo, chan, AnsweredRefs)

(* A position the broker opened is bound, or its command is still tracked.  *)
Kept(s) == \A c \in CommandId : Opens(c) /\ handed[c] = 1 /\ book[c] > 0 => Safe(s, c)

FillInv ==
    /\ Ground /\ HeldInv /\ Passages /\ Judged /\ Linked
    /\ ~blind => Kept(mem) /\ Kept(file)

(* The task that saw a command executed answers it, and nothing else of it  *)
(* is left then.                                                            *)
LEMMA ExecutedStays ==
    ASSUME VenueInv, [Next]_vars, NEW c \in CommandId, OneOf(c), IsExecuted(c)
    PROVE  IsExecuted(c)' \/ ~Abroad(c)'
<1>1. /\ phase \in [Task -> {"startup", "select", "trade", "executed", "refused", "diff"}]
      /\ doing \in [Task -> CommandType \cup {Idle}]
  BY DEF VenueInv, TypeOK
<1>2. PICK k \in Task : Carries(k, c) /\ phase[k] = "executed"
  BY DEF IsExecuted
<1>3. CASE phase'[k] = phase[k] /\ doing'[k] = doing[k]
  BY <1>2, <1>3 DEF IsExecuted, Carries
<1>4. CASE Answer(k)
  <2>1. /\ chan' = chan /\ late' = late
        /\ phase' = [phase EXCEPT ![k] = "select"] /\ doing' = [doing EXCEPT ![k] = Idle]
    BY <1>2, <1>4 DEF Answer, HandleAck, runtimeVars, Enter
  <2>2. \A j \in Task : ~Carries(j, c)'
    BY <1>1, <1>2, <2>1 DEF OneOf, Carries, Busy
  <2>3. ~InChannel(c) /\ ~IsLate(c)
    BY <1>2 DEF OneOf, IsHandled
  <2>4. QED
    BY <2>1, <2>2, <2>3 DEF Abroad, InChannel, IsLate, IsHandled
<1>5. CASE Crash
  <2>1. /\ \A s \in Session : chan'[s].queue = <<>>
        /\ \A j \in Task : phase'[j] = "startup"
        /\ late' = late \cup {doing[j] : j \in {i \in Task : phase[i] = "trade"}}
    BY <1>5 DEF Crash
  <2>2. ~InChannel(c)' /\ ~IsHandled(c)'
    BY <2>1 DEF InChannel, IsHandled, Carries, Busy
  <2>3. \A d \in late' : d.id # c
    <3>1. \A j \in Task : phase[j] = "trade" => doing[j].id # c
      BY <1>2 DEF OneOf, Carries, Busy
    <3>2. ~IsLate(c)
      BY <1>2 DEF OneOf, IsHandled
    <3>3. QED
      BY <2>1, <3>1, <3>2 DEF IsLate
  <2>4. QED
    BY <2>2, <2>3 DEF Abroad, IsLate
<1>6. ASSUME NEW j \in Task, TakeCommand(j) \/ Trade(j) \/ (Answer(j) /\ j # k)
      PROVE  phase'[k] = phase[k] /\ doing'[k] = doing[k]
  <2>1. CASE TakeCommand(j)
    BY <1>1, <1>2, <2>1 DEF TakeCommand, AtLoop, Enter
  <2>2. CASE Trade(j)
    BY <1>1, <1>2, <2>2 DEF Trade, Enter
  <2>3. CASE Answer(j) /\ j # k
    BY <1>1, <1>2, <2>3 DEF Answer, Enter
  <2>4. QED
    BY <1>6, <2>1, <2>2, <2>3
<1>7. Calm => phase'[k] = phase[k] /\ doing'[k] = doing[k]
  BY <1>2 DEF Calm, Rests, Carries
<1>8. ASSUME NEW d \in late, ExecuteLate(d) PROVE phase'[k] = phase[k] /\ doing'[k] = doing[k]
  BY <1>8 DEF ExecuteLate, venueVars
<1>9. QED
  BY <1>3, <1>4, <1>5, <1>6, <1>7, <1>8, StepCases

LEMMA PassageStep ==
    ASSUME Ground, HeldInv, Passages, Judged, [Next]_vars
    PROVE  Passages'
<1> SUFFICES ASSUME NEW c \in CommandId PROVE Passage(c)'
  BY DEF Passages
<1> USE DEF Passage
<1>1. VenueInv /\ LedgerInv /\ KeyedInv /\ RuntimeStep(AckType) /\ SeasonedInv
  BY AnyStep DEF Ground, VenueLedger, LedgerInv
<1>2. Passage(c) /\ handed[c] \in 0..2
  BY <1>1 DEF Passages, VenueInv, TypeOK, RuntimeTypeOK
<1>3. /\ book'[c] \in Nat /\ book[c] \in Nat
      /\ book'[c] # book[c] => Opens(c) /\ UNCHANGED runtimeVars
      /\ book[c] = 0 /\ book'[c] # 0 =>
           Abroad(c) /\ (OneOf(c) => IsExecuted(c)' \/ ~Abroad(c)')
  BY <1>1, BookStep
<1>4. \A k \in Task : IsFinalAck(rec[k]) /\ rec[k].id = c => Answered(c)
  BY DEF Judged, Verdicts, Verdict, IsFinalAck, AnsweredIds
<1>5. CASE HandsOver(c)
  <2>1. PICK k \in Task : Send(k) /\ rec[k].id = c
    BY <1>5 DEF HandsOver
  <2>2. handed'[c] \in {1, 2} /\ (handed'[c] = 1 => handed[c] = 0)
    BY <1>2, <1>5, SMT DEF HandsOver
  <2>3. handed[c] = 0 => OneOf(c)'
    BY <1>2, <1>5 DEF HandsOver
  <2>4. UNCHANGED <<mem, file, settled, book>>
    BY <1>5 DEF HandsOver
  <2>5. handed[c] = 0 => Tracked(mem, c) /\ Tracked(file, c)
    <3>1. pc[k] = "send"
      BY <2>1 DEF Send
    <3>2. rec[k].kind = "CommandDispatched"
      BY <1>1, <3>1 DEF KeyedInv, RuntimeTypeInv, Standing
    <3>3. Seasoned(c) /\ Issued(c)
      BY <1>1, <2>1, <3>1, <3>2 DEF SeasonedInv, SeasonedTask, NoRecord, IsPlanned, LedgerInv, LedgerTask
    <3>4. QED
      BY <1>2, <3>3 DEF Seasoned, Issued, Stage, Tracked
  <2>6. QED
    BY <1>2, <2>2, <2>3, <2>4, <2>5
<1>6. CASE Stays(c)
  <2>1. handed'[c] = handed[c] /\ (Abroad(c)' => Abroad(c)) /\ (OneOf(c) => OneOf(c)')
    BY <1>6 DEF Stays
  <2>2. handed[c] = 0 => book'[c] = 0 /\ c \notin settled'
    BY <1>1, <1>2, <1>3, <1>4, SettledMoves DEF Answered
  <2>3. handed[c] = 1 /\ Abroad(c) => Tracked(mem', c) /\ Tracked(file', c)
    BY <1>1, <1>2, <1>4, TrackedMoves DEF Answered
  <2>4. handed[c] = 1 /\ Abroad(c)' /\ Opens(c) /\ ~IsExecuted(c)' => book'[c] = 0
    <3>1. CASE IsExecuted(c)
      BY <1>1, <1>2, <2>1, <3>1, ExecutedStays
    <3>2. CASE ~IsExecuted(c)
      BY <1>2, <1>3, <2>1, <3>2
    <3>3. QED
      BY <3>1, <3>2
  <2>5. ~Opens(c) => book'[c] = 0
    BY <1>2, <1>3
  <2>6. QED
    BY <1>2, <2>1, <2>2, <2>3, <2>4, <2>5
<1>7. QED
  BY <1>1, <1>5, <1>6, TokensStep

(* Where the commands that tasks and broker hold come from.                 *)
LEMMA HeldFrom ==
    ASSUME VenueInv, [Next]_vars
    PROVE  /\ \A k \in Task : phase'[k] \in Busy =>
                \/ TakeCommand(k) /\ doing'[k] = Head(chan[sid[k]].queue) /\ phase'[k] = "trade"
                \/ phase[k] \in Busy /\ doing'[k] = doing[k] /\ phase'[k] # "executed"
                \/ phase[k] = "executed" /\ doing'[k] = doing[k]
                \/ Execute(doing[k]) /\ phase[k] = "trade" /\ doing'[k] = doing[k]
           /\ \A d \in late' : d \in late \/ \E k \in Task : phase[k] \in Busy /\ d = doing[k]
<1>1. /\ phase \in [Task -> {"startup", "select", "trade", "executed", "refused", "diff"}]
      /\ doing \in [Task -> CommandType \cup {Idle}]
  BY DEF VenueInv, TypeOK
<1> DEFINE From(k) ==
      phase'[k] \in Busy =>
        \/ TakeCommand(k) /\ doing'[k] = Head(chan[sid[k]].queue) /\ phase'[k] = "trade"
        \/ phase[k] \in Busy /\ doing'[k] = doing[k] /\ phase'[k] # "executed"
        \/ phase[k] = "executed" /\ doing'[k] = doing[k]
        \/ Execute(doing[k]) /\ phase[k] = "trade" /\ doing'[k] = doing[k]
<1> DEFINE LateFrom == \A d \in late' : d \in late \/ \E k \in Task : phase[k] \in Busy /\ d = doing[k]
<1>2. \A k \in Task : Rests(k) => From(k)
  BY DEF Rests, Busy
<1>3. CASE Calm
  BY <1>2, <1>3 DEF Calm
<1>4. CASE Crash
  BY <1>4 DEF Crash, Busy
<1>5. ASSUME NEW j \in Task, TakeCommand(j) PROVE (\A k \in Task : From(k)) /\ LateFrom
  <2>1. /\ phase' = [phase EXCEPT ![j] = "trade"] /\ late' = late
        /\ doing' = [doing EXCEPT ![j] = Head(chan[sid[j]].queue)]
    BY <1>5 DEF TakeCommand, Enter, brokerVars
  <2>2. From(j)
    BY <1>1, <1>5, <2>1
  <2>3. \A k \in Task \ {j} : Rests(k)
    BY <1>1, <2>1 DEF Rests
  <2>4. QED
    BY <1>2, <2>1, <2>2, <2>3
<1>6. ASSUME NEW j \in Task, Trade(j) PROVE (\A k \in Task : From(k)) /\ LateFrom
  <2>1. /\ phase[j] = "trade" /\ late' = late /\ doing' = doing
        /\ \/ Execute(doing[j]) /\ phase' = [phase EXCEPT ![j] = "executed"]
           \/ phase' = [phase EXCEPT ![j] = "refused"]
    BY <1>6 DEF Trade, Enter
  <2>2. From(j)
    BY <1>1, <2>1 DEF Busy
  <2>3. \A k \in Task \ {j} : Rests(k)
    BY <1>1, <2>1 DEF Rests
  <2>4. QED
    BY <1>2, <2>1, <2>2, <2>3
<1>7. ASSUME NEW j \in Task, Answer(j) PROVE (\A k \in Task : From(k)) /\ LateFrom
  <2>1. /\ phase' = [phase EXCEPT ![j] = "select"] /\ doing' = [doing EXCEPT ![j] = Idle]
        /\ phase[j] \in Busy /\ (late' = late \/ late' = late \cup {doing[j]})
    BY <1>7 DEF Answer, Enter, Busy
  <2>2. From(j)
    BY <1>1, <2>1 DEF Busy
  <2>3. \A k \in Task \ {j} : Rests(k)
    BY <1>1, <2>1 DEF Rests
  <2>4. QED
    BY <1>2, <2>1, <2>2, <2>3
<1>8. ASSUME NEW d \in late, ExecuteLate(d) PROVE (\A k \in Task : From(k)) /\ LateFrom
  BY <1>2, <1>8 DEF ExecuteLate, venueVars, Rests
<1>9. QED
  BY <1>3, <1>4, <1>5, <1>6, <1>7, <1>8, StepCases

LEMMA HeldStep ==
    ASSUME Ground, HeldInv, Linked, [Next]_vars
    PROVE  HeldInv'
<1>1. VenueInv /\ ReachInv /\ AnsweredStep
  BY StaysAnswered DEF Ground, VenueLedger
<1>2. ASSUME NEW d, Refers(d, AnsweredRefs) PROVE Refers(d, AnsweredRefs')
  BY <1>1, <1>2, RefsGrow DEF Refers
<1>3. ASSUME NEW k \in Task, phase'[k] \in Busy
      PROVE  /\ SoundCommand(doing'[k]) /\ Refers(doing'[k], AnsweredRefs')
             /\ phase'[k] = "executed" /\ doing'[k].action = "close" =>
                  \A c \in CommandId : doing'[k].position = c => Emptied(c)'
  <2>1. CASE TakeCommand(k) /\ doing'[k] = Head(chan[sid[k]].queue) /\ phase'[k] = "trade"
    <3>1. sid[k] \in Session /\ chan[sid[k]].queue # <<>> /\ RuntimeTypeInv /\ Takes(sid[k])
      BY <1>1, <2>1 DEF VenueInv, Seated, TakeCommand, AtLoop, Takes
    <3>2. SoundCommand(doing'[k])
      BY <1>1, <2>1, <3>1, TakenCarried DEF Carried
    <3>3. Refers(doing'[k], AnsweredRefs)
      BY <2>1, <3>1, TakesMoves DEF Linked, References, Mentions, Among, InQueue, Referring
    <3>4. QED
      BY <1>2, <2>1, <3>2, <3>3
  <2>2. CASE phase[k] \in Busy /\ doing'[k] = doing[k] /\ phase'[k] # "executed"
    BY <1>2, <2>2 DEF HeldInv
  <2>3. CASE phase[k] = "executed" /\ doing'[k] = doing[k]
    <3>1. SoundCommand(doing[k]) /\ Refers(doing[k], AnsweredRefs)
      BY <2>3 DEF HeldInv, Busy
    <3>2. ASSUME doing[k].action = "close", NEW c \in CommandId, doing[k].position = c
          PROVE  Emptied(c)'
      BY <1>1, <2>3, <3>2, StaysEmptied DEF HeldInv, Busy
    <3>3. QED
      BY <1>2, <2>3, <3>1, <3>2
  <2>4. CASE Execute(doing[k]) /\ phase[k] = "trade" /\ doing'[k] = doing[k]
    <3>1. SoundCommand(doing[k]) /\ Refers(doing[k], AnsweredRefs) /\ doing[k] \in CommandType
      BY <1>1, <2>4 DEF HeldInv, Busy, VenueInv
    <3>2. ASSUME doing[k].action = "close", NEW c \in CommandId, doing[k].position = c
          PROVE  Emptied(c)'
      <4>1. Answered(c)'
        BY <1>1, <3>1, <3>2, RefersOpened DEF AnsweredStep
      <4>2. book'[c] = 0
        BY <1>1, <2>4, <3>1, <3>2, ExecuteBook DEF VenueInv, TypeOK
      <4>3. QED
        BY <4>1, <4>2 DEF Emptied
    <3>3. QED
      BY <1>2, <2>4, <3>1, <3>2
  <2>5. QED
    BY <1>1, <1>3, <2>1, <2>2, <2>3, <2>4, HeldFrom
<1>4. ASSUME NEW d \in late' PROVE SoundCommand(d) /\ Refers(d, AnsweredRefs')
  <2>1. SoundCommand(d) /\ Refers(d, AnsweredRefs)
    BY <1>1, HeldFrom DEF HeldInv
  <2>2. QED
    BY <1>2, <2>1
<1>5. QED
  BY <1>3, <1>4 DEF HeldInv

(* A definite answer leaves nothing of the command under way.               *)
LEMMA AnswerGone ==
    ASSUME VenueInv, Passages, NEW k \in Task, Answer(k), late' = late,
           NEW c \in CommandId, doing[k].id = c
    PROVE  Answered(c)'
<1>1. /\ phase \in [Task -> {"startup", "select", "trade", "executed", "refused", "diff"}]
      /\ doing \in [Task -> CommandType \cup {Idle}]
  BY DEF VenueInv, TypeOK
<1>2. /\ UNCHANGED <<chan, handed>> /\ phase[k] \in Busy
      /\ phase' = [phase EXCEPT ![k] = "select"] /\ doing' = [doing EXCEPT ![k] = Idle]
  BY DEF Answer, HandleAck, runtimeVars, Enter, Busy
<1>3. Carries(k, c) /\ handed[c] > 0
  BY <1>2 DEF Carries, Passages, Passage, Abroad, IsHandled
<1>4. ASSUME handed[c] = 1 PROVE ~Abroad(c)'
  <2>1. OneOf(c)
    BY <1>4 DEF Passages, Passage
  <2>2. ~InChannel(c) /\ ~IsLate(c) /\ \A j \in Task : j # k => ~Carries(j, c)
    BY <1>3, <2>1 DEF OneOf, IsHandled
  <2>3. \A j \in Task : ~Carries(j, c)'
    BY <1>1, <1>2, <2>2 DEF Carries, Busy
  <2>4. QED
    BY <1>2, <2>2, <2>3 DEF Abroad, InChannel, IsLate, IsHandled
<1>5. QED
  BY <1>2, <1>3, <1>4 DEF Answered

(* The commands a task is told about have, by their ids, the action and the *)
(* key of the command it carries.                                           *)
LEMMA SameCommand ==
    ASSUME Ground, HeldInv, NEW k \in Task, phase[k] \in Busy, Tracked(mem, doing[k].id)
    PROVE  LET c == mem.commands[doing[k].id].command
           IN  /\ doing[k].id \in CommandId
               /\ c.action = doing[k].action /\ (c.action = "open" <=> Opens(doing[k].id))
               /\ KeyOf(c.source, c.order, c.target) = KeyOfId(doing[k].id)
               /\ KeyOf(doing[k].source, doing[k].order, doing[k].target) = KeyOfId(doing[k].id)
<1>1. SoundCommand(doing[k]) /\ IdsTell
  BY IdsTelling DEF HeldInv
<1>2. /\ doing[k].id \in CommandId /\ doing[k].action = ActionOf(doing[k].id)
      /\ KeyOf(doing[k].source, doing[k].order, doing[k].target) = KeyOfId(doing[k].id)
  BY <1>1, IdTells
<1>3. MirrorInv /\ KeyedInv
  BY DEF Ground, ReachInv, MirrorInv, OrderlyInv
<1> DEFINE c == mem.commands[doing[k].id].command
<1>4. SoundCommand(c) /\ c.id = doing[k].id
  BY <1>2, <1>3 DEF MirrorInv, SoundState, KeyedInv, WellKeyed
<1>5. /\ c.action = ActionOf(c.id) /\ (c.action = "open" <=> Opens(c.id))
      /\ KeyOf(c.source, c.order, c.target) = KeyOfId(c.id)
  BY <1>1, <1>4, IdTells
<1>6. QED
  BY <1>2, <1>4, <1>5

(* An answer fits what has been answered with it.                           *)
LEMMA AnswerFits ==
    ASSUME Ground, HeldInv, Passages, [Next]_vars, NEW k \in Task, Answer(k),
           NEW ack \in Answers(doing[k], phase[k] = "executed"), Tracked(mem, ack.id),
           late' = IF ack.status = "unknown" /\ phase[k] = "refused"
                   THEN late \cup {doing[k]} ELSE late
    PROVE  Fits(ack, AnsweredIds', EmptiedIds')
<1> DEFINE c == mem.commands[ack.id].command
<1> SUFFICES ASSUME ack.status # "unknown"
             PROVE  /\ ack.id \in AnsweredIds'
                    /\ ack.status \in Success /\ c.action = "close" =>
                         \E x \in CommandId :
                            Opens(x) /\ KeyOfId(x) = KeyOf(c.source, c.order, c.target)
                              /\ x \in EmptiedIds'
                    /\ c.action = "open" =>
                         /\ ack.status \notin Success => ack.id \in EmptiedIds'
                         /\ ack.status \in Success => ack.position \in {NoPosition, ack.id}
  BY DEF Fits
<1>1. /\ phase[k] \in {"executed", "refused"} /\ phase[k] \in Busy
      /\ ack.id = doing[k].id /\ ack.position \in {NoPosition, ack.id}
      /\ \/ ack.status = "filled" /\ phase[k] = "executed"
         \/ ack.status = "rejected" /\ phase[k] = "refused"
  BY DEF Answer, Answers, Acknowledge, Busy
<1>2. VenueInv
  BY DEF Ground, VenueLedger
<1>3. /\ ack.id \in CommandId /\ c.action = doing[k].action
      /\ c.action = "open" <=> Opens(ack.id)
      /\ KeyOf(c.source, c.order, c.target)
           = KeyOf(doing[k].source, doing[k].order, doing[k].target)
  BY <1>1, SameCommand
<1> HIDE DEF c
<1>4. late' = late
  OBVIOUS
<1>5. PICK d \in CommandId : d = ack.id
  BY <1>3
<1>6. Answered(d)'
  BY <1>1, <1>2, <1>4, <1>5, AnswerGone
<1>7. ASSUME c.action = "close", phase[k] = "executed"
      PROVE  \E x \in CommandId :
               Opens(x) /\ KeyOfId(x) = KeyOf(c.source, c.order, c.target) /\ x \in EmptiedIds'
  <2>1. PICK x \in CommandId : /\ x = doing[k].position /\ Opens(x)
                              /\ KeyOfId(x) = KeyOf(c.source, c.order, c.target)
    BY <1>1, <1>3, <1>7, RefersOpened DEF HeldInv
  <2>2. Emptied(x)
    BY <1>1, <1>3, <1>7, <2>1 DEF HeldInv
  <2>3. Emptied(x)'
    BY <1>2, <2>2, StaysEmptied
  <2>4. QED
    BY <2>1, <2>3 DEF EmptiedIds
<1>8. ASSUME c.action = "open", phase[k] = "refused" PROVE ack.id \in EmptiedIds'
  <2>1. Carries(k, d)
    BY <1>1, <1>5 DEF Carries
  <2>2. handed[d] = 1 => ~IsExecuted(d)
    BY <1>8, <2>1 DEF Passages, Passage, OneOf, IsExecuted
  <2>3. handed[d] = 1 => book[d] = 0
    BY <1>3, <1>5, <1>8, <2>1, <2>2 DEF Passages, Passage, Abroad, IsHandled
  <2>4. UNCHANGED <<handed, book>>
    BY DEF Answer, HandleAck, runtimeVars
  <2>5. Emptied(d)'
    BY <1>6, <2>3, <2>4 DEF Emptied
  <2>6. QED
    BY <1>5, <2>5 DEF EmptiedIds
<1>9. "filled" \in Success /\ "rejected" \notin Success
  BY DEF Success
<1>10. ack.id \in AnsweredIds'
  BY <1>5, <1>6 DEF AnsweredIds
<1>11. QED
  BY <1>1, <1>7, <1>8, <1>9, <1>10

FittingAcks == {ack \in AckType : Fits(ack, AnsweredIds', EmptiedIds')}

LEMMA StepFits ==
    ASSUME Ground, HeldInv, Passages, [Next]_vars
    PROVE  RuntimeStep(FittingAcks)
<1>1. VenueInv
  BY DEF Ground, VenueLedger
<1>2. CASE \E k \in Task : Answer(k)
  <2>1. PICK k \in Task : Answer(k)
    BY <1>2
  <2>2. PICK ack \in Answers(doing[k], phase[k] = "executed") :
          /\ IF Tracked(mem, ack.id) THEN HandleAck(k, ack) ELSE UNCHANGED runtimeVars
          /\ late' = IF ack.status = "unknown" /\ phase[k] = "refused"
                     THEN late \cup {doing[k]} ELSE late
    BY <2>1 DEF Answer
  <2>3. ack \in AckType
    BY <1>1, <2>1, <2>2, AnswerTyped DEF Answer, Executing
  <2>4. Tracked(mem, ack.id) => ack \in FittingAcks
    BY <2>1, <2>2, <2>3, AnswerFits DEF FittingAcks
  <2>5. QED
    BY <2>1, <2>2, <2>4 DEF RuntimeStep
<1>3. CASE Calm
  BY <1>3 DEF Calm, OwnStep, RuntimeStep
<1>4. CASE Crash
  BY <1>4 DEF Crash, RuntimeStep, Restarts, FreshTasks
<1>5. ASSUME NEW k \in Task, TakeCommand(k) PROVE RuntimeStep(FittingAcks)
  <2>1. sid[k] \in Session /\ Takes(sid[k])
    BY <1>1, <1>5 DEF VenueInv, Seated, TakeCommand, AtLoop, Takes
  <2>2. QED
    BY <2>1 DEF RuntimeStep
<1>6. ASSUME NEW k \in Task, Trade(k) PROVE RuntimeStep(FittingAcks)
  BY <1>6 DEF Trade, RuntimeStep
<1>7. ASSUME NEW c \in late, ExecuteLate(c) PROVE RuntimeStep(FittingAcks)
  BY <1>7 DEF ExecuteLate, RuntimeStep
<1>8. QED
  BY <1>1, <1>2, <1>3, <1>4, <1>5, <1>6, <1>7, StepCases

LEMMA LinkedStep ==
    ASSUME Ground, HeldInv, Passages, Judged, Linked, [Next]_vars
    PROVE  Linked' /\ Judged'
<1>1. VenueInv /\ ShelvedInv /\ IdsTell
  BY IdsTelling DEF Ground, VenueLedger
<1>2. AnsweredIds \subseteq AnsweredIds' /\ EmptiedIds \subseteq EmptiedIds'
  <2>1. AnsweredIds \subseteq AnsweredIds'
    BY <1>1, StaysAnswered DEF AnsweredStep, AnsweredIds
  <2>2. ASSUME NEW c \in CommandId, Emptied(c) PROVE Emptied(c)'
    BY <1>1, <2>2, StaysEmptied
  <2>3. QED
    BY <2>1, <2>2 DEF EmptiedIds
<1>3. PICK A \in SUBSET CommandId : A = AnsweredIds'
  BY DEF AnsweredIds
<1>4. PICK E : E = EmptiedIds'
  OBVIOUS
<1>5. OpenRefs(AnsweredIds) \subseteq OpenRefs(A)
  BY <1>2, <1>3 DEF OpenRefs
<1>6. References(mem, file, rec, todo, chan, OpenRefs(A))
  BY <1>5, ReferencesMore DEF Linked, AnsweredRefs
<1>7. Verdicts(pc, rec, A, E)
  BY <1>2, <1>3, <1>4, VerdictsMore DEF Judged
<1>8. PICK acks \in SUBSET AckType : RuntimeStep(acks) /\ \A ack \in acks : Fits(ack, A, E)
  BY <1>3, <1>4, StepFits DEF FittingAcks
<1>9. /\ References(mem', file', rec', todo', chan', OpenRefs(A))
      /\ Verdicts(pc', rec', A, E)
  BY <1>1, <1>6, <1>7, <1>8, FittingStep
<1>10. QED
  BY <1>3, <1>4, <1>9 DEF Linked, Judged, AnsweredRefs

(* No two commands open a position under one key: the openings a master     *)
(* reports of a position are one, and so is the route that copies it.       *)
LEMMA OneOpening ==
    ASSUME OneRouteOpens, Ground, ~blind, NEW x \in CommandId, NEW y \in CommandId,
           Opens(x), Opens(y), KeyOfId(x) = KeyOfId(y), handed[x] > 0, handed[y] > 0
    PROVE  x = y
<1>1. WriteAhead
  BY AheadWritten DEF Ground, VenueLedger, SeasonedInv
<1>2. \A c \in CommandId : /\ EventOf(c) \in EventId
                            /\ EventOf(c)[1] = Reports(EventOf(c)).order
                            /\ EventOf(c)[2] = ActionOf(c)
  <2> SUFFICES ASSUME NEW c \in CommandId
               PROVE  /\ EventOf(c) \in EventId
                      /\ EventOf(c)[1] = Reports(EventOf(c)).order
                      /\ EventOf(c)[2] = ActionOf(c)
    OBVIOUS
  <2>1. PICK e \in Event : EventOf(c) = e.id
    BY DEF CommandId, EventOf
  <2>2. QED
    BY <2>1, IdsTelling, ReportsLike, ReportAssumption DEF EventId, ActionOf
<1>3. Reported(EventOf(x)) /\ Reported(EventOf(y))
  BY <1>1 DEF WriteAhead, Reported
<1>4. EventOf(x)[1] = EventOf(y)[1] /\ EventOf(x)[2] = "open" /\ EventOf(y)[2] = "open"
  BY <1>2 DEF KeyOfId, KeyOf, Opens
<1>5. EventOf(x) = EventOf(y)
  BY <1>2, <1>3, <1>4 DEF Ground, ReportInv, OpeningsDiffer
<1>6. Built(x) /\ Built(y)
  BY DEF Ground, BuiltInv
<1>7. QED
  BY <1>5, <1>6, IdsTelling, SameOpening

LEMMA KeptStep ==
    ASSUME OneRouteOpens, FillInv, [Next]_vars, ~blind'
    PROVE  Kept(mem)' /\ Kept(file)'
<1>1. /\ VenueInv /\ RuntimeStep(AckType) /\ RuntimeTypeInv
      /\ mem \in ReplayType /\ file \in ReplayType
  BY AnyStep, Types DEF FillInv, Ground, VenueLedger, LedgerInv, KeyedInv
<1>2. ~blind /\ Kept(mem) /\ Kept(file) /\ IdsTell
  BY <1>1, StaysBlind, IdsTelling DEF FillInv
<1> SUFFICES ASSUME NEW c \in CommandId, Opens(c), handed'[c] = 1, book'[c] > 0
             PROVE  Safe(mem', c) /\ Safe(file', c)
  BY DEF Kept
<1>3. Passage(c) /\ handed[c] \in 0..2
  BY <1>1 DEF FillInv, Passages, VenueInv, TypeOK, RuntimeTypeOK
<1>4. /\ book'[c] \in Nat /\ book[c] \in Nat
      /\ book'[c] # book[c] => Opens(c) /\ UNCHANGED runtimeVars
      /\ book[c] = 0 /\ book'[c] # 0 =>
           Abroad(c) /\ (OneOf(c) => IsExecuted(c)' \/ ~Abroad(c)')
  BY <1>1, BookStep DEF FillInv
<1>5. Stays(c)
  <2>1. ASSUME HandsOver(c) PROVE FALSE
    <3>1. handed[c] = 0 /\ book'[c] = book[c]
      BY <1>3, <2>1, SMT DEF HandsOver
    <3>2. QED
      BY <1>3, <3>1 DEF Passage
  <2>2. QED
    BY <1>1, <2>1, TokensStep
<1>6. handed[c] = 1
  BY <1>5 DEF Stays
<1>7. CASE book[c] = 0
  <2>1. UNCHANGED <<mem, file>> /\ Abroad(c)
    BY <1>4, <1>7 DEF runtimeVars
  <2>2. QED
    BY <1>3, <1>6, <2>1 DEF Passage, Safe
<1>8. CASE book[c] > 0
  <2>1. Safe(mem, c) /\ Safe(file, c)
    BY <1>2, <1>6, <1>8 DEF Kept
  <2>2. c \notin EmptiedIds
    BY <1>6, <1>8 DEF EmptiedIds, Emptied
  <2>3. ASSUME NEW x \in AnsweredIds \cup EmptiedIds, Opens(x), KeyOfId(x) = KeyOfId(c)
        PROVE  x = c
    <3>1. x \in CommandId /\ handed[x] > 0
      BY <2>3 DEF AnsweredIds, EmptiedIds, Emptied, Answered
    <3>2. QED
      BY <1>2, <1>6, <2>3, <3>1, OneOpening DEF FillInv
  <2>4. ASSUME NEW k \in Task, rec[k] \in RecordType
        PROVE  Safe(Apply(mem, rec[k]), c) /\ Safe(Apply(file, rec[k]), c)
    <3>1. Verdict(rec[k], AnsweredIds, EmptiedIds) /\ BindsIn(rec[k], OpenRefs(AnsweredIds))
      BY DEF FillInv, Judged, Verdicts, Linked, References, AnsweredRefs
    <3>2. \A x \in AnsweredIds \cup EmptiedIds :
            x \in CommandId /\ Opens(x) /\ KeyOfId(x) = KeyOfId(c) => x = c
      BY <2>3
    <3>3. QED
      BY <1>1, <1>2, <2>1, <2>2, <2>4, <3>1, <3>2, ApplySafe
  <2>5. Safe(Finalize(file), c)
    BY <1>1, <2>1, FinalizeSafe
  <2>6. QED
    BY <1>1, <2>1, <2>4, <2>5, StatesMove
<1>9. QED
  BY <1>4, <1>7, <1>8

LEMMA FillStep ==
    ASSUME OneRouteOpens, FillInv, [Next]_vars
    PROVE  FillInv'
<1>1. Ground' /\ HeldInv'
  BY GroundStep, HeldStep DEF FillInv
<1>2. Passages' /\ Linked' /\ Judged'
  BY PassageStep, LinkedStep DEF FillInv
<1>3. QED
  BY <1>1, <1>2, KeptStep DEF FillInv

LEMMA FillStart ==
    ASSUME Init
    PROVE  FillInv
<1>1. Ground /\ RuntimeInit
  BY GroundStart DEF Init
<1>2. HeldInv
  BY DEF Init, FreshVenues, HeldInv, Busy
<1>3. \A c \in CommandId : ~Abroad(c) /\ handed[c] = 0 /\ book[c] = 0 /\ c \notin settled
  BY DEF Init, RuntimeInit, FreshTasks, FreshVenues, Abroad, InChannel, IsHandled, IsLate,
         Carries, Busy
<1>4. Passages
  BY <1>3 DEF Passages, Passage
<1>5. Judged
  BY <1>1 DEF RuntimeInit, FreshTasks, Judged, Verdicts, Verdict, NoRecord
<1>6. PICK P : P = AnsweredRefs
  OBVIOUS
<1>7. Linked
  BY <1>1, <1>6, ReferencesStart DEF Linked
<1>8. Kept(mem) /\ Kept(file)
  BY <1>3 DEF Kept
<1>9. QED
  BY <1>1, <1>2, <1>4, <1>5, <1>7, <1>8 DEF FillInv

(* Where one route copies an opening to a follower: whatever the broker     *)
(* answers, however late it executes what the task gave up, whichever       *)
(* append fails and wherever a restart falls, a position the broker opened  *)
(* for a command that was sent once is bound to its source, or the command  *)
(* is still tracked.                                                        *)
THEOREM FillsKept ==
    ASSUME OneRouteOpens
    PROVE  Spec => []FillsNeverLost
<1>1. Init => FillInv
  BY FillStart
<1>2. FillInv /\ [Next]_vars => FillInv'
  BY FillStep
<1>3. FillInv => FillsNeverLost
  <2> SUFFICES ASSUME FillInv, ~blind, NEW c \in CommandId, book[c] > 0, handed[c] = 1,
                      ~Tracked(mem, c)
               PROVE  \E key \in Key : mem.mirrors[key].position = c
    BY DEF FillsNeverLost
  <2>1. Opens(c)
    BY DEF FillInv, Passages, Passage
  <2>2. mem.mirrors[KeyOfId(c)].position = c
    BY <2>1 DEF FillInv, Kept, Safe
  <2>3. KeyOfId(c) \in Key
    BY KeyOfIdTyped, IdsTelling
  <2>4. QED
    BY <2>2, <2>3
<1>4. QED
  BY <1>1, <1>2, <1>3, PTL DEF Spec
=============================================================================
