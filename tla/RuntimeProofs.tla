----------------------------- MODULE RuntimeProofs -----------------------------
(***************************************************************************)
(* What the handlers of Runtime keep, whichever way an account is attached: *)
(* the types, the keys of the stored commands, and the promises of          *)
(* CommandLedger.  The theorems about the agent server and the venues cite  *)
(* the lemmas at the end, one for each way in which a component may step.   *)
(***************************************************************************)
EXTENDS Runtime, TLAPS

-----------------------------------------------------------------------------
(* Routes, volumes and identifiers.                                         *)

LEMMA ProductNat == \A a, b \in Nat : a * b \in Nat
  BY SMT

LEMMA NormalizeTyped ==
    ASSUME NEW n \in Int, NEW d \in Nat \ {0}, NEW step \in Nat \ {0}
    PROVE  NormalizeStep(n, d, step) \in Nat
<1> DEFINE s == d * step
           q == (2 * n + s) \div (2 * s)
<1>1. CASE n <= 0
  BY <1>1 DEF NormalizeStep
<1>2. CASE n > 0
  <2>1. s \in Nat \ {0} /\ n \in Nat
    BY <1>2, SMT
  <2>2. q \in Nat
    <3> HIDE DEF s
    <3> QED BY <2>1, SMT
  <2>3. NormalizeStep(n, d, step) = q * step
    BY <1>2, SMT DEF NormalizeStep
  <2>4. q * step \in Nat
    <3> HIDE DEF q
    <3> QED BY <2>2, SMT
  <2>5. QED
    BY <2>3, <2>4
<1>3. QED
  BY <1>1, <1>2, SMT

LEMMA OpenTyped ==
    ASSUME NEW r \in RuleType, NEW volume \in Nat
    PROVE  OpenVolume(r, volume) \in Nat
<1>1. /\ r.min \in Nat /\ r.max \in Nat /\ r.step \in Nat \ {0} /\ r.sizing \in Sizing
      /\ r.size[1] \in Nat /\ r.size[2] \in Nat \ {0}
  BY SMT DEF RuleType
<1>2. \A n \in Nat, d \in Nat \ {0} : NormalizeOpen(r, n, d) \in Nat
  <2>1. \A n \in Int, d \in Nat \ {0} : NormalizeStep(n, d, r.step) \in Nat
    BY <1>1, NormalizeTyped
  <2>2. 1 \in Nat \ {0} /\ Nat \subseteq Int
    OBVIOUS
  <2>3. QED
    BY <1>1, <2>1, <2>2, Zenon DEF NormalizeOpen
<1>3. volume * r.size[1] \in Nat /\ 1 \in Nat \ {0}
  BY <1>1, ProductNat
<1>4. /\ NormalizeOpen(r, volume, 1) \in Nat
      /\ NormalizeOpen(r, r.size[1], r.size[2]) \in Nat
      /\ NormalizeOpen(r, volume * r.size[1], r.size[2]) \in Nat
  BY <1>1, <1>2, <1>3, Zenon
<1>5. QED
  BY <1>1, <1>4, Zenon DEF OpenVolume, Sizing

LEMMA ReduceTyped ==
    ASSUME NEW r \in RuleType, NEW b, NEW volume \in Nat,
           b.sourceOpen \in Nat \ {0}, b.targetOpen \in Nat, b.targetRemaining \in Nat
    PROVE  ReduceVolume(r, b, volume) \in Nat
<1>1. r.step \in Nat \ {0}
  BY SMT DEF RuleType
<1>2. b.targetOpen * volume \in Nat /\ 1 \in Nat \ {0} /\ Nat \subseteq Int
  BY ProductNat
<1>3. /\ NormalizeStep(b.targetOpen * volume, b.sourceOpen, r.step) \in Nat
      /\ NormalizeStep(b.targetRemaining, 1, r.step) \in Nat
  <2>1. \A n \in Int, d \in Nat \ {0} : NormalizeStep(n, d, r.step) \in Nat
    BY <1>1, NormalizeTyped
  <2>2. QED
    BY <1>2, <2>1, Zenon
<1>4. QED
  BY <1>3, Zenon DEF ReduceVolume

LEMMA RuleTyped ==
    ASSUME NEW i \in DOMAIN Rules
    PROVE  Rules[i] \in RuleType
BY RulesAssumption, SMT

LEMMA Identifiers ==
    ASSUME NEW e \in Event, NEW i \in DOMAIN Rules
    PROVE  /\ CommandIdOf(e, Rules[i]) \in CommandId
           /\ EventOf(CommandIdOf(e, Rules[i])) = e.id
           /\ KeyOf(e.source, e.order, Rules[i].target) \in Key
<1>1. Rules[i].target \in Account
  BY RuleTyped, SMT DEF RuleType
<1>2. e.source \in Account /\ e.order \in OrderId
  BY EventAssumption, SMT DEF EventType
<1>3. QED
  BY <1>1, <1>2 DEF CommandIdOf, CommandId, EventOf, KeyOf, Key

(* What build_command returns is a well-formed command.                     *)
LEMMA BuiltCommandTyped ==
    ASSUME NEW e \in Event, NEW i \in DOMAIN Rules,
           NEW b \in BindingType \cup {NoBinding}, Builds(Rules[i], e, b)
    PROVE  BuiltCommand(Rules[i], e, b) \in CommandType
<1> DEFINE r == Rules[i]
<1>1. r \in RuleType /\ r.id \in RuleId /\ r.target \in Account
  BY RuleTyped, SMT DEF RuleType
<1>2. e \in EventType
  BY EventAssumption
<1>3. /\ e.id \in EventId /\ e.source \in Account /\ e.order \in OrderId
      /\ e.action \in Action /\ e.volume \in Nat
      /\ e.remaining \in Nat \cup {NoVolume}
  BY <1>2, SMT DEF EventType
<1>4. CommandIdOf(e, r) \in CommandId
  BY Identifiers
<1>5. e.action # "open" => b \in BindingType
  BY SMT DEF Builds, MirrorMissing
<1>6. e.action # "open" => b.position \in Position /\ b.targetRemaining \in Nat
  BY <1>5, SMT DEF BindingType
<1>7. CommandVolume(r, e, b) \in Nat
  <2> HIDE DEF r
  <2>1. CASE e.action = "open"
    <3>1. CommandVolume(r, e, b) = OpenVolume(r, e.volume)
      BY <2>1 DEF CommandVolume
    <3>2. QED
      BY <1>1, <1>3, <3>1, OpenTyped
  <2>2. CASE e.action = "reduce"
    <3>1. CommandVolume(r, e, b) = ReduceVolume(r, b, e.volume)
      BY <2>2 DEF CommandVolume
    <3>2. b.sourceOpen \in Nat /\ b.targetOpen \in Nat /\ b.targetRemaining \in Nat
      BY <1>5, <2>2, SMT DEF BindingType
    <3>3. b # NoBinding
      BY <2>2, SMT DEF Builds, MirrorMissing, r
    <3>4. b.sourceOpen # 0
      BY <2>2, <3>3, SMT DEF Builds, MirrorInvalid, r
    <3>5. b.sourceOpen \in Nat \ {0}
      BY <3>2, <3>4
    <3>6. QED
      BY <1>1, <1>3, <3>1, <3>2, <3>5, ReduceTyped
  <2>3. CASE e.action \notin {"open", "reduce"}
    <3>1. CommandVolume(r, e, b) = b.targetRemaining
      BY <2>3 DEF CommandVolume
    <3>2. QED
      BY <1>6, <2>3, <3>1
  <2>4. QED
    BY <2>1, <2>2, <2>3
<1>8. (IF e.action = "open" THEN NoPosition ELSE b.position) \in Position \cup {NoPosition}
  BY <1>6, SMT
<1>9. QED
  <2> HIDE DEF r
  <2>1. BuiltCommand(r, e, b) \in CommandType
    BY <1>1, <1>3, <1>4, <1>7, <1>8, SMT DEF BuiltCommand, CommandType
  <2>2. QED
    BY <2>1 DEF r

-----------------------------------------------------------------------------
(* What applying a record and finalizing a replay do to a replay state.     *)

(* A tracked command is stored under its own id.                            *)
WellKeyed(s) == \A c \in CommandId : Tracked(s, c) => s.commands[c].command.id = c

LEMMA StoredTyped ==
    ASSUME NEW s \in ReplayType, NEW c \in CommandId
    PROVE  /\ StateOf(s, c) \in CommandState \cup {"absent"}
           /\ Tracked(s, c) => s.commands[c] \in StoredType
           /\ Tracked(s, c) => s.commands[c].command \in CommandType
           /\ ~Tracked(s, c) => s.commands[c] = Absent
<1>1. s.commands[c] \in StoredType \cup {Absent}
  BY SMT DEF ReplayType
<1>2. CASE s.commands[c] \in StoredType
  BY <1>2, SMT DEF StoredType, StateOf, Tracked, CommandState
<1>3. CASE s.commands[c] = Absent
  BY <1>3, SMT DEF StateOf, Tracked, Absent
<1>4. QED
  BY <1>1, <1>2, <1>3

LEMMA EmptyTyped == EmptyReplay \in ReplayType /\ WellKeyed(EmptyReplay)
BY SMT DEF EmptyReplay, ReplayType, WellKeyed, Tracked, StateOf, Absent

(* SetState and InsertQueued, entry by entry.                               *)
LEMMA SetStateEffect ==
    ASSUME NEW s \in ReplayType, NEW i \in CommandId, NEW state \in CommandState
    PROVE  LET m == SetState(s.commands, i, state)
           IN  /\ m \in [CommandId -> StoredType \cup {Absent}]
               /\ \A c \in CommandId :
                    /\ c # i => m[c] = s.commands[c]
                    /\ ~Tracked(s, c) => m[c] = s.commands[c]
                    /\ c = i /\ Tracked(s, c) =>
                         m[c].state = state /\ m[c].command = s.commands[c].command
<1> DEFINE m == SetState(s.commands, i, state)
           new == IF s.commands[i].state = "absent" THEN s.commands[i]
                  ELSE [s.commands[i] EXCEPT !.state = state]
<1>1. s.commands \in [CommandId -> StoredType \cup {Absent}]
  BY SMT DEF ReplayType
<1>2. m = [s.commands EXCEPT ![i] = new]
  BY DEF SetState
<1>3. /\ new \in StoredType \cup {Absent}
      /\ ~Tracked(s, i) => new = s.commands[i]
      /\ Tracked(s, i) => new.state = state /\ new.command = s.commands[i].command
  BY StoredTyped, SMT DEF StoredType, Tracked, StateOf
<1>4. m \in [CommandId -> StoredType \cup {Absent}] /\ m[i] = new
      /\ \A c \in CommandId : c # i => m[c] = s.commands[c]
  <2> HIDE DEF new
  <2> QED BY <1>1, <1>2, <1>3, SMT
<1>5. QED
  <2> HIDE DEF new, m
  <2> QED BY <1>3, <1>4 DEF m

LEMMA InsertQueuedEffect ==
    ASSUME NEW s \in ReplayType, NEW planned \in SUBSET CommandType
    PROVE  LET m == InsertQueued(s.commands, planned)
           IN  /\ m \in [CommandId -> StoredType \cup {Absent}]
               /\ \A c \in CommandId :
                    /\ Tracked(s, c) => m[c] = s.commands[c]
                    /\ (\A p \in planned : p.id # c) => m[c] = s.commands[c]
                    /\ ~Tracked(s, c) /\ (\E p \in planned : p.id = c) =>
                         m[c].state = "queued" /\ m[c].command \in planned
                         /\ m[c].command.id = c
<1> DEFINE m == InsertQueued(s.commands, planned)
           chosen(c) == CHOOSE p \in planned : p.id = c
<1>1. \A c \in CommandId :
        m[c] = IF ~Tracked(s, c) /\ \E p \in planned : p.id = c
               THEN [command |-> chosen(c), state |-> "queued"]
               ELSE s.commands[c]
  BY DEF InsertQueued, Tracked, StateOf
<1>2. \A c \in CommandId : (\E p \in planned : p.id = c) =>
        chosen(c) \in planned /\ chosen(c).id = c
  OBVIOUS
<1>3. \A c \in CommandId : m[c] \in StoredType \cup {Absent}
  <2> SUFFICES ASSUME NEW c \in CommandId
               PROVE  m[c] \in StoredType \cup {Absent}
    OBVIOUS
  <2>1. CASE ~Tracked(s, c) /\ \E p \in planned : p.id = c
    <3>1. m[c] = [command |-> chosen(c), state |-> "queued"]
      BY <1>1, <2>1
    <3>2. chosen(c) \in CommandType
      BY <1>2, <2>1
    <3>3. QED
      <4> HIDE DEF chosen, m
      <4> QED BY <3>1, <3>2, SMT DEF StoredType, CommandState
  <2>2. CASE ~(~Tracked(s, c) /\ \E p \in planned : p.id = c)
    <3>1. m[c] = s.commands[c]
      BY <1>1, <2>2
    <3>2. QED
      BY <3>1, SMT DEF ReplayType
  <2>3. QED
    BY <2>1, <2>2
<1>4. m = [c \in CommandId |-> m[c]]
  BY DEF InsertQueued
<1>5. m \in [CommandId -> StoredType \cup {Absent}]
  <2> HIDE DEF m
  <2> QED BY <1>3, <1>4
<1>6. \A c \in CommandId :
        ~Tracked(s, c) /\ (\E p \in planned : p.id = c) =>
          m[c].state = "queued" /\ m[c].command \in planned /\ m[c].command.id = c
  <2> SUFFICES ASSUME NEW c \in CommandId, ~Tracked(s, c), \E p \in planned : p.id = c
               PROVE  m[c].state = "queued" /\ m[c].command \in planned /\ m[c].command.id = c
    OBVIOUS
  <2>1. m[c] = [command |-> chosen(c), state |-> "queued"]
    BY <1>1
  <2>2. chosen(c) \in planned /\ chosen(c).id = c
    BY <1>2
  <2>3. QED
    <3> HIDE DEF m, chosen
    <3> QED BY <2>1, <2>2, SMT
<1>7. \A c \in CommandId :
        /\ Tracked(s, c) => m[c] = s.commands[c]
        /\ (\A p \in planned : p.id # c) => m[c] = s.commands[c]
  <2> HIDE DEF m, chosen
  <2> QED BY <1>1
<1>8. QED
  BY <1>5, <1>6, <1>7

-----------------------------------------------------------------------------
(* Apply, record by record.                                                 *)

IsPlanned(r)  == r.kind = "EventPlanned"
IsFinalAck(r) == r.kind = "AckApplied" /\ r.status # "unknown"

LEMMA RecordShape ==
    ASSUME NEW r \in RecordType
    PROVE  /\ r.kind \in {"EventPlanned", "CommandDispatched", "CommandUnknown", "AckApplied"}
           /\ IsPlanned(r) => r.event \in EventId /\ r.commands \in SUBSET CommandType
           /\ ~IsPlanned(r) => r.id \in CommandId
           /\ r.kind = "AckApplied" => r.status \in AckStatus /\ r.mutation \in MutationType
BY SMT DEF RecordType, IsPlanned

LEMMA UpdateTyped ==
    ASSUME NEW S, NEW T, NEW f \in [S -> T], NEW x, NEW y \in T
    PROVE  [f EXCEPT ![x] = y] \in [S -> T]
OBVIOUS

LEMMA MutateTyped ==
    ASSUME NEW m \in [Key -> BindingType \cup {NoBinding}], NEW u \in MutationType
    PROVE  Mutate(m, u) \in [Key -> BindingType \cup {NoBinding}]
<1>1. CASE u = NoMutation
  <2>1. u.kind = "none"
    BY <1>1 DEF NoMutation
  <2>2. Mutate(m, u) = m
    BY <2>1 DEF Mutate
  <2>3. QED
    BY <2>2
<1>2. CASE u \in [kind : {"upsert"}, binding : BindingType]
  <2>1. u.kind = "upsert" /\ u.binding \in BindingType
    BY <1>2
  <2>2. Mutate(m, u) = [m EXCEPT ![BindingKey(u.binding)] = u.binding]
    BY <2>1 DEF Mutate
  <2>3. QED
    BY <2>1, <2>2, UpdateTyped
<1>3. CASE u \in [kind : {"remove"}, key : Key]
  <2>1. u.kind = "remove" /\ u.key \in Key
    BY <1>3
  <2>2. Mutate(m, u) = [m EXCEPT ![u.key] = NoBinding]
    BY <2>1 DEF Mutate
  <2>3. QED
    BY <2>1, <2>2, UpdateTyped
<1>4. QED
  BY <1>1, <1>2, <1>3 DEF MutationType

LEMMA ApplyPlanned ==
    ASSUME NEW s \in ReplayType, NEW r \in RecordType, IsPlanned(r)
    PROVE  /\ Apply(s, r) \in ReplayType
           /\ Apply(s, r).seen = s.seen \cup {r.event}
           /\ Apply(s, r).commands = InsertQueued(s.commands, r.commands)
           /\ Apply(s, r).mirrors = s.mirrors
<1> DEFINE m == InsertQueued(s.commands, r.commands)
<1>1. Apply(s, r) = [seen |-> s.seen \cup {r.event}, commands |-> m, mirrors |-> s.mirrors]
  BY DEF Apply, IsPlanned
<1>2. r.event \in EventId /\ r.commands \in SUBSET CommandType
  BY RecordShape
<1>3. m \in [CommandId -> StoredType \cup {Absent}]
  BY <1>2, InsertQueuedEffect
<1>4. s = [seen |-> s.seen, commands |-> s.commands, mirrors |-> s.mirrors]
      /\ s.seen \in SUBSET EventId /\ s.mirrors \in [Key -> BindingType \cup {NoBinding}]
  BY SMT DEF ReplayType
<1>5. QED
  <2> HIDE DEF m
  <2> QED BY <1>1, <1>2, <1>3, <1>4, SMT DEF ReplayType, m

LEMMA ApplyMark ==
    ASSUME NEW s \in ReplayType, NEW r \in RecordType,
           NEW state \in {"dispatched", "unknown"},
           \/ r.kind = "CommandDispatched" /\ state = "dispatched"
           \/ r.kind = "CommandUnknown" /\ state = "unknown"
    PROVE  /\ Apply(s, r) \in ReplayType
           /\ Apply(s, r).seen = s.seen
           /\ Apply(s, r).commands = SetState(s.commands, r.id, state)
           /\ Apply(s, r).mirrors = s.mirrors
<1> DEFINE m == SetState(s.commands, r.id, state)
<1>1. Apply(s, r) = [s EXCEPT !.commands = m]
  BY DEF Apply
<1>2. r.id \in CommandId
  BY RecordShape DEF IsPlanned
<1>3. m \in [CommandId -> StoredType \cup {Absent}]
  BY <1>2, SetStateEffect DEF CommandState
<1>4. s = [seen |-> s.seen, commands |-> s.commands, mirrors |-> s.mirrors]
      /\ s.seen \in SUBSET EventId /\ s.mirrors \in [Key -> BindingType \cup {NoBinding}]
  BY SMT DEF ReplayType
<1>5. QED
  <2> HIDE DEF m
  <2>1. Apply(s, r) = [seen |-> s.seen, commands |-> m, mirrors |-> s.mirrors]
    BY <1>1, <1>4, SMT
  <2>2. QED
    BY <1>3, <1>4, <2>1, SMT DEF ReplayType, m

LEMMA ApplyAck ==
    ASSUME NEW s \in ReplayType, NEW r \in RecordType, r.kind = "AckApplied"
    PROVE  /\ Apply(s, r) \in ReplayType
           /\ Apply(s, r).seen = s.seen
           /\ Apply(s, r).commands = IF r.status = "unknown"
                                     THEN SetState(s.commands, r.id, "unknown")
                                     ELSE [s.commands EXCEPT ![r.id] = Absent]
           /\ Apply(s, r).mirrors = Mutate(s.mirrors, r.mutation)
<1> DEFINE m == IF r.status = "unknown" THEN SetState(s.commands, r.id, "unknown")
                ELSE [s.commands EXCEPT ![r.id] = Absent]
           u == Mutate(s.mirrors, r.mutation)
<1>1. Apply(s, r) = [seen |-> s.seen, commands |-> m, mirrors |-> u]
  BY DEF Apply
<1>2. r.id \in CommandId /\ r.mutation \in MutationType
  BY RecordShape DEF IsPlanned
<1>3. s = [seen |-> s.seen, commands |-> s.commands, mirrors |-> s.mirrors]
      /\ s.seen \in SUBSET EventId /\ s.mirrors \in [Key -> BindingType \cup {NoBinding}]
      /\ s.commands \in [CommandId -> StoredType \cup {Absent}]
  BY SMT DEF ReplayType
<1>4. SetState(s.commands, r.id, "unknown") \in [CommandId -> StoredType \cup {Absent}]
  BY <1>2, SetStateEffect DEF CommandState
<1>5. [s.commands EXCEPT ![r.id] = Absent] \in [CommandId -> StoredType \cup {Absent}]
  BY <1>2, <1>3, SMT
<1>6. u \in [Key -> BindingType \cup {NoBinding}]
  BY <1>2, <1>3, MutateTyped
<1>7. m \in [CommandId -> StoredType \cup {Absent}]
  BY <1>4, <1>5
<1>8. QED
  <2> HIDE DEF m, u
  <2> QED BY <1>1, <1>3, <1>6, <1>7, SMT DEF ReplayType, m, u

LEMMA ApplyTyped ==
    ASSUME NEW s \in ReplayType, NEW r \in RecordType
    PROVE  /\ Apply(s, r) \in ReplayType
           /\ IsPlanned(r) => Apply(s, r).seen = s.seen \cup {r.event}
           /\ ~IsPlanned(r) => Apply(s, r).seen = s.seen
<1>1. CASE IsPlanned(r)
  BY <1>1, ApplyPlanned
<1>2. CASE r.kind = "CommandDispatched"
  BY <1>2, ApplyMark DEF IsPlanned
<1>3. CASE r.kind = "CommandUnknown"
  BY <1>3, ApplyMark DEF IsPlanned
<1>4. CASE r.kind = "AckApplied"
  BY <1>4, ApplyAck DEF IsPlanned
<1>5. QED
  BY <1>1, <1>2, <1>3, <1>4, RecordShape DEF IsPlanned

(* What apply does to the entry of one command: planning an event ...       *)
LEMMA PlannedEntry ==
    ASSUME NEW s \in ReplayType, NEW r \in RecordType, IsPlanned(r), NEW c \in CommandId
    PROVE  LET t == Apply(s, r)
           IN  /\ Tracked(s, c) \/ (\A p \in r.commands : p.id # c) =>
                    t.commands[c] = s.commands[c]
               /\ ~Tracked(s, c) /\ (\E p \in r.commands : p.id = c) =>
                    /\ StateOf(t, c) = "queued"
                    /\ t.commands[c].command \in r.commands
                    /\ t.commands[c].command.id = c
<1>1. r.commands \in SUBSET CommandType
  BY RecordShape
<1>2. Apply(s, r).commands = InsertQueued(s.commands, r.commands)
  BY ApplyPlanned
<1>3. QED
  BY <1>1, <1>2, InsertQueuedEffect DEF StateOf

(* ... and the records about one command.                                   *)
LEMMA OtherEntry ==
    ASSUME NEW s \in ReplayType, NEW r \in RecordType, ~IsPlanned(r), NEW c \in CommandId
    PROVE  LET t == Apply(s, r)
           IN  /\ r.id # c \/ ~Tracked(s, c) => t.commands[c] = s.commands[c]
               /\ r.id = c /\ IsFinalAck(r) => ~Tracked(t, c)
               /\ r.id = c /\ ~IsFinalAck(r) /\ Tracked(s, c) =>
                    /\ StateOf(t, c) \in {"dispatched", "unknown"}
                    /\ r.kind # "CommandDispatched" => StateOf(t, c) = "unknown"
                    /\ t.commands[c].command = s.commands[c].command
<1> DEFINE t == Apply(s, r)
<1>1. r.id \in CommandId
  BY RecordShape
<1>2. ASSUME NEW state \in {"dispatched", "unknown"},
             t.commands = SetState(s.commands, r.id, state), ~IsFinalAck(r),
             r.kind # "CommandDispatched" => state = "unknown"
      PROVE  /\ r.id # c \/ ~Tracked(s, c) => t.commands[c] = s.commands[c]
             /\ r.id = c /\ IsFinalAck(r) => ~Tracked(t, c)
             /\ r.id = c /\ ~IsFinalAck(r) /\ Tracked(s, c) =>
                  /\ StateOf(t, c) \in {"dispatched", "unknown"}
                  /\ r.kind # "CommandDispatched" => StateOf(t, c) = "unknown"
                  /\ t.commands[c].command = s.commands[c].command
  <2> HIDE DEF t
  <2>1. /\ c # r.id => t.commands[c] = s.commands[c]
        /\ ~Tracked(s, c) => t.commands[c] = s.commands[c]
        /\ c = r.id /\ Tracked(s, c) =>
              t.commands[c].state = state /\ t.commands[c].command = s.commands[c].command
    BY <1>1, <1>2, SetStateEffect DEF CommandState
  <2>2. QED
    BY <1>2, <2>1 DEF StateOf
<1>3. CASE r.kind = "CommandDispatched"
  BY <1>2, <1>3, ApplyMark DEF IsFinalAck
<1>4. CASE r.kind = "CommandUnknown"
  BY <1>2, <1>4, ApplyMark DEF IsFinalAck
<1>5. CASE r.kind = "AckApplied" /\ r.status = "unknown"
  BY <1>2, <1>5, ApplyAck DEF IsFinalAck
<1>6. CASE IsFinalAck(r)
  <2>1. t.commands = [s.commands EXCEPT ![r.id] = Absent]
    BY <1>6, ApplyAck DEF IsFinalAck
  <2>2. s.commands \in [CommandId -> StoredType \cup {Absent}]
    BY SMT DEF ReplayType
  <2>3. t.commands[c] = IF c = r.id THEN Absent ELSE s.commands[c]
    <3> HIDE DEF t
    <3> QED BY <1>1, <2>1, <2>2
  <2>4. ~Tracked(s, c) => s.commands[c] = Absent
    BY StoredTyped
  <2>5. Absent.state = "absent"
    BY DEF Absent
  <2>6. r.id # c \/ ~Tracked(s, c) => t.commands[c] = s.commands[c]
    BY <2>3, <2>4
  <2>7. r.id = c => ~Tracked(t, c)
    <3> HIDE DEF t
    <3> QED BY <2>3, <2>5 DEF Tracked, StateOf
  <2>8. QED
    BY <1>6, <2>6, <2>7
<1>7. QED
  BY <1>3, <1>4, <1>5, <1>6, RecordShape DEF IsPlanned, IsFinalAck

LEMMA ApplyWellKeyed ==
    ASSUME NEW s \in ReplayType, NEW r \in RecordType, WellKeyed(s)
    PROVE  WellKeyed(Apply(s, r))
<1> SUFFICES ASSUME NEW c \in CommandId, Tracked(Apply(s, r), c)
             PROVE  Apply(s, r).commands[c].command.id = c
  BY DEF WellKeyed
<1>1. Tracked(s, c) => s.commands[c].command.id = c
  BY DEF WellKeyed
<1>2. CASE Apply(s, r).commands[c] = s.commands[c]
  BY <1>1, <1>2 DEF Tracked, StateOf
<1>3. CASE Apply(s, r).commands[c] # s.commands[c] /\ IsPlanned(r)
  BY <1>3, PlannedEntry
<1>4. CASE Apply(s, r).commands[c] # s.commands[c] /\ ~IsPlanned(r)
  BY <1>1, <1>4, OtherEntry
<1>5. QED
  BY <1>2, <1>3, <1>4

(* A restart keeps every command and calls UNKNOWN what was dispatched.     *)
LEMMA FinalizeEffect ==
    ASSUME NEW s \in ReplayType
    PROVE  /\ Finalize(s) \in ReplayType
           /\ Finalize(s).seen = s.seen
           /\ \A c \in CommandId :
                /\ StateOf(Finalize(s), c) = IF StateOf(s, c) = "dispatched" THEN "unknown"
                                             ELSE StateOf(s, c)
                /\ Tracked(s, c) => Finalize(s).commands[c].command = s.commands[c].command
           /\ WellKeyed(s) => WellKeyed(Finalize(s))
<1> DEFINE m == [c \in CommandId |->
                   IF StateOf(s, c) = "dispatched" THEN [s.commands[c] EXCEPT !.state = "unknown"]
                   ELSE s.commands[c]]
<1>1. Finalize(s) = [s EXCEPT !.commands = m]
  BY DEF Finalize
<1>2. \A c \in CommandId :
        /\ m[c] \in StoredType \cup {Absent}
        /\ m[c].state = IF StateOf(s, c) = "dispatched" THEN "unknown" ELSE StateOf(s, c)
        /\ Tracked(s, c) => m[c].command = s.commands[c].command
  <2> SUFFICES ASSUME NEW c \in CommandId
               PROVE  /\ m[c] \in StoredType \cup {Absent}
                      /\ m[c].state = IF StateOf(s, c) = "dispatched" THEN "unknown"
                                      ELSE StateOf(s, c)
                      /\ Tracked(s, c) => m[c].command = s.commands[c].command
    OBVIOUS
  <2>1. CASE StateOf(s, c) = "dispatched"
    <3>1. s.commands[c] \in StoredType
      BY <2>1, StoredTyped DEF Tracked
    <3>2. m[c] = [s.commands[c] EXCEPT !.state = "unknown"]
      BY <2>1
    <3>3. QED
      <4> HIDE DEF m
      <4> QED BY <2>1, <3>1, <3>2, SMT DEF StoredType, CommandState
  <2>2. CASE StateOf(s, c) # "dispatched"
    <3>1. m[c] = s.commands[c]
      BY <2>2
    <3>2. s.commands[c] \in StoredType \cup {Absent}
      BY SMT DEF ReplayType
    <3>3. QED
      <4> HIDE DEF m
      <4> QED BY <2>2, <3>1, <3>2 DEF StateOf
  <2>3. QED
    BY <2>1, <2>2
<1>3. m \in [CommandId -> StoredType \cup {Absent}]
  BY <1>2
<1>4. /\ Finalize(s) \in ReplayType
      /\ Finalize(s).seen = s.seen
      /\ Finalize(s).commands = m
  <2> HIDE DEF m
  <2> QED BY <1>1, <1>3, SMT DEF ReplayType
<1>5. \A c \in CommandId :
        /\ StateOf(Finalize(s), c) = IF StateOf(s, c) = "dispatched" THEN "unknown"
                                     ELSE StateOf(s, c)
        /\ Tracked(s, c) => Finalize(s).commands[c].command = s.commands[c].command
  <2> HIDE DEF m
  <2> QED BY <1>2, <1>4 DEF StateOf
<1>6. ASSUME WellKeyed(s) PROVE WellKeyed(Finalize(s))
  BY <1>5, <1>6 DEF WellKeyed, Tracked
<1>7. QED
  BY <1>4, <1>5, <1>6

-----------------------------------------------------------------------------
(* Type correctness.  RuntimeTypeOK lacks what a task knows where it        *)
(* stands: a record to append or apply, the event it routes.                *)

Standing(k) ==
    /\ pc[k] \in {"append", "apply", "send", "mirror"} => rec[k] \in RecordType
    /\ pc[k] = "route" => ev[k] \in Event
    /\ pc[k] = "send" => rec[k].kind = "CommandDispatched"
    /\ pc[k] = "mirror" => rec[k].kind = "AckApplied"
    /\ pc[k] \in {"append", "apply"} /\ ret[k] = "send" => rec[k].kind = "CommandDispatched"

RuntimeTypeInv ==
    /\ RuntimeTypeOK
    /\ \A k \in Task : Standing(k)

LEMMA CommandsInTyped ==
    ASSUME RuntimeTypeOK, NEW state \in CommandState, NEW a \in Account
    PROVE  CommandsIn(state, a) \in SUBSET CommandType
<1> SUFFICES ASSUME NEW c \in CommandId, StateOf(mem, c) = state
             PROVE  mem.commands[c].command \in CommandType
  BY DEF CommandsIn
<1>1. mem \in ReplayType
  BY DEF RuntimeTypeOK
<1>2. Tracked(mem, c)
  BY SMT DEF Tracked, CommandState
<1>3. QED
  BY <1>1, <1>2, StoredTyped

LEMMA AppendTyped ==
    ASSUME RuntimeTypeInv, NEW k \in Task, AppendRecord(k)
    PROVE  RuntimeTypeInv'
<1> USE DEF RuntimeTypeInv, RuntimeTypeOK, AppendRecord, Goto
<1>1. rec[k] \in RecordType
  BY DEF Standing
<1>2. file' \in ReplayType
  BY <1>1, ApplyTyped
<1>3. settled' \in SUBSET CommandId
  BY <1>1, RecordShape DEF IsPlanned
<1>4. pc' \in [Task -> Label]
  BY DEF Label
<1>5. RuntimeTypeOK'
  BY <1>2, <1>3, <1>4
<1>6. \A j \in Task : Standing(j)'
  BY DEF Standing
<1>7. QED
  BY <1>5, <1>6

LEMMA FailTyped ==
    ASSUME RuntimeTypeInv, NEW k \in Task, NEW label \in Label \ {"append", "apply", "send", "mirror", "route"},
           Fail(k, label)
    PROVE  /\ pc' \in [Task -> Label]
           /\ ev' \in [Task -> Event \cup {NoEvent}]
           /\ routes' \in [Task -> SUBSET DOMAIN Rules]
           /\ rec' \in [Task -> RecordType \cup {NoRecord}]
           /\ ret' \in [Task -> {"idle", "dispatch", "send", "orphans"}]
           /\ todo' \in [Task -> SUBSET CommandType]
           /\ sess' \in [Task -> 0..MaxSession]
           /\ sid' \in [Task -> 0..MaxSession]
           /\ \A j \in Task : Standing(j)'
<1> USE DEF RuntimeTypeInv, RuntimeTypeOK, Fail, Goto
<1>1. MaxSession \in Nat
  BY RuntimeAssumption
<1>2. /\ pc' \in [Task -> Label]
      /\ ev' \in [Task -> Event \cup {NoEvent}]
      /\ routes' \in [Task -> SUBSET DOMAIN Rules]
      /\ rec' \in [Task -> RecordType \cup {NoRecord}]
      /\ ret' \in [Task -> {"idle", "dispatch", "send", "orphans"}]
      /\ todo' \in [Task -> SUBSET CommandType]
      /\ sess' \in [Task -> 0..MaxSession]
      /\ sid' \in [Task -> 0..MaxSession]
  BY <1>1, SMT
<1>3. \A j \in Task : Standing(j)'
  BY SMT DEF Standing
<1>4. QED
  BY <1>2, <1>3

LEMMA LoopTyped ==
    ASSUME RuntimeTypeInv, NEW k \in Task, NEW loop \in {"dispatch", "orphans"},
           NEW rest \in SUBSET CommandType, Loop(k, loop, rest)
    PROVE  /\ pc' \in [Task -> Label]
           /\ ev' \in [Task -> Event \cup {NoEvent}]
           /\ todo' \in [Task -> SUBSET CommandType]
           /\ pc'[k] \in {"dispatch", "orphans", "idle", "off"}
           /\ \A j \in Task \ {k} : pc'[j] = pc[j] /\ ev'[j] = ev[j]
<1> USE DEF RuntimeTypeInv, RuntimeTypeOK, Loop
<1>1. pc' \in [Task -> Label] /\ todo' \in [Task -> SUBSET CommandType]
  BY SMT DEF Label
<1>2. ev' \in [Task -> Event \cup {NoEvent}]
  BY SMT
<1>3. pc'[k] \in {"dispatch", "orphans", "idle", "off"}
      /\ \A j \in Task \ {k} : pc'[j] = pc[j] /\ ev'[j] = ev[j]
  BY SMT
<1>4. QED
  BY <1>1, <1>2, <1>3

LEMMA JournalTyped ==
    ASSUME RuntimeTypeInv, NEW k \in Task, NEW record \in RecordType,
           NEW return \in {"idle", "dispatch", "send", "orphans"},
           return = "send" => record.kind = "CommandDispatched",
           Journal(k, record, return)
    PROVE  /\ pc' \in [Task -> Label]
           /\ rec' \in [Task -> RecordType \cup {NoRecord}]
           /\ ret' \in [Task -> {"idle", "dispatch", "send", "orphans"}]
           /\ ev' = ev => \A j \in Task : Standing(j)'
<1> USE DEF RuntimeTypeInv, RuntimeTypeOK, Journal, Goto
<1>1. pc' \in [Task -> Label]
  BY SMT DEF Label
<1>2. rec' \in [Task -> RecordType \cup {NoRecord}]
      /\ ret' \in [Task -> {"idle", "dispatch", "send", "orphans"}]
  BY SMT
<1>3. ASSUME ev' = ev PROVE \A j \in Task : Standing(j)'
  BY <1>3, SMT DEF Standing
<1>4. QED
  BY <1>1, <1>2, <1>3

LEMMA AppendFailsTyped ==
    ASSUME RuntimeTypeInv, NEW k \in Task, NEW exit \in Label \ {"append", "apply", "send", "mirror", "route"},
           AppendFails(k, exit)
    PROVE  RuntimeTypeInv'
<1> USE DEF RuntimeTypeInv, RuntimeTypeOK, AppendFails
<1>1. rec[k] \in RecordType
  BY DEF Standing
<1>2. file' \in ReplayType
  BY <1>1, ApplyTyped
<1>3. settled' \in SUBSET CommandId
  BY <1>1, RecordShape DEF IsPlanned
<1>4. faults' \in 0..MaxFaults
  BY RuntimeAssumption, SMT
<1>5. Fail(k, exit)
  OBVIOUS
<1>6. /\ pc' \in [Task -> Label]
      /\ ev' \in [Task -> Event \cup {NoEvent}]
      /\ routes' \in [Task -> SUBSET DOMAIN Rules]
      /\ rec' \in [Task -> RecordType \cup {NoRecord}]
      /\ ret' \in [Task -> {"idle", "dispatch", "send", "orphans"}]
      /\ todo' \in [Task -> SUBSET CommandType]
      /\ sess' \in [Task -> 0..MaxSession]
      /\ sid' \in [Task -> 0..MaxSession]
      /\ \A j \in Task : Standing(j)'
  BY <1>5, FailTyped
<1>7. QED
  BY <1>2, <1>3, <1>4, <1>6

LEMMA ApplyRecordTyped ==
    ASSUME RuntimeTypeInv, NEW k \in Task, ApplyRecord(k)
    PROVE  RuntimeTypeInv'
<1> USE DEF RuntimeTypeInv, RuntimeTypeOK, ApplyRecord
<1>1. rec[k] \in RecordType
  BY DEF Standing
<1>2. mem' \in ReplayType
  BY <1>1, ApplyTyped
<1>3. rec' \in [Task -> RecordType \cup {NoRecord}]
      /\ ret' \in [Task -> {"idle", "dispatch", "send", "orphans"}]
  BY SMT
<1>4. CASE ret[k] \in {"dispatch", "orphans"}
  <2>1. Loop(k, ret[k], todo[k])
    BY <1>4
  <2>2. /\ pc' \in [Task -> Label]
        /\ ev' \in [Task -> Event \cup {NoEvent}]
        /\ todo' \in [Task -> SUBSET CommandType]
        /\ pc'[k] \in {"dispatch", "orphans", "idle", "off"}
        /\ \A j \in Task \ {k} : pc'[j] = pc[j] /\ ev'[j] = ev[j]
    BY <1>4, <2>1, LoopTyped
  <2>3. \A j \in Task \ {k} : rec'[j] = rec[j]
    BY SMT
  <2>4. \A j \in Task : Standing(j)'
    BY <2>2, <2>3, SMT DEF Standing
  <2>5. QED
    BY <1>2, <1>3, <2>2, <2>4
<1>5. CASE ret[k] \notin {"dispatch", "orphans"}
  <2>1. ret[k] \in {"idle", "send"} /\ Goto(k, ret[k]) /\ UNCHANGED <<ev, todo>>
    BY <1>5, SMT
  <2>2. pc' \in [Task -> Label]
    BY <2>1, SMT DEF Goto, Label
  <2>3. \A j \in Task : Standing(j)'
    BY <1>1, <2>1, SMT DEF Standing, Goto
  <2>4. QED
    BY <1>2, <1>3, <2>1, <2>2, <2>3
<1>6. QED
  BY <1>4, <1>5

LEMMA DrawTyped ==
    ASSUME RuntimeTypeInv, NEW k \in Task, DrawSessionId(k)
    PROVE  RuntimeTypeInv'
<1> USE DEF RuntimeTypeInv, RuntimeTypeOK, DrawSessionId, Goto
<1>1. MaxSession \in Nat
  BY RuntimeAssumption
<1>2. nextId \in Session /\ nextId' \in 1..(MaxSession + 1)
  BY <1>1, SMT DEF Session
<1>3. sid' \in [Task -> 0..MaxSession] /\ pc' \in [Task -> Label]
  BY <1>1, <1>2, SMT DEF Session, Label
<1>4. chan' \in [Session -> [open : BOOLEAN, queue : Seq(CommandType)]]
  <2>1. [open |-> TRUE, queue |-> <<>>] \in [open : BOOLEAN, queue : Seq(CommandType)]
    OBVIOUS
  <2>2. QED
    BY <2>1, UpdateTyped
<1>5. \A j \in Task : Standing(j)'
  BY SMT DEF Standing
<1>6. QED
  BY <1>2, <1>3, <1>4, <1>5

LEMMA SessionStepTyped ==
    ASSUME RuntimeTypeInv, NEW k \in Task,
           \/ InsertSession(k) \/ SnapshotQueued(k)
           \/ Unregister(k) \/ SnapshotDispatched(k) \/ MarkOrphan(k)
    PROVE  RuntimeTypeInv'
<1> USE DEF RuntimeTypeInv, RuntimeTypeOK
<1>1. Owner[k] \in Account /\ MaxSession \in Nat
  BY RuntimeAssumption
<1>2. CASE InsertSession(k)
  <2> USE <1>2 DEF InsertSession, Goto
  <2>1. sessions' \in [Account -> 0..MaxSession] /\ pc' \in [Task -> Label]
    BY <1>1, SMT DEF Label
  <2>2. \A j \in Task : Standing(j)'
    BY SMT DEF Standing
  <2>3. QED
    BY <2>1, <2>2
<1>3. CASE SnapshotQueued(k)
  <2> USE <1>3 DEF SnapshotQueued
  <2>1. CommandsIn("queued", Owner[k]) \in SUBSET CommandType
    BY <1>1, CommandsInTyped DEF CommandState
  <2>2. /\ pc' \in [Task -> Label]
        /\ ev' \in [Task -> Event \cup {NoEvent}]
        /\ todo' \in [Task -> SUBSET CommandType]
        /\ pc'[k] \in {"dispatch", "orphans", "idle", "off"}
        /\ \A j \in Task \ {k} : pc'[j] = pc[j] /\ ev'[j] = ev[j]
    BY <2>1, LoopTyped
  <2>3. \A j \in Task : Standing(j)'
    BY <2>2, SMT DEF Standing
  <2>4. QED
    BY <2>2, <2>3
<1>4. CASE Unregister(k)
  <2> USE <1>4 DEF Unregister, Goto
  <2>1. sessions' \in [Account -> 0..MaxSession] /\ pc' \in [Task -> Label]
    <3>1. 0 \in 0..MaxSession /\ {"lost", "off"} \subseteq Label
      BY <1>1, SMT DEF Label
    <3>2. CASE sessions[Owner[k]] = sid[k]
      BY <3>1, <3>2
    <3>3. CASE sessions[Owner[k]] # sid[k]
      BY <3>1, <3>3
    <3>4. QED
      BY <3>2, <3>3
  <2>2. \A j \in Task : Standing(j)'
    BY SMT DEF Standing
  <2>3. QED
    BY <2>1, <2>2
<1>5. CASE SnapshotDispatched(k)
  <2> USE <1>5 DEF SnapshotDispatched
  <2>1. CommandsIn("dispatched", Owner[k]) \in SUBSET CommandType
    BY <1>1, CommandsInTyped DEF CommandState
  <2>2. /\ pc' \in [Task -> Label]
        /\ ev' \in [Task -> Event \cup {NoEvent}]
        /\ todo' \in [Task -> SUBSET CommandType]
        /\ pc'[k] \in {"dispatch", "orphans", "idle", "off"}
        /\ \A j \in Task \ {k} : pc'[j] = pc[j] /\ ev'[j] = ev[j]
    BY <2>1, LoopTyped
  <2>3. \A j \in Task : Standing(j)'
    BY <2>2, SMT DEF Standing
  <2>4. QED
    BY <2>2, <2>3
<1>6. CASE MarkOrphan(k)
  <2> USE <1>6 DEF MarkOrphan
  <2>1. PICK c \in todo[k] : /\ todo' = [todo EXCEPT ![k] = @ \ {c}]
                             /\ Journal(k, CommandUnknown(c.id), "orphans")
    OBVIOUS
  <2>2. c.id \in CommandId
    BY SMT DEF CommandType
  <2>3. CommandUnknown(c.id) \in RecordType
    BY <2>2 DEF CommandUnknown, RecordType
  <2>4. todo' \in [Task -> SUBSET CommandType]
    BY <2>1, SMT
  <2>5. QED
    BY <2>1, <2>3, <2>4, JournalTyped
<1>7. QED
  BY <1>2, <1>3, <1>4, <1>5, <1>6

LEMMA EventStepTyped ==
    ASSUME RuntimeTypeInv, NEW k \in Task, NEW e \in Event, HandleEvent(k, e)
    PROVE  RuntimeTypeInv'
<1> USE DEF RuntimeTypeInv, RuntimeTypeOK
<1>1. CASE HandleEvent(k, e) /\ RoutesFor(e.source) = {}
  <2> USE <1>1 DEF HandleEvent
  <2>1. e.id \in EventId
    BY DEF EventId
  <2>2. EventPlanned(e.id, {}) \in RecordType
    BY <2>1 DEF EventPlanned, RecordType
  <2>3. QED
    BY <2>2, JournalTyped
<1>2. CASE HandleEvent(k, e) /\ RoutesFor(e.source) # {}
  <2> USE <1>2 DEF HandleEvent, Goto
  <2>1. pc' \in [Task -> Label] /\ ev' \in [Task -> Event \cup {NoEvent}]
    <3>1. pc' = [pc EXCEPT ![k] = "route"] /\ ev' = [ev EXCEPT ![k] = e]
      BY <1>2
    <3>2. QED
      BY <3>1 DEF Label
  <2>2. routes' \in [Task -> SUBSET DOMAIN Rules]
    <3>1. RoutesFor(e.source) \in SUBSET DOMAIN Rules
      BY DEF RoutesFor
    <3>2. routes' = [routes EXCEPT ![k] = RoutesFor(e.source)]
      BY <1>2
    <3>3. QED
      BY <3>1, <3>2, UpdateTyped
  <2>3. \A j \in Task : Standing(j)'
    <3>1. /\ pc' = [pc EXCEPT ![k] = "route"] /\ ev' = [ev EXCEPT ![k] = e]
          /\ rec' = rec /\ ret' = ret
      BY <1>2
    <3>2. Standing(k)'
      BY <3>1 DEF Standing
    <3>3. ASSUME NEW j \in Task \ {k} PROVE Standing(j)'
      <4>1. pc'[j] = pc[j] /\ ev'[j] = ev[j]
        BY <3>1
      <4>2. QED
        BY <3>1, <4>1 DEF Standing
    <3>4. QED
      BY <3>2, <3>3
  <2>4. QED
    BY <2>1, <2>2, <2>3
<1>3. QED
  BY <1>1, <1>2

(* What the round of the loop over the routes adds to the plan.             *)
LEMMA PlannedTyped ==
    ASSUME RuntimeTypeInv, NEW k \in Task, pc[k] = "route", NEW i \in routes[k]
    PROVE  LET e == ev[k]
               r == Rules[i]
               b == mem.mirrors[KeyOf(e.source, e.order, r.target)]
           IN  /\ e \in Event
               /\ i \in DOMAIN Rules
               /\ IF Builds(r, e, b) THEN BuiltCommand(r, e, b) \in CommandType ELSE TRUE
<1> DEFINE e == ev[k]
           r == Rules[i]
           b == mem.mirrors[KeyOf(e.source, e.order, r.target)]
<1>1. e \in Event /\ i \in DOMAIN Rules
  BY DEF RuntimeTypeInv, RuntimeTypeOK, Standing
<1>2. KeyOf(e.source, e.order, r.target) \in Key
  BY <1>1, Identifiers
<1>3. mem.mirrors \in [Key -> BindingType \cup {NoBinding}]
  BY SMT DEF RuntimeTypeInv, RuntimeTypeOK, ReplayType
<1>4. b \in BindingType \cup {NoBinding}
  BY <1>2, <1>3
<1>5. Builds(r, e, b) => BuiltCommand(r, e, b) \in CommandType
  BY <1>1, <1>4, BuiltCommandTyped
<1>6. QED
  BY <1>1, <1>5

LEMMA RouteStepTyped ==
    ASSUME RuntimeTypeInv, NEW k \in Task, RouteEvent(k) \/ RoutePanics(k)
    PROVE  RuntimeTypeInv'
<1> USE DEF RuntimeTypeInv, RuntimeTypeOK
<1>1. CASE RoutePanics(k)
  <2> USE <1>1 DEF RoutePanics
  <2>1. "dead" \in Label \ {"append", "apply", "send", "mirror", "route"}
    BY DEF Label
  <2>2. /\ pc' \in [Task -> Label]
        /\ ev' \in [Task -> Event \cup {NoEvent}]
        /\ routes' \in [Task -> SUBSET DOMAIN Rules]
        /\ rec' \in [Task -> RecordType \cup {NoRecord}]
        /\ ret' \in [Task -> {"idle", "dispatch", "send", "orphans"}]
        /\ todo' \in [Task -> SUBSET CommandType]
        /\ sess' \in [Task -> 0..MaxSession]
        /\ sid' \in [Task -> 0..MaxSession]
        /\ \A j \in Task : Standing(j)'
    BY <2>1, FailTyped
  <2>3. QED
    BY <2>2
<1>2. CASE RouteEvent(k)
  <2> DEFINE e == ev[k]
             b(i) == mem.mirrors[KeyOf(e.source, e.order, Rules[i].target)]
             planned(i) == todo[k] \cup IF Builds(Rules[i], e, b(i))
                                         THEN {BuiltCommand(Rules[i], e, b(i))} ELSE {}
  <2>1. PICK i \in routes[k] :
          /\ routes' = [routes EXCEPT ![k] = @ \ {i}]
          /\ todo' = [todo EXCEPT ![k] = planned(i)]
          /\ IF routes[k] = {i}
             THEN Journal(k, EventPlanned(e.id, planned(i)), "dispatch")
             ELSE UNCHANGED <<pc, rec, ret>>
    BY <1>2 DEF RouteEvent
  <2>2. /\ pc[k] = "route"
        /\ UNCHANGED <<mem, file, sessions, nextId, chan, ev, sess, sid, handed, settled, faults>>
    BY <1>2 DEF RouteEvent
  <2>3. e \in Event /\ planned(i) \in SUBSET CommandType
    BY <2>2, PlannedTyped
  <2>4. e.id \in EventId
    BY <2>3 DEF EventId
  <2>5. routes' \in [Task -> SUBSET DOMAIN Rules]
    BY <2>1
  <2>6. todo' \in [Task -> SUBSET CommandType]
    BY <2>1, <2>3
  <2>7. CASE routes[k] = {i}
    <3>1. EventPlanned(e.id, planned(i)) \in RecordType
      BY <2>3, <2>4 DEF EventPlanned, RecordType
    <3>2. /\ pc' \in [Task -> Label]
          /\ rec' \in [Task -> RecordType \cup {NoRecord}]
          /\ ret' \in [Task -> {"idle", "dispatch", "send", "orphans"}]
          /\ \A j \in Task : Standing(j)'
      BY <2>1, <2>2, <2>7, <3>1, JournalTyped
    <3>3. QED
      BY <2>2, <2>5, <2>6, <3>2
  <2>8. CASE routes[k] # {i}
    <3>1. UNCHANGED <<pc, rec, ret>>
      BY <2>1, <2>8
    <3>2. \A j \in Task : Standing(j)'
      BY <2>2, <3>1 DEF Standing
    <3>3. QED
      BY <2>2, <2>5, <2>6, <3>1, <3>2
  <2>9. QED
    BY <2>7, <2>8
<1>3. QED
  BY <1>1, <1>2

LEMMA DispatchStepTyped ==
    ASSUME RuntimeTypeInv, NEW k \in Task, DispatchNext(k) \/ Send(k) \/ SendFails(k)
    PROVE  RuntimeTypeInv'
<1> USE DEF RuntimeTypeInv, RuntimeTypeOK
<1>1. CASE DispatchNext(k)
  <2>1. PICK c \in todo[k] :
          IF sessions[c.target] = 0
          THEN Loop(k, "dispatch", todo[k] \ {c}) /\ UNCHANGED <<rec, ret, sess>>
          ELSE /\ sess' = [sess EXCEPT ![k] = sessions[c.target]]
               /\ Journal(k, CommandDispatched(c.id), "send")
               /\ UNCHANGED <<todo, ev>>
    BY <1>1 DEF DispatchNext
  <2>2. UNCHANGED <<mem, file, sessions, nextId, chan, routes, sid, handed, settled, faults>>
    BY <1>1 DEF DispatchNext
  <2>3. c.id \in CommandId /\ c.target \in Account
    BY SMT DEF CommandType
  <2>4. CASE sessions[c.target] = 0
    <3>1. Loop(k, "dispatch", todo[k] \ {c}) /\ UNCHANGED <<rec, ret, sess>>
      BY <2>1, <2>4
    <3>2. todo[k] \ {c} \in SUBSET CommandType
      OBVIOUS
    <3>3. /\ pc' \in [Task -> Label]
          /\ ev' \in [Task -> Event \cup {NoEvent}]
          /\ todo' \in [Task -> SUBSET CommandType]
          /\ pc'[k] \in {"dispatch", "orphans", "idle", "off"}
          /\ \A j \in Task \ {k} : pc'[j] = pc[j] /\ ev'[j] = ev[j]
      BY <3>1, <3>2, LoopTyped
    <3>4. \A j \in Task : Standing(j)'
      BY <3>1, <3>3, SMT DEF Standing
    <3>5. QED
      BY <2>2, <3>1, <3>3, <3>4
  <2>5. CASE sessions[c.target] # 0
    <3>1. /\ sess' = [sess EXCEPT ![k] = sessions[c.target]]
          /\ Journal(k, CommandDispatched(c.id), "send")
          /\ UNCHANGED <<todo, ev>>
      BY <2>1, <2>5
    <3>2. /\ CommandDispatched(c.id) \in RecordType
          /\ CommandDispatched(c.id).kind = "CommandDispatched"
      BY <2>3 DEF CommandDispatched, RecordType
    <3>3. sess' \in [Task -> 0..MaxSession]
      BY <2>3, <3>1
    <3>4. QED
      BY <2>2, <3>1, <3>2, <3>3, JournalTyped
  <2>6. QED
    BY <2>4, <2>5
<1>2. CASE Send(k)
  <2>1. PICK c \in todo[k] :
          /\ chan' = [chan EXCEPT ![sess[k]].queue = Append(@, c)]
          /\ handed' = [handed EXCEPT ![c.id] = IF @ = 2 THEN 2 ELSE @ + 1]
          /\ Loop(k, "dispatch", todo[k] \ {c})
    BY <1>2 DEF Send
  <2>2. /\ rec' = [rec EXCEPT ![k] = NoRecord]
        /\ sess' = [sess EXCEPT ![k] = 0]
        /\ UNCHANGED <<mem, file, sessions, nextId, routes, ret, sid, settled, faults>>
    BY <1>2 DEF Send
  <2>3. c \in CommandType /\ c.id \in CommandId /\ todo[k] \ {c} \in SUBSET CommandType
    BY SMT DEF CommandType
  <2>4. chan' \in [Session -> [open : BOOLEAN, queue : Seq(CommandType)]]
    <3>1. CASE sess[k] \notin Session
      BY <2>1, <3>1
    <3>2. CASE sess[k] \in Session
      <4>1. chan[sess[k]] \in [open : BOOLEAN, queue : Seq(CommandType)]
        BY <3>2
      <4>2. Append(chan[sess[k]].queue, c) \in Seq(CommandType)
        BY <2>3, <4>1, SMT
      <4>3. [chan[sess[k]] EXCEPT !.queue = Append(@, c)]
              \in [open : BOOLEAN, queue : Seq(CommandType)]
        BY <4>1, <4>2
      <4>4. QED
        BY <2>1, <4>3, UpdateTyped
    <3>3. QED
      BY <3>1, <3>2
  <2>5. handed' \in [CommandId -> 0..2]
    <3> DEFINE n == handed[c.id]
               m == IF n = 2 THEN 2 ELSE n + 1
    <3>1. n \in 0..2
      BY <2>3
    <3>2. m \in 0..2
      BY <3>1, SMT
    <3>3. handed' = [handed EXCEPT ![c.id] = m]
      BY <2>1
    <3> HIDE DEF m
    <3>4. QED
      BY <3>2, <3>3, UpdateTyped
  <2>6. /\ pc' \in [Task -> Label]
        /\ ev' \in [Task -> Event \cup {NoEvent}]
        /\ todo' \in [Task -> SUBSET CommandType]
        /\ pc'[k] \in {"dispatch", "orphans", "idle", "off"}
        /\ \A j \in Task \ {k} : pc'[j] = pc[j] /\ ev'[j] = ev[j]
    BY <2>1, <2>3, LoopTyped
  <2>7. rec' \in [Task -> RecordType \cup {NoRecord}] /\ sess' \in [Task -> 0..MaxSession]
    BY <2>2, RuntimeAssumption, SMT
  <2>8. \A j \in Task : Standing(j)'
    BY <2>2, <2>6, SMT DEF Standing
  <2>9. QED
    BY <2>2, <2>4, <2>5, <2>6, <2>7, <2>8
<1>3. CASE SendFails(k)
  <2> USE <1>3 DEF SendFails
  <2>1. rec[k] \in RecordType
    BY DEF Standing
  <2>2. rec[k].id \in CommandId => CommandUnknown(rec[k].id) \in RecordType
    BY DEF CommandUnknown, RecordType
  <2>3. todo' \in [Task -> SUBSET CommandType] /\ sess' \in [Task -> 0..MaxSession]
    BY RuntimeAssumption, SMT
  <2>4. rec[k].id \in CommandId
    BY <2>1, RecordShape DEF Standing, IsPlanned
  <2>5. QED
    BY <2>2, <2>3, <2>4, JournalTyped
<1>4. QED
  BY <1>1, <1>2, <1>3

(* The record of an acknowledgement, for a command that is in the map.      *)
LEMMA AckRecordTyped ==
    ASSUME NEW c \in CommandType, NEW ack,
           ack.status \in AckStatus, ack.position \in Position \cup {NoPosition}
    PROVE  AckRecord(c, ack) \in RecordType
<1>1. /\ c.id \in CommandId /\ c.route \in RuleId /\ c.source \in Account
      /\ c.order \in OrderId /\ c.target \in Account /\ c.action \in Action
      /\ c.volume \in Nat /\ c.sourceVolume \in Nat
      /\ c.sourceRemaining \in Nat \cup {NoVolume}
  BY SMT DEF CommandType
<1>2. ASSUME NEW m \in MutationType PROVE AckApplied(c.id, ack.status, m) \in RecordType
  BY <1>1 DEF AckApplied, RecordType
<1>3. CASE ack.status \notin Success
  <2>1. AckRecord(c, ack) = AckApplied(c.id, ack.status, NoMutation)
    BY <1>3 DEF AckRecord
  <2>2. NoMutation \in MutationType
    BY DEF MutationType
  <2>3. QED
    BY <1>2, <2>1, <2>2
<1>4. CASE ack.status \in Success /\ c.action = "open"
  <2> DEFINE m == [kind |-> "upsert", binding |-> NewBinding(c, ack.position)]
  <2>1. AckRecord(c, ack) = IF ack.position = NoPosition THEN CommandUnknown(c.id)
                            ELSE AckApplied(c.id, ack.status, m)
    BY <1>4 DEF AckRecord
  <2>2. CommandUnknown(c.id) \in RecordType
    BY <1>1 DEF CommandUnknown, RecordType
  <2>3. ASSUME ack.position # NoPosition PROVE m \in MutationType
    <3> DEFINE left == IF c.sourceRemaining = NoVolume THEN c.sourceVolume
                       ELSE c.sourceRemaining
    <3>1. left \in Nat
      BY <1>1, SMT
    <3>2. ack.position \in Position
      BY <2>3
    <3>3. NewBinding(c, ack.position) =
            [route |-> c.route, source |-> c.source, order |-> c.order,
             target |-> c.target, position |-> ack.position,
             sourceOpen |-> c.sourceVolume, sourceRemaining |-> left,
             targetOpen |-> c.volume, targetRemaining |-> c.volume]
      BY DEF NewBinding
    <3> HIDE DEF left
    <3>4. NewBinding(c, ack.position) \in BindingType
      BY <1>1, <3>1, <3>2, <3>3 DEF BindingType
    <3>5. QED
      BY <3>4 DEF MutationType
  <2> HIDE DEF m
  <2>4. QED
    BY <1>2, <2>1, <2>2, <2>3
<1>5. CASE ack.status \in Success /\ c.action = "close"
  <2> DEFINE m == [kind |-> "remove", key |-> KeyOf(c.source, c.order, c.target)]
  <2>1. AckRecord(c, ack) = AckApplied(c.id, ack.status, m)
    BY <1>5 DEF AckRecord
  <2>2. KeyOf(c.source, c.order, c.target) \in Key
    BY <1>1 DEF KeyOf, Key
  <2>3. m \in MutationType
    BY <2>2 DEF MutationType
  <2> HIDE DEF m
  <2>4. QED
    BY <1>2, <2>1, <2>3
<1>6. CASE ack.status \in Success /\ c.action \in {"modify", "reduce"}
  <2>1. AckRecord(c, ack) = AckApplied(c.id, ack.status, NoMutation)
    BY <1>6 DEF AckRecord
  <2>2. NoMutation \in MutationType
    BY DEF MutationType
  <2>3. QED
    BY <1>2, <2>1, <2>2
<1>7. QED
  BY <1>1, <1>3, <1>4, <1>5, <1>6 DEF Action

LEMMA ReducedTyped ==
    ASSUME NEW b \in BindingType, NEW c \in CommandType
    PROVE  Reduced(b, c) \in BindingType
<1> DEFINE s == IF c.sourceRemaining = NoVolume
                THEN NotNegative(b.sourceRemaining - c.sourceVolume) ELSE c.sourceRemaining
           t == NotNegative(b.targetRemaining - c.volume)
<1>1. c.volume \in Nat /\ c.sourceVolume \in Nat /\ c.sourceRemaining \in Nat \cup {NoVolume}
  BY SMT DEF CommandType
<1>2. /\ b.route \in RuleId /\ b.source \in Account /\ b.order \in OrderId
      /\ b.target \in Account /\ b.position \in Position
      /\ b.sourceOpen \in Nat /\ b.sourceRemaining \in Nat
      /\ b.targetOpen \in Nat /\ b.targetRemaining \in Nat
  BY SMT DEF BindingType
<1>3. s \in Nat /\ t \in Nat
  BY <1>1, <1>2, SMT DEF NotNegative
<1>4. Reduced(b, c) = [[b EXCEPT !.sourceRemaining = s] EXCEPT !.targetRemaining = t]
  BY SMT DEF Reduced
<1> DEFINE b1 == [b EXCEPT !.sourceRemaining = s]
<1> HIDE DEF s, t
<1>5. b1 \in BindingType
  BY <1>3, SMT DEF BindingType
<1> HIDE DEF b1
<1>6. [b1 EXCEPT !.targetRemaining = t] \in BindingType
  BY <1>3, <1>5, SMT DEF BindingType
<1>7. QED
  BY <1>4, <1>6 DEF b1

LEMMA AckStepTyped ==
    ASSUME RuntimeTypeInv, NEW k \in Task, NEW ack,
           ack.id \in CommandId, ack.status \in AckStatus,
           ack.position \in Position \cup {NoPosition},
           HandleAck(k, ack)
    PROVE  RuntimeTypeInv'
<1> USE DEF RuntimeTypeInv, RuntimeTypeOK
<1> DEFINE c == mem.commands[ack.id].command
           r == AckRecord(c, ack)
<1>2. /\ ack.id \in CommandId /\ ack.status \in AckStatus
      /\ ack.position \in Position \cup {NoPosition}
  OBVIOUS
<1>3. c \in CommandType
  BY <1>2, StoredTyped DEF HandleAck
<1>4. r \in RecordType
  BY <1>2, <1>3, AckRecordTyped
<1>5. UNCHANGED <<mem, file, sessions, nextId, chan, ev, routes, sess, sid,
                  handed, settled, faults>>
  BY DEF HandleAck
<1>6. CASE IsReduced(c, ack)
  <2>1. /\ Goto(k, "mirror") /\ rec' = [rec EXCEPT ![k] = r]
        /\ todo' = [todo EXCEPT ![k] = {c}] /\ ret' = ret
    BY <1>6 DEF HandleAck
  <2> HIDE DEF c, r
  <2>2. pc' \in [Task -> Label]
    BY <2>1 DEF Goto, Label
  <2>3. rec' \in [Task -> RecordType \cup {NoRecord}]
    BY <1>4, <2>1
  <2>4. todo' \in [Task -> SUBSET CommandType]
    BY <1>3, <2>1
  <2>5. Standing(k)'
    <3>1. r.kind = "AckApplied"
      BY <1>6 DEF r, IsReduced, AckRecord, AckApplied
    <3>2. QED
      BY <1>4, <2>1, <3>1 DEF Standing, Goto
  <2>6. ASSUME NEW j \in Task \ {k} PROVE Standing(j)'
    <3>1. pc'[j] = pc[j] /\ rec'[j] = rec[j] /\ ev' = ev
      BY <1>5, <2>1 DEF Goto
    <3>2. QED
      BY <2>1, <3>1 DEF Standing
  <2>7. QED
    BY <1>5, <2>1, <2>2, <2>3, <2>4, <2>5, <2>6
<1>7. CASE ~IsReduced(c, ack)
  <2>1. Journal(k, r, "idle") /\ todo' = todo
    BY <1>7 DEF HandleAck
  <2> HIDE DEF c, r
  <2>2. /\ pc' \in [Task -> Label]
        /\ rec' \in [Task -> RecordType \cup {NoRecord}]
        /\ ret' \in [Task -> {"idle", "dispatch", "send", "orphans"}]
        /\ \A j \in Task : Standing(j)'
    BY <1>4, <1>5, <2>1, JournalTyped
  <2>3. QED
    BY <1>5, <2>1, <2>2
<1>8. QED
  BY <1>6, <1>7

LEMMA MutateReducedTyped ==
    ASSUME RuntimeTypeInv, NEW k \in Task, MutateReduced(k)
    PROVE  RuntimeTypeInv'
<1> USE DEF RuntimeTypeInv, RuntimeTypeOK
<1>1. PICK c \in todo[k] :
        LET b == mem.mirrors[KeyOf(c.source, c.order, c.target)]
        IN  Journal(k, IF b = NoBinding THEN rec[k]
                       ELSE AckApplied(c.id, rec[k].status,
                                       [kind |-> "upsert", binding |-> Reduced(b, c)]),
                    "idle")
  BY DEF MutateReduced
<1> DEFINE b == mem.mirrors[KeyOf(c.source, c.order, c.target)]
           m == [kind |-> "upsert", binding |-> Reduced(b, c)]
           r == IF b = NoBinding THEN rec[k] ELSE AckApplied(c.id, rec[k].status, m)
<1>2. /\ pc[k] = "mirror" /\ todo' = [todo EXCEPT ![k] = {}]
      /\ UNCHANGED <<mem, file, sessions, nextId, chan, ev, routes, sess, sid,
                     handed, settled, faults>>
  BY DEF MutateReduced
<1>3. Journal(k, r, "idle")
  BY <1>1
<1>4. rec[k] \in RecordType /\ (b # NoBinding => rec[k].status \in AckStatus)
  <2>1. rec[k] \in RecordType /\ rec[k].kind = "AckApplied"
    BY <1>2 DEF Standing
  <2>2. QED
    BY <2>1, RecordShape
<1>5. c \in CommandType /\ c.id \in CommandId
  BY SMT DEF CommandType
<1>6. ASSUME b # NoBinding PROVE m \in MutationType
  <2>1. KeyOf(c.source, c.order, c.target) \in Key
    BY <1>5, SMT DEF CommandType, KeyOf, Key
  <2>2. mem.mirrors \in [Key -> BindingType \cup {NoBinding}]
    BY SMT DEF ReplayType
  <2>3. b \in BindingType
    BY <1>6, <2>1, <2>2
  <2>4. Reduced(b, c) \in BindingType
    BY <1>5, <2>3, ReducedTyped
  <2>5. QED
    BY <2>4 DEF MutationType
<1> HIDE DEF b, m
<1>7. r \in RecordType
  <2>1. CASE b = NoBinding
    BY <1>4, <2>1
  <2>2. CASE b # NoBinding
    BY <1>4, <1>5, <1>6, <2>2 DEF AckApplied, RecordType
  <2>3. QED
    BY <2>1, <2>2
<1> HIDE DEF r
<1>8. todo' \in [Task -> SUBSET CommandType]
  BY <1>2
<1>9. QED
  BY <1>2, <1>3, <1>7, <1>8, JournalTyped

(* Every step a handler takes by itself.                                    *)
LEMMA HandlerTyped ==
    ASSUME RuntimeTypeInv, NEW k \in Task, HandlerStep(k)
    PROVE  RuntimeTypeInv'
<1>1. CASE \/ InsertSession(k) \/ SnapshotQueued(k)
           \/ Unregister(k) \/ SnapshotDispatched(k) \/ MarkOrphan(k)
  BY <1>1, SessionStepTyped
<1>2. CASE RouteEvent(k) \/ RoutePanics(k)
  BY <1>2, RouteStepTyped
<1>3. CASE AppendRecord(k)
  BY <1>3, AppendTyped
<1>4. CASE ApplyRecord(k)
  BY <1>4, ApplyRecordTyped
<1>5. CASE DispatchNext(k) \/ Send(k) \/ SendFails(k)
  BY <1>5, DispatchStepTyped
<1>6. CASE MutateReduced(k)
  BY <1>6, MutateReducedTyped
<1>7. QED
  BY <1>1, <1>2, <1>3, <1>4, <1>5, <1>6 DEF HandlerStep

(* What a component may do with the shared state: besides running handlers  *)
(* and letting them fail, it ends a task's handler, turns to unregistering  *)
(* a session, takes a command off a channel or closes one, and restarts.    *)
Exit == {"off", "idle", "leave", "dead"}
AckType == [id : CommandId, status : AckStatus, position : Position \cup {NoPosition}]

Ends(k, label) ==
    /\ pc[k] = "idle"
    /\ Fail(k, label)
    /\ UNCHANGED <<mem, file, sessions, nextId, chan, handed, settled, faults>>
Leaves(k) ==
    /\ pc[k] = "idle"
    /\ Goto(k, "leave")
    /\ UNCHANGED <<mem, file, sessions, nextId, chan, ev, routes, rec, ret, todo, sess, sid,
                   handed, settled, faults>>
Takes(s) ==
    /\ chan[s].queue # <<>>
    /\ chan' = [chan EXCEPT ![s].queue = Tail(@)]
    /\ UNCHANGED <<mem, file, sessions, nextId, taskVars, handed, settled, faults>>
Closes(s) ==
    /\ chan' = [chan EXCEPT ![s] = [open |-> FALSE, queue |-> <<>>]]
    /\ UNCHANGED <<mem, file, sessions, nextId, taskVars, handed, settled, faults>>
Restarts ==
    /\ mem' = Finalize(file)
    /\ FreshTasks'
    /\ UNCHANGED <<file, handed, settled, faults>>

RuntimeStep(acks) ==
    \/ \E k \in Task :
         \/ HandlerStep(k) \/ DrawSessionId(k) \/ Leaves(k)
         \/ \E label \in Exit : AppendFails(k, label) \/ Ends(k, label)
         \/ \E e \in Event : HandleEvent(k, e)
         \/ \E ack \in acks : HandleAck(k, ack)
    \/ \E s \in Session : Takes(s) \/ Closes(s)
    \/ Restarts
    \/ UNCHANGED runtimeVars

(* What is refused ends the connection.                                     *)
LEMMA RefusedEnds ==
    ASSUME NEW k \in Task
    PROVE  /\ \A e : RefuseEvent(k, e) => Ends(k, "leave")
           /\ \A ack : RefuseAck(k, ack) => Ends(k, "leave")
BY DEF RefuseEvent, RefuseAck, Ends

LEMMA EndsTyped ==
    ASSUME RuntimeTypeInv, NEW k \in Task, NEW label \in Exit, Ends(k, label)
    PROVE  RuntimeTypeInv'
<1>1. label \in Label \ {"append", "apply", "send", "mirror", "route"}
  BY DEF Exit, Label
<1>2. /\ pc' \in [Task -> Label]
      /\ ev' \in [Task -> Event \cup {NoEvent}]
      /\ routes' \in [Task -> SUBSET DOMAIN Rules]
      /\ rec' \in [Task -> RecordType \cup {NoRecord}]
      /\ ret' \in [Task -> {"idle", "dispatch", "send", "orphans"}]
      /\ todo' \in [Task -> SUBSET CommandType]
      /\ sess' \in [Task -> 0..MaxSession]
      /\ sid' \in [Task -> 0..MaxSession]
      /\ \A j \in Task : Standing(j)'
  BY <1>1, FailTyped DEF Ends
<1>3. QED
  BY <1>2 DEF RuntimeTypeInv, RuntimeTypeOK, Ends

LEMMA LeavesTyped ==
    ASSUME RuntimeTypeInv, NEW k \in Task, Leaves(k)
    PROVE  RuntimeTypeInv'
<1>1. pc' \in [Task -> Label]
  BY DEF RuntimeTypeInv, RuntimeTypeOK, Leaves, Goto, Label
<1>2. \A j \in Task : Standing(j)'
  BY SMT DEF RuntimeTypeInv, RuntimeTypeOK, Leaves, Goto, Standing
<1>3. QED
  BY <1>1, <1>2 DEF RuntimeTypeInv, RuntimeTypeOK, Leaves

LEMMA ChannelTyped ==
    ASSUME RuntimeTypeInv, NEW s \in Session, Takes(s) \/ Closes(s)
    PROVE  /\ RuntimeTypeInv'
           /\ Takes(s) => Head(chan[s].queue) \in CommandType
<1> DEFINE T == [open : BOOLEAN, queue : Seq(CommandType)]
<1>1. chan \in [Session -> T] /\ chan[s] \in T
  BY DEF RuntimeTypeInv, RuntimeTypeOK
<1>2. ASSUME Takes(s)
      PROVE  Head(chan[s].queue) \in CommandType /\ chan' \in [Session -> T]
  <2> DEFINE next == [chan[s] EXCEPT !.queue = Tail(@)]
  <2>1. chan[s].queue \in Seq(CommandType) /\ chan[s].queue # <<>>
    BY <1>1, <1>2 DEF Takes
  <2>2. Head(chan[s].queue) \in CommandType /\ Tail(chan[s].queue) \in Seq(CommandType)
    BY <2>1, SMT
  <2>3. next \in T
    BY <1>1, <2>2
  <2>4. chan' = [chan EXCEPT ![s] = next]
    BY <1>2 DEF Takes
  <2> HIDE DEF next, T
  <2>5. QED
    BY <1>1, <2>2, <2>3, <2>4, UpdateTyped
<1>3. ASSUME Closes(s) PROVE chan' \in [Session -> T]
  <2>1. [open |-> FALSE, queue |-> <<>>] \in T
    OBVIOUS
  <2>2. chan' = [chan EXCEPT ![s] = [open |-> FALSE, queue |-> <<>>]]
    BY <1>3 DEF Closes
  <2> HIDE DEF T
  <2>3. QED
    BY <1>1, <2>1, <2>2, UpdateTyped
<1>4. UNCHANGED <<mem, file, sessions, nextId, taskVars, handed, settled, faults>>
  BY DEF Takes, Closes
<1>5. QED
  BY <1>2, <1>3, <1>4 DEF RuntimeTypeInv, RuntimeTypeOK, Standing, taskVars

LEMMA RestartTyped ==
    ASSUME RuntimeTypeInv, Restarts
    PROVE  RuntimeTypeInv'
<1> USE DEF RuntimeTypeInv, RuntimeTypeOK, Restarts, FreshTasks
<1>1. MaxSession \in Nat
  BY RuntimeAssumption
<1>2. mem' \in ReplayType
  BY FinalizeEffect
<1>3. sessions' \in [Account -> 0..MaxSession] /\ nextId' \in 1..(MaxSession + 1)
  BY <1>1, SMT
<1>4. chan' \in [Session -> [open : BOOLEAN, queue : Seq(CommandType)]]
  OBVIOUS
<1>5. /\ pc' \in [Task -> Label]
      /\ ev' \in [Task -> Event \cup {NoEvent}]
      /\ routes' \in [Task -> SUBSET DOMAIN Rules]
      /\ rec' \in [Task -> RecordType \cup {NoRecord}]
      /\ ret' \in [Task -> {"idle", "dispatch", "send", "orphans"}]
      /\ todo' \in [Task -> SUBSET CommandType]
      /\ sess' \in [Task -> 0..MaxSession]
      /\ sid' \in [Task -> 0..MaxSession]
  BY <1>1, SMT DEF Label
<1>6. \A k \in Task : Standing(k)'
  BY DEF Standing
<1>7. QED
  BY <1>2, <1>3, <1>4, <1>5, <1>6

LEMMA StepTyped ==
    ASSUME RuntimeTypeInv, RuntimeStep(AckType)
    PROVE  RuntimeTypeInv'
<1>1. ASSUME NEW k \in Task, HandlerStep(k) PROVE RuntimeTypeInv'
  BY <1>1, HandlerTyped
<1>2. ASSUME NEW k \in Task, DrawSessionId(k) PROVE RuntimeTypeInv'
  BY <1>2, DrawTyped
<1>3. ASSUME NEW k \in Task, Leaves(k) PROVE RuntimeTypeInv'
  BY <1>3, LeavesTyped
<1>4. ASSUME NEW k \in Task, NEW label \in Exit, AppendFails(k, label) PROVE RuntimeTypeInv'
  <2>1. label \in Label \ {"append", "apply", "send", "mirror", "route"}
    BY DEF Exit, Label
  <2>2. QED
    BY <1>4, <2>1, AppendFailsTyped
<1>5. ASSUME NEW k \in Task, NEW label \in Exit, Ends(k, label) PROVE RuntimeTypeInv'
  BY <1>5, EndsTyped
<1>6. ASSUME NEW k \in Task, NEW e \in Event, HandleEvent(k, e) PROVE RuntimeTypeInv'
  BY <1>6, EventStepTyped
<1>7. ASSUME NEW k \in Task, NEW ack \in AckType, HandleAck(k, ack) PROVE RuntimeTypeInv'
  BY <1>7, AckStepTyped DEF AckType
<1>8. ASSUME NEW s \in Session, Takes(s) \/ Closes(s) PROVE RuntimeTypeInv'
  BY <1>8, ChannelTyped
<1>9. CASE Restarts
  BY <1>9, RestartTyped
<1>10. CASE UNCHANGED runtimeVars
  BY <1>10 DEF RuntimeTypeInv, RuntimeTypeOK, Standing, runtimeVars, taskVars
<1>11. QED
  BY <1>1, <1>2, <1>3, <1>4, <1>5, <1>6, <1>7, <1>8, <1>9, <1>10 DEF RuntimeStep

LEMMA RuntimeTypeInit ==
    ASSUME RuntimeInit
    PROVE  RuntimeTypeInv
<1> USE DEF RuntimeInit, FreshTasks
<1>1. EmptyReplay \in ReplayType
  BY EmptyTyped
<1>2. <<>> \in Seq(CommandType)
  OBVIOUS
<1>3. RuntimeTypeOK
  BY <1>1, <1>2, RuntimeAssumption, SMT DEF RuntimeTypeOK, Label, Session
<1>4. QED
  BY <1>3 DEF RuntimeTypeInv, Standing

(* A task that is somewhere has drawn a session id.                         *)
Seated == \A k \in Task : pc[k] # "off" => sid[k] \in Session

LEMMA SeatedStart ==
    ASSUME RuntimeInit
    PROVE  Seated
BY DEF RuntimeInit, FreshTasks, Seated

LEMMA StaysOff ==
    ASSUME RuntimeTypeInv, NEW k \in Task,
           \/ HandlerStep(k) \/ Leaves(k)
           \/ \E label : AppendFails(k, label) \/ Ends(k, label)
           \/ \E e : HandleEvent(k, e)
           \/ \E ack : HandleAck(k, ack)
    PROVE  sid' = sid /\ pc[k] # "off" /\ \A j \in Task \ {k} : pc'[j] = pc[j]
<1>1. pc = [j \in Task |-> pc[j]]
  BY DEF RuntimeTypeInv, RuntimeTypeOK
<1>2. CASE \/ InsertSession(k) \/ SnapshotQueued(k) \/ Unregister(k)
           \/ SnapshotDispatched(k) \/ MarkOrphan(k) \/ Leaves(k)
  BY <1>1, <1>2 DEF InsertSession, SnapshotQueued, Unregister, SnapshotDispatched, MarkOrphan,
                    Leaves, Goto, Loop, Journal
<1>3. CASE RouteEvent(k) \/ RoutePanics(k)
  BY <1>1, <1>3 DEF RouteEvent, RoutePanics, Fail, Goto, Journal
<1>4. CASE AppendRecord(k) \/ ApplyRecord(k)
  BY <1>1, <1>4 DEF AppendRecord, ApplyRecord, Goto, Loop
<1>5. CASE DispatchNext(k) \/ Send(k) \/ SendFails(k)
  BY <1>1, <1>5 DEF DispatchNext, Send, SendFails, Goto, Loop, Journal
<1>6. CASE MutateReduced(k)
  BY <1>1, <1>6 DEF MutateReduced, Goto, Journal
<1>7. ASSUME NEW label, AppendFails(k, label) \/ Ends(k, label)
      PROVE  sid' = sid /\ pc[k] # "off" /\ \A j \in Task \ {k} : pc'[j] = pc[j]
  BY <1>1, <1>7 DEF AppendFails, Ends, Fail, Goto
<1>8. ASSUME NEW e, HandleEvent(k, e)
      PROVE  sid' = sid /\ pc[k] # "off" /\ \A j \in Task \ {k} : pc'[j] = pc[j]
  BY <1>1, <1>8 DEF HandleEvent, Goto, Journal
<1>9. ASSUME NEW ack, HandleAck(k, ack)
      PROVE  sid' = sid /\ pc[k] # "off" /\ \A j \in Task \ {k} : pc'[j] = pc[j]
  BY <1>1, <1>9 DEF HandleAck, Goto, Journal
<1>10. QED
  BY <1>2, <1>3, <1>4, <1>5, <1>6, <1>7, <1>8, <1>9 DEF HandlerStep

LEMMA SeatedStep ==
    ASSUME RuntimeTypeInv, Seated, NEW acks, RuntimeStep(acks)
    PROVE  Seated'
<1>1. ASSUME NEW k \in Task, sid' = sid, pc[k] # "off",
             \A j \in Task \ {k} : pc'[j] = pc[j]
      PROVE  Seated'
  BY <1>1 DEF Seated
<1>2. CASE \E k \in Task :
             \/ HandlerStep(k) \/ Leaves(k)
             \/ \E label : AppendFails(k, label) \/ Ends(k, label)
             \/ \E e : HandleEvent(k, e)
             \/ \E ack : HandleAck(k, ack)
  BY <1>1, <1>2, StaysOff
<1>3. ASSUME NEW k \in Task, DrawSessionId(k) PROVE Seated'
  <2>1. nextId \in Session
    BY <1>3, RuntimeAssumption, SMT DEF DrawSessionId, RuntimeTypeInv, RuntimeTypeOK, Session
  <2>2. /\ sid'[k] = nextId
        /\ \A j \in Task \ {k} : sid'[j] = sid[j] /\ pc'[j] = pc[j]
    BY <1>3 DEF DrawSessionId, RuntimeTypeInv, RuntimeTypeOK, Goto
  <2>3. QED
    BY <2>1, <2>2 DEF Seated
<1>4. ASSUME NEW s \in Session, Takes(s) \/ Closes(s) PROVE Seated'
  BY <1>4 DEF Seated, Takes, Closes, taskVars
<1>5. CASE Restarts
  BY <1>5 DEF Restarts, FreshTasks, Seated
<1>6. CASE UNCHANGED runtimeVars
  BY <1>6 DEF Seated, runtimeVars, taskVars
<1>7. QED
  BY <1>2, <1>3, <1>4, <1>5, <1>6 DEF RuntimeStep

-----------------------------------------------------------------------------
(* What a step does to the two states: the file takes the record of a task  *)
(* that appends, the memory that of one that applies, or what a restart     *)
(* finds in the file.                                                       *)

LEMMA StatesMove ==
    ASSUME RuntimeTypeInv, RuntimeStep(AckType)
    PROVE  /\ \/ UNCHANGED <<file, settled>>
              \/ \E k \in Task :
                   /\ pc[k] = "append" /\ rec[k] \in RecordType
                   /\ file' = Apply(file, rec[k])
                   /\ settled' = IF IsFinalAck(rec[k]) THEN settled \cup {rec[k].id} ELSE settled
           /\ \/ mem' = mem
              \/ \E k \in Task :
                   /\ pc[k] = "apply" /\ rec[k] \in RecordType
                   /\ mem' = Apply(mem, rec[k])
              \/ mem' = Finalize(file)
<1>1. \A k \in Task : pc[k] \in {"append", "apply"} => rec[k] \in RecordType
  BY DEF RuntimeTypeInv, Standing
<1>2. ASSUME NEW k \in Task, HandlerStep(k)
      PROVE  /\ \/ UNCHANGED <<file, settled>>
                \/ /\ pc[k] = "append" /\ file' = Apply(file, rec[k])
                   /\ settled' = IF IsFinalAck(rec[k]) THEN settled \cup {rec[k].id} ELSE settled
             /\ \/ mem' = mem
                \/ pc[k] = "apply" /\ mem' = Apply(mem, rec[k])
  BY <1>2 DEF HandlerStep, InsertSession, SnapshotQueued, RouteEvent, RoutePanics,
              AppendRecord, ApplyRecord, DispatchNext, Send, SendFails, MutateReduced,
              Unregister, SnapshotDispatched, MarkOrphan, IsFinalAck
<1>3. ASSUME NEW k \in Task, NEW label \in Exit, AppendFails(k, label)
      PROVE  /\ \/ UNCHANGED <<file, settled>>
                \/ /\ pc[k] = "append" /\ file' = Apply(file, rec[k])
                   /\ settled' = IF IsFinalAck(rec[k]) THEN settled \cup {rec[k].id} ELSE settled
             /\ mem' = mem
  BY <1>3 DEF AppendFails, IsFinalAck
<1>4. ASSUME NEW k \in Task, DrawSessionId(k) \/ Leaves(k)
      PROVE  UNCHANGED <<mem, file, settled>>
  BY <1>4 DEF DrawSessionId, Leaves
<1>5. ASSUME NEW k \in Task, NEW label \in Exit, Ends(k, label)
      PROVE  UNCHANGED <<mem, file, settled>>
  BY <1>5 DEF Ends
<1>6. ASSUME NEW k \in Task, NEW e \in Event, HandleEvent(k, e)
      PROVE  UNCHANGED <<mem, file, settled>>
  BY <1>6 DEF HandleEvent
<1>7. ASSUME NEW k \in Task, NEW ack \in AckType, HandleAck(k, ack)
      PROVE  UNCHANGED <<mem, file, settled>>
  BY <1>7 DEF HandleAck
<1>8. ASSUME NEW s \in Session, Takes(s) \/ Closes(s)
      PROVE  UNCHANGED <<mem, file, settled>>
  BY <1>8 DEF Takes, Closes
<1>9. ASSUME Restarts PROVE mem' = Finalize(file) /\ UNCHANGED <<file, settled>>
  BY <1>9 DEF Restarts
<1>10. ASSUME UNCHANGED runtimeVars PROVE UNCHANGED <<mem, file, settled>>
  BY <1>10 DEF runtimeVars
<1>11. QED
  BY <1>1, <1>2, <1>3, <1>4, <1>5, <1>6, <1>7, <1>8, <1>9, <1>10 DEF RuntimeStep

(* A tracked command is stored under its own id, in memory and in the file. *)
KeyedInv ==
    /\ RuntimeTypeInv
    /\ WellKeyed(mem) /\ WellKeyed(file)

LEMMA KeyedStart ==
    ASSUME RuntimeInit
    PROVE  KeyedInv
BY RuntimeTypeInit, EmptyTyped DEF KeyedInv, RuntimeInit

LEMMA KeyedStep ==
    ASSUME KeyedInv, RuntimeStep(AckType)
    PROVE  KeyedInv'
<1>1. RuntimeTypeInv /\ RuntimeTypeInv'
  BY StepTyped DEF KeyedInv
<1>2. mem \in ReplayType /\ file \in ReplayType
  BY <1>1 DEF RuntimeTypeInv, RuntimeTypeOK
<1>3. WellKeyed(Finalize(file))
  BY <1>2, FinalizeEffect DEF KeyedInv
<1>4. \A r \in RecordType : WellKeyed(Apply(mem, r)) /\ WellKeyed(Apply(file, r))
  BY <1>2, ApplyWellKeyed DEF KeyedInv
<1>5. WellKeyed(mem') /\ WellKeyed(file')
  BY <1>1, <1>3, <1>4, StatesMove DEF KeyedInv
<1>6. QED
  BY <1>1, <1>5 DEF KeyedInv

LEMMA Types ==
    ASSUME KeyedInv
    PROVE  /\ mem \in ReplayType /\ file \in ReplayType
           /\ DOMAIN pc = Task /\ DOMAIN ret = Task /\ DOMAIN ev = Task
           /\ DOMAIN rec = Task /\ DOMAIN todo = Task
           /\ pc = [j \in Task |-> pc[j]] /\ ret = [j \in Task |-> ret[j]]
           /\ ev = [j \in Task |-> ev[j]] /\ rec = [j \in Task |-> rec[j]]
           /\ todo = [j \in Task |-> todo[j]]
           /\ \A j \in Task : todo[j] \in SUBSET CommandType /\ Owner[j] \in Account
BY RuntimeAssumption DEF KeyedInv, RuntimeTypeInv, RuntimeTypeOK

-----------------------------------------------------------------------------
(* The stage of a command in a journal and a set of settled commands.       *)

StageIn(f, s, c) ==
    IF c \in s THEN "done"
    ELSE CASE StateOf(f, c) = "absent" -> "new"
           [] StateOf(f, c) = "queued" -> "queued"
           [] OTHER -> "issued"

SettledBy(s, r) == IF IsFinalAck(r) THEN s \cup {r.id} ELSE s

LEMMA StageIsStageIn == Stage = [c \in CommandId |-> StageIn(file, settled, c)]
BY DEF Stage, StageIn

LEMMA StageValues ==
    ASSUME NEW f \in ReplayType, NEW s, NEW c \in CommandId
    PROVE  /\ StageIn(f, s, c) \in {"new", "queued", "issued", "done"}
           /\ Tracked(f, c) => StageIn(f, s, c) # "new"
           /\ StageIn(f, s, c) = "new" <=> c \notin s /\ StateOf(f, c) = "absent"
           /\ StageIn(f, s, c) = "queued" <=> c \notin s /\ StateOf(f, c) = "queued"
           /\ StageIn(f, s, c) = "done" <=> c \in s
           /\ StageIn(f, s, c) = "issued" <=>
                c \notin s /\ StateOf(f, c) \in {"dispatched", "unknown"}
<1>1. StateOf(f, c) \in {"queued", "dispatched", "unknown", "absent"}
  BY StoredTyped DEF CommandState
<1>2. QED
  BY <1>1 DEF StageIn, Tracked

(* What appending a record does to the stage of each command.               *)
LEMMA PlannedMoves ==
    ASSUME NEW f \in ReplayType, NEW s \in SUBSET CommandId, NEW c \in CommandId,
           NEW r \in RecordType, IsPlanned(r)
    PROVE  /\ \/ StageIn(Apply(f, r), SettledBy(s, r), c) = StageIn(f, s, c)
              \/ /\ StageIn(f, s, c) = "new"
                 /\ StageIn(Apply(f, r), SettledBy(s, r), c) = "queued"
           /\ (\E p \in r.commands : p.id = c) =>
                StageIn(Apply(f, r), SettledBy(s, r), c) # "new"
<1> DEFINE g == Apply(f, r)
<1>1. SettledBy(s, r) = s /\ g \in ReplayType
  BY ApplyTyped DEF SettledBy, IsPlanned, IsFinalAck
<1>2. /\ Tracked(f, c) \/ (\A p \in r.commands : p.id # c) => g.commands[c] = f.commands[c]
      /\ ~Tracked(f, c) /\ (\E p \in r.commands : p.id = c) => StateOf(g, c) = "queued"
  BY PlannedEntry
<1>3. CASE Tracked(f, c) \/ (\A p \in r.commands : p.id # c)
  <2>1. StateOf(g, c) = StateOf(f, c)
    BY <1>2, <1>3 DEF StateOf
  <2>2. QED
    BY <1>1, <1>3, <2>1, StageValues DEF StageIn, Tracked
<1>4. CASE ~Tracked(f, c) /\ (\E p \in r.commands : p.id = c)
  BY <1>1, <1>2, <1>4 DEF StageIn, Tracked
<1>5. QED
  BY <1>3, <1>4

LEMMA OtherMoves ==
    ASSUME NEW f \in ReplayType, NEW s \in SUBSET CommandId, NEW c \in CommandId,
           NEW r \in RecordType, ~IsPlanned(r),
           r.kind = "AckApplied" => StageIn(f, s, r.id) \in {"issued", "done"}
    PROVE  /\ \/ StageIn(Apply(f, r), SettledBy(s, r), c) = StageIn(f, s, c)
              \/ /\ c = r.id /\ StageIn(f, s, c) = "queued"
                 /\ StageIn(Apply(f, r), SettledBy(s, r), c) = "issued"
              \/ /\ c = r.id /\ StageIn(f, s, c) = "issued"
                 /\ StageIn(Apply(f, r), SettledBy(s, r), c) = "done"
           /\ c = r.id /\ StageIn(f, s, c) # "new" =>
                StageIn(Apply(f, r), SettledBy(s, r), c) \in {"issued", "done"}
<1> DEFINE g == Apply(f, r)
           t == SettledBy(s, r)
<1>1. g \in ReplayType
  BY ApplyTyped
<1>2. /\ r.id # c \/ ~Tracked(f, c) => g.commands[c] = f.commands[c]
      /\ r.id = c /\ IsFinalAck(r) => ~Tracked(g, c)
      /\ r.id = c /\ ~IsFinalAck(r) /\ Tracked(f, c) =>
           StateOf(g, c) \in {"dispatched", "unknown"}
  BY OtherEntry
<1>3. c \in t <=> c \in s \/ (c = r.id /\ IsFinalAck(r))
  BY DEF SettledBy
<1>4. CASE r.id # c
  <2>1. StateOf(g, c) = StateOf(f, c)
    BY <1>2, <1>4 DEF StateOf
  <2>2. QED
    BY <1>3, <1>4, <2>1 DEF StageIn
<1>5. CASE r.id = c /\ IsFinalAck(r)
  <2>1. StageIn(f, s, c) \in {"issued", "done"}
    BY <1>5 DEF IsFinalAck
  <2>2. StageIn(g, t, c) = "done"
    BY <1>3, <1>5 DEF StageIn
  <2>3. QED
    BY <1>5, <2>1, <2>2
<1>6. CASE r.id = c /\ ~IsFinalAck(r)
  <2>1. CASE c \in s
    BY <1>3, <1>6, <2>1 DEF StageIn
  <2>2. CASE c \notin s /\ ~Tracked(f, c)
    <3>1. StateOf(g, c) = StateOf(f, c)
      BY <1>2, <2>2 DEF StateOf
    <3>2. QED
      BY <1>3, <1>6, <2>2, <3>1 DEF StageIn, Tracked
  <2>3. CASE c \notin s /\ Tracked(f, c)
    <3>1. StateOf(g, c) \in {"dispatched", "unknown"} /\ c \notin t
      BY <1>2, <1>3, <1>6, <2>3
    <3>2. StageIn(g, t, c) = "issued"
      BY <1>1, <3>1, StageValues
    <3>3. StageIn(f, s, c) \in {"queued", "issued"}
      BY <2>3, StageValues
    <3>4. QED
      BY <1>6, <3>2, <3>3
  <2>4. QED
    BY <2>1, <2>2, <2>3
<1>7. QED
  BY <1>4, <1>5, <1>6

-----------------------------------------------------------------------------
(* The invariant.  Known commands are in the journal or settled, issued     *)
(* ones are past the queue.  What a task plans becomes known with the       *)
(* append; what it dispatches becomes issued with the next one.             *)

Known(c)  == Stage[c] # "new"
Issued(c) == Stage[c] \in {"issued", "done"}

LedgerTask(k) ==
    /\ pc[k] # "route" =>
         \A c \in todo[k] :
            Known(c.id) \/ (pc[k] = "append" /\ IsPlanned(rec[k]) /\ c \in rec[k].commands)
    /\ pc[k] = "apply" /\ IsPlanned(rec[k]) => \A c \in rec[k].commands : Known(c.id)
    /\ pc[k] = "append" /\ ret[k] = "send" => Known(rec[k].id)
    /\ pc[k] = "send" \/ (pc[k] = "apply" /\ ret[k] = "send") => Issued(rec[k].id)
    /\ pc[k] = "mirror" => \A c \in todo[k] : Issued(c.id)
    /\ rec[k].kind = "AckApplied" => Issued(rec[k].id)

QueuesIssued ==
    \A s \in Session : \A i \in DOMAIN chan[s].queue : Issued(chan[s].queue[i].id)

LedgerInv ==
    /\ KeyedInv
    /\ \A c \in CommandId : Tracked(mem, c) => Known(c)
    /\ \A k \in Task : LedgerTask(k)
    /\ QueuesIssued

LEMMA LedgerStart ==
    ASSUME RuntimeInit
    PROVE  LedgerInv /\ Ledger!LedgerInit
<1>1. KeyedInv
  BY KeyedStart
<1>2. file = EmptyReplay /\ mem = EmptyReplay /\ settled = {}
  BY DEF RuntimeInit
<1>3. \A c \in CommandId : ~Tracked(mem, c) /\ StateOf(file, c) = "absent"
  BY <1>2 DEF EmptyReplay, Tracked, StateOf, Absent
<1>4. Stage = [c \in CommandId |-> "new"]
  BY <1>2, <1>3 DEF Stage
<1>5. \A k \in Task : LedgerTask(k)
  BY DEF LedgerTask, RuntimeInit, FreshTasks, NoRecord, IsPlanned
<1>6. \A s \in Session : chan[s].queue = <<>>
  BY DEF RuntimeInit, FreshTasks
<1>7. LedgerInv
  BY <1>1, <1>3, <1>5, <1>6 DEF LedgerInv, QueuesIssued
<1>8. QED
  BY <1>4, <1>7 DEF RuntimeInit, Ledger!LedgerInit

-----------------------------------------------------------------------------
(* Steps that leave the journal alone: the stages stay, and so does what    *)
(* is said of the tasks that do not move.                                   *)

Quiet == file' = file /\ settled' = settled

LEMMA QuietStage ==
    ASSUME Quiet
    PROVE  Stage' = Stage
BY DEF Quiet, Stage

LEMMA OthersLedger ==
    ASSUME LedgerInv, NEW k \in Task, Quiet, LedgerTask(k)',
           \A j \in Task \ {k} :
               /\ pc'[j] = pc[j] /\ ret'[j] = ret[j]
               /\ rec'[j] = rec[j] /\ todo'[j] = todo[j]
    PROVE  \A j \in Task : LedgerTask(j)'
<1> SUFFICES ASSUME NEW j \in Task \ {k} PROVE LedgerTask(j)'
  OBVIOUS
<1>1. LedgerTask(j) /\ Stage' = Stage
  BY QuietStage DEF LedgerInv
<1>2. QED
  BY <1>1 DEF LedgerTask, Known, Issued

LEMMA FailLedger ==
    ASSUME LedgerInv, NEW k \in Task, Quiet,
           NEW label \in Exit, Fail(k, label)
    PROVE  \A j \in Task : LedgerTask(j)'
<1>1. /\ pc'[k] = label /\ todo'[k] = {} /\ rec'[k] = NoRecord
      /\ \A j \in Task \ {k} :
           /\ pc'[j] = pc[j] /\ ret'[j] = ret[j]
           /\ rec'[j] = rec[j] /\ todo'[j] = todo[j]
  BY Types DEF LedgerInv, Fail, Goto
<1>2. LedgerTask(k)'
  BY <1>1 DEF LedgerTask, NoRecord, Exit
<1>3. QED
  BY <1>1, <1>2, OthersLedger

LEMMA JournalLedger ==
    ASSUME LedgerInv, NEW k \in Task, Quiet, NEW record, NEW return, NEW rest,
           Journal(k, record, return), todo' = [todo EXCEPT ![k] = rest],
           \A c \in rest : Known(c.id) \/ (IsPlanned(record) /\ c \in record.commands),
           return = "send" => Known(record.id),
           record.kind = "AckApplied" => Issued(record.id)
    PROVE  \A j \in Task : LedgerTask(j)'
<1>1. /\ pc'[k] = "append" /\ rec'[k] = record /\ ret'[k] = return /\ todo'[k] = rest
      /\ \A j \in Task \ {k} :
           /\ pc'[j] = pc[j] /\ ret'[j] = ret[j]
           /\ rec'[j] = rec[j] /\ todo'[j] = todo[j]
  BY Types DEF LedgerInv, Journal, Goto
<1>2. Stage' = Stage
  BY QuietStage
<1>3. LedgerTask(k)'
  BY <1>1, <1>2 DEF LedgerTask, Known, Issued
<1>4. QED
  BY <1>1, <1>3, OthersLedger

LEMMA LoopLedger ==
    ASSUME LedgerInv, NEW k \in Task, Quiet,
           NEW loop \in {"dispatch", "orphans"}, NEW rest, Loop(k, loop, rest),
           \A c \in rest : Known(c.id),
           rec'[k] = rec[k] \/ rec'[k] = NoRecord,
           \A j \in Task \ {k} : rec'[j] = rec[j] /\ ret'[j] = ret[j]
    PROVE  \A j \in Task : LedgerTask(j)'
<1>1. /\ todo'[k] = rest
      /\ pc'[k] = IF rest # {} THEN loop ELSE IF loop = "dispatch" THEN "idle" ELSE "off"
      /\ \A j \in Task \ {k} : pc'[j] = pc[j] /\ todo'[j] = todo[j]
  BY Types DEF LedgerInv, Loop
<1>2. Stage' = Stage /\ LedgerTask(k)
  BY QuietStage DEF LedgerInv
<1>3. LedgerTask(k)'
  BY <1>1, <1>2 DEF LedgerTask, Known, Issued, NoRecord
<1>4. QED
  BY <1>1, <1>3, OthersLedger

LEMMA GotoLedger ==
    ASSUME LedgerInv, NEW k \in Task, Quiet, pc[k] \notin {"route", "append"},
           NEW label \in Label \ {"append", "apply", "send", "mirror"},
           Goto(k, label), UNCHANGED <<ret, rec, todo>>
    PROVE  \A j \in Task : LedgerTask(j)'
<1>1. pc'[k] = label /\ \A j \in Task \ {k} : pc'[j] = pc[j]
  BY Types DEF LedgerInv, Goto
<1>2. Stage' = Stage /\ LedgerTask(k)
  BY QuietStage DEF LedgerInv
<1>3. LedgerTask(k)'
  BY <1>1, <1>2 DEF LedgerTask, Known, Issued
<1>4. QED
  BY <1>1, <1>3, OthersLedger

(* A step that leaves the journal and the memory be.                        *)
LEMMA LedgerFrame ==
    ASSUME LedgerInv, KeyedInv', Quiet, mem' = mem,
           \A j \in Task : LedgerTask(j)',
           \A s \in Session : \A i \in DOMAIN chan'[s].queue :
               Issued(chan'[s].queue[i].id)
    PROVE  LedgerInv'
<1>1. Stage' = Stage
  BY QuietStage
<1>2. QED
  BY <1>1 DEF LedgerInv, QueuesIssued, Known, Issued

(* What a snapshot of the memory takes is known.                            *)
LEMMA SnapshotKnown ==
    ASSUME LedgerInv, NEW a \in Account, NEW state \in {"queued", "dispatched"}
    PROVE  \A c \in CommandsIn(state, a) : Known(c.id)
<1> SUFFICES ASSUME NEW c \in CommandId, StateOf(mem, c) = state
             PROVE  Known(mem.commands[c].command.id)
  BY DEF CommandsIn
<1>1. Tracked(mem, c)
  BY DEF Tracked
<1>2. mem.commands[c].command.id = c
  BY <1>1 DEF LedgerInv, KeyedInv, WellKeyed
<1>3. QED
  BY <1>1, <1>2 DEF LedgerInv

LEMMA SessionStepLedger ==
    ASSUME LedgerInv, KeyedInv', NEW k \in Task,
           \/ DrawSessionId(k) \/ InsertSession(k) \/ SnapshotQueued(k)
           \/ Unregister(k) \/ SnapshotDispatched(k) \/ MarkOrphan(k) \/ Leaves(k)
    PROVE  LedgerInv' /\ UNCHANGED <<file, settled, handed>>
<1>1. /\ UNCHANGED <<mem, file, settled, handed>> /\ Quiet
      /\ chan' = chan \/ chan' = [chan EXCEPT ![nextId] = [open |-> TRUE, queue |-> <<>>]]
  BY DEF DrawSessionId, InsertSession, SnapshotQueued, Unregister, SnapshotDispatched,
         MarkOrphan, Leaves, Quiet
<1>2. ASSUME NEW s \in Session, NEW i \in DOMAIN chan'[s].queue
      PROVE  Issued(chan'[s].queue[i].id)
  <2>1. DOMAIN chan = Session
    BY DEF LedgerInv, KeyedInv, RuntimeTypeInv, RuntimeTypeOK
  <2>2. chan'[s] = chan[s] \/ chan'[s].queue = <<>>
    BY <1>1, <2>1
  <2>3. chan'[s] = chan[s]
    BY <2>2
  <2>4. QED
    BY <2>3 DEF LedgerInv, QueuesIssued
<1>3. Owner[k] \in Account /\ \A j \in Task : todo[j] \in SUBSET CommandType
  BY Types DEF LedgerInv
<1>4. \A j \in Task : LedgerTask(j)'
  <2>1. CASE DrawSessionId(k)
    <3>1. pc[k] = "off" /\ Goto(k, "register") /\ UNCHANGED <<ret, rec, todo>>
      BY <2>1 DEF DrawSessionId
    <3>2. QED
      BY <1>1, <3>1, GotoLedger DEF Label
  <2>2. CASE InsertSession(k)
    <3>1. pc[k] = "register" /\ Goto(k, "queued") /\ UNCHANGED <<ret, rec, todo>>
      BY <2>2 DEF InsertSession
    <3>2. QED
      BY <1>1, <3>1, GotoLedger DEF Label
  <2>3. CASE SnapshotQueued(k)
    <3>1. /\ Loop(k, "dispatch", CommandsIn("queued", Owner[k]))
          /\ UNCHANGED <<rec, ret>>
      BY <2>3 DEF SnapshotQueued
    <3>2. QED
      BY <1>1, <1>3, <3>1, SnapshotKnown, LoopLedger
  <2>4. CASE Unregister(k)
    <3>1. /\ pc[k] = "leave"
          /\ Goto(k, "lost") \/ Goto(k, "off")
          /\ UNCHANGED <<ret, rec, todo>>
      BY <2>4 DEF Unregister
    <3>2. QED
      BY <1>1, <3>1, GotoLedger DEF Label
  <2>5. CASE SnapshotDispatched(k)
    <3>1. /\ Loop(k, "orphans", CommandsIn("dispatched", Owner[k]))
          /\ UNCHANGED <<rec, ret>>
      BY <2>5 DEF SnapshotDispatched
    <3>2. QED
      BY <1>1, <1>3, <3>1, SnapshotKnown, LoopLedger
  <2>6. CASE MarkOrphan(k)
    <3>1. PICK c \in todo[k] : /\ todo' = [todo EXCEPT ![k] = @ \ {c}]
                               /\ Journal(k, CommandUnknown(c.id), "orphans")
      BY <2>6 DEF MarkOrphan
    <3>2. CommandUnknown(c.id).kind # "AckApplied"
      BY DEF CommandUnknown
    <3>3. todo' = [todo EXCEPT ![k] = todo[k] \ {c}]
      BY <3>1
    <3>4. \A d \in todo[k] \ {c} : Known(d.id)
      BY <2>6 DEF MarkOrphan, LedgerInv, LedgerTask
    <3>5. QED
      BY <1>1, <3>1, <3>2, <3>3, <3>4, JournalLedger
  <2>7. CASE Leaves(k)
    <3>1. pc[k] = "idle" /\ Goto(k, "leave") /\ UNCHANGED <<ret, rec, todo>>
      BY <2>7 DEF Leaves
    <3>2. QED
      BY <1>1, <3>1, GotoLedger DEF Label
  <2>8. QED
    BY <2>1, <2>2, <2>3, <2>4, <2>5, <2>6, <2>7
<1>5. QED
  BY <1>1, <1>2, <1>4, LedgerFrame

LEMMA EventLedger ==
    ASSUME LedgerInv, KeyedInv', NEW k \in Task, NEW e \in Event, HandleEvent(k, e)
    PROVE  LedgerInv' /\ UNCHANGED <<file, settled, handed>>
<1>1. UNCHANGED <<mem, file, settled, handed, chan>> /\ Quiet
  BY DEF HandleEvent, Quiet
<1>2. pc[k] = "idle" /\ todo' = todo /\ LedgerTask(k)
  BY DEF HandleEvent, LedgerInv
<1>3. CASE RoutesFor(e.source) = {}
  <2>1. Journal(k, EventPlanned(e.id, {}), "dispatch")
    BY <1>3 DEF HandleEvent
  <2>2. EventPlanned(e.id, {}).kind # "AckApplied"
    BY DEF EventPlanned
  <2>3. todo' = [todo EXCEPT ![k] = todo[k]]
    BY <1>2, Types DEF LedgerInv
  <2>4. \A c \in todo[k] : Known(c.id)
    BY <1>2 DEF LedgerTask
  <2>5. \A j \in Task : LedgerTask(j)'
    BY <1>1, <2>1, <2>2, <2>3, <2>4, JournalLedger
  <2>6. QED
    BY <1>1, <2>5, LedgerFrame DEF LedgerInv, QueuesIssued
<1>4. CASE RoutesFor(e.source) # {}
  <2>1. /\ pc' = [pc EXCEPT ![k] = "route"]
        /\ rec' = rec /\ ret' = ret
    BY <1>4 DEF HandleEvent, Goto
  <2>2. pc'[k] = "route" /\ \A j \in Task \ {k} : pc'[j] = pc[j]
    BY <2>1, Types DEF LedgerInv
  <2>3. Stage' = Stage
    BY <1>1, QuietStage
  <2>4. LedgerTask(k)'
    BY <1>2, <2>1, <2>2, <2>3 DEF LedgerTask, Known, Issued
  <2>5. \A j \in Task : LedgerTask(j)'
    BY <1>1, <1>2, <2>1, <2>2, <2>4, OthersLedger
  <2>6. QED
    BY <1>1, <2>5, LedgerFrame DEF LedgerInv, QueuesIssued
<1>5. QED
  BY <1>3, <1>4

LEMMA RouteLedger ==
    ASSUME LedgerInv, KeyedInv', NEW k \in Task, RouteEvent(k) \/ RoutePanics(k)
    PROVE  LedgerInv' /\ UNCHANGED <<file, settled, handed>>
<1>1. UNCHANGED <<mem, file, settled, handed, chan>> /\ Quiet
  BY DEF RouteEvent, RoutePanics, Quiet
<1>2. \A j \in Task : LedgerTask(j)'
  <2>1. CASE RoutePanics(k)
    BY <1>1, <2>1, FailLedger DEF RoutePanics, Exit
  <2>2. CASE RouteEvent(k)
    <3> DEFINE e == ev[k]
               b(i) == mem.mirrors[KeyOf(e.source, e.order, Rules[i].target)]
               planned(i) == todo[k] \cup IF Builds(Rules[i], e, b(i))
                                           THEN {BuiltCommand(Rules[i], e, b(i))} ELSE {}
    <3>1. PICK i \in routes[k] :
            /\ todo' = [todo EXCEPT ![k] = planned(i)]
            /\ IF routes[k] = {i}
               THEN Journal(k, EventPlanned(e.id, planned(i)), "dispatch")
               ELSE UNCHANGED <<pc, rec, ret>>
      BY <2>2 DEF RouteEvent
    <3>2. pc[k] = "route" /\ LedgerTask(k)
      BY <2>2 DEF RouteEvent, LedgerInv
    <3> HIDE DEF planned, b
    <3>3. CASE routes[k] = {i}
      <4>1. Journal(k, EventPlanned(e.id, planned(i)), "dispatch")
        BY <3>1, <3>3
      <4>2. /\ EventPlanned(e.id, planned(i)).kind # "AckApplied"
            /\ IsPlanned(EventPlanned(e.id, planned(i)))
            /\ EventPlanned(e.id, planned(i)).commands = planned(i)
        BY DEF EventPlanned, IsPlanned
      <4>3. QED
        BY <1>1, <3>1, <4>1, <4>2, JournalLedger
    <3>4. CASE routes[k] # {i}
      <4>1. UNCHANGED <<pc, rec, ret>>
        BY <3>1, <3>4
      <4>2. \A j \in Task \ {k} : todo'[j] = todo[j]
        BY <3>1, Types DEF LedgerInv
      <4>3. Stage' = Stage
        BY <1>1, QuietStage
      <4>4. LedgerTask(k)'
        BY <3>2, <4>1, <4>3 DEF LedgerTask, Known, Issued
      <4>5. QED
        BY <1>1, <4>1, <4>2, <4>4, OthersLedger
    <3>5. QED
      BY <3>3, <3>4
  <2>3. QED
    BY <2>1, <2>2
<1>3. QED
  BY <1>1, <1>2, LedgerFrame DEF LedgerInv, QueuesIssued

LEMMA DispatchLedger ==
    ASSUME LedgerInv, KeyedInv', NEW k \in Task, DispatchNext(k) \/ SendFails(k)
    PROVE  LedgerInv' /\ UNCHANGED <<file, settled, handed>>
<1>1. UNCHANGED <<mem, file, settled, handed, chan>> /\ Quiet
  BY DEF DispatchNext, SendFails, Quiet
<1>2. \A c \in todo[k] : Known(c.id)
  BY DEF LedgerInv, LedgerTask, DispatchNext, SendFails
<1>3. \A j \in Task : LedgerTask(j)'
  <2>1. CASE DispatchNext(k)
    <3>1. PICK c \in todo[k] :
            IF sessions[c.target] = 0
            THEN Loop(k, "dispatch", todo[k] \ {c}) /\ UNCHANGED <<rec, ret, sess>>
            ELSE /\ Journal(k, CommandDispatched(c.id), "send")
                 /\ UNCHANGED <<todo, ev>>
      BY <2>1 DEF DispatchNext
    <3>2. CASE sessions[c.target] = 0
      <4>1. Loop(k, "dispatch", todo[k] \ {c}) /\ UNCHANGED <<rec, ret>>
        BY <3>1, <3>2
      <4>2. \A d \in todo[k] \ {c} : Known(d.id)
        BY <1>2
      <4>3. QED
        BY <1>1, <4>1, <4>2, LoopLedger
    <3>3. CASE sessions[c.target] # 0
      <4>1. Journal(k, CommandDispatched(c.id), "send") /\ todo' = todo
        BY <3>1, <3>3
      <4>2. CommandDispatched(c.id).kind # "AckApplied" /\ CommandDispatched(c.id).id = c.id
        BY DEF CommandDispatched
      <4>3. todo' = [todo EXCEPT ![k] = todo[k]]
        BY <4>1, Types DEF LedgerInv
      <4>4. QED
        BY <1>1, <1>2, <4>1, <4>2, <4>3, JournalLedger
    <3>4. QED
      BY <3>2, <3>3
  <2>2. CASE SendFails(k)
    <3> DEFINE rest == {c \in todo[k] : c.id # rec[k].id}
    <3>1. /\ todo' = [todo EXCEPT ![k] = rest]
          /\ Journal(k, CommandUnknown(rec[k].id), "dispatch")
      BY <2>2 DEF SendFails
    <3>2. CommandUnknown(rec[k].id).kind # "AckApplied"
      BY DEF CommandUnknown
    <3>3. \A c \in rest : Known(c.id)
      BY <1>2
    <3> HIDE DEF rest
    <3>4. QED
      BY <1>1, <3>1, <3>2, <3>3, JournalLedger
  <2>3. QED
    BY <2>1, <2>2
<1>4. QED
  BY <1>1, <1>3, LedgerFrame DEF LedgerInv, QueuesIssued

LEMMA AckRecordShape ==
    ASSUME NEW c \in CommandType, NEW ack
    PROVE  /\ ~IsPlanned(AckRecord(c, ack))
           /\ AckRecord(c, ack).kind \in {"AckApplied", "CommandUnknown"}
           /\ AckRecord(c, ack).id = c.id
<1>1. c.action \in Action
  BY SMT DEF CommandType
<1> USE DEF AckApplied, CommandUnknown, IsPlanned
<1>2. CASE ack.status \notin Success
  BY <1>2 DEF AckRecord
<1>3. CASE ack.status \in Success /\ c.action = "open"
  BY <1>3 DEF AckRecord
<1>4. CASE ack.status \in Success /\ c.action = "close"
  BY <1>4 DEF AckRecord
<1>5. CASE ack.status \in Success /\ c.action \in {"modify", "reduce"}
  BY <1>5 DEF AckRecord
<1>6. QED
  BY <1>1, <1>2, <1>3, <1>4, <1>5 DEF Action

(* What is acknowledged was issued.                                         *)
LEMMA AckLedger ==
    ASSUME LedgerInv, KeyedInv', NEW k \in Task,
           NEW ack \in AckType, Issued(ack.id), HandleAck(k, ack)
    PROVE  LedgerInv' /\ UNCHANGED <<file, settled, handed>>
<1> DEFINE c == mem.commands[ack.id].command
           r == AckRecord(c, ack)
<1>1. UNCHANGED <<mem, file, settled, handed, chan>> /\ Quiet
  BY DEF HandleAck, Quiet
<1>2. /\ pc[k] = "idle" /\ ack.id \in CommandId /\ Tracked(mem, ack.id)
      /\ IF IsReduced(c, ack)
         THEN /\ Goto(k, "mirror") /\ rec' = [rec EXCEPT ![k] = r]
              /\ todo' = [todo EXCEPT ![k] = {c}] /\ ret' = ret
         ELSE Journal(k, r, "idle") /\ todo' = todo
  BY DEF HandleAck, AckType
<1>3. c.id = ack.id
  BY <1>2 DEF LedgerInv, KeyedInv, WellKeyed
<1>4. ~IsPlanned(r) /\ (r.kind = "AckApplied" => Issued(r.id))
  <2>1. c \in CommandType
    BY <1>2, Types, StoredTyped DEF LedgerInv
  <2>2. QED
    BY <1>3, <2>1, AckRecordShape
<1>5. CASE IsReduced(c, ack)
  <2>1. /\ Goto(k, "mirror") /\ rec' = [rec EXCEPT ![k] = r]
        /\ todo' = [todo EXCEPT ![k] = {c}] /\ ret' = ret
    BY <1>2, <1>5
  <2>2. Issued(c.id) /\ Known(c.id)
    BY <1>3 DEF Issued, Known
  <2> HIDE DEF c, r
  <2>3. /\ pc'[k] = "mirror" /\ rec'[k] = r /\ todo'[k] = {c}
        /\ \A j \in Task \ {k} :
             pc'[j] = pc[j] /\ rec'[j] = rec[j] /\ todo'[j] = todo[j]
    BY <2>1, Types DEF Goto, LedgerInv
  <2>4. Stage' = Stage
    BY <1>1, QuietStage
  <2>5. LedgerTask(k)'
    BY <1>4, <2>2, <2>3, <2>4 DEF LedgerTask, Known, Issued
  <2>6. \A j \in Task : LedgerTask(j)'
    BY <1>1, <2>1, <2>3, <2>5, OthersLedger
  <2>7. QED
    BY <1>1, <2>6, LedgerFrame DEF LedgerInv, QueuesIssued
<1>6. CASE ~IsReduced(c, ack)
  <2>1. Journal(k, r, "idle") /\ todo' = todo
    BY <1>2, <1>6
  <2>2. todo' = [todo EXCEPT ![k] = todo[k]]
    BY <2>1, Types DEF LedgerInv
  <2>3. \A d \in todo[k] : Known(d.id)
    BY <1>2 DEF LedgerInv, LedgerTask
  <2> HIDE DEF r
  <2>4. \A j \in Task : LedgerTask(j)'
    BY <1>1, <1>4, <2>1, <2>2, <2>3, JournalLedger
  <2>5. QED
    BY <1>1, <2>4, LedgerFrame DEF LedgerInv, QueuesIssued
<1>7. QED
  BY <1>5, <1>6

LEMMA MutateLedger ==
    ASSUME LedgerInv, KeyedInv', NEW k \in Task, MutateReduced(k)
    PROVE  LedgerInv' /\ UNCHANGED <<file, settled, handed>>
<1>1. UNCHANGED <<mem, file, settled, handed, chan>> /\ Quiet
  BY DEF MutateReduced, Quiet
<1>2. PICK c \in todo[k] :
        LET b == mem.mirrors[KeyOf(c.source, c.order, c.target)]
        IN  Journal(k, IF b = NoBinding THEN rec[k]
                       ELSE AckApplied(c.id, rec[k].status,
                                       [kind |-> "upsert", binding |-> Reduced(b, c)]),
                    "idle")
  BY DEF MutateReduced
<1> DEFINE b == mem.mirrors[KeyOf(c.source, c.order, c.target)]
           r == IF b = NoBinding THEN rec[k]
                ELSE AckApplied(c.id, rec[k].status,
                                [kind |-> "upsert", binding |-> Reduced(b, c)])
<1>3. Journal(k, r, "idle") /\ todo' = [todo EXCEPT ![k] = {}]
  BY <1>2 DEF MutateReduced
<1>4. Issued(c.id) /\ (rec[k].kind = "AckApplied" => Issued(rec[k].id))
  BY DEF LedgerInv, LedgerTask, MutateReduced
<1>5. r.kind = "AckApplied" => Issued(r.id)
  BY <1>4 DEF AckApplied
<1>6. \A j \in Task : LedgerTask(j)'
  <2> DEFINE none == {}
  <2>1. \A d \in none : Known(d.id) \/ (IsPlanned(r) /\ d \in r.commands)
    OBVIOUS
  <2>2. Journal(k, r, "idle") /\ todo' = [todo EXCEPT ![k] = none]
    BY <1>3
  <2> HIDE DEF none, r
  <2>3. QED
    BY <1>1, <1>5, <2>1, <2>2, JournalLedger
<1>7. QED
  BY <1>1, <1>6, LedgerFrame DEF LedgerInv, QueuesIssued

LEMMA EndsLedger ==
    ASSUME LedgerInv, KeyedInv', NEW k \in Task, NEW label \in Exit, Ends(k, label)
    PROVE  LedgerInv' /\ UNCHANGED <<file, settled, handed>>
<1>1. /\ UNCHANGED <<mem, file, settled, handed, chan>> /\ Quiet
      /\ Fail(k, label)
  BY DEF Ends, Quiet
<1>2. \A j \in Task : LedgerTask(j)'
  BY <1>1, FailLedger
<1>3. QED
  BY <1>1, <1>2, LedgerFrame DEF LedgerInv, QueuesIssued

LEMMA SendLedger ==
    ASSUME LedgerInv, KeyedInv', NEW k \in Task, Send(k)
    PROVE  /\ LedgerInv' /\ UNCHANGED <<file, settled>>
           /\ \E c \in CommandId :
                /\ Issued(c)
                /\ handed' = [handed EXCEPT ![c] = IF @ = 2 THEN 2 ELSE @ + 1]
<1>1. UNCHANGED <<mem, file, settled>> /\ Quiet
  BY DEF Send, Quiet
<1>2. PICK c \in todo[k] :
        /\ c.id = rec[k].id
        /\ chan' = [chan EXCEPT ![sess[k]].queue = Append(@, c)]
        /\ handed' = [handed EXCEPT ![c.id] = IF @ = 2 THEN 2 ELSE @ + 1]
        /\ Loop(k, "dispatch", todo[k] \ {c})
  BY DEF Send
<1>3. Issued(c.id) /\ \A d \in todo[k] : Known(d.id)
  BY <1>2 DEF LedgerInv, LedgerTask, Send
<1>4. \A j \in Task : LedgerTask(j)'
  <2>1. \A d \in todo[k] \ {c} : Known(d.id)
    BY <1>3
  <2>2. rec'[k] = NoRecord /\ \A j \in Task \ {k} : rec'[j] = rec[j] /\ ret'[j] = ret[j]
    BY Types DEF Send, LedgerInv
  <2>3. QED
    BY <1>1, <1>2, <2>1, <2>2, LoopLedger
<1>5. c \in CommandType
  BY Types DEF LedgerInv
<1>6. ASSUME NEW s \in Session, NEW i \in DOMAIN chan'[s].queue
      PROVE  Issued(chan'[s].queue[i].id)
  <2>1. chan \in [Session -> [open : BOOLEAN, queue : Seq(CommandType)]]
    BY DEF LedgerInv, KeyedInv, RuntimeTypeInv, RuntimeTypeOK
  <2>2. CASE s # sess[k]
    <3>1. chan'[s] = chan[s]
      BY <1>2, <2>1, <2>2
    <3>2. QED
      BY <3>1 DEF LedgerInv, QueuesIssued
  <2>3. CASE s = sess[k]
    <3> DEFINE q == chan[s].queue
    <3>1. q \in Seq(CommandType) /\ chan'[s].queue = Append(q, c)
      BY <1>2, <2>1, <2>3
    <3>2. \A n \in DOMAIN q : Issued(q[n].id)
      BY DEF LedgerInv, QueuesIssued
    <3> HIDE DEF q
    <3>3. /\ DOMAIN Append(q, c) = 1..(Len(q) + 1) /\ Len(q) \in Nat /\ DOMAIN q = 1..Len(q)
          /\ Append(q, c)[Len(q) + 1] = c
          /\ \A n \in 1..Len(q) : Append(q, c)[n] = q[n]
      BY <1>5, <3>1, SMT
    <3>4. i \in 1..Len(q) \/ i = Len(q) + 1
      BY <3>1, <3>3, SMT
    <3>5. QED
      BY <1>3, <3>1, <3>2, <3>3, <3>4
  <2>4. QED
    BY <2>2, <2>3
<1>7. LedgerInv'
  BY <1>1, <1>4, <1>6, LedgerFrame
<1>8. c.id \in CommandId
  BY <1>5, SMT DEF CommandType
<1>9. QED
  BY <1>1, <1>2, <1>3, <1>7, <1>8

(* What is taken off a channel was issued.                                  *)
LEMMA TakenIssued ==
    ASSUME LedgerInv, NEW s \in Session, chan[s].queue # <<>>
    PROVE  /\ Head(chan[s].queue) \in CommandType
           /\ Issued(Head(chan[s].queue).id)
<1> DEFINE q == chan[s].queue
<1>1. q \in Seq(CommandType)
  BY DEF LedgerInv, KeyedInv, RuntimeTypeInv, RuntimeTypeOK
<1>2. \A i \in DOMAIN q : Issued(q[i].id)
  BY DEF LedgerInv, QueuesIssued
<1> HIDE DEF q
<1>3. q # <<>>
  BY DEF q
<1>4. 1 \in DOMAIN q /\ Head(q) = q[1] /\ Head(q) \in CommandType
  BY <1>1, <1>3, SMT
<1>5. Head(q) \in CommandType /\ Issued(Head(q).id)
  BY <1>2, <1>4
<1>6. QED
  BY <1>5 DEF q

LEMMA ChannelLedger ==
    ASSUME LedgerInv, KeyedInv', NEW s \in Session, Takes(s) \/ Closes(s)
    PROVE  LedgerInv' /\ UNCHANGED <<file, settled, handed>>
<1>1. /\ UNCHANGED <<mem, file, settled, handed>> /\ Quiet
      /\ pc' = pc /\ rec' = rec /\ ret' = ret /\ todo' = todo
  BY DEF Takes, Closes, taskVars, Quiet
<1>2. Stage' = Stage
  BY <1>1, QuietStage
<1>3. \A j \in Task : LedgerTask(j)'
  BY <1>1, <1>2 DEF LedgerInv, LedgerTask, Known, Issued
<1>4. chan \in [Session -> [open : BOOLEAN, queue : Seq(CommandType)]]
  BY DEF LedgerInv, KeyedInv, RuntimeTypeInv, RuntimeTypeOK
<1>5. ASSUME NEW t \in Session, NEW i \in DOMAIN chan'[t].queue
      PROVE  Issued(chan'[t].queue[i].id)
  <2>1. CASE chan'[t] = chan[t] \/ chan'[t].queue = <<>>
    BY <2>1 DEF LedgerInv, QueuesIssued
  <2>2. CASE Takes(s) /\ t = s
    <3> DEFINE q == chan[s].queue
    <3>1. q \in Seq(CommandType) /\ q # <<>> /\ chan'[t].queue = Tail(q)
      BY <1>4, <2>2 DEF Takes
    <3>2. \A n \in DOMAIN q : Issued(q[n].id)
      BY DEF LedgerInv, QueuesIssued
    <3> HIDE DEF q
    <3>3. i + 1 \in DOMAIN q /\ Tail(q)[i] = q[i + 1]
      BY <3>1, SMT
    <3>4. QED
      BY <3>1, <3>2, <3>3
  <2>3. QED
    BY <1>4, <2>1, <2>2 DEF Takes, Closes
<1>6. QED
  BY <1>1, <1>3, <1>5, LedgerFrame

(* A restart: the journal is what it was, and all that remains of the rest. *)
LEMMA RestartLedger ==
    ASSUME LedgerInv, KeyedInv', Restarts
    PROVE  LedgerInv' /\ UNCHANGED <<file, settled, handed>>
<1>1. UNCHANGED <<file, settled, handed>> /\ Quiet /\ mem' = Finalize(file)
  BY DEF Restarts, Quiet
<1>2. Stage' = Stage
  BY <1>1, QuietStage
<1>3. ASSUME NEW c \in CommandId, Tracked(mem', c) PROVE Known(c)
  <2>1. Tracked(file, c) /\ file \in ReplayType
    BY <1>1, <1>3, Types, FinalizeEffect DEF Tracked, LedgerInv
  <2>2. QED
    BY <2>1, StageValues, StageIsStageIn DEF Known
<1>4. \A k \in Task : LedgerTask(k)'
  BY DEF Restarts, FreshTasks, LedgerTask, NoRecord, IsPlanned
<1>5. QueuesIssued'
  BY DEF Restarts, FreshTasks, QueuesIssued
<1>6. QED
  BY <1>1, <1>2, <1>3, <1>4, <1>5 DEF LedgerInv, Known

-----------------------------------------------------------------------------
(* The journal steps.                                                       *)

(* Appending rec[k] to the journal keeps what is known known and what is    *)
(* issued issued, and is a step of the ledger.                              *)
Appended(k) ==
    /\ file' = Apply(file, rec[k])
    /\ settled' = SettledBy(settled, rec[k])

Onward ==
    \A c \in CommandId : (Known(c) => Known(c)') /\ (Issued(c) => Issued(c)')

LEMMA AppendMoves ==
    ASSUME LedgerInv, NEW k \in Task, pc[k] = "append", Appended(k)
    PROVE  /\ Onward
           /\ IsPlanned(rec[k]) =>
                /\ \A c \in CommandId :
                     Stage'[c] # Stage[c] => Stage[c] = "new" /\ Stage'[c] = "queued"
                /\ \A p \in rec[k].commands : Stage'[p.id] # "new"
           /\ ~IsPlanned(rec[k]) =>
                /\ rec[k].id \in CommandId
                /\ \A c \in CommandId \ {rec[k].id} : Stage'[c] = Stage[c]
                /\ \/ Stage'[rec[k].id] = Stage[rec[k].id]
                   \/ Stage[rec[k].id] = "queued" /\ Stage'[rec[k].id] = "issued"
                   \/ Stage[rec[k].id] = "issued" /\ Stage'[rec[k].id] = "done"
                /\ Stage[rec[k].id] # "new" => Stage'[rec[k].id] \in {"issued", "done"}
<1> DEFINE r == rec[k]
<1>1. file \in ReplayType /\ settled \in SUBSET CommandId /\ r \in RecordType
  BY DEF LedgerInv, KeyedInv, RuntimeTypeInv, RuntimeTypeOK, Standing
<1>2. r.kind = "AckApplied" => Issued(r.id)
  BY DEF LedgerInv, LedgerTask
<1>3. /\ \A c \in CommandId : Stage[c] = StageIn(file, settled, c)
      /\ \A c \in CommandId : Stage'[c] = StageIn(Apply(file, r), SettledBy(settled, r), c)
  <2>1. Stage' = [c \in CommandId |-> StageIn(file', settled', c)]
    BY DEF Stage, StageIn
  <2>2. QED
    BY <2>1, StageIsStageIn DEF Appended
<1>4. CASE IsPlanned(r)
  <2>1. ASSUME NEW c \in CommandId
        PROVE  /\ Stage'[c] = Stage[c] \/ (Stage[c] = "new" /\ Stage'[c] = "queued")
               /\ (\E p \in r.commands : p.id = c) => Stage'[c] # "new"
    <3>1. /\ \/ StageIn(Apply(file, r), SettledBy(settled, r), c) = StageIn(file, settled, c)
             \/ /\ StageIn(file, settled, c) = "new"
                /\ StageIn(Apply(file, r), SettledBy(settled, r), c) = "queued"
          /\ (\E p \in r.commands : p.id = c) =>
               StageIn(Apply(file, r), SettledBy(settled, r), c) # "new"
      <4> HIDE DEF r
      <4> QED BY <1>1, <1>4, PlannedMoves
    <3>2. QED
      BY <1>3, <3>1
  <2>2. ASSUME NEW p \in r.commands PROVE p.id \in CommandId
    <3>1. p \in CommandType
      BY <1>1, <1>4, RecordShape
    <3>2. QED
      BY <3>1, SMT DEF CommandType
  <2>3. Onward
    BY <2>1 DEF Onward, Known, Issued
  <2>4. QED
    BY <1>4, <2>1, <2>2, <2>3 DEF Known
<1>5. CASE ~IsPlanned(r)
  <2>1. r.id \in CommandId
    BY <1>1, <1>5, RecordShape
  <2>2. r.kind = "AckApplied" => StageIn(file, settled, r.id) \in {"issued", "done"}
    BY <1>2, <1>3, <2>1 DEF Issued
  <2>3. ASSUME NEW c \in CommandId
        PROVE  /\ \/ Stage'[c] = Stage[c]
                  \/ c = r.id /\ Stage[c] = "queued" /\ Stage'[c] = "issued"
                  \/ c = r.id /\ Stage[c] = "issued" /\ Stage'[c] = "done"
               /\ c = r.id /\ Stage[c] # "new" => Stage'[c] \in {"issued", "done"}
    BY <1>1, <1>3, <1>5, <2>2, OtherMoves
  <2>4. Onward
    BY <2>3 DEF Onward, Known, Issued
  <2>5. QED
    BY <1>5, <2>1, <2>3, <2>4 DEF Known, Issued
<1>6. QED
  BY <1>4, <1>5

LEMMA StageTyped ==
    ASSUME LedgerInv
    PROVE  Stage \in [CommandId -> {"new", "queued", "issued", "done"}]
<1>1. file \in ReplayType
  BY Types DEF LedgerInv
<1>2. \A c \in CommandId : StageIn(file, settled, c) \in {"new", "queued", "issued", "done"}
  BY <1>1, StageValues
<1>3. QED
  BY <1>2, StageIsStageIn

(* Other tasks, and this one when it goes on to apply the record.           *)
LEMMA OnwardLedger ==
    ASSUME LedgerInv, Onward, NEW j \in Task,
           pc'[j] = pc[j] /\ ret'[j] = ret[j] /\ rec'[j] = rec[j] /\ todo'[j] = todo[j]
    PROVE  LedgerTask(j)'
<1>1. LedgerTask(j)
  BY DEF LedgerInv
<1>2. ASSUME NEW c \in CommandType PROVE c.id \in CommandId
  BY SMT DEF CommandType
<1>3. todo[j] \in SUBSET CommandType
  BY Types DEF LedgerInv
<1>4. pc[j] \in {"append", "apply", "send", "mirror"} => rec[j] \in RecordType
  BY DEF LedgerInv, KeyedInv, RuntimeTypeInv, Standing
<1>5. /\ rec[j].kind = "AckApplied" => rec[j].id \in CommandId
      /\ pc[j] = "send" \/ (pc[j] \in {"append", "apply"} /\ ret[j] = "send") =>
           rec[j].id \in CommandId
      /\ pc[j] = "apply" /\ IsPlanned(rec[j]) => rec[j].commands \in SUBSET CommandType
  <2>1. rec[j] \in RecordType \/ rec[j] = NoRecord
    BY DEF LedgerInv, KeyedInv, RuntimeTypeInv, RuntimeTypeOK
  <2>2. rec[j].kind = "AckApplied" => rec[j] \in RecordType /\ ~IsPlanned(rec[j])
    BY <2>1 DEF NoRecord, IsPlanned
  <2>3. pc[j] = "send" \/ (pc[j] \in {"append", "apply"} /\ ret[j] = "send") =>
           rec[j].kind = "CommandDispatched"
    BY DEF LedgerInv, KeyedInv, RuntimeTypeInv, Standing
  <2>4. QED
    BY <1>4, <2>2, <2>3, RecordShape DEF IsPlanned
<1>6. QED
  BY <1>1, <1>2, <1>3, <1>5 DEF LedgerTask, Onward

LEMMA AppendLedger ==
    ASSUME LedgerInv, KeyedInv', NEW k \in Task, pc[k] = "append", Appended(k),
           mem' = mem, chan' = chan,
           \A j \in Task \ {k} :
               /\ pc'[j] = pc[j] /\ ret'[j] = ret[j]
               /\ rec'[j] = rec[j] /\ todo'[j] = todo[j],
           \/ /\ pc'[k] = "apply" /\ ret'[k] = ret[k]
              /\ rec'[k] = rec[k] /\ todo'[k] = todo[k]
           \/ /\ pc'[k] \in Exit /\ todo'[k] = {} /\ rec'[k] = NoRecord
    PROVE  LedgerInv'
<1>1. Onward
  BY AppendMoves
<1>2. LedgerTask(k)'
  <2>1. CASE pc'[k] \in Exit /\ todo'[k] = {} /\ rec'[k] = NoRecord
    BY <2>1 DEF LedgerTask, NoRecord, Exit
  <2>2. CASE /\ pc'[k] = "apply" /\ ret'[k] = ret[k]
             /\ rec'[k] = rec[k] /\ todo'[k] = todo[k]
    <3> DEFINE r == rec[k]
    <3>1. /\ LedgerTask(k) /\ todo[k] \in SUBSET CommandType
          /\ r \in RecordType
          /\ ret[k] = "send" => r.kind = "CommandDispatched"
      BY Types DEF LedgerInv, KeyedInv, RuntimeTypeInv, Standing
    <3>2. ASSUME NEW c \in todo[k] PROVE Known(c.id)'
      <4>1. c.id \in CommandId
        BY <3>1, SMT DEF CommandType
      <4>2. Known(c.id) \/ (IsPlanned(r) /\ c \in r.commands)
        BY <3>1 DEF LedgerTask
      <4>3. QED
        BY <1>1, <4>1, <4>2, AppendMoves DEF Onward, Known
    <3>3. ASSUME IsPlanned(r), NEW c \in r.commands PROVE Known(c.id)'
      BY <3>3, AppendMoves DEF Known
    <3>4. ret[k] = "send" => Stage'[r.id] \in {"issued", "done"}
      <4>1. ret[k] = "send" => Stage[r.id] # "new" /\ ~IsPlanned(r)
        BY <3>1 DEF LedgerTask, Known, IsPlanned
      <4>2. QED
        BY <4>1, AppendMoves
    <3>5. r.kind = "AckApplied" => Stage'[r.id] \in {"issued", "done"}
      <4>1. r.kind = "AckApplied" => Issued(r.id) /\ r.id \in CommandId
        BY <3>1, RecordShape DEF LedgerTask, IsPlanned
      <4>2. QED
        BY <1>1, <4>1 DEF Onward, Issued
    <3>6. QED
      BY <2>2, <3>2, <3>3, <3>4, <3>5 DEF LedgerTask, Known, Issued
  <2>3. QED
    BY <2>1, <2>2
<1>3. \A j \in Task : LedgerTask(j)'
  BY <1>1, <1>2, OnwardLedger
<1>4. QueuesIssued'
  <2> SUFFICES ASSUME NEW s \in Session, NEW i \in DOMAIN chan[s].queue
               PROVE  Stage'[chan[s].queue[i].id] \in {"issued", "done"}
    BY DEF QueuesIssued, Issued
  <2>1. chan \in [Session -> [open : BOOLEAN, queue : Seq(CommandType)]]
    BY DEF LedgerInv, KeyedInv, RuntimeTypeInv, RuntimeTypeOK
  <2>2. chan[s].queue[i] \in CommandType
    BY <2>1, SMT
  <2>3. chan[s].queue[i].id \in CommandId
    BY <2>2, SMT DEF CommandType
  <2>4. QED
    BY <1>1, <2>3 DEF LedgerInv, QueuesIssued, Onward, Issued
<1>5. \A c \in CommandId : Tracked(mem, c)' => Known(c)'
  BY <1>1 DEF LedgerInv, Onward, Tracked, StateOf
<1>6. QED
  BY <1>3, <1>4, <1>5 DEF LedgerInv

(* The append of a record is a step of the ledger, or none.                 *)
LEMMA AppendMapped ==
    ASSUME LedgerInv, NEW k \in Task, pc[k] = "append", Appended(k), handed' = handed
    PROVE  [Ledger!LedgerNext]_Ledger!ledgerVars
<1>1. Stage' \in [CommandId -> {"new", "queued", "issued", "done"}]
      /\ Stage \in [CommandId -> {"new", "queued", "issued", "done"}]
  <2>1. Stage' = [c \in CommandId |-> StageIn(file', settled', c)]
    BY DEF Stage, StageIn
  <2>2. file' \in ReplayType
    <3>1. file \in ReplayType /\ rec[k] \in RecordType
      BY DEF LedgerInv, KeyedInv, RuntimeTypeInv, RuntimeTypeOK, Standing
    <3>2. QED
      BY <3>1, ApplyTyped DEF Appended
  <2>3. \A c \in CommandId :
          StageIn(file', settled', c) \in {"new", "queued", "issued", "done"}
    BY <2>2, StageValues
  <2>4. QED
    BY <2>1, <2>3, StageTyped
<1>2. CASE IsPlanned(rec[k])
  <2>1. Ledger!Plan
    BY <1>1, <1>2, AppendMoves DEF Ledger!Plan
  <2>2. QED
    BY <2>1 DEF Ledger!LedgerNext
<1>3. CASE ~IsPlanned(rec[k])
  <2> DEFINE i == rec[k].id
  <2>1. /\ i \in CommandId
        /\ \A c \in CommandId \ {i} : Stage'[c] = Stage[c]
        /\ \/ Stage'[i] = Stage[i]
           \/ Stage[i] = "queued" /\ Stage'[i] = "issued"
           \/ Stage[i] = "issued" /\ Stage'[i] = "done"
    BY <1>3, AppendMoves
  <2> HIDE DEF i
  <2>2. Stage' = [Stage EXCEPT ![i] = Stage'[i]]
    BY <1>1, <2>1
  <2>3. CASE Stage'[i] = Stage[i]
    <3>1. Stage' = Stage
      BY <1>1, <2>1, <2>3
    <3>2. QED
      BY <3>1 DEF Ledger!ledgerVars
  <2>4. CASE Stage[i] = "queued" /\ Stage'[i] = "issued"
    BY <2>1, <2>2, <2>4 DEF Ledger!LedgerNext, Ledger!Issue, Ledger!Move
  <2>5. CASE Stage[i] = "issued" /\ Stage'[i] = "done"
    BY <2>1, <2>2, <2>5 DEF Ledger!LedgerNext, Ledger!Settle, Ledger!Move
  <2>6. QED
    BY <2>1, <2>3, <2>4, <2>5
<1>4. QED
  BY <1>2, <1>3

LEMMA JournalStep ==
    ASSUME LedgerInv, KeyedInv', NEW k \in Task,
           AppendRecord(k) \/ \E label \in Exit : AppendFails(k, label)
    PROVE  LedgerInv' /\ Onward /\ [Ledger!LedgerNext]_Ledger!ledgerVars
<1>1. /\ pc[k] = "append" /\ mem' = mem /\ chan' = chan /\ handed' = handed
      /\ Quiet \/ Appended(k)
  BY DEF AppendRecord, AppendFails, Quiet, Appended, SettledBy, IsFinalAck
<1>2. Onward
  BY <1>1, AppendMoves, QuietStage DEF Onward, Known, Issued
<1>3. CASE AppendRecord(k)
  <2>1. /\ pc'[k] = "apply" /\ \A j \in Task \ {k} : pc'[j] = pc[j]
        /\ UNCHANGED <<ret, rec, todo>>
    BY <1>3, Types DEF AppendRecord, Goto, LedgerInv
  <2>2. Appended(k)
    BY <1>3 DEF AppendRecord, Appended, SettledBy, IsFinalAck
  <2>3. LedgerInv'
    BY <1>1, <2>1, <2>2, AppendLedger
  <2>4. QED
    BY <1>1, <1>2, <2>2, <2>3, AppendMapped
<1>4. CASE \E label \in Exit : AppendFails(k, label)
  <2>1. PICK label \in Exit : Fail(k, label)
    BY <1>4 DEF AppendFails
  <2>2. CASE Quiet
    <3>1. \A j \in Task : LedgerTask(j)'
      BY <2>1, <2>2, FailLedger
    <3>2. LedgerInv'
      BY <1>1, <2>2, <3>1, LedgerFrame DEF LedgerInv, QueuesIssued
    <3>3. QED
      BY <1>1, <1>2, <2>2, <3>2, QuietStage DEF Ledger!ledgerVars
  <2>3. CASE Appended(k)
    <3>1. /\ pc'[k] \in Exit /\ todo'[k] = {} /\ rec'[k] = NoRecord
          /\ \A j \in Task \ {k} :
               /\ pc'[j] = pc[j] /\ ret'[j] = ret[j]
               /\ rec'[j] = rec[j] /\ todo'[j] = todo[j]
      BY <2>1, Types DEF Fail, Goto, LedgerInv
    <3>2. LedgerInv'
      BY <1>1, <2>3, <3>1, AppendLedger
    <3>3. QED
      BY <1>1, <1>2, <2>3, <3>2, AppendMapped
  <2>4. QED
    BY <1>1, <2>2, <2>3
<1>5. QED
  BY <1>3, <1>4

(* What memory learns when a record is applied the journal knows already.   *)
LEMMA ApplyLedger ==
    ASSUME LedgerInv, KeyedInv', NEW k \in Task, ApplyRecord(k)
    PROVE  LedgerInv' /\ UNCHANGED <<file, settled, handed>>
<1>1. /\ pc[k] = "apply" /\ mem' = Apply(mem, rec[k]) /\ Quiet
      /\ UNCHANGED <<file, settled, handed, chan>>
  BY DEF ApplyRecord, Quiet
<1>2. LedgerTask(k) /\ Stage' = Stage /\ rec[k] \in RecordType /\ mem \in ReplayType
  BY <1>1, Types, QuietStage DEF LedgerInv, KeyedInv, RuntimeTypeInv, Standing
<1>3. ASSUME NEW c \in CommandId, Tracked(mem', c) PROVE Known(c)
  <2>1. CASE Tracked(mem, c)
    BY <2>1 DEF LedgerInv
  <2>2. CASE ~Tracked(mem, c) /\ IsPlanned(rec[k])
    <3>1. \E p \in rec[k].commands : p.id = c
      BY <1>1, <1>2, <1>3, <2>2, PlannedEntry DEF Tracked, StateOf
    <3>2. QED
      BY <1>1, <1>2, <2>2, <3>1 DEF LedgerTask
  <2>3. CASE ~Tracked(mem, c) /\ ~IsPlanned(rec[k])
    BY <1>1, <1>2, <1>3, <2>3, OtherEntry DEF Tracked, StateOf
  <2>4. QED
    BY <2>1, <2>2, <2>3
<1>4. \A j \in Task : LedgerTask(j)'
  <2>1. /\ ret[k] \in {"idle", "dispatch", "send", "orphans"}
        /\ \A c \in todo[k] : Known(c.id)
        /\ \A j \in Task \ {k} : rec'[j] = rec[j] /\ ret'[j] = ret[j]
        /\ rec'[k] = IF ret[k] = "send" THEN rec[k] ELSE NoRecord
    BY <1>1, <1>2, Types
       DEF LedgerTask, LedgerInv, KeyedInv, ApplyRecord, RuntimeTypeInv, RuntimeTypeOK
  <2>2. CASE ret[k] \in {"dispatch", "orphans"}
    <3>1. Loop(k, ret[k], todo[k])
      BY <2>2 DEF ApplyRecord
    <3>2. QED
      BY <1>1, <2>1, <2>2, <3>1, LoopLedger
  <2>3. CASE ret[k] \in {"idle", "send"}
    <3>1. /\ pc'[k] = ret[k] /\ todo' = todo
          /\ \A j \in Task \ {k} : pc'[j] = pc[j]
      BY <2>3, Types DEF ApplyRecord, Goto, LedgerInv
    <3>2. LedgerTask(k)'
      BY <1>1, <1>2, <2>1, <2>3, <3>1 DEF LedgerTask, Known, Issued, NoRecord
    <3>3. QED
      BY <1>1, <2>1, <3>1, <3>2, OthersLedger
  <2>4. QED
    BY <2>1, <2>2, <2>3
<1>5. QED
  BY <1>1, <1>2, <1>3, <1>4 DEF LedgerInv, QueuesIssued, Known, Issued

-----------------------------------------------------------------------------
(* Every step, as long as only what was issued is acknowledged.             *)

IssuedAcks == {ack \in AckType : Issued(ack.id)}

LEMMA FewerAcks ==
    ASSUME NEW some, NEW more, some \subseteq more, RuntimeStep(some)
    PROVE  RuntimeStep(more)
BY DEF RuntimeStep

LEMMA LedgerStep ==
    ASSUME LedgerInv, RuntimeStep(IssuedAcks)
    PROVE  LedgerInv' /\ Onward /\ [Ledger!LedgerNext]_Ledger!ledgerVars
<1>1. KeyedInv'
  <2>1. RuntimeStep(AckType)
    BY FewerAcks DEF IssuedAcks
  <2>2. QED
    BY <2>1, KeyedStep DEF LedgerInv
<1>2. LedgerInv' /\ UNCHANGED <<file, settled, handed>> =>
        LedgerInv' /\ Onward /\ [Ledger!LedgerNext]_Ledger!ledgerVars
  BY QuietStage DEF Quiet, Ledger!ledgerVars, Onward, Known, Issued
<1>3. ASSUME NEW k \in Task, HandlerStep(k)
      PROVE  LedgerInv' /\ Onward /\ [Ledger!LedgerNext]_Ledger!ledgerVars
  <2>1. CASE \/ InsertSession(k) \/ SnapshotQueued(k)
             \/ Unregister(k) \/ SnapshotDispatched(k) \/ MarkOrphan(k)
    BY <1>1, <1>2, <2>1, SessionStepLedger
  <2>2. CASE RouteEvent(k) \/ RoutePanics(k)
    BY <1>1, <1>2, <2>2, RouteLedger
  <2>3. CASE AppendRecord(k)
    BY <1>1, <2>3, JournalStep
  <2>4. CASE ApplyRecord(k)
    BY <1>1, <1>2, <2>4, ApplyLedger
  <2>5. CASE DispatchNext(k) \/ SendFails(k)
    BY <1>1, <1>2, <2>5, DispatchLedger
  <2>6. CASE Send(k)
    <3>1. /\ LedgerInv' /\ UNCHANGED <<file, settled>>
          /\ \E c \in CommandId :
               /\ Issued(c)
               /\ handed' = [handed EXCEPT ![c] = IF @ = 2 THEN 2 ELSE @ + 1]
      BY <1>1, <2>6, SendLedger
    <3>2. Stage' = Stage
      BY <3>1, QuietStage DEF Quiet
    <3>3. Ledger!LedgerNext
      BY <3>1, <3>2 DEF Ledger!LedgerNext, Ledger!Hand, Issued
    <3>4. Onward
      BY <3>2 DEF Onward, Known, Issued
    <3>5. QED
      BY <3>1, <3>3, <3>4
  <2>7. CASE MutateReduced(k)
    BY <1>1, <1>2, <2>7, MutateLedger
  <2>8. QED
    BY <1>3, <2>1, <2>2, <2>3, <2>4, <2>5, <2>6, <2>7 DEF HandlerStep
<1>4. ASSUME NEW k \in Task, DrawSessionId(k) \/ Leaves(k)
      PROVE  LedgerInv' /\ Onward /\ [Ledger!LedgerNext]_Ledger!ledgerVars
  BY <1>1, <1>2, <1>4, SessionStepLedger
<1>5. ASSUME NEW k \in Task, NEW label \in Exit, AppendFails(k, label)
      PROVE  LedgerInv' /\ Onward /\ [Ledger!LedgerNext]_Ledger!ledgerVars
  BY <1>1, <1>5, JournalStep
<1>6. ASSUME NEW k \in Task, NEW label \in Exit, Ends(k, label)
      PROVE  LedgerInv' /\ Onward /\ [Ledger!LedgerNext]_Ledger!ledgerVars
  BY <1>1, <1>2, <1>6, EndsLedger
<1>7. ASSUME NEW k \in Task, NEW e \in Event, HandleEvent(k, e)
      PROVE  LedgerInv' /\ Onward /\ [Ledger!LedgerNext]_Ledger!ledgerVars
  BY <1>1, <1>2, <1>7, EventLedger
<1>8. ASSUME NEW k \in Task, NEW ack \in IssuedAcks, HandleAck(k, ack)
      PROVE  LedgerInv' /\ Onward /\ [Ledger!LedgerNext]_Ledger!ledgerVars
  <2>1. ack \in AckType /\ Issued(ack.id)
    BY DEF IssuedAcks
  <2>2. QED
    BY <1>1, <1>2, <1>8, <2>1, AckLedger
<1>9. ASSUME NEW s \in Session, Takes(s) \/ Closes(s)
      PROVE  LedgerInv' /\ Onward /\ [Ledger!LedgerNext]_Ledger!ledgerVars
  BY <1>1, <1>2, <1>9, ChannelLedger
<1>10. CASE Restarts
  BY <1>1, <1>2, <1>10, RestartLedger
<1>11. CASE UNCHANGED runtimeVars
  <2>1. /\ UNCHANGED <<mem, file, settled, handed, chan>> /\ Quiet
        /\ UNCHANGED <<pc, ret, rec, todo>>
    BY <1>11 DEF runtimeVars, taskVars, Quiet
  <2>2. Stage' = Stage
    BY <2>1, QuietStage
  <2>3. \A j \in Task : LedgerTask(j)'
    BY <2>1, <2>2 DEF LedgerInv, LedgerTask, Known, Issued
  <2>4. LedgerInv'
    BY <1>1, <2>1, <2>3, LedgerFrame DEF LedgerInv, QueuesIssued
  <2>5. QED
    BY <1>2, <2>1, <2>4
<1>12. QED
  BY <1>3, <1>4, <1>5, <1>6, <1>7, <1>8, <1>9, <1>10, <1>11 DEF RuntimeStep
=============================================================================
