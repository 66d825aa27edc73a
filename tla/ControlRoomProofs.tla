------------------------- MODULE ControlRoomProofs -------------------------
(***************************************************************************)
(* What holds of the control room, its daemons and their journal for every  *)
(* number of daemons, requests, records, faults and stops.                  *)
(***************************************************************************)
EXTENDS ControlRoom, TLAPS, SequenceTheorems

-----------------------------------------------------------------------------
(* The file.                                                                *)

(* The strengthening of PromisedSurvives: a record that was kept is in the  *)
(* file, one that was synced is before the point that is on the disk.       *)
KeptInFile == \A n \in kept : \E i \in 1..Len(file) : file[i].rec = n
SealedOnDisk == \A n \in sealed : \E i \in 1..synced : file[i].rec = n

(* That of RefusalHasACause: without a failure every line is complete.      *)
Complete == failed = {} /\ ~lost =>
                \A i \in 1..Len(file) : file[i].whole /\ file[i].ended

JournalInv == JournalTypeOK /\ KeptInFile /\ SealedOnDisk /\ Complete

(* A call that adds pieces to the file moves none that is there.            *)
LEMMA Extended ==
    ASSUME NEW f \in Seq(Piece), NEW g \in Seq(Piece)
    PROVE  /\ f \o g \in Seq(Piece)
           /\ Len(f) \in Nat
           /\ Len(f \o g) >= Len(f)
           /\ \A i \in 1..Len(f) : (f \o g)[i] = f[i]
<1>1. Len(f) \in Nat /\ Len(g) \in Nat
  BY LenProperties
<1>2. QED
  BY <1>1, ConcatProperties

LEMMA Appended ==
    ASSUME NEW f \in Seq(Piece), NEW piece \in Piece
    PROVE  /\ Append(f, piece) \in Seq(Piece)
           /\ Len(f) \in Nat
           /\ Len(Append(f, piece)) = Len(f) + 1
           /\ \A i \in 1..Len(f) : Append(f, piece)[i] = f[i]
           /\ Append(f, piece)[Len(f) + 1] = piece
  OBVIOUS

LEMMA LineIsPiece ==
    ASSUME NEW n \in Record, NEW finite \in BOOLEAN
    PROVE  /\ Line(n, finite) \in Piece
           /\ Line(n, finite).rec = n
           /\ Line(n, finite).whole /\ Line(n, finite).ended
  BY DEF Line, Piece

LEMMA OnePiece == ASSUME NEW piece \in Piece PROVE <<piece>> \in Seq(Piece)
  OBVIOUS

LEMMA FragmentsAreSequences ==
    ASSUME NEW n \in Record, NEW piece \in Fragments(n)
    PROVE  piece \in Seq(Piece)
<1>1. Line(n, TRUE) \in Piece
  BY LineIsPiece
<1>2. ASSUME NEW w \in BOOLEAN
      PROVE  [rec |-> n, finite |-> TRUE, whole |-> w, ended |-> FALSE] \in Piece
  BY DEF Piece
<1>3. CASE piece = <<>>
  BY <1>3
<1>4. CASE piece = <<Line(n, TRUE)>>
  BY <1>1, <1>4, OnePiece
<1>5. CASE \E w \in BOOLEAN :
             piece = <<[rec |-> n, finite |-> TRUE, whole |-> w, ended |-> FALSE]>>
  BY <1>2, <1>5
<1>6. QED
  BY <1>3, <1>4, <1>5 DEF Fragments

(* What a stop of the machine leaves: the pieces up to some point after     *)
(* those on the disk, with their records.                                   *)
UpTo(f, n) == SubSeq(f, 1, n)
CutAt(f, n) == [SubSeq(f, 1, n) EXCEPT ![n].whole = FALSE, ![n].ended = FALSE]

LEMMA TailLost ==
    ASSUME NEW f \in Seq(Piece), NEW s \in 0..Len(f), NEW n \in s..Len(f), NEW g,
           g = UpTo(f, n) \/ (n > s /\ g = CutAt(f, n))
    PROVE  /\ g \in Seq(Piece)
           /\ Len(g) = n
           /\ \A i \in 1..s : g[i].rec = f[i].rec
<1>1. /\ Len(f) \in Nat /\ n \in Nat /\ s \in Nat /\ s <= n /\ n <= Len(f)
      /\ \A i \in 1..n : f[i] \in Piece
  BY LenProperties
<1> DEFINE h == SubSeq(f, 1, n)
<1>2. h \in Seq(Piece) /\ Len(h) = n /\ \A i \in 1..n : h[i] = f[i]
  <2>1. h \in Seq(Piece) /\ Len(h) = (IF 1 <= n THEN n - 1 + 1 ELSE 0)
    BY <1>1, SubSeqProperties
  <2>2. \A i \in 1..(n - 1 + 1) : h[i] = f[1 + i - 1]
    BY <1>1, SubSeqProperties
  <2>3. QED
    BY <1>1, <2>1, <2>2
<1>0. g = h \/ (n > s /\ g = [h EXCEPT ![n].whole = FALSE, ![n].ended = FALSE])
  BY DEF UpTo, CutAt
<1> HIDE DEF h
<1>3. CASE g = h
  BY <1>1, <1>2, <1>3
<1>4. CASE n > s /\ g = [h EXCEPT ![n].whole = FALSE, ![n].ended = FALSE]
  <2> DEFINE last == [h[n] EXCEPT !.whole = FALSE, !.ended = FALSE]
  <2>1. n \in 1..Len(h) /\ h[n] \in Piece
    BY <1>1, <1>2, <1>4
  <2>2. last \in Piece /\ last.rec = h[n].rec
    BY <2>1 DEF Piece
  <2>3. g = [h EXCEPT ![n] = last]
    BY <1>2, <1>4, <2>1
  <2> HIDE DEF last
  <2>4. g \in Seq(Piece) /\ Len(g) = Len(h)
        /\ \A i \in 1..Len(h) : g[i] = IF i = n THEN last ELSE h[i]
    BY <1>2, <2>1, <2>2, <2>3, ExceptSeq
  <2>5. QED
    BY <1>1, <1>2, <2>2, <2>4
<1>5. QED
  BY <1>0, <1>3, <1>4

-----------------------------------------------------------------------------
(* What each operation of the journal keeps.                                *)

LEMMA JournalStarts == ASSUME JournalInit PROVE JournalInv
<1>1. Len(file) = 0
  BY DEF JournalInit
<1>2. JournalTypeOK
  <2>1. file \in Seq(Piece) /\ synced \in 0..Len(file)
    BY <1>1 DEF JournalInit
  <2>2. mem \in [Daemon -> Seq(Record)] /\ durability \in [Daemon -> Durability]
    BY DEF JournalInit, Durability
  <2>3. calls \in 0..MaxRecord
    BY JournalAssumption DEF JournalInit, JournalAssumption
  <2>4. QED
    BY <2>1, <2>2, <2>3 DEF JournalInit, JournalTypeOK
<1>3. QED
  BY <1>1, <1>2 DEF JournalInit, JournalInv, KeptInFile, SealedOnDisk, Complete

LEMMA JournalRests ==
    ASSUME JournalInv, UNCHANGED journalVars
    PROVE  JournalInv'
  BY DEF JournalInv, JournalTypeOK, KeptInFile, SealedOnDisk, Complete, journalVars

(* A start, or an end, changes only what is in the memory of a daemon.      *)
LEMMA MemoryChanges ==
    ASSUME JournalInv, mem' \in [Daemon -> Seq(Record)],
           durability' \in [Daemon -> Durability],
           UNCHANGED <<file, synced, calls, kept, sealed, failed, lost>>
    PROVE  JournalInv'
  BY DEF JournalInv, JournalTypeOK, KeptInFile, SealedOnDisk, Complete

LEMMA ReplayIsTyped ==
    ASSUME NEW f \in Seq(Piece) PROVE Replayed(f) \in Seq(Record)
<1>1. Len(f) \in Nat /\ DOMAIN f = 1..Len(f) /\ \A i \in 1..Len(f) : f[i] \in Piece
  BY LenProperties
<1>2. Replayed(f) \in [1..Len(f) -> Record]
  BY <1>1 DEF Replayed, Piece
<1>3. QED
  BY <1>1, <1>2

LEMMA OpenKeeps ==
    ASSUME JournalInv, NEW d \in Daemon, NEW setting \in Durability, Open(d, setting)
    PROVE  JournalInv'
<1>1. Replayed(file) \in Seq(Record)
  BY ReplayIsTyped DEF JournalInv, JournalTypeOK
<1>2. mem' \in [Daemon -> Seq(Record)] /\ durability' \in [Daemon -> Durability]
  BY <1>1 DEF Open, JournalInv, JournalTypeOK
<1>3. QED
  BY <1>2, MemoryChanges DEF Open

LEMMA CloseIsTyped ==
    ASSUME JournalTypeOK, NEW ended, Close(ended)
    PROVE  mem' \in [Daemon -> Seq(Record)] /\ durability' \in [Daemon -> Durability]
<1>1. <<>> \in Seq(Record) /\ "none" \in Durability
  BY DEF Durability
<1>2. QED
  BY <1>1 DEF Close, JournalTypeOK

LEMMA AppendOkKeeps ==
    ASSUME JournalInv, NEW d \in Daemon, NEW finite \in BOOLEAN, AppendOk(d, finite)
    PROVE  JournalInv'
<1> DEFINE n == calls + 1
<1>1. n \in Record /\ n \in 0..MaxRecord /\ calls' = n
  BY JournalAssumption DEF AppendOk, JournalInv, JournalTypeOK, JournalAssumption, Record
<1>2. file \in Seq(Piece) /\ synced \in 0..Len(file) /\ Len(file) \in Nat
  BY LenProperties DEF JournalInv, JournalTypeOK
<1>3. Line(n, finite) \in Piece /\ Line(n, finite).rec = n
      /\ Line(n, finite).whole /\ Line(n, finite).ended
  BY <1>1, LineIsPiece
<1> DEFINE longer == Append(file, Line(n, finite))
<1>4. /\ longer \in Seq(Piece)
      /\ Len(longer) = Len(file) + 1
      /\ \A i \in 1..Len(file) : longer[i] = file[i]
      /\ longer[Len(file) + 1] = Line(n, finite)
  BY <1>2, <1>3, Appended
<1>5. mem' \in [Daemon -> Seq(Record)] /\ durability' \in [Daemon -> Durability]
  <2>1. mem' = [mem EXCEPT ![d] = Append(mem[d], n)] /\ durability' = durability
    BY DEF AppendOk
  <2>2. mem \in [Daemon -> Seq(Record)] /\ durability \in [Daemon -> Durability]
    BY DEF JournalInv, JournalTypeOK
  <2>3. Append(mem[d], n) \in Seq(Record)
    BY <1>1, <2>2
  <2>4. QED
    BY <2>1, <2>2, <2>3
<1>6. /\ failed' = failed /\ lost' = lost
      /\ failed \in SUBSET Record /\ lost \in BOOLEAN
      /\ kept \in SUBSET Record /\ sealed \in SUBSET Record
  BY DEF AppendOk, JournalInv, JournalTypeOK
<1>7. KeptInFile /\ SealedOnDisk /\ Complete
  BY DEF JournalInv
<1>8. CASE durability[d] = "none"
  <2>1. file' = file /\ kept' = kept /\ sealed' = sealed /\ synced' = synced
    BY <1>8 DEF AppendOk, SyncData
  <2>2. QED
    BY <1>1, <1>2, <1>5, <1>6, <1>7, <2>1
    DEF JournalInv, JournalTypeOK, KeptInFile, SealedOnDisk, Complete
<1>9. CASE durability[d] # "none"
  <2>1. file' = longer /\ kept' = kept \cup {n}
    BY <1>9 DEF AppendOk
  <2>2. \/ sealed' = sealed /\ synced' = synced
        \/ sealed' = sealed \cup {n} /\ synced' = Len(longer)
    BY <2>1 DEF AppendOk, SyncData
  <2> HIDE DEF longer, n
  <2>3. JournalTypeOK'
    <3>1. synced' \in 0..Len(file')
      BY <1>2, <1>4, <2>1, <2>2
    <3>2. kept' \in SUBSET Record /\ sealed' \in SUBSET Record
      BY <1>1, <1>6, <2>1, <2>2
    <3>3. QED
      BY <1>1, <1>4, <1>5, <1>6, <2>1, <3>1, <3>2 DEF JournalTypeOK
  <2>4. KeptInFile'
    BY <1>2, <1>3, <1>4, <1>7, <2>1 DEF KeptInFile
  <2>5. SealedOnDisk'
    <3>1. ASSUME NEW m \in sealed PROVE \E i \in 1..synced' : longer[i].rec = m
      BY <1>2, <1>4, <1>7, <2>2, <3>1 DEF SealedOnDisk
    <3>2. synced' = Len(longer) => \E i \in 1..synced' : longer[i].rec = n
      BY <1>2, <1>3, <1>4
    <3>3. QED
      BY <2>1, <2>2, <3>1, <3>2 DEF SealedOnDisk
  <2>6. Complete'
    BY <1>2, <1>3, <1>4, <1>6, <1>7, <2>1 DEF Complete
  <2>7. QED
    BY <2>3, <2>4, <2>5, <2>6 DEF JournalInv
<1>10. QED
  BY <1>8, <1>9

(* A failed call, whatever it left, after which the daemon goes on or ends. *)
LEMMA AppendFailsKeeps ==
    ASSUME JournalInv, NEW d \in Daemon, AppendFails(d),
           \/ UNCHANGED <<mem, durability>>
           \/ Close({d})
    PROVE  JournalInv'
<1> DEFINE n == calls + 1
<1>1. n \in Record /\ n \in 0..MaxRecord /\ calls' = n
  BY JournalAssumption DEF AppendFails, JournalInv, JournalTypeOK, JournalAssumption, Record
<1>2. file \in Seq(Piece) /\ synced \in 0..Len(file)
  BY DEF JournalInv, JournalTypeOK
<1>3. PICK piece \in Fragments(n) : file' = file \o piece
  BY DEF AppendFails
<1>4. piece \in Seq(Piece)
  BY <1>1, FragmentsAreSequences
<1>5. /\ file' \in Seq(Piece)
      /\ Len(file) \in Nat /\ Len(file') \in Nat /\ Len(file') >= Len(file)
      /\ \A i \in 1..Len(file) : file'[i] = file[i]
  BY <1>2, <1>3, <1>4, Extended, LenProperties
<1>6. mem' \in [Daemon -> Seq(Record)] /\ durability' \in [Daemon -> Durability]
  BY CloseIsTyped DEF JournalInv, JournalTypeOK
<1>7. /\ synced' = synced /\ kept' = kept /\ sealed' = sealed /\ lost' = lost
      /\ failed' = failed \cup {n}
  BY DEF AppendFails
<1> HIDE DEF n
<1>8. JournalTypeOK'
  BY <1>1, <1>2, <1>5, <1>6, <1>7 DEF JournalInv, JournalTypeOK
<1>9. KeptInFile' /\ SealedOnDisk'
  BY <1>2, <1>5, <1>7 DEF JournalInv, KeptInFile, SealedOnDisk
<1>10. Complete'
  BY <1>7 DEF Complete
<1>11. QED
  BY <1>8, <1>9, <1>10 DEF JournalInv

LEMMA LoseTailKeeps ==
    ASSUME JournalInv, LoseTail PROVE JournalInv'
<1>1. file \in Seq(Piece) /\ synced \in 0..Len(file) /\ Len(file) \in Nat
  BY LenProperties DEF JournalInv, JournalTypeOK
<1>2. PICK n \in synced..Len(file) :
         file' = UpTo(file, n) \/ (n > synced /\ file' = CutAt(file, n))
  BY DEF LoseTail, UpTo, CutAt
<1>3. /\ file' \in Seq(Piece) /\ Len(file') = n
      /\ \A i \in 1..synced : file'[i].rec = file[i].rec
  BY <1>1, <1>2, TailLost
<1>4. /\ synced' = n /\ kept' = sealed /\ sealed' = sealed
      /\ lost' = (lost \/ file' # file)
      /\ calls' = calls /\ failed' = failed
  BY <1>3 DEF LoseTail
<1>5. mem' \in [Daemon -> Seq(Record)] /\ durability' \in [Daemon -> Durability]
  BY CloseIsTyped DEF LoseTail, JournalInv, JournalTypeOK
<1>6. n \in Nat /\ n >= synced /\ synced \in Nat
  BY <1>1, <1>2
<1>7. JournalTypeOK'
  BY <1>3, <1>4, <1>5, <1>6 DEF JournalInv, JournalTypeOK
<1>8. KeptInFile' /\ SealedOnDisk'
  <2>1. ASSUME NEW m \in sealed PROVE \E i \in 1..n : file'[i].rec = m
    <3>1. PICK i \in 1..synced : file[i].rec = m
      BY DEF JournalInv, SealedOnDisk
    <3>2. i \in 1..n /\ file'[i].rec = m
      BY <1>3, <1>6, <3>1
    <3>3. QED
      BY <3>2
  <2>2. QED
    BY <1>3, <1>4, <2>1 DEF KeptInFile, SealedOnDisk
<1>9. Complete'
  BY <1>4 DEF JournalInv, Complete
<1>10. QED
  BY <1>7, <1>8, <1>9 DEF JournalInv
-----------------------------------------------------------------------------
(* The room and its daemons.                                                *)

RoomTypeOK ==
    /\ room \in BOOLEAN
    /\ child \in Daemon \cup {NoDaemon}
    /\ request \in [Request -> RequestType]
    /\ config \in ConfigType
    /\ phase \in [Daemon -> {"unborn", "spawned", "opened", "serving", "gone"}]
    /\ orphans \in SUBSET Daemon
    /\ stops \in 0..MaxStops

(* TypeOK, what the file promises and that no daemon is lost: the inductive *)
(* invariant of the whole.                                                  *)
RoomInv == JournalInv /\ RoomTypeOK /\ EveryDaemonIsKnown

LEMMA EndIsTyped ==
    ASSUME JournalInv, RoomTypeOK, NEW ended \in SUBSET Daemon, End(ended)
    PROVE  /\ JournalInv'
           /\ phase' \in [Daemon -> {"unborn", "spawned", "opened", "serving", "gone"}]
           /\ \A d \in Daemon : Alive(d)' => Alive(d) /\ d \notin ended
<1>1. JournalInv'
  BY CloseIsTyped, MemoryChanges DEF End, JournalInv
<1>2. QED
  BY <1>1 DEF End, Alive, RoomTypeOK

(* Who becomes alive: only a daemon that is spawned.                        *)
LEMMA BecomesIsTyped ==
    ASSUME RoomTypeOK, NEW d \in Daemon, Become(d, "opened") \/ Become(d, "serving")
                                                           \/ Become(d, "gone")
    PROVE  /\ phase' \in [Daemon -> {"unborn", "spawned", "opened", "serving", "gone"}]
           /\ \A e \in Daemon \ {d} : phase'[e] = phase[e]
  BY DEF Become, RoomTypeOK

(* The steps of the room.                                                   *)
LEMMA RoomStepKeeps ==
    ASSUME RoomInv,
           \/ RoomStarts \/ Stop \/ Status \/ RoomLeaves \/ RoomKilled
           \/ \E r \in Request : \/ \E setting \in Durability : RequestStart(r, setting)
                                 \/ WriteConfig(r)
                                 \/ Launch(r)
    PROVE  RoomInv'
<1>1. JournalInv /\ RoomTypeOK /\ EveryDaemonIsKnown
  BY DEF RoomInv
<1>2. NoRequest \in RequestType /\ Unusable \in ConfigType
      /\ \A setting \in Durability : /\ setting \in ConfigType
                                    /\ [at |-> "writing", config |-> setting] \in RequestType
  BY DEF NoRequest, RequestType, ConfigType
<1>3. CASE RoomStarts
  <2>1. JournalInv'
    BY <1>1, <1>3, JournalRests DEF RoomStarts
  <2>2. RoomTypeOK' /\ EveryDaemonIsKnown'
    BY <1>1, <1>3 DEF RoomStarts, RoomTypeOK, EveryDaemonIsKnown, Alive
  <2>3. QED
    BY <2>1, <2>2 DEF RoomInv
<1>4. CASE Stop
  <2>1. child \in Daemon /\ End({child})
    BY <1>1, <1>4 DEF Stop, RoomTypeOK
  <2>2. /\ JournalInv'
        /\ phase' \in [Daemon -> {"unborn", "spawned", "opened", "serving", "gone"}]
        /\ \A d \in Daemon : Alive(d)' => Alive(d) /\ d \notin {child}
    BY <1>1, <2>1, EndIsTyped
  <2>3. RoomTypeOK' /\ EveryDaemonIsKnown'
    BY <1>1, <1>4, <2>2 DEF Stop, RoomTypeOK, EveryDaemonIsKnown
  <2>4. QED
    BY <2>2, <2>3 DEF RoomInv
<1>5. CASE Status
  <2>1. JournalInv'
    BY <1>1, <1>5, JournalRests DEF Status
  <2>2. RoomTypeOK' /\ EveryDaemonIsKnown'
    BY <1>1, <1>5 DEF Status, RoomTypeOK, EveryDaemonIsKnown, Alive
  <2>3. QED
    BY <2>1, <2>2 DEF RoomInv
<1>6. CASE RoomLeaves
  <2>1. End({child} \cap Daemon) /\ {child} \cap Daemon \in SUBSET Daemon
    BY <1>6 DEF RoomLeaves
  <2>2. /\ JournalInv'
        /\ phase' \in [Daemon -> {"unborn", "spawned", "opened", "serving", "gone"}]
        /\ \A d \in Daemon : Alive(d)' => Alive(d) /\ d \notin {child} \cap Daemon
    BY <1>1, <2>1, EndIsTyped
  <2>3. stops' \in 0..MaxStops
    BY <1>1, <1>6, RoomAssumption DEF RoomLeaves, RoomTypeOK, RoomAssumption
  <2>4. RoomTypeOK' /\ EveryDaemonIsKnown'
    BY <1>1, <1>6, <2>2, <2>3 DEF RoomLeaves, RoomTypeOK, EveryDaemonIsKnown
  <2>5. QED
    BY <2>2, <2>4 DEF RoomInv
<1>7. CASE RoomKilled
  <2>1. JournalInv'
    BY <1>1, <1>7, JournalRests DEF RoomKilled
  <2>2. stops' \in 0..MaxStops
    BY <1>1, <1>7, RoomAssumption DEF RoomKilled, RoomTypeOK, RoomAssumption
  <2>3. RoomTypeOK'
    <3>1. orphans' \in SUBSET Daemon
      BY <1>1, <1>7 DEF RoomKilled, RoomTypeOK, ChildRuns
    <3>2. QED
      BY <1>1, <1>2, <1>7, <2>2, <3>1 DEF RoomKilled, RoomTypeOK
  <2>4. EveryDaemonIsKnown'
    BY <1>1, <1>7 DEF RoomKilled, RoomTypeOK, EveryDaemonIsKnown, Alive, ChildRuns, NoDaemon
  <2>5. QED
    BY <2>1, <2>3, <2>4 DEF RoomInv
<1>8. ASSUME NEW r \in Request, NEW setting \in Durability, RequestStart(r, setting)
      PROVE  RoomInv'
  <2>1. JournalInv'
    BY <1>1, <1>8, JournalRests DEF RequestStart
  <2>2. RoomTypeOK' /\ EveryDaemonIsKnown'
    BY <1>1, <1>2, <1>8 DEF RequestStart, RoomTypeOK, EveryDaemonIsKnown, Alive
  <2>3. QED
    BY <2>1, <2>2 DEF RoomInv
<1>9. ASSUME NEW r \in Request, WriteConfig(r)
      PROVE  RoomInv'
  <2>1. JournalInv'
    BY <1>1, <1>9, JournalRests DEF WriteConfig
  <2>2. request[r] \in [at : {"writing", "written"}, config : Durability]
    BY <1>1, <1>9 DEF WriteConfig, RoomTypeOK, RequestType, NoRequest
  <2>3. [request[r] EXCEPT !.at = "written"] \in RequestType /\ request[r].config \in ConfigType
    BY <2>2 DEF RequestType, ConfigType
  <2>4. request' = [request EXCEPT ![r] = [request[r] EXCEPT !.at = "written"]]
    BY <1>9 DEF WriteConfig
  <2>5. RoomTypeOK' /\ EveryDaemonIsKnown'
    BY <1>1, <1>9, <2>3, <2>4 DEF WriteConfig, RoomTypeOK, EveryDaemonIsKnown, Alive
  <2>6. QED
    BY <2>1, <2>5 DEF RoomInv
<1>10. ASSUME NEW r \in Request, Launch(r)
       PROVE  RoomInv'
  <2>1. JournalInv'
    BY <1>1, <1>10, JournalRests DEF Launch
  <2>2. CASE ChildRuns
    <3>1. RoomTypeOK' /\ EveryDaemonIsKnown'
      BY <1>1, <1>2, <1>10, <2>2 DEF Launch, RoomTypeOK, EveryDaemonIsKnown, Alive
    <3>2. QED
      BY <2>1, <3>1 DEF RoomInv
  <2>3. CASE ~ChildRuns
    <3>1. PICK d \in Daemon : phase' = [phase EXCEPT ![d] = "spawned"] /\ child' = d
      BY <1>10, <2>3 DEF Launch, Become
    <3>2. RoomTypeOK'
      BY <1>1, <1>2, <1>10, <3>1 DEF Launch, RoomTypeOK
    <3>3. ASSUME NEW e \in Daemon, Alive(e), e \notin orphans PROVE FALSE
      BY <1>1, <2>3, <3>3, JournalAssumption DEF NoDaemon, JournalAssumption, EveryDaemonIsKnown, ChildRuns
    <3>4. EveryDaemonIsKnown'
      BY <1>1, <1>10, <3>1, <3>3 DEF Launch, RoomTypeOK, EveryDaemonIsKnown, Alive
    <3>5. QED
      BY <2>1, <3>2, <3>4 DEF RoomInv
  <2>4. QED
    BY <2>2, <2>3
<1>11. QED
  BY <1>3, <1>4, <1>5, <1>6, <1>7, <1>8, <1>9, <1>10

(* The steps of a daemon, and the end of the machine.                       *)
LEMMA DaemonStepKeeps ==
    ASSUME RoomInv, NEW d \in Daemon,
           OpenJournal(d) \/ Bind(d) \/ Appends(d) \/ FailsToAppend(d) \/ Exit(d)
    PROVE  RoomInv'
<1>1. JournalInv /\ RoomTypeOK /\ EveryDaemonIsKnown
  BY DEF RoomInv
<1>2. CASE OpenJournal(d)
  <2>1. JournalInv'
    <3>1. CASE config # Unusable /\ Open(d, config)
      BY <1>1, <3>1, OpenKeeps DEF RoomTypeOK, ConfigType
    <3>2. CASE OpenRefused
      BY <1>1, <3>2, JournalRests DEF OpenRefused
    <3>3. CASE UNCHANGED journalVars
      BY <1>1, <3>3, JournalRests
    <3>4. QED
      BY <1>2, <3>1, <3>2, <3>3 DEF OpenJournal
  <2>2. Alive(d) /\ (Become(d, "opened") \/ Become(d, "gone"))
    BY <1>2 DEF OpenJournal, Alive
  <2>3. RoomTypeOK' /\ EveryDaemonIsKnown'
    BY <1>1, <1>2, <2>2, BecomesIsTyped
    DEF OpenJournal, RoomTypeOK, EveryDaemonIsKnown, Alive
  <2>4. QED
    BY <2>1, <2>3 DEF RoomInv
<1>3. CASE Bind(d)
  <2>1. Alive(d)
    BY <1>3 DEF Bind, Alive
  <2>2. CASE End({d})
    <3>1. /\ JournalInv'
          /\ phase' \in [Daemon -> {"unborn", "spawned", "opened", "serving", "gone"}]
          /\ \A e \in Daemon : Alive(e)' => Alive(e) /\ e \notin {d}
      BY <1>1, <2>2, EndIsTyped
    <3>2. RoomTypeOK' /\ EveryDaemonIsKnown'
      BY <1>1, <1>3, <3>1 DEF Bind, RoomTypeOK, EveryDaemonIsKnown
    <3>3. QED
      BY <3>1, <3>2 DEF RoomInv
  <2>3. CASE Become(d, "serving") /\ UNCHANGED journalVars
    <3>1. JournalInv'
      BY <1>1, <2>3, JournalRests
    <3>2. RoomTypeOK' /\ EveryDaemonIsKnown'
      BY <1>1, <1>3, <2>1, <2>3, BecomesIsTyped
      DEF Bind, RoomTypeOK, EveryDaemonIsKnown, Alive
    <3>3. QED
      BY <3>1, <3>2 DEF RoomInv
  <2>4. QED
    BY <1>3, <2>2, <2>3 DEF Bind
<1>4. CASE Appends(d)
  <2>1. JournalInv'
    BY <1>1, <1>4, AppendOkKeeps DEF Appends
  <2>2. RoomTypeOK' /\ EveryDaemonIsKnown'
    BY <1>1, <1>4 DEF Appends, roomVars, RoomTypeOK, EveryDaemonIsKnown, Alive
  <2>3. QED
    BY <2>1, <2>2 DEF RoomInv
<1>5. CASE FailsToAppend(d)
  <2>1. JournalInv'
    BY <1>1, <1>5, AppendFailsKeeps DEF FailsToAppend
  <2>2. Alive(d) /\ (phase' = phase \/ Become(d, "gone"))
    BY <1>5 DEF FailsToAppend, Alive
  <2>3. RoomTypeOK' /\ EveryDaemonIsKnown'
    BY <1>1, <1>5, <2>2, BecomesIsTyped
    DEF FailsToAppend, RoomTypeOK, EveryDaemonIsKnown, Alive
  <2>4. QED
    BY <2>1, <2>3 DEF RoomInv
<1>6. CASE Exit(d)
  <2>1. /\ JournalInv'
        /\ phase' \in [Daemon -> {"unborn", "spawned", "opened", "serving", "gone"}]
        /\ \A e \in Daemon : Alive(e)' => Alive(e) /\ e \notin {d}
    BY <1>1, <1>6, EndIsTyped DEF Exit
  <2>2. RoomTypeOK' /\ EveryDaemonIsKnown'
    BY <1>1, <1>6, <2>1 DEF Exit, RoomTypeOK, EveryDaemonIsKnown
  <2>3. QED
    BY <2>1, <2>2 DEF RoomInv
<1>7. QED
  BY <1>2, <1>3, <1>4, <1>5, <1>6

LEMMA MachineStopKeeps ==
    ASSUME RoomInv, MachineStops PROVE RoomInv'
<1>1. JournalInv /\ RoomTypeOK /\ EveryDaemonIsKnown
  BY DEF RoomInv
<1>2. JournalInv'
  BY <1>1, LoseTailKeeps DEF MachineStops
<1>3. NoRequest \in RequestType /\ Unusable \in ConfigType
  BY DEF NoRequest, RequestType, ConfigType
<1>4. stops' \in 0..MaxStops
  BY <1>1, RoomAssumption DEF MachineStops, RoomTypeOK, RoomAssumption
<1>5. phase' \in [Daemon -> {"unborn", "spawned", "opened", "serving", "gone"}]
      /\ \A d \in Daemon : ~Alive(d)'
  BY <1>1 DEF MachineStops, RoomTypeOK, Alive
<1>6. RoomTypeOK' /\ EveryDaemonIsKnown'
  BY <1>1, <1>3, <1>4, <1>5 DEF MachineStops, RoomTypeOK, EveryDaemonIsKnown
<1>7. QED
  BY <1>2, <1>6 DEF RoomInv

(* The file keeps what it must of every record, and a daemon that runs is   *)
(* the child or an orphan: the invariant the theorems below follow from.    *)
THEOREM RoomInvariant == Spec => []RoomInv
<1>1. Init => RoomInv
  <2> SUFFICES ASSUME Init PROVE RoomInv
    OBVIOUS
  <2>1. JournalInv
    BY JournalStarts DEF Init
  <2>2. RoomTypeOK
    <3>1. NoRequest \in RequestType /\ Unusable \in ConfigType
      BY DEF RequestType, ConfigType
    <3>2. 0 \in 0..MaxStops
      BY RoomAssumption DEF RoomAssumption
    <3>3. QED
      BY <3>1, <3>2 DEF Init, RoomTypeOK
  <2>3. EveryDaemonIsKnown
    BY DEF Init, EveryDaemonIsKnown, Alive
  <2>4. QED
    BY <2>1, <2>2, <2>3 DEF RoomInv
<1>2. RoomInv /\ [Next]_vars => RoomInv'
  <2> SUFFICES ASSUME RoomInv, [Next]_vars PROVE RoomInv'
    OBVIOUS
  <2>1. CASE Next
    <3>1. CASE MachineStops
      BY <3>1, MachineStopKeeps
    <3>2. CASE \E d \in Daemon :
                 OpenJournal(d) \/ Bind(d) \/ Appends(d) \/ FailsToAppend(d) \/ Exit(d)
      BY <3>2, DaemonStepKeeps
    <3>3. QED
      BY <2>1, <3>1, <3>2, RoomStepKeeps DEF Next
  <2>2. CASE UNCHANGED vars
    <3>1. JournalInv'
      BY <2>2, JournalRests DEF vars, RoomInv
    <3>2. RoomTypeOK' /\ EveryDaemonIsKnown'
      BY <2>2 DEF vars, roomVars, RoomInv, RoomTypeOK, EveryDaemonIsKnown, Alive
    <3>3. QED
      BY <3>1, <3>2 DEF RoomInv
  <2>3. QED
    BY <2>1, <2>2
<1>3. QED
  BY <1>1, <1>2, PTL DEF Spec
-----------------------------------------------------------------------------
(* What a restart rebuilds.                                                 *)

(* A sequence that comes back from the pieces of f still does when f gets a *)
(* piece with a new record and the sequence gets the record, or f gets any  *)
(* pieces of a new record that failed.                                      *)
New(n, f) == \A k \in 1..Len(f) : f[k].rec # n

LEMMA ReplayIsRebuilt ==
    ASSUME NEW f \in Seq(Piece), NEW extra PROVE Rebuilds(f, Replayed(f), extra)
<1> DEFINE m == Replayed(f)
           at == [i \in 1..Len(f) |-> i]
<1>1. Len(f) \in Nat /\ DOMAIN f = 1..Len(f)
  BY LenProperties
<1>2. m \in Seq(Record)
  BY ReplayIsTyped
<1>3. Len(m) = Len(f) /\ \A i \in 1..Len(f) : m[i] = f[i].rec
  BY <1>1, <1>2 DEF Replayed
<1>4. at \in [1..Len(f) -> 1..Len(f)] /\ \A i \in 1..Len(f) : at[i] = i
  OBVIOUS
<1> HIDE DEF at, m
<1>5. Back(at, f, m, extra)
  BY <1>1, <1>3, <1>4 DEF Back
<1>6. QED
  BY <1>3, <1>4, <1>5 DEF Rebuilds, m

LEMMA RebuiltGrows ==
    ASSUME NEW f \in Seq(Piece), NEW m \in Seq(Record), NEW extra, Rebuilds(f, m, extra),
           NEW piece \in Piece, New(piece.rec, f)
    PROVE  Rebuilds(Append(f, piece), Append(m, piece.rec), extra)
<1> DEFINE n == piece.rec
           g == Append(f, piece)
           more == Append(m, n)
<1>1. PICK at \in [1..Len(m) -> 1..Len(f)] : Back(at, f, m, extra)
  BY DEF Rebuilds
<1>2. Len(f) \in Nat /\ Len(m) \in Nat
  BY LenProperties
<1>3. Len(g) = Len(f) + 1 /\ g[Len(f) + 1] = piece /\ \A k \in 1..Len(f) : g[k] = f[k]
  BY Appended
<1>4. Len(more) = Len(m) + 1 /\ more[Len(m) + 1] = n /\ \A i \in 1..Len(m) : more[i] = m[i]
  OBVIOUS
<1> DEFINE longer == [i \in 1..(Len(m) + 1) |-> IF i <= Len(m) THEN at[i] ELSE Len(f) + 1]
<1>5. /\ longer \in [1..(Len(m) + 1) -> 1..(Len(f) + 1)]
      /\ longer[Len(m) + 1] = Len(f) + 1
      /\ \A i \in 1..Len(m) : longer[i] = at[i] /\ longer[i] \in 1..Len(f)
  <2>1. ASSUME NEW i \in 1..(Len(m) + 1)
        PROVE  /\ i <= Len(m) => i \in 1..Len(m) /\ at[i] \in 1..Len(f)
               /\ ~(i <= Len(m)) => i = Len(m) + 1
    BY <1>2
  <2>2. /\ \A j \in 1..Len(f) : j \in 1..(Len(f) + 1)
        /\ Len(f) + 1 \in 1..(Len(f) + 1) /\ Len(m) + 1 \in 1..(Len(m) + 1)
        /\ \A i \in 1..Len(m) : i \in 1..(Len(m) + 1) /\ i <= Len(m)
        /\ ~(Len(m) + 1 <= Len(m))
    BY <1>2
  <2>3. \A i \in 1..(Len(m) + 1) :
           (IF i <= Len(m) THEN at[i] ELSE Len(f) + 1) \in 1..(Len(f) + 1)
    BY <2>1, <2>2
  <2>4. QED
    BY <2>1, <2>2, <2>3
<1>6. /\ \A i, j \in 1..Len(m) : i < j => at[i] < at[j]
      /\ \A i \in 1..Len(m) : m[i] = f[at[i]].rec
      /\ \A k \in 1..Len(f) :
            \/ \E i \in 1..Len(m) : at[i] = k
            \/ f[k].rec \in extra /\ \A i \in 1..Len(m) : m[i] # f[k].rec
  BY <1>1 DEF Back
<1> HIDE DEF n, g, more, longer
<1>7. ASSUME NEW i \in 1..(Len(m) + 1), NEW j \in 1..(Len(m) + 1), i < j
      PROVE  longer[i] < longer[j]
  <2>1. i \in 1..Len(m) /\ (j \in 1..Len(m) \/ j = Len(m) + 1)
    BY <1>2, <1>7
  <2>2. CASE j \in 1..Len(m)
    BY <1>5, <1>6, <1>7, <2>1, <2>2
  <2>3. CASE j = Len(m) + 1
    <3>1. longer[i] \in 1..Len(f) /\ longer[j] = Len(f) + 1
      BY <1>5, <2>1, <2>3
    <3>2. QED
      BY <1>2, <3>1
  <2>4. QED
    BY <2>1, <2>2, <2>3
<1>8. ASSUME NEW i \in 1..(Len(m) + 1) PROVE more[i] = g[longer[i]].rec
  <2>1. i \in 1..Len(m) \/ i = Len(m) + 1
    BY <1>2
  <2>2. CASE i \in 1..Len(m)
    BY <1>3, <1>4, <1>5, <1>6, <2>2
  <2>3. CASE i = Len(m) + 1
    BY <1>3, <1>4, <1>5, <2>3 DEF n
  <2>4. QED
    BY <2>1, <2>2, <2>3
<1>9. ASSUME NEW k \in 1..(Len(f) + 1)
      PROVE  \/ \E i \in 1..(Len(m) + 1) : longer[i] = k
             \/ g[k].rec \in extra /\ \A i \in 1..(Len(m) + 1) : more[i] # g[k].rec
  <2>1. Len(m) + 1 \in 1..(Len(m) + 1) /\ \A i \in 1..Len(m) : i \in 1..(Len(m) + 1)
    BY <1>2
  <2>2. k \in 1..Len(f) \/ k = Len(f) + 1
    BY <1>2
  <2>3. CASE k = Len(f) + 1
    BY <1>5, <2>1, <2>3
  <2>4. CASE k \in 1..Len(f) /\ \E i \in 1..Len(m) : at[i] = k
    BY <1>5, <2>1, <2>4
  <2>5. CASE k \in 1..Len(f) /\ f[k].rec \in extra /\ \A i \in 1..Len(m) : m[i] # f[k].rec
    <3>1. g[k] = f[k] /\ f[k].rec # n
      BY <1>3, <2>5 DEF New, n
    <3>2. ASSUME NEW i \in 1..(Len(m) + 1) PROVE more[i] # g[k].rec
      <4>1. i \in 1..Len(m) \/ i = Len(m) + 1
        BY <1>2
      <4>2. QED
        BY <1>4, <2>5, <3>1, <4>1
    <3>3. QED
      BY <2>5, <3>1, <3>2
  <2>6. QED
    BY <1>6, <2>2, <2>3, <2>4, <2>5
<1>10. Back(longer, g, more, extra)
  BY <1>3, <1>4, <1>7, <1>8, <1>9 DEF Back
<1>11. QED
  BY <1>3, <1>4, <1>5, <1>10 DEF Rebuilds, g, more, n

LEMMA RebuiltSurvives ==
    ASSUME NEW f \in Seq(Piece), NEW m \in Seq(Record), NEW extra, Rebuilds(f, m, extra),
           NEW n, New(n, f), NEW piece \in Seq(Piece), \A k \in 1..Len(piece) : piece[k].rec = n
    PROVE  Rebuilds(f \o piece, m, extra \cup {n})
<1> DEFINE g == f \o piece
<1>1. PICK at \in [1..Len(m) -> 1..Len(f)] : Back(at, f, m, extra)
  BY DEF Rebuilds
<1>2. Len(f) \in Nat /\ Len(m) \in Nat /\ Len(piece) \in Nat
  BY LenProperties
<1>3. Len(g) = Len(f) + Len(piece)
      /\ \A k \in 1..Len(g) : g[k] = IF k <= Len(f) THEN f[k] ELSE piece[k - Len(f)]
  BY ConcatProperties
<1> HIDE DEF g
<1>4. 1..Len(f) \subseteq 1..Len(g) /\ \A k \in 1..Len(f) : g[k] = f[k]
  BY <1>2, <1>3
<1>5. ASSUME NEW k \in 1..Len(g), k \notin 1..Len(f) PROVE g[k].rec = n
  <2>1. k - Len(f) \in 1..Len(piece) /\ ~(k <= Len(f))
    BY <1>2, <1>3, <1>5
  <2>2. QED
    BY <1>3, <2>1
<1>6. /\ \A i, j \in 1..Len(m) : i < j => at[i] < at[j]
      /\ \A i \in 1..Len(m) : m[i] = f[at[i]].rec
      /\ \A k \in 1..Len(f) :
            \/ \E i \in 1..Len(m) : at[i] = k
            \/ f[k].rec \in extra /\ \A i \in 1..Len(m) : m[i] # f[k].rec
  BY <1>1 DEF Back
<1>7. \A i \in 1..Len(m) : at[i] \in 1..Len(f) /\ m[i] = g[at[i]].rec /\ m[i] # n
  <2> TAKE i \in 1..Len(m)
  <2>1. at[i] \in 1..Len(f) /\ m[i] = f[at[i]].rec
    BY <1>6
  <2>2. g[at[i]] = f[at[i]] /\ f[at[i]].rec # n
    BY <1>4, <2>1 DEF New
  <2>3. QED
    BY <2>1, <2>2
<1>8. at \in [1..Len(m) -> 1..Len(g)]
  BY <1>4
<1>9. ASSUME NEW k \in 1..Len(g)
      PROVE  \/ \E i \in 1..Len(m) : at[i] = k
             \/ g[k].rec \in extra \cup {n} /\ \A i \in 1..Len(m) : m[i] # g[k].rec
  <2>1. CASE k \in 1..Len(f)
    BY <1>4, <1>6, <2>1
  <2>2. CASE k \notin 1..Len(f)
    BY <1>5, <1>7, <2>2
  <2>3. QED
    BY <2>1, <2>2
<1>10. Back(at, g, m, extra \cup {n})
  BY <1>6, <1>7, <1>9 DEF Back
<1>11. QED
  BY <1>8, <1>10 DEF Rebuilds, g

(* A new record is none of those in the file, and the memory of the daemon  *)
(* comes back from it whether or not a restart could read it.               *)
RecordsCalled == \A i \in 1..Len(file) : file[i].rec <= calls
Writes(d) == phase[d] \in {"opened", "serving"} /\ durability[d] # "none" /\ orphans = {}
WritersRebuilt == \A d \in Daemon : Writes(d) => Rebuilds(file, mem[d], failed)
RestartInv == RecordsCalled /\ WritersRebuilt

LEMMA RestOfRecords ==
    ASSUME RecordsCalled, file' = file, calls' = calls PROVE RecordsCalled'
  BY DEF RecordsCalled

LEMMA RecordsAreNumbers ==
    ASSUME JournalTypeOK, NEW i \in 1..Len(file) PROVE file[i].rec \in Nat
<1>1. file[i] \in Piece
  BY LenProperties DEF JournalTypeOK
<1>2. QED
  BY <1>1 DEF Piece, Record

LEMMA NextIsNew ==
    ASSUME JournalTypeOK, RecordsCalled PROVE New(calls + 1, file)
<1>1. calls \in Nat
  BY JournalAssumption DEF JournalTypeOK, JournalAssumption
<1>2. QED
  BY <1>1, RecordsAreNumbers DEF New, RecordsCalled

LEMMA AppendGrows ==
    ASSUME JournalTypeOK, RecordsCalled, NEW e \in Daemon,
           NEW finite \in BOOLEAN, AppendOk(e, finite)
    PROVE  RecordsCalled'
<1> DEFINE n == calls + 1
<1>1. n \in Record /\ calls \in Nat /\ calls' = n
  BY JournalAssumption DEF AppendOk, JournalTypeOK, JournalAssumption, Record
<1>2. file \in Seq(Piece) /\ \A k \in 1..Len(file) : file[k].rec \in Nat
  BY RecordsAreNumbers DEF JournalTypeOK
<1>3. CASE file' = file
  BY <1>1, <1>2, <1>3 DEF RecordsCalled
<1>4. CASE file' = Append(file, Line(n, finite))
  <2>1. Line(n, finite) \in Piece /\ Line(n, finite).rec = n
    BY <1>1, LineIsPiece
  <2>2. /\ Len(file) \in Nat /\ Len(file') = Len(file) + 1
        /\ \A k \in 1..Len(file) : file'[k] = file[k]
        /\ file'[Len(file) + 1].rec = n
    BY <1>2, <1>4, <2>1, Appended
  <2>3. QED
    BY <1>1, <1>2, <2>2 DEF RecordsCalled
<1>5. QED
  BY <1>3, <1>4 DEF AppendOk

(* The record that is appended to the file and to the memory is the last of *)
(* both.                                                                    *)
LEMMA AppendRebuilds ==
    ASSUME JournalTypeOK, RecordsCalled, NEW d \in Daemon,
           Rebuilds(file, mem[d], failed),
           NEW finite \in BOOLEAN, AppendOk(d, finite), durability[d] # "none"
    PROVE  Rebuilds(file, mem[d], failed)'
<1> DEFINE n == calls + 1
<1>1. n \in Record
  BY JournalAssumption DEF AppendOk, JournalTypeOK, JournalAssumption, Record
<1>2. Line(n, finite) \in Piece /\ Line(n, finite).rec = n
  BY <1>1, LineIsPiece
<1>3. file \in Seq(Piece) /\ mem[d] \in Seq(Record)
  BY DEF JournalTypeOK
<1>4. /\ file' = Append(file, Line(n, finite)) /\ failed' = failed
      /\ mem'[d] = Append(mem[d], n)
  BY DEF AppendOk, JournalTypeOK
<1>5. New(n, file)
  BY NextIsNew
<1> HIDE DEF n
<1>6. Rebuilds(Append(file, Line(n, finite)), Append(mem[d], n), failed)
  BY <1>2, <1>3, <1>5, RebuiltGrows
<1>7. QED
  BY <1>4, <1>6

(* What a failed call leaves in the file is of a record that failed, and    *)
(* that the memory does not have.                                           *)
LEMMA FailureRebuilds ==
    ASSUME JournalTypeOK, RecordsCalled, NEW e \in Daemon, AppendFails(e)
    PROVE  /\ RecordsCalled'
           /\ \A d \in Daemon : Rebuilds(file, mem[d], failed) /\ mem'[d] = mem[d]
                                  => Rebuilds(file, mem[d], failed)'
<1> DEFINE n == calls + 1
<1>1. n \in Record /\ calls \in Nat /\ calls' = n /\ failed' = failed \cup {n}
  BY JournalAssumption DEF AppendFails, JournalTypeOK, JournalAssumption, Record
<1>2. PICK piece \in Fragments(n) : file' = file \o piece
  BY DEF AppendFails
<1>3. piece \in Seq(Piece)
  BY <1>1, FragmentsAreSequences
<1>4. \A k \in 1..Len(piece) : piece[k].rec = n
  <2>1. CASE piece = <<>>
    BY <2>1
  <2>2. CASE piece = <<Line(n, TRUE)>>
    BY <2>2 DEF Line
  <2>3. CASE \E w \in BOOLEAN :
               piece = <<[rec |-> n, finite |-> TRUE, whole |-> w, ended |-> FALSE]>>
    BY <2>3
  <2>4. QED
    BY <2>1, <2>2, <2>3 DEF Fragments
<1>5. file \in Seq(Piece) /\ Len(file) \in Nat /\ \A d \in Daemon : mem[d] \in Seq(Record)
  BY LenProperties DEF JournalTypeOK
<1>6. New(n, file)
  BY NextIsNew
<1> HIDE DEF n
<1>7. RecordsCalled'
  <2>1. Len(piece) \in Nat
    BY <1>3, LenProperties
  <2>2. /\ Len(file') = Len(file) + Len(piece)
        /\ \A k \in 1..Len(file') :
              file'[k] = IF k <= Len(file) THEN file[k] ELSE piece[k - Len(file)]
    BY <1>2, <1>3, <1>5, ConcatProperties
  <2>3. ASSUME NEW k \in 1..Len(file') PROVE file'[k].rec <= calls'
    <3>1. CASE k <= Len(file)
      <4>1. k \in 1..Len(file) /\ file'[k] = file[k]
        BY <1>5, <2>1, <2>2, <3>1
      <4>2. file[k].rec \in Nat /\ file[k].rec <= calls
        BY <4>1, RecordsAreNumbers DEF RecordsCalled
      <4>3. QED
        BY <1>1, <4>1, <4>2 DEF n
    <3>2. CASE ~(k <= Len(file))
      <4>1. k - Len(file) \in 1..Len(piece) /\ file'[k] = piece[k - Len(file)]
        BY <1>5, <2>1, <2>2, <3>2
      <4>2. QED
        BY <1>1, <1>4, <4>1 DEF n
    <3>3. QED
      BY <3>1, <3>2
  <2>4. QED
    BY <2>3 DEF RecordsCalled
<1>8. ASSUME NEW d \in Daemon, Rebuilds(file, mem[d], failed), mem'[d] = mem[d]
      PROVE  Rebuilds(file, mem[d], failed)'
  <2>1. Rebuilds(file \o piece, mem[d], failed \cup {n})
    BY <1>3, <1>4, <1>5, <1>6, <1>8, RebuiltSurvives
  <2>2. QED
    BY <1>1, <1>2, <1>8, <2>1
<1>9. QED
  BY <1>7, <1>8

(* What is left of the file when the machine stops has no new record.       *)
LEMMA TailLostRecords ==
    ASSUME JournalTypeOK, RecordsCalled, LoseTail PROVE RecordsCalled'
<1>1. file \in Seq(Piece) /\ synced \in 0..Len(file) /\ Len(file) \in Nat
  BY LenProperties DEF JournalTypeOK
<1>2. PICK n \in synced..Len(file) :
         file' = UpTo(file, n) \/ (n > synced /\ file' = CutAt(file, n))
  BY DEF LoseTail, UpTo, CutAt
<1>3. n \in Nat /\ n <= Len(file) /\ n \in n..Len(file) /\ n \in 0..Len(file)
  BY <1>1, <1>2
<1>4. Len(file') = n
  BY <1>1, <1>2, TailLost
<1>5. \A i \in 1..n : file'[i].rec = file[i].rec
  <2> DEFINE h == SubSeq(file, 1, n)
  <2>1. h \in Seq(Piece) /\ Len(h) = n /\ \A i \in 1..n : h[i] = file[i]
    <3>1. \A i \in 1..n : file[i] \in Piece
      BY <1>1, <1>3
    <3>2. h \in Seq(Piece) /\ Len(h) = (IF 1 <= n THEN n - 1 + 1 ELSE 0)
      BY <1>1, <1>3, <3>1, SubSeqProperties
    <3>3. \A i \in 1..(n - 1 + 1) : h[i] = file[1 + i - 1]
      BY <1>1, <1>3, <3>1, SubSeqProperties
    <3>4. QED
      BY <1>3, <3>2, <3>3
  <2>2. CASE file' = h
    BY <2>1, <2>2
  <2>3. CASE n > synced /\ file' = [h EXCEPT ![n].whole = FALSE, ![n].ended = FALSE]
    <3> HIDE DEF h
    <3> DEFINE last == [h[n] EXCEPT !.whole = FALSE, !.ended = FALSE]
    <3>1. n \in 1..Len(h) /\ h[n] \in Piece
      BY <1>1, <1>3, <2>1, <2>3
    <3>2. last \in Piece /\ last.rec = h[n].rec
      BY <3>1 DEF Piece
    <3>3. file' = [h EXCEPT ![n] = last]
      BY <2>1, <2>3, <3>1
    <3> HIDE DEF last
    <3>4. \A i \in 1..Len(h) : file'[i] = IF i = n THEN last ELSE h[i]
      BY <2>1, <3>1, <3>2, <3>3, ExceptSeq
    <3>5. QED
      BY <2>1, <3>2, <3>4
  <2>4. QED
    BY <1>2, <2>2, <2>3 DEF UpTo, CutAt
<1>6. calls' = calls
  BY DEF LoseTail
<1>7. QED
  BY <1>1, <1>3, <1>4, <1>5, <1>6 DEF RecordsCalled

(* Of the daemons whose room was not killed one runs at a time.             *)
LEMMA OneRuns ==
    ASSUME RoomInv, orphans = {}, NEW d \in Daemon, NEW e \in Daemon, Alive(d), Alive(e)
    PROVE  d = e
  BY DEF RoomInv, EveryDaemonIsKnown

(* A step that appends nothing, and after which a daemon that writes was    *)
(* one before and has the memory it had.                                    *)
LEMMA QuietStep ==
    ASSUME RestartInv, UNCHANGED <<file, calls, failed>>,
           \A d \in Daemon : Writes(d)' => Writes(d) /\ mem'[d] = mem[d]
    PROVE  RestartInv'
<1>1. RecordsCalled'
  BY RestOfRecords DEF RestartInv
<1>2. ASSUME NEW d \in Daemon, Writes(d)' PROVE Rebuilds(file, mem[d], failed)'
  BY <1>2 DEF RestartInv, WritersRebuilt
<1>3. QED
  BY <1>1, <1>2 DEF RestartInv, WritersRebuilt

LEMMA EndedDoNotWrite ==
    ASSUME RoomInv, NEW ended \in SUBSET Daemon, End(ended), orphans' = orphans
    PROVE  /\ UNCHANGED <<file, calls, failed>>
           /\ \A d \in Daemon : Writes(d)' => Writes(d) /\ mem'[d] = mem[d]
  BY DEF End, Close, Writes, RoomInv, RoomTypeOK, JournalInv, JournalTypeOK

LEMMA RestartStep ==
    ASSUME RoomInv, RestartInv, [Next]_vars PROVE RestartInv'
<1>1. JournalTypeOK /\ RoomTypeOK
  BY DEF RoomInv, JournalInv
<1>2. CASE UNCHANGED vars
  BY <1>2, QuietStep DEF vars, journalVars, roomVars, Writes
<1>3. CASE RoomStarts \/ Status
  BY <1>3, QuietStep DEF RoomStarts, Status, journalVars, Writes
<1>4. CASE \E r \in Request : \/ \E setting \in Durability : RequestStart(r, setting)
                              \/ WriteConfig(r)
  BY <1>4, QuietStep DEF RequestStart, WriteConfig, journalVars, Writes
<1>5. CASE \E r \in Request : Launch(r)
  <2>1. UNCHANGED journalVars /\ orphans' = orphans
    BY <1>5 DEF Launch
  <2>2. \A d \in Daemon : phase'[d] \in {"opened", "serving"} => phase'[d] = phase[d]
    BY <1>1, <1>5 DEF Launch, Become, RoomTypeOK
  <2>3. QED
    BY <2>1, <2>2, QuietStep DEF journalVars, Writes
<1>6. CASE Stop
  <2>1. {child} \in SUBSET Daemon /\ End({child}) /\ orphans' = orphans
    BY <1>1, <1>6 DEF Stop, RoomTypeOK
  <2>2. QED
    BY <2>1, EndedDoNotWrite, QuietStep
<1>7. CASE RoomLeaves
  <2>1. {child} \cap Daemon \in SUBSET Daemon /\ End({child} \cap Daemon)
        /\ orphans' = orphans
    BY <1>7 DEF RoomLeaves
  <2>2. QED
    BY <2>1, EndedDoNotWrite, QuietStep
<1>8. CASE RoomKilled
  <2>1. UNCHANGED <<journalVars, phase>> /\ (orphans' = {} => orphans = {})
    BY <1>8 DEF RoomKilled
  <2>2. QED
    BY <2>1, QuietStep DEF journalVars, Writes
<1>9. ASSUME NEW e \in Daemon, OpenJournal(e) PROVE RestartInv'
  <2>1. phase[e] = "spawned" /\ orphans' = orphans
    BY <1>9 DEF OpenJournal
  <2>2. CASE config # Unusable /\ Open(e, config) /\ Become(e, "opened")
    <3>1. UNCHANGED <<file, calls, failed>>
      BY <2>2 DEF Open
    <3>2. RecordsCalled'
      BY <3>1, RestOfRecords DEF RestartInv
    <3>3. Rebuilds(file, mem[e], failed)'
      <4>1. file' = file /\ mem'[e] = Replayed(file) /\ file \in Seq(Piece)
        BY <1>1, <2>2 DEF Open, JournalTypeOK
      <4>2. QED
        BY <4>1, ReplayIsRebuilt
    <3>4. ASSUME NEW d \in Daemon, d # e, Writes(d)' PROVE FALSE
      BY <1>1, <2>1, <2>2, <3>4, OneRuns DEF Writes, Become, Alive, RoomTypeOK
    <3>5. QED
      BY <3>2, <3>3, <3>4 DEF RestartInv, WritersRebuilt
  <2>3. CASE UNCHANGED journalVars /\ Become(e, "gone")
    <3>1. \A d \in Daemon : phase'[d] \in {"opened", "serving"} => phase'[d] = phase[d]
      BY <1>1, <2>3 DEF Become, RoomTypeOK
    <3>2. QED
      BY <2>1, <2>3, <3>1, QuietStep DEF journalVars, Writes
  <2>4. QED
    BY <1>9, <2>2, <2>3 DEF OpenJournal, OpenRefused
<1>10. ASSUME NEW e \in Daemon, Bind(e) PROVE RestartInv'
  <2>1. phase[e] = "opened" /\ orphans' = orphans
    BY <1>10 DEF Bind
  <2>2. CASE End({e})
    BY <2>1, <2>2, EndedDoNotWrite, QuietStep
  <2>3. CASE Become(e, "serving") /\ UNCHANGED journalVars
    <3>1. \A d \in Daemon : phase'[d] \in {"opened", "serving"}
                               => phase[d] \in {"opened", "serving"}
      BY <1>1, <2>1, <2>3 DEF Become, RoomTypeOK
    <3>2. QED
      BY <2>1, <2>3, <3>1, QuietStep DEF journalVars, Writes
  <2>4. QED
    BY <1>10, <2>2, <2>3 DEF Bind
<1>11. ASSUME NEW e \in Daemon, Appends(e) PROVE RestartInv'
  <2>1. PICK finite \in BOOLEAN : AppendOk(e, finite)
    BY <1>11 DEF Appends
  <2>2. Alive(e) /\ UNCHANGED <<phase, orphans, durability>>
    BY <1>11, <2>1 DEF Appends, AppendOk, roomVars, Alive
  <2>3. CASE durability[e] = "none"
    <3>1. file' = file /\ failed' = failed /\ calls' = calls + 1
      BY <2>1, <2>3 DEF AppendOk
    <3>2. RecordsCalled'
      BY <1>1, <2>1, AppendGrows DEF RestartInv
    <3>3. ASSUME NEW d \in Daemon, Writes(d)' PROVE Rebuilds(file, mem[d], failed)'
      <4>1. Writes(d) /\ d # e
        BY <2>2, <2>3, <3>3 DEF Writes
      <4>2. mem'[d] = mem[d]
        BY <1>1, <2>1, <4>1 DEF AppendOk, JournalTypeOK
      <4>3. QED
        BY <3>1, <4>1, <4>2 DEF RestartInv, WritersRebuilt
    <3>4. QED
      BY <3>2, <3>3 DEF RestartInv, WritersRebuilt
  <2>4. CASE durability[e] # "none"
    <3>1. RecordsCalled'
      BY <1>1, <2>1, <2>4, AppendGrows DEF RestartInv
    <3>2. ASSUME NEW d \in Daemon, Writes(d)' PROVE Rebuilds(file, mem[d], failed)'
      <4>1. Writes(d) /\ d = e
        BY <2>2, <3>2, OneRuns DEF Writes, Alive
      <4>2. QED
        BY <1>1, <2>1, <2>4, <4>1, AppendRebuilds DEF RestartInv, WritersRebuilt
    <3>3. QED
      BY <3>1, <3>2 DEF RestartInv, WritersRebuilt
  <2>5. QED
    BY <2>3, <2>4
<1>12. ASSUME NEW e \in Daemon, FailsToAppend(e) PROVE RestartInv'
  <2>1. AppendFails(e) /\ orphans' = orphans
    BY <1>12 DEF FailsToAppend
  <2>2. RecordsCalled'
    BY <1>1, <2>1, FailureRebuilds DEF RestartInv
  <2>3. ASSUME NEW d \in Daemon, Writes(d)' PROVE Writes(d) /\ mem'[d] = mem[d]
    <3>1. CASE UNCHANGED <<mem, durability, phase>>
      BY <2>1, <2>3, <3>1 DEF Writes
    <3>2. CASE Become(e, "gone") /\ Close({e})
      BY <1>1, <2>1, <2>3, <3>2 DEF Writes, Become, Close, RoomTypeOK, JournalTypeOK
    <3>3. QED
      BY <1>12, <3>1, <3>2 DEF FailsToAppend
  <2>4. ASSUME NEW d \in Daemon, Writes(d)' PROVE Rebuilds(file, mem[d], failed)'
    BY <1>1, <2>1, <2>3, <2>4, FailureRebuilds DEF RestartInv, WritersRebuilt
  <2>5. QED
    BY <2>2, <2>4 DEF RestartInv, WritersRebuilt
<1>13. ASSUME NEW e \in Daemon, Exit(e) PROVE RestartInv'
  BY <1>13, EndedDoNotWrite, QuietStep DEF Exit
<1>14. CASE MachineStops
  <2>1. RecordsCalled'
    BY <1>1, <1>14, TailLostRecords DEF MachineStops, RestartInv
  <2>2. \A d \in Daemon : ~Writes(d)'
    BY <1>1, <1>14 DEF MachineStops, Writes, Alive, RoomTypeOK
  <2>3. QED
    BY <2>1, <2>2 DEF RestartInv, WritersRebuilt
<1>15. QED
  BY <1>2, <1>3, <1>4, <1>5, <1>6, <1>7, <1>8, <1>9, <1>10, <1>11, <1>12, <1>13, <1>14
  DEF Next
-----------------------------------------------------------------------------
(* The theorems.                                                            *)

(* Every variable keeps its type, for any number of daemons and requests.   *)
THEOREM RoomTypeCorrect == Spec => []TypeOK
<1>1. RoomInv => TypeOK
  BY DEF RoomInv, JournalInv, RoomTypeOK, TypeOK
<1>2. QED
  BY <1>1, RoomInvariant, PTL

(* The room never loses sight of a daemon it started, unless it was killed: *)
(* however many start, stop and status requests overlap.                    *)
THEOREM DaemonsAreKnown == Spec => []EveryDaemonIsKnown
<1>1. RoomInv => EveryDaemonIsKnown
  BY DEF RoomInv
<1>2. QED
  BY <1>1, RoomInvariant, PTL

(* A record whose append returned Ok is in the file for good, unless        *)
(* durability is none, or it is not synced and the machine stops.           *)
THEOREM PromisesSurvive == Spec => []PromisedSurvives
<1>1. RoomInv => PromisedSurvives
  <2> SUFFICES ASSUME RoomInv, NEW n \in kept
               PROVE  \E i \in DOMAIN file : Replayed(file)[i] = n
    BY DEF PromisedSurvives
  <2>1. DOMAIN file = 1..Len(file)
    BY LenProperties DEF RoomInv, JournalInv, JournalTypeOK
  <2>2. PICK i \in 1..Len(file) : file[i].rec = n
    BY DEF RoomInv, JournalInv, KeptInFile
  <2>3. QED
    BY <2>1, <2>2 DEF Replayed
<1>2. QED
  BY <1>1, RoomInvariant, PTL

(* A daemon refuses its journal only after a failed or interrupted append,  *)
(* a stop of the machine, or a number that is not finite.                   *)
THEOREM RefusalsHaveCauses == Spec => []RefusalHasACause
<1>1. RoomInv => RefusalHasACause
  <2> SUFFICES ASSUME RoomInv, failed = {}, ~lost,
                      \A i \in DOMAIN file : file[i].finite
               PROVE  Readable(file)
    BY DEF RefusalHasACause
  <2>1. DOMAIN file = 1..Len(file) /\ Len(file) \in Nat
    BY LenProperties DEF RoomInv, JournalInv, JournalTypeOK
  <2>2. \A i \in 1..Len(file) : file[i].whole /\ file[i].ended
    BY DEF RoomInv, JournalInv, Complete
  <2>3. \A i \in 1..Len(file) : i > 1 => i - 1 \in 1..Len(file)
    BY <2>1
  <2>4. QED
    BY <2>1, <2>2, <2>3 DEF Readable
<1>2. QED
  BY <1>1, RoomInvariant, PTL

(* As long as the room of no daemon was killed, the file has the memory of  *)
(* the daemon that writes to it, entry by entry and in order, and besides   *)
(* it only records whose append failed: that is what the next start reads.  *)
THEOREM RestartsRebuild == Spec => []RestartRebuilds
<1>1. Init => RestartInv
  BY DEF Init, JournalInit, RestartInv, RecordsCalled, WritersRebuilt, Writes
<1>2. RoomInv /\ RestartInv /\ [Next]_vars => RestartInv'
  BY RestartStep
<1>3. RestartInv => RestartRebuilds
  BY DEF RestartInv, WritersRebuilt, Writes, RestartRebuilds
<1>4. QED
  BY <1>1, <1>2, <1>3, RoomInvariant, PTL DEF Spec
=============================================================================
