---------------------------- MODULE JournalFile ----------------------------
(***************************************************************************)
(* The file below the journal (crates/copier-daemon/src/journal.rs): what   *)
(* Journal::append leaves in it when it succeeds, fails or is interrupted,  *)
(* what of it survives the end of the process and of the machine, and what  *)
(* Journal::open makes of it at the next start.  ReplayState says what the  *)
(* records mean; here a record is the number of the call that appended it.  *)
(*                                                                          *)
(* The file is a sequence of pieces, one per call that wrote anything: the  *)
(* JSON of its record, whole or cut short, and its newline if that was      *)
(* reached.  A piece continues the line of the piece before it when that    *)
(* one has no newline.  JSON has no NaN and no infinity: serde_json writes  *)
(* null for them, which it does not read back as a volume.                  *)
(***************************************************************************)
EXTENDS Integers, Sequences, FiniteSets

CONSTANTS
    Daemon,     \* the daemon processes that can be started, one after the other
    MaxRecord,  \* bound: calls of append
    MaxFaults   \* bound: calls of append that fail, or whose record is not finite

ASSUME JournalAssumption ==
    /\ Daemon \subseteq Nat \ {0}
    /\ MaxRecord \in Nat
    /\ MaxFaults \in Nat

VARIABLES
    file,       \* the content of the journal file
    synced,     \* how many of its pieces are known to be on the disk
    mem,        \* the records each daemon has replayed or appended, in order
    durability, \* Journal.durability of each daemon
    calls,      \* calls of append so far
    kept,       \* history: records whose append returned Ok and left them in the file
    sealed,     \* history: those of them that were synced to the disk
    failed,     \* history: records whose append failed or was interrupted
    lost        \* history: the machine stopped before all was on the disk

journalVars == <<file, synced, mem, durability, calls, kept, sealed, failed, lost>>

Durability == {"none", "flush", "fsync"}
Record == 1..MaxRecord
Piece == [rec : Record, finite : BOOLEAN, whole : BOOLEAN, ended : BOOLEAN]

JournalTypeOK ==
    /\ file \in Seq(Piece)
    /\ synced \in 0..Len(file)
    /\ mem \in [Daemon -> Seq(Record)]
    /\ durability \in [Daemon -> Durability]
    /\ calls \in 0..MaxRecord
    /\ kept \in SUBSET Record
    /\ sealed \in SUBSET Record
    /\ failed \in SUBSET Record
    /\ lost \in BOOLEAN

JournalInit ==
    /\ file = <<>>
    /\ synced = 0
    /\ mem = [d \in Daemon |-> <<>>]
    /\ durability = [d \in Daemon |-> "none"]
    /\ calls = 0
    /\ kept = {}
    /\ sealed = {}
    /\ failed = {}
    /\ lost = FALSE

-----------------------------------------------------------------------------
(* Every line is one whole record with numbers in it: replay_file gives up  *)
(* at the first that is cut short, has a second record glued to it or has   *)
(* null for a number.                                                       *)
Readable(f) ==
    \A i \in DOMAIN f : f[i].whole /\ f[i].finite /\ (i > 1 => f[i-1].ended)

Replayed(f) == [i \in DOMAIN f |-> f[i].rec]

(* Faulty: the record is written without its newline; records are counted   *)
(* from zero.                                                               *)
LineUnended(n, finite) ==
    [rec |-> n, finite |-> finite, whole |-> TRUE, ended |-> FALSE]
LineFromZero(n, finite) ==
    [rec |-> n - 1, finite |-> finite, whole |-> TRUE, ended |-> TRUE]

Line(n, finite) == [rec |-> n, finite |-> finite, whole |-> TRUE, ended |-> TRUE]

(* What a call that does not complete leaves of its line: nothing, a part   *)
(* of the record, the record, or all of it when only the sync failed.       *)
Fragments(n) ==
    {<<>>, <<Line(n, TRUE)>>}
    \cup {<<[rec |-> n, finite |-> TRUE, whole |-> w, ended |-> FALSE]>> : w \in BOOLEAN}

(* Faulty: the file is opened for writing from its start.                   *)
OpenTruncating(d, setting) ==
    /\ Readable(file)
    /\ mem' = [mem EXCEPT ![d] = Replayed(file)]
    /\ durability' = [durability EXCEPT ![d] = setting]
    /\ file' = <<>> /\ synced' = 0
    /\ UNCHANGED <<calls, kept, sealed, failed, lost>>

(* Journal::open of a journal that can be replayed.                         *)
Open(d, setting) ==
    /\ Readable(file)
    /\ mem' = [mem EXCEPT ![d] = Replayed(file)]
    /\ durability' = [durability EXCEPT ![d] = setting]
    /\ UNCHANGED <<file, synced, calls, kept, sealed, failed, lost>>

OpenRefused == ~Readable(file) /\ UNCHANGED journalVars

Faults == Cardinality(failed) + Cardinality({i \in DOMAIN file : ~file[i].finite})

(* Faulty: what is flushed is taken to be synced.                           *)
SyncNothing(d) == UNCHANGED synced

SyncData(d) == synced' = IF durability[d] = "fsync" THEN Len(file') ELSE synced

(* Journal::append returns Ok, and its caller applies the record to the     *)
(* memory.  The lock of the file makes the calls of one daemon follow each  *)
(* other; O_APPEND does the same for the calls of two.                      *)
AppendOk(d, finite) ==
    LET n == calls + 1
        written == durability[d] # "none"
    IN  /\ calls < MaxRecord
        /\ finite \/ Faults < MaxFaults
        /\ calls' = n
        /\ mem' = [mem EXCEPT ![d] = Append(@, n)]
        /\ file' = IF written THEN Append(file, Line(n, finite)) ELSE file
        /\ SyncData(d)
        /\ kept' = IF written THEN kept \cup {n} ELSE kept
        /\ sealed' = IF durability[d] = "fsync" THEN sealed \cup {n} ELSE sealed
        /\ UNCHANGED <<durability, failed, lost>>

(* write_all, flush or sync_data fails, or the process ends in one of them: *)
(* the caller applies nothing, whatever the file has of the record.         *)
AppendFails(d) ==
    LET n == calls + 1
    IN  /\ durability[d] # "none"
        /\ calls < MaxRecord
        /\ Faults < MaxFaults
        /\ calls' = n
        /\ \E piece \in Fragments(n) : file' = file \o piece
        /\ failed' = failed \cup {n}
        /\ UNCHANGED <<synced, kept, sealed, lost>>

(* The daemons of ended are gone, and with them their memory.               *)
Close(ended) ==
    /\ mem' = [d \in Daemon |-> IF d \in ended THEN <<>> ELSE mem[d]]
    /\ durability' = [d \in Daemon |-> IF d \in ended THEN "none" ELSE durability[d]]

(* The machine stops: what was not synced is on the disk up to some point,  *)
(* and the last piece before that point can be cut short.                   *)
LoseTail ==
    /\ \E n \in synced..Len(file) :
         \/ file' = SubSeq(file, 1, n)
         \/ n > synced
            /\ file' = [SubSeq(file, 1, n) EXCEPT ![n].whole = FALSE, ![n].ended = FALSE]
    /\ synced' = Len(file')
    /\ kept' = sealed
    /\ lost' = (lost \/ file' # file)
    /\ Close(Daemon)
    /\ UNCHANGED <<calls, sealed, failed>>
=============================================================================
