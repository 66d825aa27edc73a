---------------------------- MODULE ControlRoom ----------------------------
(***************************************************************************)
(* The control room (crates/copier-daemon/src/ui.rs), the daemon processes  *)
(* it starts and stops, and what main.rs does in one of them up to the      *)
(* point where it serves.  All daemons share one configuration file and,    *)
(* through it, one journal.                                                 *)
(*                                                                          *)
(* A start request writes the configuration before it takes the lock of the *)
(* child, so other requests come between the two; what is done under that   *)
(* lock is one step.                                                        *)
(***************************************************************************)
EXTENDS JournalFile

CONSTANTS
    Request,    \* requests the room can work on at the same time
    MaxStops    \* bound: rooms and machines that are stopped

ASSUME RoomAssumption == MaxStops \in Nat

VARIABLES
    room,       \* the process of the control room is up
    child,      \* UiState.daemon, 0 for None
    request,    \* where each start request stands
    config,     \* the configuration file
    phase,      \* how far each daemon process has come
    orphans,    \* history: daemons whose room was killed
    stops       \* rooms and machines stopped so far

roomVars == <<room, child, request, config, phase, orphans, stops>>
vars == <<journalVars, roomVars>>

NoDaemon == 0

(* Of a configuration only the durability matters here.  The file is absent *)
(* before the first request and empty while a request writes it.            *)
Unusable == "unusable"
ConfigType == Durability \cup {Unusable}

NoRequest == [at |-> "none"]
RequestType == {NoRequest} \cup [at : {"writing", "written"}, config : Durability]

TypeOK ==
    /\ JournalTypeOK
    /\ room \in BOOLEAN
    /\ child \in Daemon \cup {NoDaemon}
    /\ request \in [Request -> RequestType]
    /\ config \in ConfigType
    /\ phase \in [Daemon -> {"unborn", "spawned", "opened", "serving", "gone"}]
    /\ orphans \in SUBSET Daemon
    /\ stops \in 0..MaxStops

Init ==
    /\ JournalInit
    /\ room = FALSE
    /\ child = NoDaemon
    /\ request = [r \in Request |-> NoRequest]
    /\ config = Unusable
    /\ phase = [d \in Daemon |-> "unborn"]
    /\ orphans = {}
    /\ stops = 0

Alive(d) == phase[d] \in {"spawned", "opened", "serving"}
ChildRuns == child # NoDaemon /\ Alive(child)

Become(d, p) == phase' = [phase EXCEPT ![d] = p]

(* These daemons end, whatever they were doing, between two appends.        *)
End(ended) ==
    /\ phase' = [d \in Daemon |-> IF d \in ended THEN "gone" ELSE phase[d]]
    /\ Close(ended)
    /\ UNCHANGED <<file, synced, calls, kept, sealed, failed, lost>>

-----------------------------------------------------------------------------
(* The control room.                                                        *)

RoomStarts ==
    /\ ~room
    /\ room' = TRUE
    /\ UNCHANGED <<journalVars, child, request, config, phase, orphans, stops>>

(* start, up to write_config: the file is truncated, then written.          *)
RequestStart(r, setting) ==
    /\ room
    /\ request[r] = NoRequest
    /\ request' = [request EXCEPT ![r] = [at |-> "writing", config |-> setting]]
    /\ config' = Unusable
    /\ UNCHANGED <<journalVars, room, child, phase, orphans, stops>>

WriteConfig(r) ==
    /\ request[r].at = "writing"
    /\ request' = [request EXCEPT ![r].at = "written"]
    /\ config' = request[r].config
    /\ UNCHANGED <<journalVars, room, child, phase, orphans, stops>>

(* Faulty: the child is not asked whether it still runs.                    *)
LaunchUnasked(r) ==
    /\ request[r].at = "written"
    /\ request' = [request EXCEPT ![r] = NoRequest]
    /\ \E d \in Daemon :
         /\ phase[d] = "unborn"
         /\ \A e \in Daemon : phase[e] = "unborn" => d <= e
         /\ Become(d, "spawned")
         /\ child' = d
    /\ UNCHANGED <<journalVars, room, config, orphans, stops>>

(* start, under the lock: refused while the child runs, else a new daemon.  *)
Launch(r) ==
    /\ request[r].at = "written"
    /\ request' = [request EXCEPT ![r] = NoRequest]
    /\ IF ChildRuns THEN UNCHANGED <<child, phase>>
       ELSE \E d \in Daemon :
              /\ phase[d] = "unborn"
              /\ \A e \in Daemon : phase[e] = "unborn" => d <= e
              /\ Become(d, "spawned")
              /\ child' = d
    /\ UNCHANGED <<journalVars, room, config, orphans, stops>>

(* stop: stop_child kills a child that runs, and waits for it.              *)
Stop ==
    /\ room
    /\ child # NoDaemon
    /\ child' = NoDaemon
    /\ End({child})
    /\ UNCHANGED <<room, request, config, orphans, stops>>

(* status: a child that has exited is forgotten.                            *)
Status ==
    /\ room
    /\ child # NoDaemon /\ ~Alive(child)
    /\ child' = NoDaemon
    /\ UNCHANGED <<journalVars, room, request, config, phase, orphans, stops>>

(* run: ctrl-c lets the requests finish, then stops the child.              *)
RoomLeaves ==
    /\ room
    /\ stops < MaxStops
    /\ request = [r \in Request |-> NoRequest]
    /\ room' = FALSE
    /\ child' = NoDaemon
    /\ End({child} \cap Daemon)
    /\ stops' = stops + 1
    /\ UNCHANGED <<request, config, orphans>>

(* The room is killed: nothing stops its child.                             *)
RoomKilled ==
    /\ room
    /\ stops < MaxStops
    /\ room' = FALSE
    /\ child' = NoDaemon
    /\ request' = [r \in Request |-> NoRequest]
    /\ orphans' = IF ChildRuns THEN orphans \cup {child} ELSE orphans
    /\ stops' = stops + 1
    /\ UNCHANGED <<journalVars, config, phase>>

-----------------------------------------------------------------------------
(* A daemon process.                                                        *)

(* main: DaemonConfig::load, Journal::open; an error of either ends it.     *)
OpenJournal(d) ==
    /\ phase[d] = "spawned"
    /\ \/ /\ config # Unusable
          /\ Open(d, config)
          /\ Become(d, "opened")
       \/ /\ config # Unusable
          /\ OpenRefused
          /\ Become(d, "gone")
       \/ /\ config = Unusable
          /\ UNCHANGED journalVars
          /\ Become(d, "gone")
    /\ UNCHANGED <<room, child, request, config, orphans, stops>>

(* main: the venues are spawned before the server binds its address, so a   *)
(* daemon can append before it turns out that another one serves.           *)
Bind(d) ==
    /\ phase[d] = "opened"
    /\ IF \E e \in Daemon : phase[e] = "serving" THEN End({d})
       ELSE Become(d, "serving") /\ UNCHANGED journalVars
    /\ UNCHANGED <<room, child, request, config, orphans, stops>>

Appends(d) ==
    /\ phase[d] \in {"opened", "serving"}
    /\ \E finite \in BOOLEAN : AppendOk(d, finite)
    /\ UNCHANGED roomVars

(* An append fails and the daemon goes on, or the daemon ends in it.        *)
FailsToAppend(d) ==
    /\ phase[d] \in {"opened", "serving"}
    /\ AppendFails(d)
    /\ \/ UNCHANGED <<mem, durability, phase>>
       \/ Become(d, "gone") /\ Close({d})
    /\ UNCHANGED <<room, child, request, config, orphans, stops>>

(* ctrl-c, an error of the server, or a crash.                              *)
Exit(d) ==
    /\ Alive(d)
    /\ End({d})
    /\ UNCHANGED <<room, child, request, config, orphans, stops>>

(* Nothing syncs the configuration: it can be lost too.                     *)
MachineStops ==
    /\ stops < MaxStops
    /\ stops' = stops + 1
    /\ LoseTail
    /\ room' = FALSE
    /\ child' = NoDaemon
    /\ request' = [r \in Request |-> NoRequest]
    /\ phase' = [d \in Daemon |-> IF Alive(d) THEN "gone" ELSE phase[d]]
    /\ config' \in {config, Unusable}
    /\ UNCHANGED orphans

Next ==
    \/ RoomStarts
    \/ \E r \in Request :
         \/ \E setting \in Durability : RequestStart(r, setting)
         \/ WriteConfig(r)
         \/ Launch(r)
    \/ Stop
    \/ Status
    \/ RoomLeaves
    \/ RoomKilled
    \/ \E d \in Daemon :
         OpenJournal(d) \/ Bind(d) \/ Appends(d) \/ FailsToAppend(d) \/ Exit(d)
    \/ MachineStops

Spec == Init /\ [][Next]_vars

-----------------------------------------------------------------------------
(* Properties.                                                              *)

(* The stop button of the room reaches every daemon it started: a daemon    *)
(* that is alive is the child the room knows, or its room was killed; no    *)
(* order of overlapping starts, stops and status requests loses one.        *)
EveryDaemonIsKnown == \A d \in Daemon : Alive(d) => d = child \/ d \in orphans

(* README.md:110, "append-only recovery journal": an append that returned   *)
(* Ok is found by every later start that is not refused, unless durability  *)
(* is none, or it is flush and the machine stopped since.                   *)
PromisedSurvives ==
    Readable(file) => \A n \in kept : \E i \in DOMAIN file : Replayed(file)[i] = n

(* To replay f gives m and besides it only records of extra; at says which  *)
(* piece of f each entry of m comes back from.                              *)
Back(at, f, m, extra) ==
    /\ \A i, j \in 1..Len(m) : i < j => at[i] < at[j]
    /\ \A i \in 1..Len(m) : m[i] = f[at[i]].rec
    /\ \A k \in 1..Len(f) :
          \/ \E i \in 1..Len(m) : at[i] = k
          \/ f[k].rec \in extra /\ \A i \in 1..Len(m) : m[i] # f[k].rec

Rebuilds(f, m, extra) == \E at \in [1..Len(m) -> 1..Len(f)] : Back(at, f, m, extra)

(* What a restart rebuilds is the memory of the daemon that runs, in the    *)
(* same order; what it has besides are records whose append failed after    *)
(* they had been written.  (An orphan appends to the same file.)            *)
RestartRebuilds ==
    \A d \in Daemon :
        /\ phase[d] \in {"opened", "serving"}
        /\ durability[d] # "none"
        /\ orphans = {}
        /\ Readable(file)
        => Rebuilds(file, mem[d], failed)

(* A start is refused only when an append failed or was interrupted, the    *)
(* machine stopped before all was on its disk, or a record with a number    *)
(* that is not finite was written: the other appends, of any number of      *)
(* daemons, never spoil the journal.                                        *)
RefusalHasACause ==
    ~Readable(file) =>
        failed # {} \/ lost \/ \E i \in DOMAIN file : ~file[i].finite

(* README.md:110, "append-only recovery journal": appends that returned Ok  *)
(* leave a journal the next start recovers from.                            *)
AppendsNeverSpoil == failed = {} /\ ~lost => Readable(file)
=============================================================================
