--------------------------- MODULE MCMetaApiVenue ---------------------------
(***************************************************************************)
(* Small instances of MetaApiVenue: a master and a follower, each attached  *)
(* through MetaApi, and one position of the master's trader.                *)
(***************************************************************************)
EXTENDS MetaApiVenue

MCAccount == {"M", "F"}
MCTask == {"tM", "tF"}
MCOwner == [k \in MCTask |-> IF k = "tM" THEN "M" ELSE "F"]
MCPublishers == {"M"}

MCRules ==
    <<[id |-> "r1", source |-> "M", target |-> "F", enabled |-> TRUE,
       sizing |-> "mirror", size |-> <<1, 1>>, min |-> 0, max |-> 10, step |-> 1,
       sides |-> {}, allow |-> {}, deny |-> {}, maxAge |-> 0]>>

(* Everything the trader's position can be reported to do.                  *)
MCEvent ==
    {e \in [id : {"p1"} \X Action \X (0..(MaxReports - 1)),
            source : {"M"}, order : {"p1"}, action : Action, side : {"buy"},
            symbol : {"EURUSD"}, volume : 0..MaxVolume, remaining : 0..MaxVolume,
            copied : {FALSE}, age : {0}] :
        e.id[2] = e.action /\ ValidEvent(e)}

(* Bound: a failed append or a restart, not both (CTraderHub has both).     *)
OneMishap == faults + crashes <= 1
=============================================================================
