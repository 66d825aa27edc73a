---------------------------- MODULE MCCTraderHub ----------------------------
(***************************************************************************)
(* Small instances of CTraderHub: a master and a follower on one hub, and   *)
(* one position of the master's trader.                                     *)
(***************************************************************************)
EXTENDS CTraderHub

MCAccount == {"M", "F"}
MCTask == {"tM", "tF"}
MCOwner == [k \in MCTask |-> IF k = "tM" THEN "M" ELSE "F"]
MCPublishers == {"M"}
MCProtected == {"p1"}
MasterFirst == <<"tM", "tF">>

MCRules ==
    <<[id |-> "r1", source |-> "M", target |-> "F", enabled |-> TRUE,
       sizing |-> "mirror", size |-> <<1, 1>>, min |-> 0, max |-> 10, step |-> 1,
       sides |-> {}, allow |-> {}, deny |-> {}, maxAge |-> 0]>>

(* Everything the trader's position can be reported to do.                  *)
MCEvent ==
    {e \in [id : {"p1"} \X Action \X (0..(MaxMoves - 1)),
            source : {"M"}, order : {"p1"}, action : Action, side : {"buy"},
            symbol : {"EURUSD"}, volume : 0..MaxVolume, remaining : 0..MaxVolume,
            copied : {FALSE}, age : {0}] :
        e.id[2] = e.action /\ ValidEvent(e)}
=============================================================================
