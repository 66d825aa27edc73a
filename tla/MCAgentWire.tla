---------------------------- MODULE MCAgentWire ----------------------------
(***************************************************************************)
(* One connection: frames with separators in their texts, with texts that   *)
(* are empty, and with and without their optional values.                   *)
(***************************************************************************)
EXTENDS AgentWire

X == <<"x">>
Number == <<"1", "0">>
Odd == <<"x", Tab, "x", Newline>>
Open == <<"o", "pen">>
Name == <<"na", "me">>

MCOthers == {"x"}
MCKnown == <<X, Name, <<"x", "x">>>>
Hello(account, token) == [kind |-> "HELLO", fields |-> <<account, Name, token>>]
MCHellos == {Hello(X, <<"x", "x">>), Hello(Odd, <<"x", "x">>), Hello(<<>>, X)}

Event(id, symbol, origin) ==
    [kind |-> "EVENT",
     fields |-> <<id, X, Name, Open, X, symbol, <<Name>>, Number,
                  <<>>, <<Number>>, <<>>, <<Number>>, Number, origin>>]
Ack(account, position, message) ==
    [kind |-> "ACK", fields |-> <<X, account, Name, position, Number, message>>]

MCAgentFrames ==
    {Event(X, Odd, <<>>), Event(<<Newline>>, <<>>, <<<<"x", "x">>>>),
     [Event(X, X, <<>>) EXCEPT !.fields[7] = <<>>],
     Ack(X, <<>>, <<Odd>>), Ack(X, <<<<>>>>, <<>>), Ack(Odd, <<X>>, <<>>),
     [kind |-> "PING", fields |-> <<Number>>],
     Hello(X, X)}

Command(id, order, symbol, takeProfit) ==
    [kind |-> "COMMAND",
     fields |-> <<id, X, X, X, X, X, Open, order, symbol, <<Name>>, Number, Number,
                  <<>>, <<Number>>, <<>>, takeProfit>>]
MCCommands ==
    {Command(X, <<>>, Odd, <<>>), Command(<<Tab>>, <<X>>, X, <<Number>>),
     Command(X, <<<<>>>>, <<>>, <<Number>>)}
=============================================================================
