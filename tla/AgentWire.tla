----------------------------- MODULE AgentWire -----------------------------
(***************************************************************************)
(* The wire protocol (crates/copier-core/src/protocol.rs) between a client  *)
(* (crates/copier-client/src/lib.rs) and the server                         *)
(* (crates/copier-daemon/src/server.rs): frames become lines of fields,     *)
(* lines are read off a stream that may end anywhere, and the handshake     *)
(* says who may send what.  AgentServer takes what comes out of it.         *)
(*                                                                          *)
(* A text is a sequence of tokens: the separators, and what stands between  *)
(* them.  A frame has one value per field after its version.  A value that  *)
(* may be missing is a sequence of at most one text, <<>> for None.         *)
(***************************************************************************)
EXTENDS Integers, SequencesExt

CONSTANTS
    Known,          \* the account the server has a token for
    Hellos,         \* HELLO frames a client may open with
    AgentFrames,    \* frames a client may send then
    Commands,       \* frames the daemon may put on the client's channel
    Others,         \* tokens of texts besides those the protocol knows
    MaxFrames       \* bound: frames each side sends after the handshake

Tab == "TAB"
Newline == "NL"
Separators == {Tab, Newline}

Digits == {"1", "0"}
Version == <<"1">>

(* Names of an enumeration are two tokens, so that half a name is none.     *)
Names == {<<"o", "pen">>, <<"re", "duce">>, <<"cl", "ose">>,
          <<"na", "me">>}                     \* a platform, a side or a status

(* What each kind of frame has after its version.                           *)
Schema ==
    [HELLO |-> <<"required", "name", "text">>,
     EVENT |-> <<"required", "required", "name", "name", "required", "required",
                 "side", "number", "amount", "amount", "amount", "amount",
                 "number", "optional">>,
     ACK |-> <<"required", "required", "name", "optional", "number", "optional">>,
     PING |-> <<"number">>,
     WELCOME |-> <<"number">>,
     COMMAND |-> <<"required", "required", "required", "required", "required", "required",
                   "name", "optional", "required", "side", "number", "number",
                   "amount", "amount", "amount", "amount">>,
     ERROR |-> <<"text", "text">>,
     PONG |-> <<"number">>]

Kinds == DOMAIN Schema
AgentKinds == {"HELLO", "EVENT", "ACK", "PING"}

(* Classes whose value may be missing: Option in the source.                *)
Optional(class) == class \in {"optional", "side", "amount"}

NoFrame == [kind |-> "none", fields |-> <<>>]

Tokens == {Tab, Newline, " "} \cup Digits \cup Kinds \cup UNION {Range(name) : name \in Names}
          \cup Others

IsNumber(text) == text # <<>> /\ \A i \in DOMAIN text : text[i] \in Digits

(* The values the type of a field has in the source.                        *)
IsText(class, text) ==
    /\ text \in Seq(Tokens)
    /\ class \in {"name", "side"} => text \in Names
    /\ class \in {"number", "amount"} => IsNumber(text)
IsValue(class, value) ==
    IF ~Optional(class) THEN IsText(class, value)
    ELSE value = <<>> \/ (value = <<value[1]>> /\ IsText(class, value[1]))

IsFrame(frame) ==
    /\ frame = [kind |-> frame.kind, fields |-> frame.fields]
    /\ frame.kind \in Kinds
    /\ DOMAIN frame.fields = DOMAIN Schema[frame.kind]
    /\ \A i \in DOMAIN frame.fields : IsValue(Schema[frame.kind][i], frame.fields[i])

ASSUME WireAssumption ==
    /\ \A frame \in Hellos \cup AgentFrames \cup Commands : IsFrame(frame)
    /\ \A frame \in Hellos : frame.kind = "HELLO"
    /\ \A frame \in AgentFrames : frame.kind \in AgentKinds
    /\ \A frame \in Commands : frame.kind \in Kinds \ (AgentKinds \cup {"WELCOME"})

VARIABLES
    client,     \* "off", "hello", "ready", "gone"
    server,     \* "hello", "greeting", "registering", "serving", "gone"
    toServer,   \* tokens the client has written and the server not read
    toClient,
    sent,       \* history: frames written by "client" and "server"
    heard       \* history: frames parsed, in the other direction

vars == <<client, server, toServer, toClient, sent, heard>>

-----------------------------------------------------------------------------
(* Encoding.                                                                *)

(* Faulty: only the tab is replaced; a mark is put in place of separators.  *)
FieldTabOnly(text) == [i \in DOMAIN text |-> IF text[i] = Tab THEN " " ELSE text[i]]
FieldMarked(text) == [i \in DOMAIN text |-> IF text[i] \in Separators THEN "?" ELSE text[i]]

Field(text) == [i \in DOMAIN text |-> IF text[i] \in Separators THEN " " ELSE text[i]]

EncodeValue(class, value) ==
    CASE ~Optional(class) -> Field(value)
      [] Optional(class)  -> IF value = <<>> THEN <<>> ELSE Field(value[1])

(* The texts between the separators of the line of a frame.                 *)
Cells(frame) ==
    <<<<frame.kind>>, Version>>
    \o [i \in DOMAIN frame.fields |-> EncodeValue(Schema[frame.kind][i], frame.fields[i])]

Join(cells) ==
    LET Upto[i \in 0..Len(cells)] ==
            IF i = 0 THEN <<>>
            ELSE Upto[i - 1] \o cells[i] \o <<IF i = Len(cells) THEN Newline ELSE Tab>>
    IN  Upto[Len(cells)]

EncodeFrame(frame) == Join(Cells(frame))

-----------------------------------------------------------------------------
(* Parsing.                                                                 *)

(* line.split('\t'): a cell ends at a tab or with the line, and the next    *)
(* one starts after it.                                                     *)
Split(line) ==
    LET ends == {i \in 1..Len(line) : line[i] = Tab} \cup {Len(line) + 1}
        End(k) == CHOOSE e \in ends : Cardinality({i \in ends : i <= e}) = k
        Start(k) == IF k = 1 THEN 1 ELSE End(k - 1) + 1
    IN  [k \in 1..Cardinality(ends) |-> SubSeq(line, Start(k), End(k) - 1)]

StripLineEnd(line) ==
    IF line # <<>> /\ Last(line) = Newline THEN Front(line) ELSE line

Accepts(class, text) ==
    CASE class = "required" -> text # <<>>
      [] class \in {"text", "optional"} -> TRUE
      [] class = "name"   -> text \in Names
      [] class = "side"   -> text \in Names \cup {<<>>}
      [] class = "number" -> IsNumber(text)
      [] class = "amount" -> text = <<>> \/ IsNumber(text)

ParseValue(class, text) ==
    IF ~Optional(class) THEN text ELSE IF text = <<>> THEN <<>> ELSE <<text>>

(* TradeEvent::validate, beyond what the classes require.                   *)
ValidEvent(fields) ==
    /\ fields[4] \in {<<"o", "pen">>, <<"re", "duce">>} => fields[8] # <<"0">>
    /\ fields[4] = <<"o", "pen">> => fields[7] # <<>>

(* Faulty: fields that are not there count as empty.                        *)
HasFieldsUpTo(fields, n) == Len(fields) <= n
HasFields(fields, n) == Len(fields) = n

(* parse_agent_line, parse_server_line: NoFrame for a WireError.            *)
Parse(line, kinds) ==
    LET fields == Split(StripLineEnd(line))
        kind == IF Len(fields[1]) = 1 /\ fields[1][1] \in kinds THEN fields[1][1] ELSE "none"
        At(i) == IF i \in DOMAIN fields THEN fields[i] ELSE <<>>
        schema == Schema[kind]
        Parsed == [i \in DOMAIN schema |-> ParseValue(schema[i], At(i + 2))]
    IN  IF /\ kind # "none"
           /\ HasFields(fields, Len(schema) + 2)
           /\ At(2) = Version
           /\ \A i \in DOMAIN schema : Accepts(schema[i], At(i + 2))
           /\ kind = "EVENT" => ValidEvent(Parsed)
        THEN [kind |-> kind, fields |-> Parsed]
        ELSE NoFrame

(* read_line: up to the next newline, or what is left at the end.           *)
LineEnd(stream) ==
    LET ends == {i \in DOMAIN stream : stream[i] = Newline}
    IN  IF ends = {} THEN Len(stream) ELSE Min(ends)
HasLine(stream) == \E i \in DOMAIN stream : stream[i] = Newline

(* The next line can be read, or nothing more will come.                    *)
CanRead(stream, writer) == HasLine(stream) \/ (stream # <<>> /\ writer = "gone")
NextLine(stream) == SubSeq(stream, 1, LineEnd(stream))
Rest(stream) == SubSeq(stream, LineEnd(stream) + 1, Len(stream))

Hear(reader, frame) ==
    heard' = IF frame = NoFrame THEN heard ELSE [heard EXCEPT ![reader] = Append(@, frame)]

Write(writer, frame) == sent' = [sent EXCEPT ![writer] = Append(@, frame)]

-----------------------------------------------------------------------------
Init ==
    /\ client = "off"
    /\ server = "hello"
    /\ toServer = <<>> /\ toClient = <<>>
    /\ sent = [s \in {"client", "server"} |-> <<>>]
    /\ heard = [s \in {"client", "server"} |-> <<>>]

(* CopierClient::connect, up to the answer.                                 *)
Connect(hello) ==
    /\ client = "off"
    /\ client' = "hello"
    /\ toServer' = EncodeFrame(hello)
    /\ Write("client", hello)
    /\ UNCHANGED <<server, toClient, heard>>

(* connect: the first frame is WELCOME, or there is no connection.          *)
Connected ==
    /\ client = "hello"
    /\ CanRead(toClient, server)
    /\ LET frame == Parse(NextLine(toClient), Kinds \ AgentKinds)
       IN  /\ Hear("client", frame)
           /\ client' = IF frame.kind = "WELCOME" THEN "ready" ELSE "gone"
           /\ toClient' = IF frame.kind = "WELCOME" THEN Rest(toClient) ELSE <<>>
    /\ UNCHANGED <<server, toServer, sent>>

(* send_event, send_ack, ping.                                              *)
ClientSends(frame) ==
    /\ client = "ready" /\ server # "gone"
    /\ Len(sent["client"]) <= MaxFrames
    /\ toServer' = toServer \o EncodeFrame(frame)
    /\ Write("client", frame)
    /\ UNCHANGED <<client, server, toClient, heard>>

(* next_frame; after an error the caller may go on reading.                 *)
ClientReads ==
    /\ client = "ready"
    /\ CanRead(toClient, server)
    /\ Hear("client", Parse(NextLine(toClient), Kinds \ AgentKinds))
    /\ toClient' = Rest(toClient)
    /\ UNCHANGED <<client, server, toServer, sent>>

(* A write that had begun is given up when its side goes away: of the last  *)
(* frame a first part is on the stream.  What the other side sends is lost. *)
Cuts(stream) ==
    {SubSeq(stream, 1, n) : n \in
        {n \in 0..Len(stream) : \A i \in (n + 1)..(Len(stream) - 1) : stream[i] # Newline}}

ClientGoes ==
    /\ client \in {"hello", "ready"}
    /\ client' = "gone"
    /\ toServer' \in Cuts(toServer)
    /\ toClient' = <<>>
    /\ UNCHANGED <<server, sent, heard>>

(* handle_connection, the first line: HELLO of an account that is known,    *)
(* with its token; anything else ends the connection.                       *)
ServerAccepts ==
    /\ server = "hello"
    /\ CanRead(toServer, client)
    /\ LET frame == Parse(NextLine(toServer), AgentKinds)
       IN  /\ Hear("server", frame)
           /\ server' = IF frame.kind = "HELLO" /\ frame.fields = Known
                        THEN "greeting" ELSE "gone"
           /\ toServer' = IF server' = "gone" THEN <<>> ELSE Rest(toServer)
    /\ UNCHANGED <<client, toClient, sent>>

Welcome == [kind |-> "WELCOME", fields |-> <<<<"1", "0">>>>]

(* WELCOME is written before the session is registered.                     *)
ServerGreets ==
    /\ server = "greeting"
    /\ server' = "registering"
    /\ toClient' = IF client = "gone" THEN <<>> ELSE EncodeFrame(Welcome)
    /\ Write("server", Welcome)
    /\ UNCHANGED <<client, toServer, heard>>

ServerRegisters ==
    /\ server = "registering"
    /\ server' = "serving"
    /\ UNCHANGED <<client, toServer, toClient, sent, heard>>

(* Faulty: the session is registered when the token has been checked.       *)
RegisteredEarly == server \in {"greeting", "registering", "serving"}

(* Another task finds the session in the map.                               *)
Registered == server = "serving"

(* The writer task, with a frame from the channel.                          *)
ServerSends(frame) ==
    /\ Registered /\ client # "gone"
    /\ Len(sent["server"]) <= MaxFrames
    /\ toClient' = toClient \o EncodeFrame(frame)
    /\ Write("server", frame)
    /\ UNCHANGED <<client, server, toServer, heard>>

(* The account an event or an acknowledgement is sent under.                *)
Sender(frame) == frame.fields[2]

(* The read loop: a line that cannot be parsed is skipped; a second HELLO,  *)
(* or a frame of another account, makes handle_frame fail.                  *)
ServerReads ==
    /\ server = "serving"
    /\ CanRead(toServer, client)
    /\ LET frame == Parse(NextLine(toServer), AgentKinds)
           refused == \/ frame.kind = "HELLO"
                      \/ frame.kind \in {"EVENT", "ACK"} /\ Sender(frame) # Known[1]
       IN  /\ Hear("server", frame)
           /\ IF refused
              THEN server' = "gone" /\ toClient' \in Cuts(toClient) /\ toServer' = <<>>
              ELSE UNCHANGED <<server, toClient>> /\ toServer' = Rest(toServer)
    /\ UNCHANGED <<client, sent>>

(* End of the stream, an error or the end of the daemon: the writer is      *)
(* aborted, also in the middle of a write.                                  *)
ServerGoes ==
    /\ client # "off" /\ server # "gone"
    /\ server' = "gone"
    /\ toClient' \in Cuts(toClient)
    /\ toServer' = <<>>
    /\ UNCHANGED <<client, sent, heard>>

Next ==
    \/ \E hello \in Hellos : Connect(hello)
    \/ Connected
    \/ \E frame \in AgentFrames : ClientSends(frame)
    \/ ClientReads
    \/ ClientGoes
    \/ ServerAccepts
    \/ ServerGreets
    \/ ServerRegisters
    \/ \E frame \in Commands : ServerSends(frame)
    \/ ServerReads
    \/ ServerGoes

Spec == Init /\ [][Next]_vars

-----------------------------------------------------------------------------
(* Properties.                                                              *)

TypeOK ==
    /\ client \in {"off", "hello", "ready", "gone"}
    /\ server \in {"hello", "greeting", "registering", "serving", "gone"}
    /\ toServer \in Seq(Tokens) /\ toClient \in Seq(Tokens)
    /\ \A s \in {"client", "server"} :
         \A i \in DOMAIN heard[s] :
            /\ heard[s][i].kind \in (IF s = "server" THEN AgentKinds ELSE Kinds \ AgentKinds)
            /\ DOMAIN heard[s][i].fields = DOMAIN Schema[heard[s][i].kind]

(* What docs/protocol.md says a frame carries: every value as it was given, *)
(* with the separators in it replaced; an empty optional value is none.     *)
CarriedText(text) == [i \in DOMAIN text |-> IF text[i] \in Separators THEN " " ELSE text[i]]
CarriedValue(class, value) ==
    IF ~Optional(class) THEN CarriedText(value)
    ELSE IF value = <<>> \/ value = <<<<>>>> THEN <<>> ELSE <<CarriedText(value[1])>>
Carried(frame) ==
    [kind |-> frame.kind,
     fields |-> [i \in DOMAIN frame.fields |->
                    CarriedValue(Schema[frame.kind][i], frame.fields[i])]]

(* The sender filled every field that is required.                          *)
Sendable(frame) ==
    /\ \A i \in DOMAIN frame.fields :
         Schema[frame.kind][i] = "required" => frame.fields[i] # <<>>
    /\ frame.kind = "EVENT" => ValidEvent(frame.fields)

Peer(s) == IF s = "client" THEN "server" ELSE "client"
HasGone(s) == "gone" = IF s = "client" THEN client ELSE server

(* The frames heard are the first of the sendable ones that were sent, in   *)
(* their order: at says where each is among those sent.                     *)
Follows(at, got, all) ==
    /\ \A i, j \in 1..Len(got) : i < j => at[i] < at[j]
    /\ \A i \in 1..Len(got) : Sendable(all[at[i]])
    /\ \A i \in 1..Len(got) : \A k \in 1..at[i] :
          Sendable(all[k]) => \E j \in 1..Len(got) : at[j] = k

(* The last of them, of a writer that has gone.                             *)
MayBeCut(reader, k) ==
    /\ HasGone(Peer(reader))
    /\ \A l \in (k + 1)..Len(sent[Peer(reader)]) : ~Sendable(sent[Peer(reader)][l])

(* docs/protocol.md:3, "newline-delimited, tab-separated frames ... the     *)
(* encoders sanitize": whatever the texts of frames contain, no frame is    *)
(* split, glued, dropped, changed or reordered on the way; a frame that     *)
(* lacks a required value disappears alone.  The last frame of a writer     *)
(* that has gone is excepted.                                               *)
FramesSurvive ==
    \A reader \in {"client", "server"} :
        LET got == heard[reader]
            all == sent[Peer(reader)]
        IN  \E at \in [1..Len(got) -> 1..Len(all)] :
              /\ Follows(at, got, all)
              /\ \A i \in 1..Len(got) :
                    got[i] = Carried(all[at[i]]) \/ MayBeCut(reader, at[i])

(* A frame cut by the end of its connection is taken for a whole one only   *)
(* when the cut is in its last field: the count of fields keeps every other *)
(* field from being lost, in particular the volume and the ids of a command.*)
SameButLast(got, frame) ==
    /\ got.kind = frame.kind
    /\ DOMAIN got.fields = DOMAIN frame.fields
    /\ \A j \in 1..(Len(frame.fields) - 1) : got.fields[j] = frame.fields[j]
CutLosesOnlyTheLastField ==
    \A reader \in {"client", "server"} :
        LET got == heard[reader]
            all == sent[Peer(reader)]
        IN  \E at \in [1..Len(got) -> 1..Len(all)] :
              /\ Follows(at, got, all)
              /\ \A i \in 1..Len(got) : SameButLast(got[i], Carried(all[at[i]]))

(* docs/protocol.md:8, "must send HELLO before any other frame": each side  *)
(* hears exactly one frame of the handshake first, HELLO or WELCOME, and a  *)
(* client takes a connection for accepted only when the server accepted it. *)
HandshakeFirst ==
    /\ \A i \in DOMAIN heard["client"] : heard["client"][i].kind = "WELCOME" <=> i = 1
    /\ \A i \in DOMAIN heard["server"] : i = 1 \/ heard["server"][1].kind = "HELLO"
    /\ client = "ready" => heard["server"] # <<>> /\ heard["server"][1].fields = Known
=============================================================================
