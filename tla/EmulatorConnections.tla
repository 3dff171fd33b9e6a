------------------------ MODULE EmulatorConnections ------------------------
(***************************************************************************)
(* VehicleEmulator and its connections.                                    *)
(*                                                                         *)
(* SocketComm's listen thread accepts connections and starts a read thread *)
(* for each (CommConn), which answers the commands of its peer.  A binder  *)
(* thread in EmulatedVehicleHal::set tells every open connection of the    *)
(* new value, holding SocketComm's mMutex.  A message is written in two    *)
(* parts, its length and its body, and nothing orders the answers of a     *)
(* read thread with what binder threads write to the same socket.  A pipe  *)
(* (PipeComm) is open from the start and is told after the sockets, when   *)
(* the mutex has been released, so that any two threads may write to it.   *)
(*                                                                         *)
(* External: sockets are byte streams.  A peer's bytes arrive in order;    *)
(* ::read returns any part of what is asked for that has arrived, and 0 at *)
(* the end of a stream that the peer has closed.  A write to a peer that   *)
(* has closed may fail, another one does not; no write blocks.  The frames *)
(* of a pipe arrive whole, but what sends one is not known to be atomic: a *)
(* length and a body, like a message of a socket.  A byte is a digit, a    *)
(* length has two (HEADER) instead of four, the body of command k is k     *)
(* twice, and 0 is a body that does not parse.                             *)
(***************************************************************************)
EXTENDS Naturals, FiniteSets, FiniteSetsExt, SequencesExt, Selection

CONSTANTS
    Sockets,      \* the connections that peers may open
    Pipes,        \* the pipe of an emulated device, if there is one
    Setters,      \* binder threads that call doSetValueFromClient
    CommandList,  \* the commands that a body stands for, by their digit
    Configured,   \* the properties of the HAL
    Values, InitialValue,
    NoOne,        \* no thread, no message
    MaxCommands,  \* bound: commands of all peers
    MaxSets,      \* bound: values set by clients
    MaxClosed,    \* bound: peers that close their end
    MaxMoves,     \* bound: all these together
    MaxParted     \* bound: connections on which a read returns a part

ASSUME CommandListAssumption == DOMAIN CommandList \subseteq 1 .. 9
ASSUME ThreadsAssumption ==
    /\ Sockets \cap Pipes = {}
    /\ (Sockets \cup Pipes) \cap Setters = {}
    /\ NoOne \notin Sockets \cup Pipes \cup Setters
    /\ IsFiniteSet(Setters)
    /\ \A p, q \in Pipes : p = q
ASSUME BoundsAssumption ==
    {MaxCommands, MaxSets, MaxClosed, MaxMoves, MaxParted} \subseteq Nat

Conns == Sockets \cup Pipes

VARIABLES
    halValues,         \* the values of the HAL: Configured -> Values
    listening,         \* the accepted connection that is not registered yet
    mOpenConnections,  \* in the order of their registration
    mMutex,
    commands,          \* external: what each peer has sent, in order
    closed,            \* external: the peers that have closed their end
    readPc, response,  \* of each read thread
    buffer, totalRead, \* of its readExactly
    consumed,          \* bytes that it has taken from the stream
    wanted,            \* bytes that its readExactly wants, from begun on
    begun,
    written,           \* what each connection was given, piece by piece
    setterPc, setting, \* of each setter: where it is, the value it sets
    targets, part,     \* and the connections, and part of a message, that are next
    sent,              \* history: the values that sockets are told, in order
    joined,            \* history: their number before a registration
    parted             \* history: where a read returned less than it asked for

readVars == <<readPc, response, buffer, totalRead, consumed, wanted, begun>>
peerVars == <<commands, closed>>
listenVars == <<listening, mOpenConnections>>
setterVars == <<setterPc, setting, targets, part>>
historyVars == <<sent, joined, parted>>
vars == <<halValues, listenVars, mMutex, peerVars, readVars, written, setterVars, historyVars>>

HEADER == 2
FRAME == 4

\* The bytes of a command, and of all that a peer has sent.
Frame(k) == <<0, 2, k, k>>
Stream(c) ==
    [i \in 1 .. FRAME * Len(commands[c]) |->
        Frame(commands[c][1 + ((i - 1) \div FRAME)])[1 + ((i - 1) % FRAME)]]

Init ==
    /\ halValues = [p \in Configured |-> InitialValue]
    /\ listening = NoOne
    /\ mOpenConnections = <<>>
    /\ mMutex = NoOne
    /\ commands = [c \in Conns |-> <<>>]
    /\ closed = {}
    /\ readPc = [c \in Conns |-> IF c \in Pipes THEN "frame" ELSE "none"]
    /\ response = [c \in Conns |-> NoOne]
    /\ buffer = [c \in Conns |-> <<>>]
    /\ totalRead = [c \in Conns |-> 0]
    /\ consumed = [c \in Conns |-> 0]
    /\ wanted = [c \in Conns |-> 0]
    /\ begun = [c \in Conns |-> 0]
    /\ written = [c \in Conns |-> <<>>]
    /\ setterPc = [s \in Setters |-> "idle"]
    /\ setting = [s \in Setters |-> NoOne]
    /\ targets = [s \in Setters |-> <<>>]
    /\ part = [s \in Setters |-> "length"]
    /\ sent = <<>>
    /\ joined = [c \in Conns |-> 0]
    /\ parted = {}

\* Commands that peers sent, values that clients have set, and all that peers
\* and clients have done.
Commands == Cardinality(UNION {{c} \X DOMAIN commands[c] : c \in Conns})
Sets == Len(sent) + Cardinality({s \in Setters : setterPc[s] = "tell"})
Moves == Commands + Sets + Cardinality(closed)

-----------------------------------------------------------------------------
\* The peers.

PeerSends(c) ==
    /\ readPc[c] \notin {"none", "ended"}
    /\ c \notin closed
    /\ Commands < MaxCommands
    /\ Moves < MaxMoves
    /\ \E k \in {0} \cup DOMAIN CommandList :
           commands' = [commands EXCEPT ![c] = Append(@, k)]
    /\ UNCHANGED <<halValues, listenVars, mMutex, closed, readVars, written,
                   setterVars, historyVars>>

PeerCloses(c) ==
    /\ readPc[c] # "none"
    /\ c \notin closed
    /\ Cardinality(closed) < MaxClosed
    /\ Moves < MaxMoves
    /\ closed' = closed \cup {c}
    /\ UNCHANGED <<halValues, listenVars, mMutex, commands, readVars, written,
                   setterVars, historyVars>>

-----------------------------------------------------------------------------
\* SocketComm::listenThread.  The read thread runs before the connection is
\* registered.  Nothing ever removes a connection.

WantsHeader(c) ==
    /\ wanted' = [wanted EXCEPT ![c] = HEADER]
    /\ begun' = [begun EXCEPT ![c] = consumed'[c]]
    /\ buffer' = [buffer EXCEPT ![c] = [i \in 1 .. HEADER |-> 0]]
    /\ totalRead' = [totalRead EXCEPT ![c] = 0]

Accept(c) ==
    /\ c \in Sockets
    /\ listening = NoOne
    /\ readPc[c] = "none"
    /\ listening' = c
    /\ readPc' = [readPc EXCEPT ![c] = "header"]
    /\ UNCHANGED consumed
    /\ WantsHeader(c)
    /\ UNCHANGED <<halValues, mOpenConnections, mMutex, peerVars, response, written,
                   setterVars, historyVars>>

RegisterConnection ==
    /\ listening # NoOne
    /\ mMutex = NoOne
    /\ mOpenConnections' = Append(mOpenConnections, listening)
    /\ joined' = [joined EXCEPT ![listening] = Len(sent)]
    /\ listening' = NoOne
    /\ UNCHANGED <<halValues, mMutex, peerVars, readVars, written, setterVars, sent,
                   parted>>

-----------------------------------------------------------------------------
\* readExactly: one step for each ::read.  Since offset stays 0 every read
\* asks for all the bytes again and writes them to the start of the buffer.

Overwritten(old, new) ==
    [i \in DOMAIN old |-> IF i \in DOMAIN new THEN new[i] ELSE old[i]]

IsReading(c) == readPc[c] \in {"header", "body"} /\ totalRead[c] < wanted[c]

\* Mutant of Read: takes all that has arrived.
ReadsOn(c) ==
    /\ IsReading(c)
    /\ consumed[c] < Len(Stream(c))
    /\ buffer' = [buffer EXCEPT ![c] =
                      Overwritten(@, SubSeq(Stream(c), consumed[c] + 1, Len(Stream(c))))]
    /\ totalRead' = [totalRead EXCEPT ![c] = wanted[c]]
    /\ consumed' = [consumed EXCEPT ![c] = Len(Stream(c))]
    /\ UNCHANGED <<halValues, listenVars, mMutex, peerVars, readPc, response, wanted, begun,
                   written, setterVars, historyVars>>

Read(c) ==
    /\ IsReading(c)
    /\ \E n \in 1 .. Min({wanted[c], Len(Stream(c)) - consumed[c]}) :
          /\ parted' = IF n < wanted[c] THEN parted \cup {c} ELSE parted
          /\ Cardinality(parted') <= MaxParted
          /\ buffer' = [buffer EXCEPT ![c] =
                            Overwritten(@, SubSeq(Stream(c), consumed[c] + 1, consumed[c] + n))]
          /\ totalRead' = [totalRead EXCEPT ![c] = @ + n]
          /\ consumed' = [consumed EXCEPT ![c] = @ + n]
    /\ UNCHANGED <<halValues, listenVars, mMutex, peerVars, readPc, response, wanted, begun,
                   written, setterVars, sent, joined>>

\* The peer has closed its end: an empty buffer makes readInt return -1, or
\* read return nothing.  Either way readThread leaves its loop; the socket
\* stays open and registered, the pipe forgets its descriptor.
ReadEnd(c) ==
    /\ IsReading(c) \/ readPc[c] = "frame"
    /\ c \in closed
    /\ consumed[c] = Len(Stream(c))
    /\ readPc' = [readPc EXCEPT ![c] = "ended"]
    /\ UNCHANGED <<halValues, listenVars, mMutex, peerVars, response, buffer, totalRead,
                   consumed, wanted, begun, written, setterVars, historyVars>>

\* PipeComm::read takes a whole frame.
ReadFrame(c) ==
    /\ readPc[c] = "frame"
    /\ consumed[c] < Len(Stream(c))
    /\ readPc' = [readPc EXCEPT ![c] = "body"]
    /\ consumed' = [consumed EXCEPT ![c] = @ + FRAME]
    /\ wanted' = [wanted EXCEPT ![c] = FRAME - HEADER]
    /\ begun' = [begun EXCEPT ![c] = consumed[c] + HEADER]
    /\ buffer' = [buffer EXCEPT ![c] = SubSeq(Stream(c), begun'[c] + 1, consumed'[c])]
    /\ totalRead' = [totalRead EXCEPT ![c] = wanted'[c]]
    /\ UNCHANGED <<halValues, listenVars, mMutex, peerVars, response, written,
                   setterVars, historyVars>>

msgSize(c) == 10 * buffer[c][1] + buffer[c][2]

ReadBody(c) ==
    /\ readPc[c] = "header"
    /\ ~IsReading(c)
    /\ readPc' = [readPc EXCEPT ![c] = IF msgSize(c) = 0 THEN "ended" ELSE "body"]
    /\ wanted' = [wanted EXCEPT ![c] = msgSize(c)]
    /\ begun' = [begun EXCEPT ![c] = consumed[c]]
    /\ buffer' = [buffer EXCEPT ![c] = [i \in 1 .. msgSize(c) |-> 0]]
    /\ totalRead' = [totalRead EXCEPT ![c] = 0]
    /\ UNCHANGED <<halValues, listenVars, mMutex, peerVars, response, consumed, written,
                   setterVars, historyVars>>

-----------------------------------------------------------------------------
\* processMessage.

Response(type, status, values) == [type |-> type, status |-> status, values |-> values]
OkOrInvalid(ok) == IF ok THEN "RESULT_OK" ELSE "ERROR_INVALID_PROPERTY"

doGetConfig(p) ==
    Response("GET_CONFIG_RESP", OkOrInvalid(p \in Configured), {p} \cap Configured)

doGetConfigAll == Response("GET_CONFIG_ALL_RESP", "RESULT_OK", Configured)

\* The status of the HAL is not looked at, only whether there is a value.
doGetProperty(p) ==
    Response("GET_PROPERTY_RESP", OkOrInvalid(p \in Configured),
             {<<q, halValues[q]>> : q \in {p} \cap Configured})

doGetPropertyAll ==
    Response("GET_PROPERTY_ALL_RESP", "RESULT_OK", {<<q, halValues[q]>> : q \in Configured})

doSetProperty(p) == Response("SET_PROPERTY_RESP", OkOrInvalid(p \in Configured), {})

Unimplemented == Response("none", "ERROR_UNIMPLEMENTED_CMD", {})

processMessage(m) ==
    CASE m.type = "GET_CONFIG_CMD" -> doGetConfig(m.prop)
      [] m.type = "GET_CONFIG_ALL_CMD" -> doGetConfigAll
      [] m.type = "GET_PROPERTY_CMD" -> doGetProperty(m.prop)
      [] m.type = "GET_PROPERTY_ALL_CMD" -> doGetPropertyAll
      [] m.type = "SET_PROPERTY_CMD" -> doSetProperty(m.prop)
      [] OTHER -> Unimplemented

\* setPropertyFromVehicle.
Applied(m) ==
    IF m.type = "SET_PROPERTY_CMD" /\ m.prop \in Configured
    THEN [halValues EXCEPT ![m.prop] = m.value] ELSE halValues

HasMessage(c) == readPc[c] = "body" /\ ~IsReading(c)
ParsedCommand(c) == {k \in DOMAIN CommandList : buffer[c] = <<k, k>>}

ReadNext(c) ==
    /\ readPc' = [readPc EXCEPT ![c] = IF c \in Pipes THEN "frame" ELSE "header"]
    /\ UNCHANGED consumed
    /\ WantsHeader(c)

IgnoreMessage(c) ==
    /\ HasMessage(c)
    /\ ParsedCommand(c) = {}
    /\ ReadNext(c)
    /\ UNCHANGED <<halValues, listenVars, mMutex, peerVars, response, written, setterVars,
                   historyVars>>

ProcessMessage(c) ==
    /\ HasMessage(c)
    /\ \E k \in ParsedCommand(c) :
          /\ response' = [response EXCEPT ![c] = processMessage(CommandList[k])]
          /\ halValues' = Applied(CommandList[k])
    /\ readPc' = [readPc EXCEPT ![c] = "length"]
    /\ UNCHANGED <<listenVars, mMutex, peerVars, buffer, totalRead, consumed, wanted, begun,
                   written, setterVars, historyVars>>

-----------------------------------------------------------------------------
\* SocketConn::write and PipeComm::write of an answer.  No lock is held.

Piece(from, half, message) == [from |-> from, part |-> half, message |-> message]

\* A peer that has closed its end gets nothing, whether or not a write fails.
IsGiven(c, piece) ==
    written' = IF c \in closed THEN written ELSE [written EXCEPT ![c] = Append(@, piece)]

\* The body is written only if the length was.
WriteLength(c) ==
    /\ readPc[c] = "length"
    /\ IsGiven(c, Piece(c, "length", response[c]))
    /\ readPc' = [readPc EXCEPT ![c] = "data"]
    /\ UNCHANGED <<halValues, listenVars, mMutex, peerVars, response, buffer, totalRead,
                   consumed, wanted, begun, setterVars, historyVars>>

WriteBody(c) ==
    /\ readPc[c] = "data"
    /\ IsGiven(c, Piece(c, "data", response[c]))
    /\ response' = [response EXCEPT ![c] = NoOne]
    /\ ReadNext(c)
    /\ UNCHANGED <<halValues, listenVars, mMutex, peerVars, setterVars, historyVars>>

WriteFails(c) ==
    /\ readPc[c] \in {"length", "data"}
    /\ c \in closed
    /\ response' = [response EXCEPT ![c] = NoOne]
    /\ ReadNext(c)
    /\ UNCHANGED <<halValues, listenVars, mMutex, peerVars, written, setterVars,
                   historyVars>>

-----------------------------------------------------------------------------
\* A binder thread in EmulatedVehicleHal::set: it has written the value, and
\* then calls doSetValueFromClient.

SetValue(s) ==
    /\ setterPc[s] = "idle"
    /\ Sets < MaxSets
    /\ Moves < MaxMoves
    /\ \E p \in Configured, v \in Values :
          /\ halValues' = [halValues EXCEPT ![p] = v]
          /\ setting' = [setting EXCEPT ![s] = <<p, v>>]
    /\ setterPc' = [setterPc EXCEPT ![s] = "tell"]
    /\ UNCHANGED <<listenVars, mMutex, peerVars, readVars, written, targets, part,
                   historyVars>>

doSetValueFromClient(set) == Response("SET_PROPERTY_ASYNC", "RESULT_OK", {set})

\* Mutant of LockSockets: the lock is not taken.
SkipsLock(s) ==
    /\ setterPc[s] = "tell"
    /\ setterPc' = [setterPc EXCEPT ![s] = "sockets"]
    /\ targets' = [targets EXCEPT ![s] = mOpenConnections]
    /\ sent' = Append(sent, setting[s])
    /\ UNCHANGED <<halValues, listenVars, mMutex, peerVars, readVars, written, setting, part,
                   joined, parted>>

\* SocketComm::sendMessage, and VehicleEmulator's call of it.
LockSockets(s) ==
    /\ setterPc[s] = "tell"
    /\ mMutex = NoOne
    /\ mMutex' = s
    /\ setterPc' = [setterPc EXCEPT ![s] = "sockets"]
    /\ targets' = [targets EXCEPT ![s] = mOpenConnections]
    /\ sent' = Append(sent, setting[s])
    /\ UNCHANGED <<halValues, listenVars, peerVars, readVars, written, setting, part,
                   joined, parted>>

\* A message is written in two parts.  A pipe without a descriptor is not
\* written to.
WritePart(s) ==
    /\ targets[s] # <<>>
    /\ LET c == Head(targets[s])
       IN  /\ c \in Pipes /\ readPc[c] = "ended" => part[s] = "data"
           /\ IsGiven(c, Piece(s, part[s], doSetValueFromClient(setting[s])))
    /\ \/ /\ part[s] = "length"
          /\ part' = [part EXCEPT ![s] = "data"]
          /\ UNCHANGED targets
       \/ /\ part[s] = "data"
          /\ part' = [part EXCEPT ![s] = "length"]
          /\ targets' = [targets EXCEPT ![s] = Tail(@)]
    /\ UNCHANGED <<halValues, listenVars, mMutex, peerVars, readVars, setterPc, setting,
                   historyVars>>

\* The body is not written after a length that failed.
WritePartFails(s) ==
    /\ targets[s] # <<>>
    /\ Head(targets[s]) \in closed
    /\ part' = [part EXCEPT ![s] = "length"]
    /\ targets' = [targets EXCEPT ![s] = Tail(@)]
    /\ UNCHANGED <<halValues, listenVars, mMutex, peerVars, readVars, written, setterPc,
                   setting, historyVars>>

UnlockSockets(s) ==
    /\ setterPc[s] = "sockets"
    /\ targets[s] = <<>>
    /\ mMutex' = NoOne
    /\ setterPc' = [setterPc EXCEPT ![s] = "pipe"]
    /\ targets' = [targets EXCEPT ![s] = SetToSeq(Pipes)]
    /\ UNCHANGED <<halValues, listenVars, peerVars, readVars, written, setting, part,
                   historyVars>>

Return(s) ==
    /\ setterPc[s] = "pipe"
    /\ targets[s] = <<>>
    /\ setterPc' = [setterPc EXCEPT ![s] = "idle"]
    /\ setting' = [setting EXCEPT ![s] = NoOne]
    /\ UNCHANGED <<halValues, listenVars, mMutex, peerVars, readVars, written, targets, part,
                   historyVars>>

-----------------------------------------------------------------------------
ReadThread(c) ==
    \/ Read(c) \/ ReadEnd(c) \/ ReadBody(c) \/ ReadFrame(c)
    \/ IgnoreMessage(c) \/ ProcessMessage(c)
    \/ WriteLength(c) \/ WriteBody(c) \/ WriteFails(c)

Setter(s) ==
    \/ SetValue(s) \/ LockSockets(s) \/ WritePart(s) \/ WritePartFails(s)
    \/ UnlockSockets(s) \/ Return(s)

Next ==
    \/ \E c \in Conns : PeerSends(c) \/ PeerCloses(c) \/ Accept(c) \/ ReadThread(c)
    \/ RegisterConnection
    \/ \E s \in Setters : Setter(s)

Spec == Init /\ [][Next]_vars

-----------------------------------------------------------------------------
\* Somewhere in the stream of c another thread's piece follows a length, and
\* the two threads have no lock in common: on a socket one of them is its read
\* thread, on a pipe they are any two.  Its peer then takes for a body what is
\* none: CommConn.cpp:69 beside SocketComm.cpp:66, two ::write each.
IsMixed(c) ==
    \E i \in DOMAIN written[c] :
        LET piece == written[c][i]
            next == written[c][i + 1]
        IN  /\ i < Len(written[c])
            /\ piece.part = "length" /\ next.from # piece.from
            /\ c \in Pipes \cup {piece.from, next.from}

\* Each length in the stream of c is followed by the body that it belongs to.
IsWhole(c) ==
    \A i \in DOMAIN written[c] :
        IF i % 2 = 1 THEN written[c][i].part = "length"
        ELSE written[c][i] = [written[c][i - 1] EXCEPT !.part = "data"]

\* The messages in the whole stream, those that answer and those that tell.
Received(c) ==
    [i \in 1 .. Len(written[c]) \div 2 |-> written[c][2 * i].message]
Told(c) ==
    Selected(Received(c), {m \in ToSet(Received(c)) : m.type = "SET_PROPERTY_ASYNC"})
Answers(c) ==
    Selected(Received(c), {m \in ToSet(Received(c)) : m.type # "SET_PROPERTY_ASYNC"})

\* The commands that a read thread has taken from its stream.
Understood(c) ==
    Selected(SubSeq(commands[c], 1, consumed[c] \div FRAME), DOMAIN CommandList)

AnswerTo(type) ==
    CASE type = "GET_CONFIG_CMD" -> "GET_CONFIG_RESP"
      [] type = "GET_CONFIG_ALL_CMD" -> "GET_CONFIG_ALL_RESP"
      [] type = "GET_PROPERTY_CMD" -> "GET_PROPERTY_RESP"
      [] type = "GET_PROPERTY_ALL_CMD" -> "GET_PROPERTY_ALL_RESP"
      [] type = "SET_PROPERTY_CMD" -> "SET_PROPERTY_RESP"
      [] OTHER -> "none"

\* A peer that keeps its end open gets whole messages, and among them the
\* answers to its commands: in their order, each once and of the right kind,
\* with the notifications of binder threads between them; a read thread that
\* waits for a command owes no answer.  This is not so where the two kinds
\* were mixed (IsMixed), and nothing keeps them apart; nor where a command
\* arrived in parts (ReadExactlyReturnsWhatWasSent).
\* CommConn.cpp:44-72, SocketComm.cpp:193-214.
ResponsesFollowCommands ==
    \A c \in Conns \ (closed \cup parted) :
        LET understood == Understood(c)
            waits == readPc[c] \in {"header", "frame"} /\ totalRead[c] = 0
        IN  ~IsMixed(c) =>
                /\ IsWhole(c)
                /\ Len(Answers(c)) <= Len(understood)
                /\ waits => Len(Answers(c)) = Len(understood)
                /\ \A i \in DOMAIN Answers(c) :
                      Answers(c)[i].type = AnswerTo(CommandList[understood[i]].type)

\* A socket whose peer keeps its end open is told of each value that a client
\* set since the socket was registered, in whole messages and in one order for
\* all sockets, and before the mutex is free again.  So is the pipe, but in
\* any order, and before the setters return.  This is not so where messages
\* were mixed (IsMixed): on a socket an answer with a notification, while two
\* notifications never are; on the pipe any two messages.
\* SocketComm.cpp:63-68, VehicleEmulator.cpp:64-75.
ConnectionsAreTold ==
    \A c \in Conns \ closed :
        LET since == SubSeq(sent, joined[c] + 1, Len(sent))
            tell == [i \in DOMAIN since |-> doSetValueFromClient(since[i])]
        IN  ~IsMixed(c) =>
                /\ IsWhole(c)
                /\ CASE c \in Pipes ->
                          /\ ToSet(Told(c)) \subseteq ToSet(tell)
                          /\ Len(Told(c)) <= Len(tell)
                          /\ (\A s \in Setters : setterPc[s] = "idle") =>
                                /\ Len(Told(c)) = Len(tell)
                                /\ ToSet(Told(c)) = ToSet(tell)
                     [] c \in ToSet(mOpenConnections) ->
                          /\ IsPrefix(Told(c), tell)
                          /\ mMutex = NoOne => Told(c) = tell
                     [] OTHER -> Told(c) = <<>>

\* "Reads, in a loop, exactly numBytes from the given fd ... will return
\* exactly the given number of bytes", SocketComm.cpp:142-145.
ReadExactlyReturnsWhatWasSent ==
    \A c \in Sockets :
        readPc[c] \in {"header", "body"} /\ ~IsReading(c) =>
            /\ consumed[c] = begun[c] + wanted[c]
            /\ buffer[c] = SubSeq(Stream(c), begun[c] + 1, consumed[c])

=============================================================================
