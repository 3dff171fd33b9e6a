--------------------- MODULE EmulatorConnectionsProofs ---------------------
(***************************************************************************)
(* Proofs about EmulatorConnections, for any number of peers, setters and  *)
(* commands, with reads that return parts and peers that close.            *)
(*                                                                         *)
(* The stream of a connection is followed as its peer sees it: all pieces  *)
(* that all threads write to it.  While no other thread has come between a *)
(* length and its body (~IsMixed), it consists of whole messages, and an   *)
(* odd piece at its end is the length of the one thread that is in between *)
(* (Framed).  Two setters cannot be in between on the same socket, since   *)
(* one of them holds mMutex.  From there the messages in the stream are    *)
(* counted: the notifications against the values that were set, and the    *)
(* answers against the frames that the read thread has taken.              *)
(***************************************************************************)
EXTENDS EmulatorConnections, SelectionProofs

-----------------------------------------------------------------------------
(***************************************************************************)
(* The inductive invariant.                                                *)
(***************************************************************************)

\* A value of a property, and all messages and pieces of them.
AnyValues ==
    Values \cup {InitialValue} \cup {CommandList[k].value : k \in DOMAIN CommandList}
Settings == Configured \X Values
Messages ==
    [type : {"GET_CONFIG_RESP", "GET_CONFIG_ALL_RESP", "GET_PROPERTY_RESP",
             "GET_PROPERTY_ALL_RESP", "SET_PROPERTY_RESP", "SET_PROPERTY_ASYNC", "none"},
     status : {"RESULT_OK", "ERROR_INVALID_PROPERTY", "ERROR_UNIMPLEMENTED_CMD"},
     values : SUBSET (Configured \cup (Configured \X AnyValues))]
Notifications == {m \in Messages : m.type = "SET_PROPERTY_ASYNC"}
Replies == {m \in Messages : m.type # "SET_PROPERTY_ASYNC"}
Writers == Conns \cup Setters
Pieces == [from : Writers, part : {"length", "data"}, message : Messages]
Bodies == {0} \cup DOMAIN CommandList

Answering == {"length", "data"}

TypeOK ==
    /\ halValues \in [Configured -> AnyValues]
    /\ listening \in Sockets \cup {NoOne}
    /\ mOpenConnections \in Seq(Sockets)
    /\ mMutex \in Setters \cup {NoOne}
    /\ commands \in [Conns -> Seq(Bodies)]
    /\ closed \subseteq Conns
    /\ readPc \in [Conns -> {"none", "header", "frame", "body", "ended"} \cup Answering]
    /\ response \in [Conns -> Messages \cup {NoOne}]
    /\ DOMAIN buffer = Conns /\ DOMAIN totalRead = Conns /\ DOMAIN consumed = Conns
    /\ DOMAIN wanted = Conns /\ DOMAIN begun = Conns
    /\ written \in [Conns -> Seq(Pieces)]
    /\ setterPc \in [Setters -> {"idle", "tell", "sockets", "pipe"}]
    /\ setting \in [Setters -> Settings \cup {NoOne}]
    /\ targets \in [Setters -> Seq(Conns)]
    /\ part \in [Setters -> {"length", "data"}]
    /\ sent \in Seq(Settings)
    /\ joined \in [Conns -> Nat]
    /\ parted \subseteq Conns

\* Who is on its way has a value to tell or an answer to write.
OnTheWay ==
    /\ \A s \in Setters : setterPc[s] # "idle" => setting[s] \in Settings
    /\ \A c \in Conns : readPc[c] \in Answering => response[c] \in Replies

\* The setter that holds the mutex is the one that writes to sockets.
Turns ==
    \A s \in Setters :
        /\ setterPc[s] = "sockets" <=> mMutex = s
        /\ setterPc[s] \in {"idle", "tell"} => targets[s] = <<>>
        /\ setterPc[s] = "sockets" => /\ IsInjective(targets[s])
                                      /\ ToSet(targets[s]) \subseteq ToSet(mOpenConnections)
        /\ setterPc[s] = "pipe" => Len(targets[s]) <= 1 /\ ToSet(targets[s]) \subseteq Pipes
        /\ part[s] = "data" => targets[s] # <<>>

\* A connection is registered once, after its read thread has been started.
RegisteredOnce ==
    /\ IsInjective(mOpenConnections)
    /\ listening \notin ToSet(mOpenConnections)
    /\ \A c \in Sockets : c = listening \/ c \in ToSet(mOpenConnections) => readPc[c] # "none"
    /\ \A c \in Conns : joined[c] <= Len(sent)
    /\ \A c \in Pipes : joined[c] = 0

\* A thread that has written the length of its message to c and not the body.
IsBetween(t, c) ==
    IF t \in Setters THEN targets[t] # <<>> /\ Head(targets[t]) = c /\ part[t] = "data"
    ELSE t = c /\ readPc[c] = "data"
Message(t) == IF t \in Setters THEN doSetValueFromClient(setting[t]) ELSE response[t]

Framed(c) ==
    LET n == Len(written[c])
    IN  /\ IsWhole(c)
        /\ \A t \in Writers : IsBetween(t, c) => n % 2 = 1 /\ written[c][n].from = t
        /\ n % 2 = 1 => /\ IsBetween(written[c][n].from, c)
                        /\ written[c][n].message = Message(written[c][n].from)

Streams == \A c \in Conns \ closed : ~IsMixed(c) => Framed(c)

Since(c) == SubSeq(sent, joined[c] + 1, Len(sent))
ToTell(c) == [i \in DOMAIN Since(c) |-> doSetValueFromClient(Since(c)[i])]

\* A socket that the holder of the mutex has not told yet, and the one message
\* that it still has to get.
IsNext(c) == mMutex # NoOne /\ c \in ToSet(targets[mMutex])

SocketTold(c) ==
    IF c \in ToSet(mOpenConnections)
    THEN ToTell(c) = IF IsNext(c) THEN Append(Told(c), Message(mMutex)) ELSE Told(c)
    ELSE Told(c) = <<>>

\* The setters that have told the sockets, or are about to, and not the pipe.
Busy == {s \in Setters : setterPc[s] = "sockets" \/ (setterPc[s] = "pipe" /\ targets[s] # <<>>)}

PipeTold(c) ==
    /\ Len(Told(c)) + Cardinality(Busy) = Len(sent)
    /\ ToSet(Told(c)) \cup {Message(s) : s \in Busy} =
           {doSetValueFromClient(x) : x \in ToSet(sent)}

IsTold(c) == IF c \in Pipes THEN PipeTold(c) ELSE SocketTold(c)
AllTold == \A c \in Conns \ closed : ~IsMixed(c) => IsTold(c)

\* Where a read thread is in its stream: the frames that it has taken, and
\* what it has in its buffer.
Taken(c) == consumed[c] \div FRAME

InFrame(c) ==
    \/ readPc[c] = "header" /\ totalRead[c] = HEADER
    \/ readPc[c] = "body" /\ totalRead[c] = 0

HasBody(c) == readPc[c] = "body" /\ totalRead[c] = HEADER

AtFrame(c) ==
    /\ {totalRead[c], consumed[c], wanted[c], begun[c]} \subseteq Nat
    /\ IF InFrame(c)
       THEN consumed[c] = FRAME * Taken(c) + HEADER /\ Taken(c) < Len(commands[c])
       ELSE consumed[c] = FRAME * Taken(c) /\ Taken(c) <= Len(commands[c])
    /\ readPc[c] \in {"header", "body"} =>
          /\ wanted[c] = HEADER /\ totalRead[c] \in {0, HEADER}
          /\ begun[c] + totalRead[c] = consumed[c]
          /\ totalRead[c] = 0 => DOMAIN buffer[c] = 1 .. HEADER
    /\ readPc[c] = "header" /\ totalRead[c] = HEADER => buffer[c] = <<0, 2>>
    /\ HasBody(c) => Taken(c) > 0 /\ buffer[c] = <<commands[c][Taken(c)], commands[c][Taken(c)]>>
    /\ readPc[c] \in Answering =>
          /\ Taken(c) > 0 /\ commands[c][Taken(c)] \in DOMAIN CommandList
          /\ response[c].type = AnswerTo(CommandList[commands[c][Taken(c)]].type)

Reads == \A c \in Conns \ parted : AtFrame(c)

\* The answers that a peer got are those to the commands that were taken, but
\* for the last one while it is being answered.
Owes(c) ==
    \/ readPc[c] \in Answering
    \/ HasBody(c) /\ commands[c][Taken(c)] \in DOMAIN CommandList

Answered(c) ==
    /\ Len(Understood(c)) = IF Owes(c) THEN Len(Answers(c)) + 1 ELSE Len(Answers(c))
    /\ \A i \in DOMAIN Answers(c) :
          Answers(c)[i].type = AnswerTo(CommandList[Understood(c)[i]].type)

AllAnswered == \A c \in Conns \ (closed \cup parted) : ~IsMixed(c) => Answered(c)

Inv ==
    /\ TypeOK /\ OnTheWay /\ Turns /\ RegisteredOnce
    /\ Streams /\ AllTold /\ Reads /\ AllAnswered

-----------------------------------------------------------------------------
(***************************************************************************)
(* Lemmas about sequences.                                                 *)
(***************************************************************************)

LEMMA FunctionIsSeq ==
    ASSUME NEW S, NEW n \in Nat, NEW f \in [1 .. n -> S]
    PROVE  f \in Seq(S) /\ Len(f) = n
OBVIOUS

LEMMA TwoOfSeq ==
    ASSUME NEW T, NEW s \in Seq(T), NEW m \in Nat, m + 2 <= Len(s)
    PROVE  SubSeq(s, m + 1, m + 2) = <<s[m + 1], s[m + 2]>>
<1> DEFINE a == SubSeq(s, m + 1, m + 2)
           x == s[m + 1]
           y == s[m + 2]
           b == <<x, y>>
<1>1. x \in T /\ y \in T
  OBVIOUS
<1>2. a \in Seq(T) /\ Len(a) = 2 /\ a[1] = x /\ a[2] = y
  OBVIOUS
<1> HIDE DEF a, x, y
<1>3. b \in Seq(T) /\ Len(b) = 2 /\ b[1] = x /\ b[2] = y
  BY <1>1
<1> HIDE DEF b
<1>4. a = b
  <2>1. \A i \in 1 .. 2 : a[i] = b[i]
    BY <1>2, <1>3
  <2> QED
    BY <1>2, <1>3, <2>1
<1> QED
  BY <1>4 DEF a, b, x, y

\* What is left of the connections that a setter has to write to.
LEMMA TailOfTargets ==
    ASSUME NEW T, NEW s \in Seq(T), s # <<>>
    PROVE  /\ Head(s) \in T /\ Tail(s) \in Seq(T) /\ Len(Tail(s)) = Len(s) - 1
           /\ ToSet(s) = {Head(s)} \cup ToSet(Tail(s))
           /\ IsInjective(s) => IsInjective(Tail(s)) /\ Head(s) \notin ToSet(Tail(s))
<1>1. PICK h, t : h = Head(s) /\ t = Tail(s)
  OBVIOUS
<1>2. /\ Len(s) \in Nat /\ Len(s) > 0 /\ h = s[1] /\ h \in T /\ t \in Seq(T)
      /\ Len(t) = Len(s) - 1 /\ \A i \in 1 .. Len(t) : t[i] = s[i + 1]
  BY <1>1
<1>3. DOMAIN s = 1 .. Len(s) /\ DOMAIN t = 1 .. Len(t) /\ Len(t) \in Nat
  BY <1>2
<1>4. \A i \in 1 .. Len(s) : i = 1 \/ (i - 1 \in 1 .. Len(t) /\ s[i] = t[i - 1])
  BY <1>2, <1>3
<1>5. \A i \in 1 .. Len(t) : i + 1 \in 1 .. Len(s) /\ i + 1 # 1
  BY <1>2, <1>3
<1>6. ToSet(s) = {h} \cup ToSet(t)
  <2>1. ToSet(s) \subseteq {h} \cup ToSet(t)
    BY <1>2, <1>3, <1>4 DEF ToSet
  <2>2. h \in ToSet(s)
    BY <1>2, <1>3 DEF ToSet
  <2>3. ToSet(t) \subseteq ToSet(s)
    BY <1>2, <1>3, <1>5 DEF ToSet
  <2> QED
    BY <2>1, <2>2, <2>3
<1>7. ASSUME IsInjective(s)
      PROVE  IsInjective(t) /\ h \notin ToSet(t)
  <2>1. \A i, j \in 1 .. Len(s) : s[i] = s[j] => i = j
    BY <1>3, <1>7 DEF IsInjective
  <2>2. ASSUME NEW i \in 1 .. Len(t), NEW j \in 1 .. Len(t), t[i] = t[j]
        PROVE  i = j
    <3>1. i + 1 = j + 1
      BY <1>2, <1>5, <2>1, <2>2
    <3> QED
      BY <1>3, <3>1
  <2>3. \A i \in 1 .. Len(t) : t[i] # h
    <3>1. 1 \in 1 .. Len(s)
      BY <1>2
    <3> QED
      BY <1>2, <1>5, <2>1, <3>1
  <2>4. IsInjective(t)
    BY <1>3, <2>2 DEF IsInjective
  <2> QED
    BY <1>3, <2>3, <2>4 DEF ToSet
<1> QED
  BY <1>1, <1>2, <1>6, <1>7

-----------------------------------------------------------------------------
(***************************************************************************)
(* One more piece in a stream.                                             *)
(***************************************************************************)

\* The messages of a stream.
LEMMA ReceivedTypes ==
    ASSUME NEW c, written[c] \in Seq(Pieces)
    PROVE  /\ Received(c) \in Seq(Messages) /\ Len(Received(c)) = Len(written[c]) \div 2
           /\ Len(written[c]) \in Nat /\ Len(written[c]) \div 2 \in Nat
           /\ \A i \in 1 .. Len(written[c]) \div 2 :
                 Received(c)[i] = written[c][2 * i].message
<1> DEFINE n == Len(written[c]) \div 2
           r == [i \in 1 .. n |-> written[c][2 * i].message]
<1>1. Len(written[c]) \in Nat
  OBVIOUS
<1>2. r = Received(c)
  BY DEF Received
<1>7. n \in Nat /\ 2 * n <= Len(written[c])
  <2>1. \A k \in Nat : k \div 2 \in Nat /\ 2 * (k \div 2) <= k
    OBVIOUS
  <2> QED
    BY <1>1, <2>1
<1>3. \A i \in 1 .. n : written[c][2 * i] \in Pieces
  <2> HIDE DEF n
  <2>1. \A i \in 1 .. n : 2 * i \in 1 .. Len(written[c])
    BY <1>1, <1>7
  <2> QED
    BY <2>1
<1> HIDE DEF n
<1>4. r \in [1 .. n -> Messages]
  BY <1>3 DEF Pieces
<1>5. \A i \in 1 .. n : r[i] = written[c][2 * i].message
  OBVIOUS
<1> HIDE DEF r
<1>6. r \in Seq(Messages) /\ Len(r) = n
  BY <1>4, <1>7, FunctionIsSeq
<1> QED
  BY <1>1, <1>2, <1>5, <1>6, <1>7 DEF n

\* A piece is there, and those before it stay.
LEMMA PieceAppended ==
    ASSUME NEW c, NEW x \in Pieces, written[c] \in Seq(Pieces),
           written'[c] = Append(written[c], x)
    PROVE  /\ Len(written[c]) \in Nat /\ Len(written'[c]) = Len(written[c]) + 1
           /\ written'[c] \in Seq(Pieces)
           /\ DOMAIN written[c] = 1 .. Len(written[c])
           /\ DOMAIN written'[c] = 1 .. Len(written[c]) + 1
           /\ written'[c][Len(written[c]) + 1] = x
           /\ \A i \in 1 .. Len(written[c]) : written'[c][i] = written[c][i]
OBVIOUS

\* What is mixed stays so, and so becomes a stream where another thread's piece
\* follows a length without a lock.
LEMMA MixedStays ==
    ASSUME NEW c, NEW x \in Pieces, written[c] \in Seq(Pieces),
           written'[c] = Append(written[c], x), IsMixed(c)
    PROVE  IsMixed(c)'
<1> DEFINE n == Len(written[c])
<1>1. /\ n \in Nat /\ Len(written'[c]) = n + 1
      /\ DOMAIN written[c] = 1 .. n /\ DOMAIN written'[c] = 1 .. n + 1
      /\ \A i \in 1 .. n : written'[c][i] = written[c][i]
  BY PieceAppended
<1>2. PICK i \in 1 .. n : /\ i < n /\ written[c][i].part = "length"
                          /\ written[c][i + 1].from # written[c][i].from
                          /\ c \in Pipes \cup {written[c][i].from, written[c][i + 1].from}
  BY <1>1 DEF IsMixed
<1> HIDE DEF n
<1>3. i + 1 \in 1 .. n /\ i \in 1 .. n + 1 /\ i < n + 1
  BY <1>1, <1>2
<1>4. written'[c][i] = written[c][i] /\ written'[c][i + 1] = written[c][i + 1]
  BY <1>1, <1>3
<1> QED
  BY <1>1, <1>2, <1>3, <1>4 DEF IsMixed

LEMMA MixedByPiece ==
    ASSUME NEW c, NEW x \in Pieces, written[c] \in Seq(Pieces),
           written'[c] = Append(written[c], x), ~IsMixed(c)', Len(written[c]) > 0,
           LET last == written[c][Len(written[c])]
           IN  /\ last.part = "length" /\ last.from # x.from
               /\ c \in Pipes \cup {last.from, x.from}
    PROVE  FALSE
<1> DEFINE n == Len(written[c])
<1>1. /\ n \in Nat /\ Len(written'[c]) = n + 1
      /\ DOMAIN written'[c] = 1 .. n + 1 /\ written'[c][n + 1] = x
      /\ \A i \in 1 .. n : written'[c][i] = written[c][i]
  BY PieceAppended
<1>2. n \in 1 .. n + 1 /\ n < n + 1 /\ written'[c][n] = written[c][n]
  BY <1>1
<1> QED
  BY <1>1, <1>2 DEF IsMixed

\* A length after whole messages.
LEMMA LengthAppended ==
    ASSUME NEW c, NEW x \in Pieces, written[c] \in Seq(Pieces),
           written'[c] = Append(written[c], x),
           IsWhole(c), Len(written[c]) % 2 = 0, x.part = "length"
    PROVE  /\ IsWhole(c)' /\ Received(c)' = Received(c)
           /\ Len(written'[c]) % 2 = 1 /\ written'[c][Len(written'[c])] = x
<1> DEFINE n == Len(written[c])
<1>1. /\ n \in Nat /\ Len(written'[c]) = n + 1 /\ written'[c] \in Seq(Pieces)
      /\ DOMAIN written[c] = 1 .. n
      /\ DOMAIN written'[c] = 1 .. n + 1 /\ written'[c][n + 1] = x
      /\ \A i \in 1 .. n : written'[c][i] = written[c][i]
  BY PieceAppended
<1>2. n % 2 = 0
  OBVIOUS
<1> HIDE DEF n
<1>3. (n + 1) % 2 = 1 /\ (n + 1) \div 2 = n \div 2
  BY <1>1, <1>2
<1>4. IsWhole(c)'
  <2>1. ASSUME NEW i \in 1 .. n + 1
        PROVE  IF i % 2 = 1 THEN written'[c][i].part = "length"
               ELSE written'[c][i] = [written'[c][i - 1] EXCEPT !.part = "data"]
    <3>1. CASE i = n + 1
      BY <1>1, <1>3, <3>1
    <3>2. CASE i \in 1 .. n
      <4>1. i % 2 # 1 => i - 1 \in 1 .. n
        BY <1>1, <3>2
      <4> QED
        BY <1>1, <3>2, <4>1 DEF IsWhole
    <3>3. i = n + 1 \/ i \in 1 .. n
      BY <1>1
    <3> QED
      BY <3>1, <3>2, <3>3
  <2> QED
    BY <1>1, <2>1 DEF IsWhole
<1>5. Received(c)' = Received(c)
  <2>1. \A i \in 1 .. n \div 2 : 2 * i \in 1 .. n
    BY <1>1
  <2>2. \A i \in 1 .. n \div 2 : written'[c][2 * i] = written[c][2 * i]
    BY <1>1, <2>1
  <2>3. Len(written'[c]) \div 2 = n \div 2 /\ Len(written[c]) \div 2 = n \div 2
    BY <1>1, <1>3 DEF n
  <2> QED
    BY <2>2, <2>3 DEF Received
<1> QED
  BY <1>1, <1>3, <1>4, <1>5

\* The body of the length before it.
LEMMA BodyAppended ==
    ASSUME NEW c, NEW x \in Pieces, written[c] \in Seq(Pieces),
           written'[c] = Append(written[c], x),
           IsWhole(c), Len(written[c]) % 2 = 1, x.part = "data",
           written[c][Len(written[c])].from = x.from,
           written[c][Len(written[c])].message = x.message
    PROVE  /\ IsWhole(c)' /\ Received(c)' = Append(Received(c), x.message)
           /\ Len(written'[c]) % 2 = 0
<1> DEFINE n == Len(written[c])
<1>1. /\ n \in Nat /\ Len(written'[c]) = n + 1 /\ written'[c] \in Seq(Pieces)
      /\ DOMAIN written[c] = 1 .. n
      /\ DOMAIN written'[c] = 1 .. n + 1 /\ written'[c][n + 1] = x
      /\ \A i \in 1 .. n : written'[c][i] = written[c][i]
  BY PieceAppended
<1>2. n % 2 = 1 /\ written[c][n].from = x.from /\ written[c][n].message = x.message
  OBVIOUS
<1>3. /\ (n + 1) % 2 = 0 /\ (n + 1) \div 2 = n \div 2 + 1 /\ n \in 1 .. n
      /\ 2 * (n \div 2 + 1) = n + 1 /\ n \div 2 \in Nat
  <2> HIDE DEF n
  <2> QED
    BY <1>1, <1>2
<1>4. x = [written[c][n] EXCEPT !.part = "data"]
  <2>1. written[c][n] \in Pieces
    BY <1>1, <1>3
  <2> HIDE DEF n
  <2> QED
    BY <1>2, <2>1 DEF Pieces
<1> HIDE DEF n
<1>5. IsWhole(c)'
  <2>1. ASSUME NEW i \in 1 .. n + 1
        PROVE  IF i % 2 = 1 THEN written'[c][i].part = "length"
               ELSE written'[c][i] = [written'[c][i - 1] EXCEPT !.part = "data"]
    <3>1. CASE i = n + 1
      <4>1. i - 1 = n /\ i % 2 = 0
        BY <1>1, <1>3, <3>1
      <4>2. written'[c][i] = x /\ written'[c][i - 1] = written[c][n]
        BY <1>1, <1>3, <3>1, <4>1
      <4>3. written'[c][i] = [written'[c][i - 1] EXCEPT !.part = "data"]
        BY <1>4, <4>2
      <4> QED
        BY <4>1, <4>3
    <3>2. CASE i \in 1 .. n
      <4>1. i % 2 # 1 => i - 1 \in 1 .. n
        BY <1>1, <3>2
      <4>2. IF i % 2 = 1 THEN written[c][i].part = "length"
            ELSE written[c][i] = [written[c][i - 1] EXCEPT !.part = "data"]
        BY <1>1, <3>2 DEF IsWhole
      <4>3. written'[c][i] = written[c][i]
        BY <1>1, <3>2
      <4>4. CASE i % 2 = 1
        BY <4>2, <4>3, <4>4
      <4>5. CASE i % 2 # 1
        <5>1. written'[c][i - 1] = written[c][i - 1]
          BY <1>1, <4>1, <4>5
        <5> QED
          BY <4>2, <4>3, <4>5, <5>1
      <4> QED
        BY <4>4, <4>5
    <3>3. i = n + 1 \/ i \in 1 .. n
      BY <1>1
    <3> QED
      BY <3>1, <3>2, <3>3
  <2> QED
    BY <1>1, <2>1 DEF IsWhole
<1>6. Received(c)' = Append(Received(c), x.message)
  <2> DEFINE m == n \div 2
             r == Received(c)
             r2 == Received(c)'
             a == Append(r, x.message)
  <2>1. r \in Seq(Messages) /\ Len(r) = m /\ \A i \in 1 .. m : r[i] = written[c][2 * i].message
    BY ReceivedTypes DEF n
  <2>2. /\ r2 \in Seq(Messages) /\ Len(r2) = m + 1
        /\ \A i \in 1 .. m + 1 : r2[i] = written'[c][2 * i].message
    <3>1. Len(written'[c]) \div 2 = m + 1
      BY <1>1, <1>3
    <3>2. /\ [i \in 1 .. Len(written'[c]) \div 2 |-> written'[c][2 * i].message] = r2
      BY DEF Received
    <3>3. \A i \in 1 .. m + 1 : written'[c][2 * i] \in Pieces
      <4>1. \A i \in 1 .. m + 1 : 2 * i \in 1 .. n + 1
        BY <1>1, <1>3
      <4> HIDE DEF m
      <4> QED
        BY <1>1, <4>1
    <3>4. m + 1 \in Nat
      BY <1>3
    <3> HIDE DEF m, r2
    <3>5. r2 = [i \in 1 .. m + 1 |-> written'[c][2 * i].message]
      BY <3>1, <3>2
    <3>6. r2 \in [1 .. m + 1 -> Messages]
      BY <3>3, <3>5 DEF Pieces
    <3>7. r2 \in Seq(Messages) /\ Len(r2) = m + 1
      BY <3>4, <3>6, FunctionIsSeq
    <3> QED
      BY <3>5, <3>7
  <2>3. x.message \in Messages
    BY DEF Pieces
  <2>4. m \in Nat /\ 2 * (m + 1) = n + 1
    BY <1>3
  <2>5. \A i \in 1 .. m : 2 * i \in 1 .. n
    BY <1>1
  <2> HIDE DEF m, r, r2
  <2>6. a \in Seq(Messages) /\ Len(a) = m + 1 /\ a[m + 1] = x.message
        /\ \A i \in 1 .. m : a[i] = r[i]
    BY <2>1, <2>3, <2>4
  <2> HIDE DEF a
  <2>7. ASSUME NEW i \in 1 .. m + 1
        PROVE  r2[i] = a[i]
    <3>1. CASE i = m + 1
      BY <1>1, <2>2, <2>4, <2>6, <3>1
    <3>2. CASE i \in 1 .. m
      BY <1>1, <2>1, <2>2, <2>5, <2>6, <3>2
    <3> QED
      BY <2>4, <3>1, <3>2
  <2>8. r2 = a
    BY <2>2, <2>4, <2>6, <2>7, SeqEqual
  <2> QED
    BY <2>8 DEF r, r2, a
<1> QED
  BY <1>1, <1>3, <1>5, <1>6

-----------------------------------------------------------------------------
(***************************************************************************)
(* The stream of a connection, as threads write to it.                     *)
(***************************************************************************)

\* The messages that tell and those that answer.
LEMMA ToldTypes ==
    ASSUME NEW c, written[c] \in Seq(Pieces)
    PROVE  /\ Told(c) = Selected(Received(c), Notifications)
           /\ Answers(c) = Selected(Received(c), Replies)
           /\ Told(c) \in Seq(Messages) /\ Answers(c) \in Seq(Messages)
           /\ Received(c) \in Seq(Messages)
<1>1. PICK r : r = Received(c)
  OBVIOUS
<1>2. r \in Seq(Messages)
  BY <1>1, ReceivedTypes
<1>3. ToSet(r) \subseteq Messages
  BY <1>2, ToSetOfSeq
<1> DEFINE A == {m \in ToSet(r) : m.type = "SET_PROPERTY_ASYNC"}
           B == {m \in ToSet(r) : m.type # "SET_PROPERTY_ASYNC"}
<1>4. ToSet(r) \cap A = ToSet(r) \cap Notifications /\ ToSet(r) \cap B = ToSet(r) \cap Replies
  BY <1>3 DEF Notifications, Replies
<1>5. Told(c) = Selected(r, A) /\ Answers(c) = Selected(r, B)
  BY <1>1 DEF Told, Answers
<1> HIDE DEF A, B
<1>6. Told(c) = Selected(r, Notifications) /\ Answers(c) = Selected(r, Replies)
  BY <1>2, <1>4, <1>5, SelectedAgrees
<1>7. Selected(r, Notifications) \in Seq(Messages) /\ Selected(r, Replies) \in Seq(Messages)
  BY <1>2, SelectedElements
<1> QED
  BY <1>1, <1>2, <1>6, <1>7

LEMMA NothingReceived ==
    ASSUME NEW c, written[c] \in Seq(Pieces), written'[c] \in Seq(Pieces),
           Received(c)' = Received(c)
    PROVE  Told(c)' = Told(c) /\ Answers(c)' = Answers(c)
BY DEF Told, Answers

LEMMA MessageReceived ==
    ASSUME NEW c, written[c] \in Seq(Pieces), written'[c] \in Seq(Pieces),
           NEW m \in Messages, Received(c)' = Append(Received(c), m)
    PROVE  /\ m \in Notifications =>
                 Told(c)' = Append(Told(c), m) /\ Answers(c)' = Answers(c)
           /\ m \in Replies =>
                 Told(c)' = Told(c) /\ Answers(c)' = Append(Answers(c), m)
<1>1. PICK r : r = Received(c)
  OBVIOUS
<1>2. /\ Told(c) = Selected(r, Notifications) /\ Answers(c) = Selected(r, Replies)
      /\ r \in Seq(Messages)
  BY <1>1, ToldTypes
<1>3. /\ Told(c)' = Selected(Append(r, m), Notifications)
      /\ Answers(c)' = Selected(Append(r, m), Replies)
  <2> DEFINE q == Received(c)'
             A == {x \in ToSet(q) : x.type = "SET_PROPERTY_ASYNC"}
             B == {x \in ToSet(q) : x.type # "SET_PROPERTY_ASYNC"}
  <2>1. q = Append(r, m)
    BY <1>1
  <2>2. Told(c)' = Selected(q, A) /\ Answers(c)' = Selected(q, B)
    BY DEF Told, Answers
  <2> HIDE DEF q
  <2>3. q \in Seq(Messages)
    BY <1>2, <2>1
  <2>4. ToSet(q) \subseteq Messages
    BY <2>3, ToSetOfSeq
  <2>5. /\ ToSet(q) \cap A = ToSet(q) \cap Notifications
        /\ ToSet(q) \cap B = ToSet(q) \cap Replies
    BY <2>4 DEF Notifications, Replies
  <2> HIDE DEF A, B
  <2>6. Selected(q, A) = Selected(q, Notifications) /\ Selected(q, B) = Selected(q, Replies)
    BY <2>3, <2>5, SelectedAgrees
  <2> QED
    BY <2>1, <2>2, <2>6
<1>4. /\ Selected(Append(r, m), Notifications) =
             IF m \in Notifications THEN Append(Selected(r, Notifications), m)
             ELSE Selected(r, Notifications)
      /\ Selected(Append(r, m), Replies) =
             IF m \in Replies THEN Append(Selected(r, Replies), m) ELSE Selected(r, Replies)
  BY <1>2, SelectedAppend
<1>5. ~(m \in Notifications /\ m \in Replies)
  BY DEF Notifications, Replies
<1> QED
  BY <1>2, <1>3, <1>4, <1>5

\* A stream that nobody writes to.
LEMMA StreamStays ==
    ASSUME NEW c, written'[c] = written[c]
    PROVE  /\ IsMixed(c)' = IsMixed(c) /\ IsWhole(c)' = IsWhole(c)
           /\ Received(c)' = Received(c) /\ Told(c)' = Told(c) /\ Answers(c)' = Answers(c)
<1>1. IsMixed(c)' = IsMixed(c)
  BY DEF IsMixed
<1>2. IsWhole(c)' = IsWhole(c)
  BY DEF IsWhole
<1>3. Received(c)' = Received(c)
  BY DEF Received
<1>4. Told(c)' = Told(c) /\ Answers(c)' = Answers(c)
  BY <1>3 DEF Told, Answers
<1> QED
  BY <1>1, <1>2, <1>3, <1>4

LEMMA FramedStays ==
    ASSUME TypeOK, Streams, NEW c \in Conns \ closed, written'[c] = written[c],
           \A t \in Writers : /\ IsBetween(t, c)' <=> IsBetween(t, c)
                              /\ IsBetween(t, c) => Message(t)' = Message(t)
    PROVE  ~IsMixed(c)' => Framed(c)'
<1> SUFFICES ASSUME ~IsMixed(c)'
             PROVE  Framed(c)'
  OBVIOUS
<1>1. Framed(c) /\ IsWhole(c)'
  BY StreamStays DEF Streams, Framed
<1>2. PICK n \in Nat : n = Len(written[c]) /\ n = Len(written'[c])
  <2>1. written[c] \in Seq(Pieces)
    BY DEF TypeOK
  <2>2. Len(written[c]) \in Nat
    BY <2>1
  <2> QED
    BY <2>2
<1>3. DOMAIN written[c] = 1 .. n /\ written[c] \in Seq(Pieces)
  BY <1>2 DEF TypeOK
<1>4. \A t \in Writers : IsBetween(t, c)' => n % 2 = 1 /\ written'[c][n].from = t
  BY <1>1, <1>2 DEF Framed
<1>5. ASSUME n % 2 = 1
      PROVE  /\ IsBetween(written[c][n].from, c)'
             /\ (written[c][n].message = Message(written[c][n].from))'
  <2>1. n \in 1 .. n
    BY <1>5
  <2>2. written[c][n] \in Pieces
    BY <1>3, <2>1
  <2>3. PICK u \in Writers : u = written[c][n].from
    BY <2>2 DEF Pieces
  <2>4. IsBetween(u, c) /\ written[c][n].message = Message(u)
    BY <1>1, <1>2, <1>5, <2>3 DEF Framed
  <2>5. IsBetween(u, c)' /\ Message(u)' = Message(u)
    BY <2>4
  <2>6. u = written'[c][n].from /\ written'[c][n].message = written[c][n].message
    BY <2>3
  <2> QED
    BY <2>4, <2>5, <2>6
<1> QED
  BY <1>1, <1>2, <1>4, <1>5 DEF Framed

\* A thread writes a length: nobody was in between, or the stream is mixed.
LEMMA MessageBegins ==
    ASSUME TypeOK, Streams, NEW c \in Conns \ closed, NEW t \in Writers, NEW x \in Pieces,
           x.from = t, x.part = "length", x.message = Message(t),
           written'[c] = Append(written[c], x),
           ~IsBetween(t, c), IsBetween(t, c)', Message(t)' = Message(t),
           \A u \in Writers \ {t} : /\ IsBetween(u, c)' => IsBetween(u, c)
                                    /\ IsBetween(u, c) => c \in Pipes \cup {t, u},
           ~IsMixed(c)'
    PROVE  ~IsMixed(c) /\ Framed(c)' /\ Received(c)' = Received(c)
<1> DEFINE n == Len(written[c])
<1>1. written[c] \in Seq(Pieces) /\ n \in Nat
  BY DEF TypeOK
<1>2. ~IsMixed(c) /\ Framed(c)
  BY <1>1, MixedStays DEF Streams
<1>3. n % 2 = 0
  <2>1. SUFFICES ASSUME n % 2 = 1
                 PROVE  FALSE
    <3>1. n % 2 = 0 \/ n % 2 = 1
      <4> HIDE DEF n
      <4> QED
        BY <1>1
    <3> QED
      BY <2>1, <3>1
  <2> DEFINE u == written[c][n].from
  <2>2. IsBetween(u, c)
    BY <1>2, <2>1 DEF Framed
  <2>3. n > 0 /\ n \in 1 .. n
    <3> HIDE DEF n
    <3> QED
      BY <1>1, <2>1
  <2>4. written[c][n] \in Pieces /\ written[c][n].part = "length"
    <3>1. DOMAIN written[c] = 1 .. n
      BY <1>1
    <3>2. IsWhole(c)
      BY <1>2 DEF Framed
    <3> HIDE DEF n
    <3> QED
      BY <1>1, <2>1, <2>3, <3>1, <3>2 DEF IsWhole, TypeOK
  <2>5. u \in Writers \ {t}
    BY <2>2, <2>4 DEF Pieces
  <2>6. c \in Pipes \cup {t, u}
    BY <2>2, <2>5
  <2> QED
    BY <1>1, <2>3, <2>4, <2>5, <2>6, MixedByPiece
<1>4. IsWhole(c)
  BY <1>2 DEF Framed
<1>5. /\ IsWhole(c)' /\ Received(c)' = Received(c)
      /\ Len(written'[c]) % 2 = 1 /\ written'[c][Len(written'[c])] = x
  BY <1>1, <1>3, <1>4, LengthAppended
<1>6. \A u \in Writers : IsBetween(u, c)' => u = t
  <2>1. \A u \in Writers : ~IsBetween(u, c)
    <3>1. ~(n % 2 = 1)
      <4> HIDE DEF n
      <4> QED
        BY <1>3
    <3>2. \A u \in Writers : IsBetween(u, c) => n % 2 = 1
      BY <1>2 DEF Framed
    <3> QED
      BY <3>1, <3>2
  <2> QED
    BY <2>1
<1>7. Framed(c)'
  <2>1. PICK m : m = Len(written'[c])
    OBVIOUS
  <2>2. m % 2 = 1 /\ written'[c][m] = x /\ IsWhole(c)'
    BY <1>5, <2>1
  <2>3. \A u \in Writers : IsBetween(u, c)' => m % 2 = 1 /\ written'[c][m].from = u
    BY <1>6, <2>2
  <2>4. /\ IsBetween(written[c][m].from, c)'
        /\ (written[c][m].message = Message(written[c][m].from))'
    <3>1. written'[c][m].from = t /\ written'[c][m].message = Message(t)'
      BY <2>2
    <3> QED
      BY <3>1
  <2> QED
    BY <2>1, <2>2, <2>3, <2>4 DEF Framed
<1> QED
  BY <1>2, <1>5, <1>7

\* It writes the body: the length before it is its own.
LEMMA MessageEnds ==
    ASSUME TypeOK, Streams, NEW c \in Conns \ closed, NEW t \in Writers, NEW x \in Pieces,
           x.from = t, x.part = "data", x.message = Message(t),
           written'[c] = Append(written[c], x),
           IsBetween(t, c), ~IsBetween(t, c)',
           \A u \in Writers \ {t} : IsBetween(u, c)' => IsBetween(u, c),
           ~IsMixed(c)'
    PROVE  /\ ~IsMixed(c) /\ Framed(c)'
           /\ Received(c)' = Append(Received(c), x.message)
<1> DEFINE n == Len(written[c])
<1>1. written[c] \in Seq(Pieces) /\ n \in Nat
  BY DEF TypeOK
<1>2. ~IsMixed(c) /\ Framed(c)
  BY <1>1, MixedStays DEF Streams
<1>3. n % 2 = 1 /\ written[c][n].from = t
  BY <1>2 DEF Framed
<1>4. written[c][n].message = Message(t)
  BY <1>2, <1>3 DEF Framed
<1>5. /\ IsWhole(c)' /\ Received(c)' = Append(Received(c), x.message)
      /\ Len(written'[c]) % 2 = 0
  <2>1. IsWhole(c)
    BY <1>2 DEF Framed
  <2> QED
    BY <1>1, <1>3, <1>4, <2>1, BodyAppended
<1>6. \A u \in Writers : ~IsBetween(u, c)'
  <2>1. \A u \in Writers : IsBetween(u, c) => u = t
    BY <1>2, <1>3 DEF Framed
  <2> QED
    BY <2>1
<1>7. Framed(c)'
  <2>1. PICK m : m = Len(written'[c])
    OBVIOUS
  <2>2. m % 2 = 0
    BY <1>5, <2>1
  <2>3. ~(m % 2 = 1)
    BY <2>2
  <2>4. IsWhole(c)'
    BY <1>5
  <2> QED
    BY <1>6, <2>1, <2>3, <2>4 DEF Framed
<1> QED
  BY <1>2, <1>5, <1>7

\* Two setters write to the same connection only if it is a pipe.
LEMMA SettersExclude ==
    ASSUME TypeOK, Turns, NEW s \in Setters, NEW r \in Setters, r # s,
           targets[s] # <<>>, targets[r] # <<>>, Head(targets[s]) = Head(targets[r])
    PROVE  Head(targets[s]) \in Pipes
<1>1. /\ targets[s] \in Seq(Conns) /\ targets[r] \in Seq(Conns)
      /\ setterPc[s] \in {"idle", "tell", "sockets", "pipe"}
      /\ setterPc[r] \in {"idle", "tell", "sockets", "pipe"}
  BY DEF TypeOK
<1>2. /\ Head(targets[s]) \in ToSet(targets[s]) /\ Head(targets[r]) \in ToSet(targets[r])
  BY <1>1, TailOfTargets
<1>3. CASE setterPc[s] = "pipe"
  BY <1>2, <1>3 DEF Turns
<1>4. CASE setterPc[r] = "pipe"
  BY <1>2, <1>4 DEF Turns
<1>5. ~(setterPc[s] = "sockets" /\ setterPc[r] = "sockets")
  BY DEF Turns
<1>6. setterPc[s] \in {"sockets", "pipe"} /\ setterPc[r] \in {"sockets", "pipe"}
  BY <1>1 DEF Turns
<1> QED
  BY <1>3, <1>4, <1>5, <1>6

\* Who is in between does not change while nobody writes.
LEMMA BetweenStays ==
    ASSUME NEW c,
           \A s \in Setters : /\ part'[s] = part[s]
                              /\ part[s] = "data" => /\ targets'[s] = targets[s]
                                                     /\ setting'[s] = setting[s],
           \A d \in Conns : /\ readPc[d] = "data" <=> readPc'[d] = "data"
                            /\ readPc[d] = "data" => response'[d] = response[d]
    PROVE  \A t \in Writers : /\ IsBetween(t, c)' <=> IsBetween(t, c)
                              /\ IsBetween(t, c) => Message(t)' = Message(t)
<1>1. ASSUME NEW t \in Setters
      PROVE  /\ IsBetween(t, c)' <=> IsBetween(t, c)
             /\ IsBetween(t, c) => Message(t)' = Message(t)
  BY DEF IsBetween, Message
<1>2. ASSUME NEW t \in Conns, t \notin Setters
      PROVE  /\ IsBetween(t, c)' <=> IsBetween(t, c)
             /\ IsBetween(t, c) => Message(t)' = Message(t)
  BY <1>2 DEF IsBetween, Message
<1> QED
  BY <1>1, <1>2 DEF Writers

-----------------------------------------------------------------------------
(***************************************************************************)
(* Types, the mutex and registrations.                                     *)
(***************************************************************************)

LEMMA MessageTypes ==
    ASSUME halValues \in [Configured -> AnyValues]
    PROVE  /\ \A k \in DOMAIN CommandList : /\ processMessage(CommandList[k]) \in Messages
                                            /\ Applied(CommandList[k]) \in [Configured -> AnyValues]
           /\ \A x \in Settings : doSetValueFromClient(x) \in Messages
<1>1. ASSUME NEW p
      PROVE  /\ doGetConfig(p) \in Messages /\ doGetProperty(p) \in Messages
             /\ doSetProperty(p) \in Messages
  <2>1. doGetConfig(p) \in Messages
    BY DEF doGetConfig, Response, OkOrInvalid, Messages
  <2>2. doGetProperty(p) \in Messages
    <3>1. {<<q, halValues[q]>> : q \in {p} \cap Configured} \in
              SUBSET (Configured \cup (Configured \X AnyValues))
      OBVIOUS
    <3> QED
      BY <3>1 DEF doGetProperty, Response, OkOrInvalid, Messages
  <2>3. doSetProperty(p) \in Messages
    BY DEF doSetProperty, Response, OkOrInvalid, Messages
  <2> QED
    BY <2>1, <2>2, <2>3
<1>2. doGetConfigAll \in Messages
  BY DEF doGetConfigAll, Response, Messages
<1>3. doGetPropertyAll \in Messages
  <2>1. {<<q, halValues[q]>> : q \in Configured} \in
            SUBSET (Configured \cup (Configured \X AnyValues))
    OBVIOUS
  <2> QED
    BY <2>1 DEF doGetPropertyAll, Response, Messages
<1>4. Unimplemented \in Messages
  BY DEF Unimplemented, Response, Messages
<1>5. ASSUME NEW k \in DOMAIN CommandList
      PROVE  processMessage(CommandList[k]) \in Messages
  BY <1>1, <1>2, <1>3, <1>4 DEF processMessage
<1>6. ASSUME NEW k \in DOMAIN CommandList
      PROVE  Applied(CommandList[k]) \in [Configured -> AnyValues]
  <2>1. CommandList[k].value \in AnyValues
    BY DEF AnyValues
  <2> QED
    BY <2>1 DEF Applied
<1>7. ASSUME NEW x \in Settings
      PROVE  doSetValueFromClient(x) \in Messages
  BY DEF doSetValueFromClient, Response, Messages, Settings, AnyValues
<1> QED
  BY <1>5, <1>6, <1>7

LEMMA RepliesInKind ==
    ASSUME NEW k \in DOMAIN CommandList
    PROVE  /\ processMessage(CommandList[k]).type = AnswerTo(CommandList[k].type)
           /\ processMessage(CommandList[k]).type # "SET_PROPERTY_ASYNC"
BY DEF processMessage, AnswerTo, doGetConfig, doGetConfigAll, doGetProperty, doGetPropertyAll,
       doSetProperty, Unimplemented, Response

\* A setter's message is a notification.
LEMMA SetterMessage ==
    ASSUME TypeOK, OnTheWay, NEW s \in Setters, setterPc[s] # "idle"
    PROVE  /\ Message(s) = doSetValueFromClient(setting[s])
           /\ Message(s) \in Notifications /\ Message(s) \in Messages
<1>1. setting[s] \in Settings
  BY DEF OnTheWay
<1>2. doSetValueFromClient(setting[s]) \in Messages
  BY <1>1, MessageTypes DEF TypeOK
<1>3. doSetValueFromClient(setting[s]).type = "SET_PROPERTY_ASYNC"
  BY DEF doSetValueFromClient, Response
<1>4. doSetValueFromClient(setting[s]) \in Notifications
  BY <1>2, <1>3 DEF Notifications
<1> QED
  BY <1>2, <1>4 DEF Message

\* The connections that a setter tells after the sockets.
LEMMA PipeList ==
    /\ SetToSeq(Pipes) \in Seq(Conns) /\ Len(SetToSeq(Pipes)) <= 1
    /\ ToSet(SetToSeq(Pipes)) = Pipes
<1> DEFINE Listed(f) == f \in [1 .. Cardinality(Pipes) -> Pipes] /\ IsInjective(f)
<1>1. SetToSeq(Pipes) = CHOOSE f \in [1 .. Cardinality(Pipes) -> Pipes] : IsInjective(f)
  BY DEF SetToSeq
<1>2. ASSUME NEW g, Listed(g)
      PROVE  Listed(SetToSeq(Pipes))
  BY <1>1, <1>2
<1>3. CASE Pipes = {}
  <2>1. Cardinality(Pipes) = 0
    BY <1>3, FS_EmptySet
  <2>2. Listed(<<>>)
    BY <1>3, <2>1 DEF IsInjective
  <2>3. Listed(SetToSeq(Pipes))
    BY <1>2, <2>2
  <2>4. SetToSeq(Pipes) \in [1 .. 0 -> Conns]
    BY <1>3, <2>1, <2>3
  <2>5. SetToSeq(Pipes) \in Seq(Conns) /\ Len(SetToSeq(Pipes)) = 0
    BY <2>4, FunctionIsSeq
  <2>6. ToSet(SetToSeq(Pipes)) = {}
    BY <2>4 DEF ToSet
  <2> QED
    BY <1>3, <2>5, <2>6
<1>4. CASE Pipes # {}
  <2>1. PICK p : Pipes = {p}
    BY <1>4, ThreadsAssumption
  <2>2. Cardinality(Pipes) = 1
    BY <2>1, FS_Singleton
  <2>3. Listed([i \in 1 .. 1 |-> p])
    BY <2>1, <2>2 DEF IsInjective
  <2>4. Listed(SetToSeq(Pipes))
    BY <1>2, <2>3
  <2>5. PICK f : f = SetToSeq(Pipes)
    OBVIOUS
  <2>6. f \in [1 .. 1 -> Conns] /\ f[1] = p /\ DOMAIN f = {1}
    BY <2>1, <2>2, <2>4, <2>5 DEF Conns
  <2>7. f \in Seq(Conns) /\ Len(f) = 1
    BY <2>6, FunctionIsSeq
  <2>8. ToSet(f) = {p}
    BY <2>6 DEF ToSet
  <2>9. SetToSeq(Pipes) \in Seq(Conns) /\ Len(SetToSeq(Pipes)) = 1
    BY <2>5, <2>7
  <2>10. ToSet(SetToSeq(Pipes)) = Pipes
    BY <2>1, <2>5, <2>8
  <2> QED
    BY <2>9, <2>10
<1> QED
  BY <1>3, <1>4

LEMMA TypesInitially == Init => TypeOK /\ OnTheWay /\ Turns /\ RegisteredOnce
<1> SUFFICES ASSUME Init
             PROVE  TypeOK /\ OnTheWay /\ Turns /\ RegisteredOnce
  OBVIOUS
<1>1. TypeOK
  BY DEF Init, TypeOK, AnyValues, Bodies
<1>2. OnTheWay
  BY DEF Init, OnTheWay, Answering
<1>3. Turns
  BY ThreadsAssumption DEF Init, Turns
<1>4. RegisteredOnce
  BY ThreadsAssumption, ToSetEmpty DEF Init, RegisteredOnce, IsInjective, Conns
<1> QED
  BY <1>1, <1>2, <1>3, <1>4

\* What a thread that writes gives a connection.
LEMMA GivenTypes ==
    ASSUME TypeOK, NEW c \in Conns, NEW x \in Pieces, IsGiven(c, x)
    PROVE  written' \in [Conns -> Seq(Pieces)]
<1>1. written \in [Conns -> Seq(Pieces)]
  BY DEF TypeOK
<1>2. Append(written[c], x) \in Seq(Pieces)
  BY <1>1
<1> QED
  BY <1>1, <1>2 DEF IsGiven

LEMMA TypesNext == TypeOK /\ OnTheWay /\ Turns /\ [Next]_vars => TypeOK' /\ OnTheWay'
<1> SUFFICES ASSUME TypeOK, OnTheWay, Turns, [Next]_vars
             PROVE  TypeOK' /\ OnTheWay'
  OBVIOUS
<1> USE ThreadsAssumption DEF Conns, Answering
<1>1. ASSUME NEW c \in Conns, PeerSends(c)
      PROVE  TypeOK' /\ OnTheWay'
  <2>1. commands' \in [Conns -> Seq(Bodies)]
    <3>1. PICK k \in Bodies : commands' = [commands EXCEPT ![c] = Append(@, k)]
      BY <1>1 DEF PeerSends, Bodies
    <3>2. commands \in [Conns -> Seq(Bodies)]
      BY DEF TypeOK
    <3>3. Append(commands[c], k) \in Seq(Bodies)
      BY <3>2
    <3> QED
      BY <3>1, <3>2, <3>3
  <2>2. TypeOK'
    BY <1>1, <2>1 DEF PeerSends, TypeOK, listenVars, readVars, setterVars, historyVars
  <2>3. OnTheWay'
    BY <1>1 DEF PeerSends, OnTheWay, readVars, setterVars
  <2> QED
    BY <2>2, <2>3
<1>18. ASSUME NEW c \in Conns, PeerCloses(c)
       PROVE  TypeOK' /\ OnTheWay'
  BY <1>18 DEF PeerCloses, TypeOK, OnTheWay, listenVars, readVars, setterVars, historyVars
<1>2. ASSUME NEW c \in Conns, Accept(c)
      PROVE  TypeOK' /\ OnTheWay'
  BY <1>2 DEF Accept, WantsHeader, TypeOK, OnTheWay, peerVars, setterVars, historyVars
<1>3. ASSUME NEW c \in Conns, Read(c)
      PROVE  TypeOK' /\ OnTheWay'
  BY <1>3 DEF Read, TypeOK, OnTheWay, listenVars, peerVars, setterVars
<1>4. ASSUME NEW c \in Conns, ReadEnd(c)
      PROVE  TypeOK' /\ OnTheWay'
  BY <1>4 DEF ReadEnd, IsReading, TypeOK, OnTheWay, listenVars, peerVars, setterVars,
              historyVars
<1>5. ASSUME NEW c \in Conns, ReadBody(c)
      PROVE  TypeOK' /\ OnTheWay'
  BY <1>5 DEF ReadBody, TypeOK, OnTheWay, listenVars, peerVars, setterVars, historyVars
<1>6. ASSUME NEW c \in Conns, ReadFrame(c)
      PROVE  TypeOK' /\ OnTheWay'
  BY <1>6 DEF ReadFrame, TypeOK, OnTheWay, listenVars, peerVars, setterVars, historyVars
<1>7. ASSUME NEW c \in Conns, IgnoreMessage(c)
      PROVE  TypeOK' /\ OnTheWay'
  BY <1>7 DEF IgnoreMessage, HasMessage, ReadNext, WantsHeader, TypeOK, OnTheWay, listenVars,
              peerVars, setterVars, historyVars
<1>8. ASSUME NEW c \in Conns, ProcessMessage(c)
      PROVE  TypeOK' /\ OnTheWay'
  <2>1. PICK k \in DOMAIN CommandList :
            /\ response' = [response EXCEPT ![c] = processMessage(CommandList[k])]
            /\ halValues' = Applied(CommandList[k])
    BY <1>8 DEF ProcessMessage, ParsedCommand
  <2>2. /\ processMessage(CommandList[k]) \in Replies
        /\ processMessage(CommandList[k]) \in Messages
        /\ Applied(CommandList[k]) \in [Configured -> AnyValues]
    BY MessageTypes, RepliesInKind DEF TypeOK, Replies
  <2>3. readPc' = [readPc EXCEPT ![c] = "length"]
    BY <1>8 DEF ProcessMessage
  <2>4. TypeOK'
    BY <1>8, <2>1, <2>2, <2>3 DEF ProcessMessage, TypeOK, listenVars, peerVars, setterVars,
                                  historyVars
  <2>5. OnTheWay'
    BY <1>8, <2>1, <2>2, <2>3 DEF ProcessMessage, TypeOK, OnTheWay, setterVars
  <2> QED
    BY <2>4, <2>5
<1>9. ASSUME NEW c \in Conns, WriteLength(c)
      PROVE  TypeOK' /\ OnTheWay'
  <2>1. Piece(c, "length", response[c]) \in Pieces
    BY <1>9 DEF WriteLength, OnTheWay, Piece, Pieces, Writers, Replies
  <2>2. written' \in [Conns -> Seq(Pieces)]
    BY <1>9, <2>1, GivenTypes DEF WriteLength
  <2> QED
    BY <1>9, <2>2 DEF WriteLength, TypeOK, OnTheWay, listenVars, peerVars, setterVars,
                      historyVars
<1>10. ASSUME NEW c \in Conns, WriteBody(c)
       PROVE  TypeOK' /\ OnTheWay'
  <2>1. Piece(c, "data", response[c]) \in Pieces
    BY <1>10 DEF WriteBody, OnTheWay, Piece, Pieces, Writers, Replies
  <2>2. written' \in [Conns -> Seq(Pieces)]
    BY <1>10, <2>1, GivenTypes DEF WriteBody
  <2> QED
    BY <1>10, <2>2 DEF WriteBody, ReadNext, WantsHeader, TypeOK, OnTheWay, listenVars,
                       peerVars, setterVars, historyVars
<1>19. ASSUME NEW c \in Conns, WriteFails(c)
       PROVE  TypeOK' /\ OnTheWay'
  BY <1>19 DEF WriteFails, ReadNext, WantsHeader, TypeOK, OnTheWay, listenVars, peerVars,
               setterVars, historyVars
<1>11. ASSUME RegisterConnection
       PROVE  TypeOK' /\ OnTheWay'
  BY <1>11 DEF RegisterConnection, TypeOK, OnTheWay, peerVars, readVars, setterVars
<1>12. ASSUME NEW s \in Setters, SetValue(s)
       PROVE  TypeOK' /\ OnTheWay'
  <2>1. PICK p \in Configured, v \in Values : /\ halValues' = [halValues EXCEPT ![p] = v]
                                              /\ setting' = [setting EXCEPT ![s] = <<p, v>>]
    BY <1>12 DEF SetValue
  <2>2. halValues' \in [Configured -> AnyValues] /\ <<p, v>> \in Settings
    BY <2>1 DEF TypeOK, AnyValues, Settings
  <2>3. TypeOK'
    BY <1>12, <2>1, <2>2 DEF SetValue, TypeOK, listenVars, peerVars, readVars, historyVars
  <2>4. OnTheWay'
    <3>1. setting' = [setting EXCEPT ![s] = <<p, v>>] /\ DOMAIN setting = Setters
      BY <2>1 DEF TypeOK
    <3>2. /\ setterPc' = [setterPc EXCEPT ![s] = "tell"] /\ DOMAIN setterPc = Setters
          /\ UNCHANGED <<readPc, response>>
      BY <1>12 DEF SetValue, TypeOK, readVars
    <3>3. \A r \in Setters : setterPc'[r] # "idle" => setting'[r] \in Settings
      BY <2>2, <3>1, <3>2 DEF OnTheWay
    <3> QED
      BY <3>2, <3>3 DEF OnTheWay
  <2> QED
    BY <2>3, <2>4
<1>13. ASSUME NEW s \in Setters, LockSockets(s)
       PROVE  TypeOK' /\ OnTheWay'
  <2>1. setting[s] \in Settings
    BY <1>13 DEF LockSockets, OnTheWay
  <2>2. targets' \in [Setters -> Seq(Conns)]
    BY <1>13 DEF LockSockets, TypeOK
  <2>3. sent' \in Seq(Settings)
    BY <1>13, <2>1 DEF LockSockets, TypeOK
  <2>4. TypeOK'
    BY <1>13, <2>2, <2>3 DEF LockSockets, TypeOK, listenVars, peerVars, readVars
  <2>5. OnTheWay'
    BY <1>13, <2>1 DEF LockSockets, TypeOK, OnTheWay, readVars
  <2> QED
    BY <2>4, <2>5
<1>14. ASSUME NEW s \in Setters, WritePart(s)
       PROVE  TypeOK' /\ OnTheWay'
  <2>1. Head(targets[s]) \in Conns /\ Tail(targets[s]) \in Seq(Conns)
    BY <1>14 DEF WritePart, TypeOK
  <2>2. targets' \in [Setters -> Seq(Conns)] /\ part' \in [Setters -> {"length", "data"}]
    <3>1. CASE part[s] = "length"
      BY <1>14, <3>1 DEF WritePart, TypeOK
    <3>2. CASE part[s] = "data"
      <4>1. /\ part' = [part EXCEPT ![s] = "length"]
            /\ targets' = [targets EXCEPT ![s] = Tail(@)]
        BY <1>14, <3>2 DEF WritePart
      <4> QED
        BY <2>1, <4>1 DEF TypeOK
    <3> QED
      BY <3>1, <3>2 DEF TypeOK
  <2>3. Piece(s, part[s], doSetValueFromClient(setting[s])) \in Pieces
    <3>1. setterPc[s] # "idle"
      BY <1>14 DEF WritePart, Turns
    <3>2. doSetValueFromClient(setting[s]) \in Messages
      BY <3>1, SetterMessage
    <3> QED
      BY <3>2 DEF Piece, Pieces, Writers, TypeOK
  <2>4. written' \in [Conns -> Seq(Pieces)]
    BY <1>14, <2>1, <2>3, GivenTypes DEF WritePart
  <2> QED
    BY <1>14, <2>2, <2>4 DEF WritePart, TypeOK, OnTheWay, listenVars, peerVars, readVars,
                             historyVars
<1>20. ASSUME NEW s \in Setters, WritePartFails(s)
       PROVE  TypeOK' /\ OnTheWay'
  <2>1. Tail(targets[s]) \in Seq(Conns)
    BY <1>20 DEF WritePartFails, TypeOK
  <2>2. targets' \in [Setters -> Seq(Conns)] /\ part' \in [Setters -> {"length", "data"}]
    BY <1>20, <2>1 DEF WritePartFails, TypeOK
  <2> QED
    BY <1>20, <2>2 DEF WritePartFails, TypeOK, OnTheWay, listenVars, peerVars, readVars,
                       historyVars
<1>15. ASSUME NEW s \in Setters, UnlockSockets(s)
       PROVE  TypeOK' /\ OnTheWay'
  <2>1. targets' \in [Setters -> Seq(Conns)]
    BY <1>15, PipeList DEF UnlockSockets, TypeOK
  <2> QED
    BY <1>15, <2>1 DEF UnlockSockets, TypeOK, OnTheWay, listenVars, peerVars, readVars,
                       historyVars
<1>16. ASSUME NEW s \in Setters, Return(s)
       PROVE  TypeOK' /\ OnTheWay'
  BY <1>16 DEF Return, TypeOK, OnTheWay, listenVars, peerVars, readVars, historyVars
<1>17. ASSUME UNCHANGED vars
       PROVE  TypeOK' /\ OnTheWay'
  BY <1>17 DEF TypeOK, OnTheWay, vars, listenVars, peerVars, readVars, setterVars, historyVars
<1> QED
  BY <1>1, <1>2, <1>3, <1>4, <1>5, <1>6, <1>7, <1>8, <1>9, <1>10, <1>11, <1>12, <1>13, <1>14,
     <1>15, <1>16, <1>17, <1>18, <1>19, <1>20 DEF Next, ReadThread, Setter

LEMMA TurnsNext ==
    TypeOK /\ RegisteredOnce /\ Turns /\ [Next]_vars => Turns'
<1> SUFFICES ASSUME TypeOK, RegisteredOnce, Turns, [Next]_vars
             PROVE  Turns'
  OBVIOUS
<1> DEFINE OfSetter(r) ==
        /\ setterPc[r] = "sockets" <=> mMutex = r
        /\ setterPc[r] \in {"idle", "tell"} => targets[r] = <<>>
        /\ setterPc[r] = "sockets" => /\ IsInjective(targets[r])
                                      /\ ToSet(targets[r]) \subseteq ToSet(mOpenConnections)
        /\ setterPc[r] = "pipe" => Len(targets[r]) <= 1 /\ ToSet(targets[r]) \subseteq Pipes
        /\ part[r] = "data" => targets[r] # <<>>
<1>0. \A r \in Setters : OfSetter(r)
  BY DEF Turns
<1>1. ASSUME UNCHANGED <<mMutex, setterPc, targets, part, mOpenConnections>>
      PROVE  Turns'
  BY <1>1 DEF Turns
<1>2. ASSUME NEW c \in Conns, PeerSends(c) \/ PeerCloses(c) \/ Accept(c) \/ ReadThread(c)
      PROVE  Turns'
  <2>1. UNCHANGED <<mMutex, setterVars, mOpenConnections>>
    BY <1>2 DEF PeerSends, PeerCloses, Accept, ReadThread, Read, ReadEnd, ReadBody, ReadFrame,
                IgnoreMessage, ProcessMessage, WriteLength, WriteBody, WriteFails, listenVars
  <2> QED
    BY <1>1, <2>1 DEF setterVars
<1>3. ASSUME RegisterConnection
      PROVE  Turns'
  <2>1. /\ UNCHANGED <<mMutex, setterVars>> /\ mMutex = NoOne
    BY <1>3 DEF RegisterConnection
  <2>2. \A r \in Setters : setterPc[r] # "sockets"
    BY <2>1, ThreadsAssumption DEF Turns
  <2> QED
    BY <2>1, <2>2 DEF Turns, setterVars
<1>4. ASSUME NEW s \in Setters, SetValue(s)
      PROVE  Turns'
  <2>1. /\ UNCHANGED <<mMutex, targets, part, mOpenConnections>> /\ setterPc[s] = "idle"
        /\ setterPc' = [setterPc EXCEPT ![s] = "tell"] /\ DOMAIN setterPc = Setters
    BY <1>4 DEF SetValue, listenVars, TypeOK
  <2> QED
    BY <2>1 DEF Turns
<1>5. ASSUME NEW s \in Setters, LockSockets(s)
      PROVE  Turns'
  <2>1. /\ UNCHANGED <<part, mOpenConnections>> /\ setterPc[s] = "tell"
        /\ mMutex = NoOne /\ mMutex' = s
        /\ setterPc' = [setterPc EXCEPT ![s] = "sockets"] /\ DOMAIN setterPc = Setters
        /\ targets' = [targets EXCEPT ![s] = mOpenConnections] /\ DOMAIN targets = Setters
    BY <1>5 DEF LockSockets, listenVars, TypeOK
  <2>2. \A r \in Setters : setterPc[r] # "sockets"
    BY <2>1, ThreadsAssumption DEF Turns
  <2>3. IsInjective(mOpenConnections)
    BY DEF RegisteredOnce
  <2>4. part[s] # "data"
    BY <2>1 DEF Turns
  <2>5. ASSUME NEW r \in Setters
        PROVE  OfSetter(r)'
    <3>1. CASE r = s
      BY <2>1, <2>3, <2>4, <3>1
    <3>2. CASE r # s
      BY <1>0, <2>1, <2>2, <3>2
    <3> QED
      BY <3>1, <3>2
  <2> QED
    BY <2>5 DEF Turns
<1>6. ASSUME NEW s \in Setters, WritePart(s) \/ WritePartFails(s)
      PROVE  Turns'
  <2>1. /\ UNCHANGED <<mMutex, setterPc, mOpenConnections>> /\ targets[s] # <<>>
        /\ DOMAIN targets = Setters /\ DOMAIN part = Setters /\ targets[s] \in Seq(Conns)
    BY <1>6 DEF WritePart, WritePartFails, listenVars, TypeOK
  <2>2. \/ part' = [part EXCEPT ![s] = "data"] /\ UNCHANGED targets
        \/ /\ part' = [part EXCEPT ![s] = "length"]
           /\ targets' = [targets EXCEPT ![s] = Tail(@)]
    BY <1>6 DEF WritePart, WritePartFails
  <2>3. /\ Len(Tail(targets[s])) <= Len(targets[s])
        /\ ToSet(Tail(targets[s])) \subseteq ToSet(targets[s])
        /\ IsInjective(targets[s]) => IsInjective(Tail(targets[s]))
        /\ Len(targets[s]) \in Nat /\ Tail(targets[s]) \in Seq(Conns)
    BY <2>1, TailOfTargets
  <2>4. setterPc[s] \notin {"idle", "tell"}
    BY <2>1 DEF Turns
  <2>5. ASSUME NEW r \in Setters
        PROVE  OfSetter(r)'
    <3>1. CASE r = s /\ UNCHANGED targets
      BY <1>0, <2>1, <3>1
    <3>2. CASE r = s /\ part' = [part EXCEPT ![s] = "length"]
                     /\ targets' = [targets EXCEPT ![s] = Tail(@)]
      <4>1. part'[r] = "length" /\ targets'[r] = Tail(targets[s]) /\ setterPc'[r] = setterPc[s]
        BY <2>1, <3>2
      <4>2. Len(targets[s]) <= 1 => Len(Tail(targets[s])) <= 1
        BY <2>1, TailOfTargets
      <4>3. OfSetter(s)
        BY <1>0
      <4> QED
        BY <2>1, <2>3, <2>4, <3>2, <4>1, <4>2, <4>3
    <3>3. CASE r # s
      BY <1>0, <2>1, <2>2, <3>3
    <3> QED
      BY <2>2, <3>1, <3>2, <3>3
  <2> QED
    BY <2>5 DEF Turns
<1>7. ASSUME NEW s \in Setters, UnlockSockets(s)
      PROVE  Turns'
  <2>1. /\ UNCHANGED <<part, mOpenConnections>> /\ setterPc[s] = "sockets"
        /\ targets[s] = <<>> /\ mMutex' = NoOne
        /\ setterPc' = [setterPc EXCEPT ![s] = "pipe"] /\ DOMAIN setterPc = Setters
        /\ targets' = [targets EXCEPT ![s] = SetToSeq(Pipes)] /\ DOMAIN targets = Setters
    BY <1>7 DEF UnlockSockets, listenVars, TypeOK
  <2>2. mMutex = s /\ part[s] # "data"
    BY <2>1 DEF Turns
  <2>3. \A r \in Setters : r # s => setterPc[r] # "sockets"
    BY <2>2 DEF Turns
  <2>4. ASSUME NEW r \in Setters
        PROVE  OfSetter(r)'
    <3>1. CASE r = s
      BY <2>1, <2>2, <3>1, PipeList, ThreadsAssumption
    <3>2. CASE r # s
      BY <1>0, <2>1, <2>3, <3>2, ThreadsAssumption
    <3> QED
      BY <3>1, <3>2
  <2> QED
    BY <2>4 DEF Turns
<1>8. ASSUME NEW s \in Setters, Return(s)
      PROVE  Turns'
  <2>1. /\ UNCHANGED <<mMutex, targets, part, mOpenConnections>>
        /\ setterPc[s] = "pipe" /\ targets[s] = <<>>
        /\ setterPc' = [setterPc EXCEPT ![s] = "idle"] /\ DOMAIN setterPc = Setters
    BY <1>8 DEF Return, listenVars, TypeOK
  <2> QED
    BY <2>1 DEF Turns
<1>9. ASSUME UNCHANGED vars
      PROVE  Turns'
  BY <1>1, <1>9 DEF vars, setterVars, listenVars
<1> QED
  BY <1>2, <1>3, <1>4, <1>5, <1>6, <1>7, <1>8, <1>9 DEF Next, Setter

LEMMA RegisteredNext ==
    TypeOK /\ OnTheWay /\ RegisteredOnce /\ [Next]_vars => RegisteredOnce'
<1> SUFFICES ASSUME TypeOK, OnTheWay, RegisteredOnce, [Next]_vars
             PROVE  RegisteredOnce'
  OBVIOUS
<1>1. ASSUME UNCHANGED <<listenVars, joined>>,
             sent' = sent \/ \E x \in Settings : sent' = Append(sent, x),
             \A c \in Conns : readPc[c] # "none" => readPc'[c] # "none"
      PROVE  RegisteredOnce'
  <2>1. Len(sent) <= Len(sent') /\ Len(sent) \in Nat /\ Len(sent') \in Nat
    BY <1>1 DEF TypeOK
  <2>2. \A c \in Conns : joined[c] \in Nat
    BY DEF TypeOK
  <2>3. \A c \in Conns : joined[c] <= Len(sent')
    BY <2>1, <2>2 DEF RegisteredOnce
  <2> QED
    BY <1>1, <2>3 DEF RegisteredOnce, listenVars, Conns
<1>2. ASSUME NEW c \in Conns, PeerSends(c) \/ PeerCloses(c)
      PROVE  RegisteredOnce'
  BY <1>1, <1>2 DEF PeerSends, PeerCloses, readVars, historyVars
<1>3. ASSUME NEW c \in Conns, Accept(c)
      PROVE  RegisteredOnce'
  <2>1. /\ c \in Sockets /\ listening = NoOne /\ listening' = c /\ readPc[c] = "none"
        /\ readPc' = [readPc EXCEPT ![c] = "header"] /\ DOMAIN readPc = Conns
        /\ UNCHANGED <<mOpenConnections, historyVars>>
    BY <1>3 DEF Accept, TypeOK
  <2>2. c \notin ToSet(mOpenConnections)
    BY <2>1 DEF RegisteredOnce
  <2> QED
    BY <2>1, <2>2 DEF RegisteredOnce, historyVars, Conns
<1>4. ASSUME NEW c \in Conns, ReadThread(c)
      PROVE  RegisteredOnce'
  <2>1. UNCHANGED <<listenVars, joined, sent>>
    BY <1>4 DEF ReadThread, Read, ReadEnd, ReadBody, ReadFrame, IgnoreMessage, ProcessMessage,
                WriteLength, WriteBody, WriteFails, historyVars
  <2>2. /\ readPc'[c] # "none" \/ readPc' = readPc
        /\ \A d \in Conns \ {c} : readPc'[d] = readPc[d]
    BY <1>4 DEF TypeOK, ReadThread, Read, ReadEnd, ReadBody, ReadFrame, IgnoreMessage,
                ProcessMessage, WriteLength, WriteBody, WriteFails, ReadNext
  <2> QED
    BY <1>1, <2>1, <2>2
<1>5. ASSUME RegisterConnection
      PROVE  RegisteredOnce'
  <2>1. /\ listening # NoOne /\ listening' = NoOne
        /\ mOpenConnections' = Append(mOpenConnections, listening)
        /\ joined' = [joined EXCEPT ![listening] = Len(sent)] /\ DOMAIN joined = Conns
        /\ UNCHANGED <<readVars, sent>>
    BY <1>5 DEF RegisterConnection, TypeOK
  <2>2. listening \in Sockets /\ mOpenConnections \in Seq(Sockets) /\ Len(sent) \in Nat
    BY <2>1 DEF TypeOK
  <2>3. /\ ToSet(mOpenConnections') = ToSet(mOpenConnections) \cup {listening}
        /\ IsInjective(mOpenConnections')
    BY <2>1, <2>2, ToSetAppend, AppendedInjective DEF RegisteredOnce
  <2>4. listening' \notin ToSet(mOpenConnections')
    BY <2>1, <2>2, <2>3, ToSetOfSeq, ThreadsAssumption
  <2>5. \A c \in Conns : joined'[c] <= Len(sent')
    BY <2>1, <2>2 DEF RegisteredOnce
  <2>6. \A c \in Pipes : joined'[c] = 0
    BY <2>1, <2>2, ThreadsAssumption DEF RegisteredOnce, Conns
  <2>7. \A c \in Sockets : c = listening' \/ c \in ToSet(mOpenConnections') => readPc'[c] # "none"
    BY <2>1, <2>3, ThreadsAssumption DEF RegisteredOnce, readVars
  <2> QED
    BY <2>3, <2>4, <2>5, <2>6, <2>7 DEF RegisteredOnce
<1>6. ASSUME NEW s \in Setters, Setter(s)
      PROVE  RegisteredOnce'
  <2>1. UNCHANGED <<listenVars, joined, readVars>>
    BY <1>6 DEF Setter, SetValue, LockSockets, WritePart, WritePartFails, UnlockSockets, Return,
                historyVars
  <2>2. sent' = sent \/ \E x \in Settings : sent' = Append(sent, x)
    BY <1>6 DEF Setter, SetValue, LockSockets, WritePart, WritePartFails, UnlockSockets, Return,
                historyVars, OnTheWay
  <2> QED
    BY <1>1, <2>1, <2>2 DEF readVars
<1>7. ASSUME UNCHANGED vars
      PROVE  RegisteredOnce'
  BY <1>1, <1>7 DEF vars, readVars, historyVars
<1> QED
  BY <1>2, <1>3, <1>4, <1>5, <1>6, <1>7 DEF Next

-----------------------------------------------------------------------------
(***************************************************************************)
(* What each action does to the streams.                                   *)
(***************************************************************************)

\* Nobody writes and nobody's place in a message changes.
LEMMA QuietStream ==
    ASSUME TypeOK, Streams, closed \subseteq closed', UNCHANGED written,
           \A s \in Setters : /\ part'[s] = part[s]
                              /\ part[s] = "data" => /\ targets'[s] = targets[s]
                                                     /\ setting'[s] = setting[s],
           \A d \in Conns : /\ readPc[d] = "data" <=> readPc'[d] = "data"
                            /\ readPc[d] = "data" => response'[d] = response[d],
           NEW c \in Conns \ closed', ~IsMixed(c)'
    PROVE  /\ c \notin closed /\ ~IsMixed(c) /\ Framed(c)'
           /\ Received(c)' = Received(c)
           /\ Told(c)' = Told(c) /\ Answers(c)' = Answers(c)
<1>1. c \in Conns \ closed
  OBVIOUS
<1>2. \A t \in Writers : /\ IsBetween(t, c)' <=> IsBetween(t, c)
                         /\ IsBetween(t, c) => Message(t)' = Message(t)
  BY BetweenStays
<1>3. Framed(c)'
  BY <1>1, <1>2, FramedStays
<1> QED
  BY <1>1, <1>3, StreamStays

\* A write to a peer that has closed fails.
LEMMA FailureStream ==
    ASSUME TypeOK, Streams, NEW c \in Conns \ closed', ~IsMixed(c)',
           \/ \E d \in Conns : WriteFails(d)
           \/ \E s \in Setters : WritePartFails(s)
    PROVE  /\ c \notin closed /\ ~IsMixed(c) /\ Framed(c)'
           /\ Received(c)' = Received(c)
           /\ Told(c)' = Told(c) /\ Answers(c)' = Answers(c)
<1>1. UNCHANGED <<written, closed>> /\ c \in Conns \ closed
  BY DEF WriteFails, WritePartFails, peerVars
<1>2. ASSUME NEW t \in Writers
      PROVE  /\ IsBetween(t, c)' <=> IsBetween(t, c)
             /\ IsBetween(t, c) => Message(t)' = Message(t)
  <2>1. CASE \E d \in Conns : WriteFails(d)
    <3>1. PICK d \in Conns : WriteFails(d)
      BY <2>1
    <3>2. /\ d # c /\ UNCHANGED <<targets, part, setting>>
          /\ readPc'[c] = readPc[c] /\ response'[c] = response[c]
      BY <1>1, <3>1 DEF WriteFails, ReadNext, setterVars, TypeOK
    <3> QED
      BY <3>2 DEF IsBetween, Message, Writers
  <2>2. CASE \E s \in Setters : WritePartFails(s)
    <3>1. PICK s \in Setters : WritePartFails(s)
      BY <2>2
    <3>2. /\ UNCHANGED <<readPc, response, setting>> /\ Head(targets[s]) # c
          /\ part' = [part EXCEPT ![s] = "length"] /\ DOMAIN part = Setters
          /\ targets' = [targets EXCEPT ![s] = Tail(@)] /\ DOMAIN targets = Setters
      BY <1>1, <3>1 DEF WritePartFails, readVars, TypeOK
    <3>3. CASE t = s
      BY <3>2, <3>3 DEF IsBetween
    <3>4. CASE t # s
      BY <3>2, <3>4 DEF IsBetween, Message
    <3> QED
      BY <3>3, <3>4
  <2> QED
    BY <2>1, <2>2
<1>3. Framed(c)'
  BY <1>1, <1>2, FramedStays
<1> QED
  BY <1>1, <1>3, StreamStays

\* The read thread of c writes, and the streams of others stay.
LEMMA OthersStream ==
    ASSUME TypeOK, Streams, NEW d \in Conns, WriteLength(d) \/ WriteBody(d),
           NEW c \in Conns \ closed', ~IsMixed(c)', c # d
    PROVE  /\ c \notin closed /\ ~IsMixed(c) /\ Framed(c)'
           /\ Received(c)' = Received(c)
           /\ Told(c)' = Told(c) /\ Answers(c)' = Answers(c)
<1>1. UNCHANGED <<closed, setterVars>> /\ c \in Conns \ closed /\ written'[c] = written[c]
  BY DEF WriteLength, WriteBody, IsGiven, peerVars, TypeOK
<1>2. readPc'[c] = readPc[c] /\ response'[c] = response[c]
  BY DEF WriteLength, WriteBody, ReadNext, TypeOK
<1>3. \A t \in Writers : /\ IsBetween(t, c)' <=> IsBetween(t, c)
                         /\ IsBetween(t, c) => Message(t)' = Message(t)
  BY <1>1, <1>2 DEF IsBetween, Message, setterVars, Writers
<1>4. Framed(c)'
  BY <1>1, <1>3, FramedStays
<1> QED
  BY <1>1, <1>4, StreamStays

LEMMA LengthStream ==
    ASSUME TypeOK, OnTheWay, Streams, NEW c \in Conns \ closed', WriteLength(c), ~IsMixed(c)'
    PROVE  /\ c \notin closed /\ ~IsMixed(c) /\ Framed(c)'
           /\ Received(c)' = Received(c)
           /\ Told(c)' = Told(c) /\ Answers(c)' = Answers(c)
<1> DEFINE x == Piece(c, "length", response[c])
<1>1. /\ c \in Conns \ closed /\ c \in Writers /\ c \notin Setters
      /\ UNCHANGED setterVars /\ response' = response
      /\ readPc[c] = "length" /\ readPc'[c] = "data"
      /\ written'[c] = Append(written[c], x)
  BY ThreadsAssumption DEF WriteLength, IsGiven, peerVars, TypeOK, Writers, Conns
<1>2. /\ x \in Pieces /\ x.from = c /\ x.part = "length" /\ x.message = Message(c)
  BY <1>1 DEF OnTheWay, Answering, Piece, Pieces, Message, Replies
<1>3. ~IsBetween(c, c) /\ IsBetween(c, c)' /\ Message(c)' = Message(c)
  BY <1>1 DEF IsBetween, Message
<1>4. \A u \in Writers \ {c} : /\ IsBetween(u, c)' => IsBetween(u, c)
                               /\ c \in Pipes \cup {c, u}
  BY <1>1 DEF IsBetween, setterVars
<1> HIDE DEF x
<1>5. ~IsMixed(c) /\ Framed(c)' /\ Received(c)' = Received(c)
  BY <1>1, <1>2, <1>3, <1>4, MessageBegins
<1> QED
  BY <1>1, <1>5 DEF Told, Answers

LEMMA BodyStream ==
    ASSUME TypeOK, TypeOK', OnTheWay, Streams, NEW c \in Conns \ closed', WriteBody(c),
           ~IsMixed(c)'
    PROVE  /\ c \notin closed /\ ~IsMixed(c) /\ Framed(c)'
           /\ response[c] \in Replies
           /\ Told(c)' = Told(c) /\ Answers(c)' = Append(Answers(c), response[c])
<1> DEFINE x == Piece(c, "data", response[c])
<1>1. /\ c \in Conns \ closed /\ c \in Writers /\ c \notin Setters
      /\ UNCHANGED setterVars
      /\ readPc[c] = "data" /\ readPc'[c] # "data"
      /\ written'[c] = Append(written[c], x)
  BY ThreadsAssumption DEF WriteBody, ReadNext, IsGiven, peerVars, TypeOK, Writers, Conns
<1>2. /\ x \in Pieces /\ x.from = c /\ x.part = "data" /\ x.message = Message(c)
      /\ response[c] \in Replies /\ x.message = response[c] /\ response[c] \in Messages
  BY <1>1 DEF OnTheWay, Answering, Piece, Pieces, Message, Replies
<1>3. IsBetween(c, c) /\ ~IsBetween(c, c)'
  BY <1>1 DEF IsBetween
<1>4. \A u \in Writers \ {c} : IsBetween(u, c)' => IsBetween(u, c)
  BY <1>1 DEF IsBetween, setterVars
<1> HIDE DEF x
<1>5. ~IsMixed(c) /\ Framed(c)' /\ Received(c)' = Append(Received(c), response[c])
  BY <1>1, <1>2, <1>3, <1>4, MessageEnds
<1>6. written[c] \in Seq(Pieces) /\ written'[c] \in Seq(Pieces)
  BY DEF TypeOK
<1>7. Told(c)' = Told(c) /\ Answers(c)' = Append(Answers(c), response[c])
  BY <1>2, <1>5, <1>6, MessageReceived
<1> QED
  BY <1>1, <1>2, <1>5, <1>7

\* A setter writes.  It ends a message to c only with the body of one.
LEMMA PartStream ==
    ASSUME TypeOK, TypeOK', OnTheWay, Turns, Streams, NEW s \in Setters, WritePart(s),
           NEW c \in Conns \ closed', ~IsMixed(c)'
    PROVE  /\ c \notin closed /\ ~IsMixed(c) /\ Framed(c)'
           /\ Answers(c)' = Answers(c)
           /\ Told(c)' = IF c = Head(targets[s]) /\ part[s] = "data"
                         THEN Append(Told(c), Message(s)) ELSE Told(c)
<1> DEFINE x == Piece(s, part[s], Message(s))
           d == Head(targets[s])
<1>1. /\ c \in Conns \ closed /\ s \in Writers /\ targets[s] # <<>>
      /\ UNCHANGED <<readPc, response, setting, setterPc>>
  BY DEF WritePart, peerVars, readVars, Writers
<1>2. setterPc[s] # "idle" /\ targets[s] \in Seq(Conns) /\ d \in Conns
  BY <1>1 DEF Turns, TypeOK
<1>3. /\ Message(s) = doSetValueFromClient(setting[s])
      /\ Message(s) \in Notifications /\ Message(s) \in Messages
  BY <1>2, SetterMessage
<1>4. x \in Pieces /\ x.from = s /\ x.part = part[s] /\ x.message = Message(s)
  BY <1>1, <1>3 DEF Piece, Pieces, TypeOK
<1>5. written' = IF d \in closed THEN written ELSE [written EXCEPT ![d] = Append(@, x)]
  BY <1>3 DEF WritePart, IsGiven
<1>6. \/ /\ part[s] = "length" /\ part' = [part EXCEPT ![s] = "data"] /\ targets' = targets
      \/ /\ part[s] = "data" /\ part' = [part EXCEPT ![s] = "length"]
         /\ targets' = [targets EXCEPT ![s] = Tail(@)]
  BY DEF WritePart
<1>7. \A u \in Writers : Message(u)' = Message(u)
  BY <1>1 DEF Message
<1>8. \A u \in Writers \ {s} : IsBetween(u, c)' <=> IsBetween(u, c)
  <2>1. \A r \in Setters \ {s} : part'[r] = part[r] /\ targets'[r] = targets[r]
    BY <1>6 DEF TypeOK
  <2> QED
    BY <1>1, <2>1 DEF IsBetween
<1>9. written[c] \in Seq(Pieces) /\ written'[c] \in Seq(Pieces)
  BY DEF TypeOK
<1>10. part'[s] # part[s] /\ (part[s] = "length" => targets'[s] = targets[s] /\ part'[s] = "data")
       /\ (part[s] = "data" => part'[s] = "length")
  BY <1>6 DEF TypeOK
<1> HIDE DEF x
<1>11. CASE c # d
  <2>1. written'[c] = written[c]
    BY <1>5, <1>11 DEF TypeOK
  <2>2. IsBetween(s, c)' <=> IsBetween(s, c)
    BY <1>2, <1>10, <1>11 DEF IsBetween, TypeOK
  <2>3. Framed(c)'
    BY <1>1, <1>7, <1>8, <2>1, <2>2, FramedStays
  <2> QED
    BY <1>1, <1>11, <2>1, <2>3, StreamStays
<1>12. CASE c = d /\ part[s] = "length"
  <2>1. written'[c] = Append(written[c], x)
    BY <1>1, <1>5, <1>12 DEF TypeOK
  <2>2. ~IsBetween(s, c) /\ IsBetween(s, c)'
    BY <1>1, <1>10, <1>12 DEF IsBetween
  <2>3. ASSUME NEW u \in Writers \ {s}, IsBetween(u, c)
        PROVE  c \in Pipes \cup {s, u}
    <3>1. CASE u \in Setters
      BY <1>1, <1>12, <2>3, <3>1, SettersExclude DEF IsBetween
    <3>2. CASE u \notin Setters
      BY <2>3, <3>2 DEF IsBetween
    <3> QED
      BY <3>1, <3>2
  <2>4. ~IsMixed(c) /\ Framed(c)' /\ Received(c)' = Received(c)
    BY <1>1, <1>4, <1>7, <1>8, <1>12, <2>1, <2>2, <2>3, MessageBegins
  <2>5. Told(c)' = Told(c) /\ Answers(c)' = Answers(c)
    BY <1>9, <2>4, NothingReceived
  <2> QED
    BY <1>1, <1>12, <2>4, <2>5
<1>13. CASE c = d /\ part[s] = "data"
  <2>1. written'[c] = Append(written[c], x)
    BY <1>1, <1>5, <1>13 DEF TypeOK
  <2>2. IsBetween(s, c) /\ ~IsBetween(s, c)'
    BY <1>1, <1>10, <1>13 DEF IsBetween
  <2>3. ~IsMixed(c) /\ Framed(c)' /\ Received(c)' = Append(Received(c), Message(s))
    BY <1>1, <1>4, <1>8, <1>13, <2>1, <2>2, MessageEnds
  <2>4. Told(c)' = Append(Told(c), Message(s)) /\ Answers(c)' = Answers(c)
    BY <1>3, <1>9, <2>3, MessageReceived
  <2> QED
    BY <1>1, <1>13, <2>3, <2>4
<1>14. part[s] \in {"length", "data"}
  BY DEF TypeOK
<1> QED
  BY <1>11, <1>12, <1>13, <1>14

-----------------------------------------------------------------------------
(***************************************************************************)
(* What connections are told.                                              *)
(***************************************************************************)

LEMMA ToTellTypes ==
    ASSUME TypeOK, NEW c \in Conns
    PROVE  Since(c) \in Seq(Settings) /\ ToTell(c) \in Seq(Messages)
<1>1. sent \in Seq(Settings) /\ joined[c] \in Nat
  BY DEF TypeOK
<1>2. Since(c) \in Seq(Settings)
  BY <1>1 DEF Since
<1>3. ToTell(c) \in Seq(Messages)
  <2>1. \A i \in DOMAIN Since(c) : doSetValueFromClient(Since(c)[i]) \in Messages
    <3>1. \A i \in DOMAIN Since(c) : Since(c)[i] \in Settings
      BY <1>2
    <3> QED
      BY <3>1, MessageTypes DEF TypeOK
  <2>2. DOMAIN Since(c) = 1 .. Len(Since(c)) /\ Len(Since(c)) \in Nat
    BY <1>2
  <2>3. ToTell(c) \in [1 .. Len(Since(c)) -> Messages]
    BY <2>1, <2>2 DEF ToTell
  <2> QED
    BY <2>2, <2>3, FunctionIsSeq
<1> QED
  BY <1>2, <1>3

LEMMA SinceAppend ==
    ASSUME NEW T, NEW s \in Seq(T), NEW x \in T, NEW j \in Nat, j <= Len(s)
    PROVE  SubSeq(Append(s, x), j + 1, Len(s) + 1) = Append(SubSeq(s, j + 1, Len(s)), x)
<1> DEFINE u == Append(s, x)
           n == Len(s)
           a == SubSeq(u, j + 1, n + 1)
           r == SubSeq(s, j + 1, n)
           b == Append(r, x)
<1>1. n \in Nat /\ u \in Seq(T) /\ Len(u) = n + 1 /\ u[n + 1] = x /\ \A i \in 1 .. n : u[i] = s[i]
  OBVIOUS
<1>2. /\ a \in Seq(T) /\ Len(a) = n + 1 - j
      /\ \A i \in 1 .. n + 1 - j : a[i] = u[j + i]
  <2> HIDE DEF u
  <2> QED
    BY <1>1
<1>3. /\ r \in Seq(T) /\ Len(r) = n - j
      /\ \A i \in 1 .. n - j : r[i] = s[j + i]
  OBVIOUS
<1> HIDE DEF r, n, u, a
<1>4. n - j \in Nat /\ Len(r) + 1 = n + 1 - j
  BY <1>1, <1>3 DEF n
<1>5. /\ b \in Seq(T) /\ Len(b) = n + 1 - j
      /\ \A i \in 1 .. n - j : b[i] = r[i]
      /\ b[n + 1 - j] = x
  BY <1>3, <1>4
<1>6. ASSUME NEW i \in 1 .. n + 1 - j
      PROVE  a[i] = b[i]
  <2>1. CASE i \in 1 .. n - j
    BY <1>1, <1>2, <1>3, <1>5, <2>1
  <2>2. CASE i = n + 1 - j
    BY <1>1, <1>2, <1>5, <2>2
  <2> QED
    BY <1>1, <1>4, <2>1, <2>2
<1> HIDE DEF b
<1>7. a = b
  BY <1>2, <1>5, <1>6, SeqEqual
<1> QED
  BY <1>7 DEF a, b, u, r, n

\* One more value to tell.
LEMMA ToTellAppend ==
    ASSUME TypeOK, NEW c \in Conns, joined[c] <= Len(sent), NEW x \in Settings,
           sent' = Append(sent, x), joined'[c] = joined[c]
    PROVE  ToTell(c)' = Append(ToTell(c), doSetValueFromClient(x))
<1>1. sent \in Seq(Settings) /\ joined[c] \in Nat
  BY DEF TypeOK
<1>2. Len(sent') = Len(sent) + 1
  BY <1>1
<1>3. Since(c)' = Append(Since(c), x)
  BY <1>1, <1>2, SinceAppend DEF Since
<1> DEFINE d == Since(c)
           f == [y \in Settings |-> doSetValueFromClient(y)]
<1>4. d \in Seq(Settings) /\ Since(c)' = Append(d, x)
  BY <1>3, ToTellTypes
<1> HIDE DEF d
<1>5. /\ \A i \in DOMAIN d : d[i] \in Settings
      /\ \A i \in DOMAIN Append(d, x) : Append(d, x)[i] \in Settings
  <2>1. Append(d, x) \in Seq(Settings)
    BY <1>4
  <2> QED
    BY <1>4, <2>1
<1>6. ToTell(c) = EachOf(f, d)
  BY <1>5 DEF ToTell, EachOf, d
<1>7. ToTell(c)' = EachOf(f, Append(d, x))
  BY <1>4, <1>5 DEF ToTell, EachOf
<1>8. EachOf(f, Append(d, x)) = Append(EachOf(f, d), f[x])
  <2> HIDE DEF f
  <2> QED
    BY <1>4, MappedAppend
<1> QED
  BY <1>6, <1>7, <1>8

LEMMA BusyIsFinite == IsFiniteSet(Busy) /\ Cardinality(Busy) \in Nat
<1>1. IsFiniteSet(Busy)
  BY ThreadsAssumption, FS_Subset DEF Busy
<1> QED
  BY <1>1, FS_CardinalityType

\* A socket whose stream nobody added a notification to.
LEMMA SocketStays ==
    ASSUME AllTold, NEW c \in Conns \ closed, c \notin Pipes, ~IsMixed(c),
           Told(c)' = Told(c), sent' = sent, joined'[c] = joined[c],
           c \in ToSet(mOpenConnections') <=> c \in ToSet(mOpenConnections),
           IsNext(c)' <=> IsNext(c),
           IsNext(c) => mMutex' = mMutex /\ Message(mMutex)' = Message(mMutex)
    PROVE  IsTold(c)'
<1>1. SocketTold(c)
  BY DEF AllTold, IsTold
<1>2. ToTell(c)' = ToTell(c)
  <2>1. Since(c)' = Since(c)
    BY DEF Since
  <2> QED
    BY <2>1 DEF ToTell
<1>3. IsNext(c) => Message(mMutex)' = Message(mMutex)
  OBVIOUS
<1>4. SocketTold(c)'
  <2>1. PICK m : m = Message(mMutex)
    OBVIOUS
  <2>2. IsNext(c) => Message(mMutex)' = m
    BY <1>3, <2>1
  <2>3. (c \in ToSet(mOpenConnections))' <=> c \in ToSet(mOpenConnections)
    OBVIOUS
  <2> QED
    BY <1>1, <1>2, <2>1, <2>2, <2>3 DEF SocketTold
<1> QED
  BY <1>4 DEF IsTold

LEMMA PipeStays ==
    ASSUME AllTold, NEW c \in Conns \ closed, c \in Pipes, ~IsMixed(c),
           Told(c)' = Told(c), sent' = sent, Busy' = Busy,
           \A s \in Busy : Message(s)' = Message(s)
    PROVE  IsTold(c)'
<1>1. PipeTold(c)
  BY DEF AllTold, IsTold
<1>2. {Message(s) : s \in Busy}' = {Message(s) : s \in Busy}
  OBVIOUS
<1>3. PipeTold(c)'
  BY <1>1, <1>2 DEF PipeTold
<1> QED
  BY <1>3 DEF IsTold

\* No setter is ahead of where it was.
LEMMA ToldStays ==
    ASSUME TypeOK, Turns, AllTold, NEW c \in Conns \ closed, ~IsMixed(c),
           Told(c)' = Told(c), sent' = sent, joined'[c] = joined[c],
           c \in ToSet(mOpenConnections') <=> c \in ToSet(mOpenConnections),
           UNCHANGED <<targets, mMutex>>, Busy' = Busy,
           \A s \in Busy : setting'[s] = setting[s]
    PROVE  IsTold(c)'
<1>1. \A s \in Busy : Message(s)' = Message(s)
  BY DEF Message, Busy
<1>2. IsNext(c)' <=> IsNext(c)
  BY DEF IsNext
<1>3. IsNext(c) => mMutex \in Busy
  BY DEF IsNext, Turns, TypeOK, Busy
<1> QED
  BY <1>1, <1>2, <1>3, SocketStays, PipeStays

\* A setter leaves a connection other than c behind.
LEMMA TargetDone ==
    ASSUME TypeOK, Turns, AllTold, NEW s \in Setters, targets[s] # <<>>,
           targets' = [targets EXCEPT ![s] = Tail(@)],
           UNCHANGED <<mMutex, mOpenConnections, sent, joined, setterPc, setting>>,
           NEW c \in Conns \ closed, ~IsMixed(c), c # Head(targets[s]), Told(c)' = Told(c)
    PROVE  IsTold(c)'
<1>1. /\ targets[s] \in Seq(Conns) /\ targets'[s] = Tail(targets[s])
      /\ \A r \in Setters : r # s => targets'[r] = targets[r]
  BY DEF TypeOK
<1>2. /\ ToSet(targets[s]) = {Head(targets[s])} \cup ToSet(targets'[s])
      /\ Head(targets[s]) \in Conns
  BY <1>1, TailOfTargets
<1>3. \A r \in Setters : Message(r)' = Message(r)
  BY DEF Message
<1>4. CASE c \notin Pipes
  <2>1. IsNext(c)' <=> IsNext(c)
    BY <1>1, <1>2 DEF IsNext, TypeOK
  <2>2. mMutex # NoOne => Message(mMutex)' = Message(mMutex)
    BY <1>3 DEF TypeOK
  <2> QED
    BY <1>4, <2>1, <2>2, SocketStays DEF IsNext
<1>5. CASE c \in Pipes
  <2>1. Head(targets[s]) \notin Pipes
    BY <1>5, ThreadsAssumption
  <2>2. setterPc[s] = "sockets"
    BY <1>2, <2>1 DEF Turns, TypeOK
  <2>3. Busy' = Busy
    BY <1>1, <2>2 DEF Busy
  <2> QED
    BY <1>3, <1>5, <2>3, PipeStays DEF Busy
<1> QED
  BY <1>4, <1>5

\* A setter writes the body of its message to c.
LEMMA BodyTold ==
    ASSUME TypeOK, TypeOK', OnTheWay, Turns, AllTold, NEW s \in Setters, WritePart(s),
           part[s] = "data",
           NEW c \in Conns \ closed, ~IsMixed(c), c = Head(targets[s]),
           Told(c)' = Append(Told(c), Message(s))
    PROVE  IsTold(c)'
<1>1. /\ targets[s] # <<>> /\ targets[s] \in Seq(Conns) /\ targets'[s] = Tail(targets[s])
      /\ \A r \in Setters : r # s => targets'[r] = targets[r]
      /\ UNCHANGED <<mMutex, mOpenConnections, sent, joined, setterPc, setting>>
  BY DEF WritePart, TypeOK, listenVars, historyVars
<1>2. /\ ToSet(targets[s]) = {c} \cup ToSet(targets'[s])
      /\ Len(targets'[s]) = Len(targets[s]) - 1 /\ targets'[s] \in Seq(Conns)
      /\ IsInjective(targets[s]) => c \notin ToSet(targets'[s])
  BY <1>1, TailOfTargets
<1>3. /\ setterPc[s] # "idle" /\ setterPc[s] \in {"sockets", "pipe"}
      /\ Message(s) \in Messages
  <2>1. setterPc[s] \in {"sockets", "pipe"}
    BY <1>1 DEF Turns, TypeOK
  <2> QED
    BY <2>1, SetterMessage
<1>4. \A r \in Setters : Message(r)' = Message(r)
  BY <1>1 DEF Message
<1>5. Told(c) \in Seq(Messages)
  BY ToldTypes DEF TypeOK
<1>6. CASE setterPc[s] = "sockets"
  <2>1. mMutex = s /\ c \in ToSet(mOpenConnections) /\ IsInjective(targets[s]) /\ s # NoOne
    BY <1>2, <1>6, ThreadsAssumption DEF Turns
  <2>2. c \notin Pipes
    BY <2>1, ToSetOfSeq, ThreadsAssumption DEF TypeOK
  <2>3. IsNext(c) /\ ~IsNext(c)'
    BY <1>1, <1>2, <2>1 DEF IsNext
  <2>4. ToTell(c) = Append(Told(c), Message(s))
    BY <2>1, <2>2, <2>3 DEF AllTold, IsTold, SocketTold
  <2>5. ToTell(c)' = ToTell(c)
    <3>1. Since(c)' = Since(c)
      BY <1>1 DEF Since
    <3> QED
      BY <3>1 DEF ToTell
  <2>6. SocketTold(c)'
    BY <1>1, <2>1, <2>3, <2>4, <2>5 DEF SocketTold
  <2> QED
    BY <2>2, <2>6 DEF IsTold
<1>7. CASE setterPc[s] = "pipe"
  <2>1. c \in Pipes /\ Len(targets[s]) <= 1
    BY <1>2, <1>7 DEF Turns
  <2>2. targets'[s] = <<>>
    <3>1. Len(targets[s]) \in Nat /\ Len(targets'[s]) \in Nat
      BY <1>1, <1>2
    <3>2. Len(targets'[s]) = 0
      <4>1. \A n, m \in Nat : n <= 1 /\ m = n - 1 => m = 0
        OBVIOUS
      <4> QED
        BY <1>2, <2>1, <3>1, <4>1
    <3> QED
      BY <1>2, <3>2
  <2>3. s \in Busy /\ Busy' = Busy \ {s}
    BY <1>1, <1>7, <2>2 DEF Busy
  <2>4. Cardinality(Busy') = Cardinality(Busy) - 1 /\ Cardinality(Busy) \in Nat
    BY <2>3, BusyIsFinite, FS_RemoveElement
  <2>5. PipeTold(c)
    BY <2>1 DEF AllTold, IsTold
  <2>6. Len(Told(c)') = Len(Told(c)) + 1 /\ Len(Told(c)) \in Nat
    BY <1>3, <1>5
  <2>7. ToSet(Told(c)') = ToSet(Told(c)) \cup {Message(s)}
    <3>1. PICK t, m : t = Told(c) /\ m = Message(s)
      OBVIOUS
    <3>2. ToSet(Append(t, m)) = ToSet(t) \cup {m}
      BY <1>3, <1>5, <3>1, ToSetAppend
    <3> QED
      BY <3>1, <3>2
  <2>8. {Message(r) : r \in Busy}' = {Message(r) : r \in Busy'}
    BY <1>4, <2>3 DEF Busy
  <2>9. {Message(r) : r \in Busy} = {Message(r) : r \in Busy'} \cup {Message(s)}
    BY <2>3
  <2>10. PipeTold(c)'
    <3>1. Len(Told(c)') + Cardinality(Busy') = Len(sent')
      BY <1>1, <2>4, <2>5, <2>6 DEF PipeTold
    <3>2. ToSet(Told(c)') \cup {Message(r) : r \in Busy}' =
             {doSetValueFromClient(x) : x \in ToSet(sent)}
      BY <2>5, <2>7, <2>8, <2>9 DEF PipeTold
    <3> QED
      BY <1>1, <3>1, <3>2 DEF PipeTold
  <2> QED
    BY <2>1, <2>10 DEF IsTold
<1> QED
  BY <1>3, <1>6, <1>7

\* A setter takes the mutex, and has a message for each connection.
LEMMA LockTold ==
    ASSUME TypeOK, OnTheWay, Turns, RegisteredOnce, AllTold, NEW s \in Setters, LockSockets(s),
           NEW c \in Conns \ closed, ~IsMixed(c), Told(c)' = Told(c)
    PROVE  IsTold(c)'
<1>1. /\ setterPc[s] = "tell" /\ mMutex = NoOne /\ mMutex' = s /\ s # NoOne
      /\ setterPc' = [setterPc EXCEPT ![s] = "sockets"]
      /\ targets' = [targets EXCEPT ![s] = mOpenConnections]
      /\ sent' = Append(sent, setting[s])
      /\ UNCHANGED <<mOpenConnections, joined, setting>>
  BY ThreadsAssumption DEF LockSockets, listenVars
<1>2. setting[s] \in Settings /\ Message(s) = doSetValueFromClient(setting[s])
      /\ Message(s)' = Message(s)
  BY <1>1 DEF OnTheWay, Message
<1>3. targets'[s] = mOpenConnections /\ \A r \in Setters : r # s => targets'[r] = targets[r]
  BY <1>1 DEF TypeOK
<1>4. \A r \in Setters : Message(r)' = Message(r)
  BY <1>1 DEF Message
<1>5. CASE c \notin Pipes
  <2>1. SocketTold(c) /\ ~IsNext(c)
    BY <1>1, <1>5 DEF AllTold, IsTold, IsNext
  <2>2. IsNext(c)' <=> c \in ToSet(mOpenConnections)
    BY <1>1, <1>3 DEF IsNext
  <2>3. ToTell(c)' = Append(ToTell(c), Message(s))
    BY <1>1, <1>2, ToTellAppend DEF RegisteredOnce
  <2>4. SocketTold(c)'
    BY <1>1, <1>2, <2>1, <2>2, <2>3 DEF SocketTold
  <2> QED
    BY <1>5, <2>4 DEF IsTold
<1>6. CASE c \in Pipes
  <2>1. s \notin Busy /\ Busy' = Busy \cup {s}
    BY <1>1, <1>3 DEF Busy, TypeOK
  <2>2. Cardinality(Busy') = Cardinality(Busy) + 1 /\ Cardinality(Busy) \in Nat
    BY <2>1, BusyIsFinite, FS_AddElement
  <2>3. PipeTold(c)
    BY <1>6 DEF AllTold, IsTold
  <2>4. Len(Told(c)) \in Nat /\ Len(sent) \in Nat /\ Len(sent') = Len(sent) + 1
    <3>1. Told(c) \in Seq(Messages) /\ sent \in Seq(Settings)
      BY ToldTypes DEF TypeOK
    <3> QED
      BY <1>1, <3>1
  <2>5. ToSet(sent') = ToSet(sent) \cup {setting[s]}
    BY <1>1, <1>2, ToSetAppend DEF TypeOK
  <2>6. {Message(r) : r \in Busy}' = {Message(r) : r \in Busy'}
    BY <1>4, <2>1 DEF Busy
  <2>7. {Message(r) : r \in Busy'} = {Message(r) : r \in Busy} \cup {Message(s)}
    BY <2>1
  <2>8. {doSetValueFromClient(x) : x \in ToSet(sent')} =
           {doSetValueFromClient(x) : x \in ToSet(sent)} \cup {Message(s)}
    BY <1>2, <2>5
  <2>9. PipeTold(c)'
    <3>1. Len(Told(c)') + Cardinality(Busy') = Len(sent')
      BY <2>2, <2>3, <2>4 DEF PipeTold
    <3>2. ToSet(Told(c)') \cup {Message(r) : r \in Busy}' =
             {doSetValueFromClient(x) : x \in ToSet(sent')}
      BY <2>3, <2>6, <2>7, <2>8 DEF PipeTold
    <3> QED
      BY <3>1, <3>2 DEF PipeTold
  <2> QED
    BY <1>6, <2>9 DEF IsTold
<1> QED
  BY <1>5, <1>6

\* A setter has told the sockets: it goes on with the pipe.
LEMMA UnlockTold ==
    ASSUME TypeOK, Turns, AllTold, NEW s \in Setters, UnlockSockets(s),
           NEW c \in Conns \ closed, ~IsMixed(c), Told(c)' = Told(c)
    PROVE  IsTold(c)'
<1>1. /\ setterPc[s] = "sockets" /\ targets[s] = <<>> /\ mMutex = s /\ mMutex' = NoOne
      /\ setterPc' = [setterPc EXCEPT ![s] = "pipe"]
      /\ targets' = [targets EXCEPT ![s] = SetToSeq(Pipes)]
      /\ UNCHANGED <<mOpenConnections, sent, joined, setting>>
  BY DEF UnlockSockets, listenVars, historyVars, Turns
<1>2. \A r \in Setters : Message(r)' = Message(r)
  BY <1>1 DEF Message
<1>3. CASE c \notin Pipes
  <2>1. ~IsNext(c) /\ ~IsNext(c)'
    BY <1>1, ToSetEmpty DEF IsNext
  <2> QED
    BY <1>1, <1>3, <2>1, SocketStays
<1>4. CASE c \in Pipes
  <2>1. targets'[s] # <<>>
    BY <1>1, <1>4, PipeList, ToSetEmpty DEF TypeOK
  <2>2. Busy' = Busy
    BY <1>1, <2>1 DEF Busy, TypeOK
  <2> QED
    BY <1>1, <1>2, <1>4, <2>2, PipeStays DEF Busy
<1> QED
  BY <1>3, <1>4

\* A socket is registered: nothing has been set since.
LEMMA RegisterTold ==
    ASSUME TypeOK, Turns, RegisteredOnce, AllTold, RegisterConnection,
           NEW c \in Conns \ closed, ~IsMixed(c), Told(c)' = Told(c)
    PROVE  IsTold(c)'
<1>1. /\ listening \in Sockets /\ mOpenConnections \in Seq(Sockets)
      /\ listening \notin ToSet(mOpenConnections)
      /\ mOpenConnections' = Append(mOpenConnections, listening)
      /\ joined' = [joined EXCEPT ![listening] = Len(sent)] /\ mMutex = NoOne
      /\ UNCHANGED <<mMutex, setterPc, setting, targets, sent>>
  BY DEF RegisterConnection, TypeOK, RegisteredOnce, setterVars
<1>2. ToSet(mOpenConnections') = ToSet(mOpenConnections) \cup {listening}
  BY <1>1, ToSetAppend
<1>3. CASE c # listening
  <2>1. joined'[c] = joined[c] /\ Busy' = Busy
    BY <1>1, <1>3 DEF TypeOK, Busy
  <2> QED
    BY <1>1, <1>2, <1>3, <2>1, ToldStays
<1>4. CASE c = listening
  <2>1. c \notin Pipes /\ c \in Conns
    BY <1>1, <1>4, ThreadsAssumption DEF Conns
  <2>2. Told(c) = <<>>
    BY <1>1, <1>4, <2>1 DEF AllTold, IsTold, SocketTold
  <2>3. joined'[c] = Len(sent) /\ sent' = sent /\ sent \in Seq(Settings)
    BY <1>1, <1>4, <2>1 DEF TypeOK
  <2>4. Since(c)' = <<>>
    BY <2>3 DEF Since
  <2>5. ToTell(c)' = <<>>
    BY <2>4 DEF ToTell
  <2>6. ~IsNext(c)'
    BY <1>1 DEF IsNext
  <2>7. SocketTold(c)'
    BY <2>2, <2>5, <2>6 DEF SocketTold
  <2> QED
    BY <2>1, <2>7 DEF IsTold
<1> QED
  BY <1>3, <1>4

\* Only those who write move on in a message.
LEMMA QuietActions ==
    ASSUME TypeOK, Turns, [Next]_vars,
           ~\E d \in Conns : WriteLength(d) \/ WriteBody(d) \/ WriteFails(d),
           ~\E s \in Setters : WritePart(s) \/ WritePartFails(s)
    PROVE  /\ closed \subseteq closed' /\ UNCHANGED written
           /\ \A s \in Setters : /\ part'[s] = part[s]
                                 /\ part[s] = "data" => /\ targets'[s] = targets[s]
                                                        /\ setting'[s] = setting[s]
           /\ \A d \in Conns : /\ readPc[d] = "data" <=> readPc'[d] = "data"
                               /\ readPc[d] = "data" => response'[d] = response[d]
<1> DEFINE Quiet ==
      /\ closed \subseteq closed' /\ UNCHANGED written
      /\ \A s \in Setters : /\ part'[s] = part[s]
                            /\ part[s] = "data" => /\ targets'[s] = targets[s]
                                                   /\ setting'[s] = setting[s]
      /\ \A d \in Conns : /\ readPc[d] = "data" <=> readPc'[d] = "data"
                          /\ readPc[d] = "data" => response'[d] = response[d]
<1> USE DEF listenVars, peerVars, readVars, setterVars, historyVars
<1>1. ASSUME NEW d \in Conns,
             PeerSends(d) \/ PeerCloses(d) \/ Accept(d) \/ Read(d) \/ ReadEnd(d) \/ ReadBody(d)
                \/ ReadFrame(d) \/ IgnoreMessage(d) \/ ProcessMessage(d)
      PROVE  Quiet
  <2>1. closed \subseteq closed' /\ UNCHANGED <<written, setterVars>>
    BY <1>1 DEF PeerSends, PeerCloses, Accept, Read, ReadEnd, ReadBody, ReadFrame,
                IgnoreMessage, ProcessMessage
  <2>2. CASE PeerSends(d) \/ PeerCloses(d) \/ Read(d)
    BY <2>1, <2>2 DEF PeerSends, PeerCloses, Read
  <2>3. CASE Accept(d) \/ ReadEnd(d) \/ ReadBody(d) \/ ReadFrame(d)
    <3>1. /\ response' = response /\ readPc[d] # "data"
          /\ \E v \in {"header", "ended", "body"} : readPc' = [readPc EXCEPT ![d] = v]
      BY <2>3 DEF Accept, ReadEnd, ReadBody, ReadFrame, IsReading
    <3> QED
      BY <2>1, <3>1 DEF TypeOK
  <2>4. CASE IgnoreMessage(d) \/ ProcessMessage(d)
    BY <2>1, <2>4 DEF IgnoreMessage, ProcessMessage, HasMessage, ReadNext, TypeOK
  <2> QED
    BY <1>1, <2>2, <2>3, <2>4
<1>2. ASSUME RegisterConnection \/ UNCHANGED vars
      PROVE  Quiet
  BY <1>2 DEF RegisterConnection, vars
<1>3. ASSUME NEW s \in Setters,
             SetValue(s) \/ Return(s) \/ LockSockets(s) \/ UnlockSockets(s)
      PROVE  Quiet
  <2>1. UNCHANGED <<closed, written, readPc, response, part>> /\ targets[s] = <<>>
    BY <1>3 DEF SetValue, Return, LockSockets, UnlockSockets, Turns
  <2>2. part[s] # "data"
    BY <2>1 DEF Turns
  <2>3. \A r \in Setters : r # s => targets'[r] = targets[r] /\ setting'[r] = setting[r]
    BY <1>3 DEF SetValue, Return, LockSockets, UnlockSockets, TypeOK
  <2> QED
    BY <2>1, <2>2, <2>3
<1> QED
  BY <1>1, <1>2, <1>3 DEF Next, ReadThread, Setter

\* Every action keeps the streams framed.  A message is added by who writes
\* its body.
LEMMA StreamsNext ==
    ASSUME TypeOK, TypeOK', OnTheWay, Turns, Streams, [Next]_vars,
           NEW c \in Conns \ closed', ~IsMixed(c)'
    PROVE  /\ c \in Conns \ closed /\ ~IsMixed(c) /\ Framed(c)'
           /\ ~WriteBody(c) => Answers(c)' = Answers(c)
           /\ (\A s \in Setters : WritePart(s) => ~(c = Head(targets[s]) /\ part[s] = "data")) =>
                 Told(c)' = Told(c)
<1>1. ASSUME NEW d \in Conns, WriteLength(d) \/ WriteBody(d) \/ WriteFails(d)
      PROVE  /\ c \in Conns \ closed /\ ~IsMixed(c) /\ Framed(c)' /\ Told(c)' = Told(c)
             /\ ~WriteBody(c) => Answers(c)' = Answers(c)
  <2>1. CASE WriteFails(d)
    BY <2>1, FailureStream
  <2>2. CASE (WriteLength(d) \/ WriteBody(d)) /\ c # d
    BY <2>2, OthersStream
  <2>3. CASE c = d /\ WriteLength(d)
    BY <2>3, LengthStream
  <2>4. CASE c = d /\ WriteBody(d)
    BY <2>4, BodyStream
  <2> QED
    BY <1>1, <2>1, <2>2, <2>3, <2>4
<1>2. ASSUME NEW s \in Setters, WritePart(s)
      PROVE  /\ c \in Conns \ closed /\ ~IsMixed(c) /\ Framed(c)' /\ Answers(c)' = Answers(c)
             /\ ~(c = Head(targets[s]) /\ part[s] = "data") => Told(c)' = Told(c)
  BY <1>2, PartStream
<1>3. ASSUME NEW s \in Setters, WritePartFails(s)
      PROVE  /\ c \in Conns \ closed /\ ~IsMixed(c) /\ Framed(c)' /\ Answers(c)' = Answers(c)
             /\ Told(c)' = Told(c)
  BY <1>3, FailureStream
<1>4. ASSUME ~\E d \in Conns : WriteLength(d) \/ WriteBody(d) \/ WriteFails(d),
             ~\E s \in Setters : WritePart(s) \/ WritePartFails(s)
      PROVE  /\ c \in Conns \ closed /\ ~IsMixed(c) /\ Framed(c)' /\ Answers(c)' = Answers(c)
             /\ Told(c)' = Told(c)
  BY <1>4, QuietActions, QuietStream
<1> QED
  BY <1>1, <1>2, <1>3, <1>4

\* Every action keeps the connections told.
LEMMA ToldNext ==
    ASSUME TypeOK, TypeOK', OnTheWay, Turns, RegisteredOnce, Streams, AllTold, [Next]_vars
    PROVE  Streams' /\ AllTold'
<1> SUFFICES ASSUME NEW c \in Conns \ closed', ~IsMixed(c)'
             PROVE  Framed(c)' /\ IsTold(c)'
  BY DEF Streams, AllTold
<1> USE DEF listenVars, peerVars, readVars, setterVars, historyVars
<1>1. /\ c \in Conns \ closed /\ ~IsMixed(c) /\ Framed(c)'
      /\ (\A s \in Setters : WritePart(s) => ~(c = Head(targets[s]) /\ part[s] = "data")) =>
            Told(c)' = Told(c)
  BY StreamsNext
<1>2. ASSUME UNCHANGED <<setterVars, mMutex, sent, joined, mOpenConnections>>
      PROVE  IsTold(c)'
  <2>1. Told(c)' = Told(c)
    <3>1. \A s \in Setters : WritePart(s) => part'[s] # part[s]
      BY DEF WritePart, TypeOK
    <3> QED
      BY <1>1, <1>2, <3>1
  <2>2. Busy' = Busy
    BY <1>2 DEF Busy
  <2> QED
    BY <1>1, <1>2, <2>1, <2>2, ToldStays
<1>3. ASSUME NEW d \in Conns, PeerSends(d) \/ PeerCloses(d) \/ Accept(d) \/ ReadThread(d)
      PROVE  IsTold(c)'
  <2>1. UNCHANGED <<setterVars, mMutex, sent, joined, mOpenConnections>>
    BY <1>3 DEF PeerSends, PeerCloses, Accept, ReadThread, Read, ReadEnd, ReadBody, ReadFrame,
                IgnoreMessage, ProcessMessage, WriteLength, WriteBody, WriteFails
  <2> QED
    BY <1>2, <2>1
<1>4. ASSUME RegisterConnection
      PROVE  IsTold(c)'
  <2>1. \A s \in Setters : ~WritePart(s)
    BY <1>4 DEF RegisterConnection, WritePart, TypeOK
  <2> QED
    BY <1>1, <1>4, <2>1, RegisterTold
<1>5. ASSUME NEW s \in Setters, SetValue(s) \/ Return(s)
      PROVE  IsTold(c)'
  <2>1. UNCHANGED <<targets, part, mMutex, mOpenConnections>> /\ UNCHANGED historyVars
    BY <1>5 DEF SetValue, Return
  <2>2. targets[s] = <<>> /\ setterPc[s] # "sockets"
    BY <1>5 DEF SetValue, Return, Turns
  <2>3. \A r \in Setters : r # s => setting'[r] = setting[r] /\ setterPc'[r] = setterPc[r]
    BY <1>5 DEF SetValue, Return, TypeOK
  <2>4. setterPc'[s] \in {"tell", "idle"}
    BY <1>5 DEF SetValue, Return, TypeOK
  <2>5. Told(c)' = Told(c)
    <3>1. \A r \in Setters : WritePart(r) => part'[r] # part[r]
      BY DEF WritePart, TypeOK
    <3> QED
      BY <1>1, <2>1, <3>1
  <2>6. Busy' = Busy /\ s \notin Busy
    BY <2>1, <2>2, <2>3, <2>4 DEF Busy
  <2> QED
    BY <1>1, <2>1, <2>3, <2>5, <2>6, ToldStays DEF Busy
<1>6. ASSUME NEW s \in Setters, LockSockets(s) \/ UnlockSockets(s)
      PROVE  IsTold(c)'
  <2>1. Told(c)' = Told(c)
    <3>1. UNCHANGED part
      BY <1>6 DEF LockSockets, UnlockSockets
    <3>2. \A r \in Setters : WritePart(r) => part'[r] # part[r]
      BY DEF WritePart, TypeOK
    <3> QED
      BY <1>1, <3>1, <3>2
  <2> QED
    BY <1>1, <1>6, <2>1, LockTold, UnlockTold
<1>7. ASSUME NEW s \in Setters, WritePart(s)
      PROVE  IsTold(c)'
  <2>1. Told(c)' = IF c = Head(targets[s]) /\ part[s] = "data"
                   THEN Append(Told(c), Message(s)) ELSE Told(c)
    BY <1>7, PartStream
  <2>2. /\ targets[s] # <<>>
        /\ UNCHANGED <<mMutex, mOpenConnections, sent, joined, setterPc, setting>>
        /\ \/ part[s] = "length" /\ targets' = targets
           \/ part[s] = "data" /\ targets' = [targets EXCEPT ![s] = Tail(@)]
    BY <1>7 DEF WritePart
  <2>3. CASE c = Head(targets[s]) /\ part[s] = "data"
    BY <1>1, <1>7, <2>1, <2>3, BodyTold
  <2>4. CASE c # Head(targets[s]) /\ part[s] = "data"
    BY <1>1, <2>1, <2>2, <2>4, TargetDone
  <2>5. CASE part[s] = "length"
    <3>1. Busy' = Busy
      BY <2>2, <2>5 DEF Busy
    <3> QED
      BY <1>1, <2>1, <2>2, <2>5, <3>1, ToldStays
  <2> QED
    BY <2>2, <2>3, <2>4, <2>5
<1>8. ASSUME NEW s \in Setters, WritePartFails(s)
      PROVE  IsTold(c)'
  <2>1. Told(c)' = Told(c)
    BY <1>8, FailureStream
  <2>2. /\ targets[s] # <<>> /\ Head(targets[s]) \in closed
        /\ UNCHANGED <<mMutex, mOpenConnections, sent, joined, setterPc, setting>>
        /\ targets' = [targets EXCEPT ![s] = Tail(@)]
    BY <1>8 DEF WritePartFails
  <2> QED
    BY <1>1, <2>1, <2>2, TargetDone
<1>9. ASSUME UNCHANGED vars
      PROVE  IsTold(c)'
  BY <1>2, <1>9 DEF vars
<1> QED
  BY <1>1, <1>3, <1>4, <1>5, <1>6, <1>7, <1>8, <1>9 DEF Next, Setter

LEMMA ToldInitially == Init => Streams /\ AllTold
<1> SUFFICES ASSUME Init, NEW c \in Conns
             PROVE  Framed(c) /\ IsTold(c)
  BY DEF Streams, AllTold
<1>1. /\ written[c] = <<>> /\ Len(written[c]) = 0 /\ DOMAIN written[c] = {}
      /\ written[c] \in Seq(Pieces)
  BY DEF Init
<1>2. \A t \in Writers : ~IsBetween(t, c)
  BY DEF Init, IsBetween, Writers
<1>3. Framed(c)
  <2>1. IsWhole(c)
    BY <1>1 DEF IsWhole
  <2>2. ~(Len(written[c]) % 2 = 1)
    BY <1>1
  <2> QED
    BY <1>2, <2>1, <2>2 DEF Framed
<1>4. Told(c) = <<>>
  <2>1. Received(c) \in Seq(Messages) /\ Len(Received(c)) = 0
    <3>1. 0 \div 2 = 0
      OBVIOUS
    <3> QED
      BY <1>1, <3>1, ReceivedTypes
  <2>2. Received(c) = <<>>
    BY <2>1
  <2> QED
    BY <1>1, <2>2, ToldTypes, SelectedEmpty
<1>5. Busy = {} /\ sent = <<>> /\ mOpenConnections = <<>>
  BY DEF Init, Busy
<1>6. CASE c \in Pipes
  <2>1. Cardinality(Busy) = 0 /\ Len(Told(c)) = 0 /\ Len(sent) = 0
    BY <1>4, <1>5, FS_EmptySet
  <2>2. PipeTold(c)
    BY <1>4, <1>5, <2>1, ToSetEmpty DEF PipeTold
  <2> QED
    BY <1>3, <1>6, <2>2 DEF IsTold
<1>7. CASE c \notin Pipes
  BY <1>3, <1>4, <1>5, <1>7, ToSetEmpty DEF IsTold, SocketTold
<1> QED
  BY <1>3, <1>6, <1>7

LEMMA PrefixOfAppend ==
    ASSUME NEW T, NEW s \in Seq(T), NEW x \in T
    PROVE  IsPrefix(s, Append(s, x)) /\ IsPrefix(s, s)
<1> DEFINE n == Len(s)
           u == Append(s, x)
<1>1. n \in Nat /\ u \in Seq(T) /\ Len(u) = n + 1
  OBVIOUS
<1>2. SubSeq(u, 1, n) = SubSeq(s, 1, n)
  BY SubSeqOfAppend
<1> HIDE DEF u
<1> QED
  BY <1>1, <1>2 DEF IsPrefix, u

LEMMA ToldIsEnough ==
    ASSUME TypeOK, OnTheWay, Turns, RegisteredOnce, Streams, AllTold
    PROVE  ConnectionsAreTold
<1> SUFFICES ASSUME NEW c \in Conns \ closed, ~IsMixed(c)
             PROVE  /\ IsWhole(c)
                    /\ CASE c \in Pipes ->
                              /\ ToSet(Told(c)) \subseteq ToSet(ToTell(c))
                              /\ Len(Told(c)) <= Len(ToTell(c))
                              /\ (\A s \in Setters : setterPc[s] = "idle") =>
                                    /\ Len(Told(c)) = Len(ToTell(c))
                                    /\ ToSet(Told(c)) = ToSet(ToTell(c))
                         [] c \in ToSet(mOpenConnections) ->
                              /\ IsPrefix(Told(c), ToTell(c))
                              /\ mMutex = NoOne => Told(c) = ToTell(c)
                         [] OTHER -> Told(c) = <<>>
  BY DEF ConnectionsAreTold, ToTell, Since
<1>1. IsWhole(c)
  BY DEF Streams, Framed
<1>2. Told(c) \in Seq(Messages) /\ IsTold(c)
  BY ToldTypes DEF TypeOK, AllTold
<1>3. CASE c \in Pipes
  <2>1. joined[c] = 0 /\ sent \in Seq(Settings)
    BY <1>3 DEF RegisteredOnce, TypeOK
  <2>2. Since(c) = sent
    BY <2>1, SubSeqOfAll DEF Since
  <2>3. ToTell(c) = [i \in DOMAIN sent |-> doSetValueFromClient(sent[i])]
    BY <2>2 DEF ToTell
  <2>4. /\ Len(ToTell(c)) = Len(sent)
        /\ ToSet(ToTell(c)) = {doSetValueFromClient(x) : x \in ToSet(sent)}
    <3>1. DOMAIN sent = 1 .. Len(sent) /\ Len(sent) \in Nat
      BY <2>1
    <3>2. Len(ToTell(c)) = Len(sent)
      BY <2>3, <3>1
    <3>3. ToSet(ToTell(c)) = {doSetValueFromClient(sent[i]) : i \in DOMAIN sent}
      BY <2>3 DEF ToSet
    <3>4. ToSet(sent) = {sent[i] : i \in DOMAIN sent}
      BY DEF ToSet
    <3> QED
      BY <3>2, <3>3, <3>4
  <2>5. PipeTold(c)
    BY <1>2, <1>3 DEF IsTold
  <2>6. Len(Told(c)) \in Nat /\ Cardinality(Busy) \in Nat /\ Len(sent) \in Nat
    BY <1>2, <2>1, BusyIsFinite
  <2>7. (\A s \in Setters : setterPc[s] = "idle") =>
           Cardinality(Busy) = 0 /\ {Message(s) : s \in Busy} = {}
    <3>1. (\A s \in Setters : setterPc[s] = "idle") => Busy = {}
      BY DEF Busy
    <3> QED
      BY <3>1, FS_EmptySet
  <2>8. Len(Told(c)) <= Len(ToTell(c))
    BY <2>4, <2>5, <2>6 DEF PipeTold
  <2>9. (\A s \in Setters : setterPc[s] = "idle") => Len(Told(c)) = Len(ToTell(c))
    BY <2>4, <2>5, <2>6, <2>7 DEF PipeTold
  <2>10. /\ ToSet(Told(c)) \subseteq ToSet(ToTell(c))
         /\ (\A s \in Setters : setterPc[s] = "idle") => ToSet(Told(c)) = ToSet(ToTell(c))
    BY <2>4, <2>5, <2>7 DEF PipeTold
  <2>11. /\ ToSet(Told(c)) \subseteq ToSet(ToTell(c))
         /\ Len(Told(c)) <= Len(ToTell(c))
         /\ (\A s \in Setters : setterPc[s] = "idle") =>
               /\ Len(Told(c)) = Len(ToTell(c))
               /\ ToSet(Told(c)) = ToSet(ToTell(c))
    BY <2>8, <2>9, <2>10
  <2>12. c \notin ToSet(mOpenConnections)
    BY <1>3, ToSetOfSeq, ThreadsAssumption DEF TypeOK
  <2> QED
    BY <1>1, <1>3, <2>11, <2>12
<1>4. CASE c \notin Pipes /\ c \in ToSet(mOpenConnections)
  <2>1. ToTell(c) = IF IsNext(c) THEN Append(Told(c), Message(mMutex)) ELSE Told(c)
    BY <1>2, <1>4 DEF IsTold, SocketTold
  <2>2. IsNext(c) => Message(mMutex) \in Messages
    <3>1. IsNext(c) => mMutex \in Setters /\ setterPc[mMutex] = "sockets"
      BY DEF IsNext, Turns, TypeOK
    <3> QED
      BY <3>1, SetterMessage
  <2>3. IsPrefix(Told(c), ToTell(c))
    <3>1. CASE IsNext(c)
      BY <1>2, <2>1, <2>2, <3>1, PrefixOfAppend
    <3>2. CASE ~IsNext(c)
      <4>1. PICK t : t = Told(c)
        OBVIOUS
      <4>2. t \in Seq(Messages) /\ Len(t) \in Nat
        BY <1>2, <4>1
      <4> QED
        BY <2>1, <3>2, <4>1, <4>2 DEF IsPrefix
    <3> QED
      BY <3>1, <3>2
  <2>4. mMutex = NoOne => Told(c) = ToTell(c)
    BY <2>1 DEF IsNext
  <2> QED
    BY <1>1, <1>4, <2>3, <2>4
<1>5. CASE c \notin Pipes /\ c \notin ToSet(mOpenConnections)
  BY <1>1, <1>2, <1>5 DEF IsTold, SocketTold
<1> QED
  BY <1>3, <1>4, <1>5
-----------------------------------------------------------------------------
(***************************************************************************)
(* What a read thread takes from its stream.                               *)
(***************************************************************************)

\* Where the frame after q others begins, and what it is made of.
LEMMA FrameOfStream ==
    ASSUME NEW c, NEW T, commands[c] \in Seq(T), NEW q \in Nat
    PROVE  /\ (FRAME * q) \div FRAME = q /\ (FRAME * q + HEADER) \div FRAME = q
           /\ Len(Stream(c)) = FRAME * Len(commands[c])
           /\ q < Len(commands[c]) =>
                 LET k == commands[c][q + 1]
                 IN  /\ SubSeq(Stream(c), FRAME * q + 1, FRAME * q + HEADER) = <<0, 2>>
                     /\ SubSeq(Stream(c), FRAME * q + HEADER + 1, FRAME * q + FRAME) = <<k, k>>
<1> USE DEF FRAME, HEADER
<1> DEFINE n == Len(commands[c])
           s == Stream(c)
<1>1. (4 * q) \div 4 = q /\ (4 * q + 2) \div 4 = q
  OBVIOUS
<1>2. n \in Nat /\ 4 * n \in Nat
  OBVIOUS
<1>3. /\ DOMAIN s = 1 .. 4 * n
      /\ \A i \in 1 .. 4 * n : s[i] = Frame(commands[c][1 + ((i - 1) \div 4)])[1 + ((i - 1) % 4)]
  BY DEF Stream
<1>4. s \in Seq({s[i] : i \in 1 .. 4 * n}) /\ Len(s) = 4 * n
  <2>1. s \in [1 .. 4 * n -> {s[i] : i \in 1 .. 4 * n}]
    BY DEF Stream
  <2> HIDE DEF s, n
  <2> QED
    BY <1>2, <2>1, FunctionIsSeq
<1>5. ASSUME q < n
      PROVE  LET k == commands[c][q + 1]
             IN  /\ SubSeq(s, 4 * q + 1, 4 * q + 2) = <<0, 2>>
                 /\ SubSeq(s, 4 * q + 2 + 1, 4 * q + 4) = <<k, k>>
  <2> DEFINE k == commands[c][q + 1]
  <2> HIDE DEF s, n
  <2>1. ASSUME NEW j \in 0 .. 3
        PROVE  /\ 4 * q + 1 + j \in 1 .. 4 * n
               /\ (4 * q + 1 + j - 1) \div 4 = q /\ (4 * q + 1 + j - 1) % 4 = j
    BY <1>2, <1>5
  <2>2. \A j \in 0 .. 3 : s[4 * q + 1 + j] = Frame(commands[c][1 + q])[1 + j]
    <3>1. ASSUME NEW j \in 0 .. 3
          PROVE  s[4 * q + 1 + j] = Frame(commands[c][1 + q])[1 + j]
      <4> DEFINE i == 4 * q + 1 + j
      <4>1. i \in 1 .. 4 * n /\ (i - 1) \div 4 = q /\ (i - 1) % 4 = j
        BY <2>1
      <4> HIDE DEF i
      <4>2. s[i] = Frame(commands[c][1 + q])[1 + j]
        BY <1>3, <4>1
      <4> QED
        BY <4>2 DEF i
    <3> QED
      BY <3>1
  <2>3. Frame(commands[c][1 + q]) = <<0, 2, k, k>>
    BY DEF Frame
  <2>4. s[4 * q + 1] = 0 /\ s[4 * q + 2] = 2 /\ s[4 * q + 3] = k /\ s[4 * q + 4] = k
    <3>1. /\ s[4 * q + 1 + 0] = 0 /\ s[4 * q + 1 + 1] = 2
          /\ s[4 * q + 1 + 2] = k /\ s[4 * q + 1 + 3] = k
      <4> HIDE DEF k
      <4> QED
        BY <2>2, <2>3
    <3>2. /\ 4 * q + 1 + 0 = 4 * q + 1 /\ 4 * q + 1 + 1 = 4 * q + 2
          /\ 4 * q + 1 + 2 = 4 * q + 3 /\ 4 * q + 1 + 3 = 4 * q + 4
      OBVIOUS
    <3> QED
      BY <3>1, <3>2
  <2> HIDE DEF k
  <2>5. 4 * q + 4 <= 4 * n
    BY <1>2, <1>5
  <2>6. ASSUME NEW m \in Nat, m + 2 <= 4 * n
        PROVE  SubSeq(s, m + 1, m + 2) = <<s[m + 1], s[m + 2]>>
    <3> DEFINE S == {s[i] : i \in 1 .. 4 * n}
    <3>1. s \in Seq(S) /\ m + 2 <= Len(s)
      BY <1>4, <2>6
    <3> HIDE DEF S
    <3> QED
      BY <3>1, TwoOfSeq
  <2>7. SubSeq(s, 4 * q + 1, 4 * q + 2) = <<0, 2>>
    <3>1. 4 * q \in Nat /\ 4 * q + 2 <= 4 * n
      BY <1>2, <2>5
    <3> QED
      BY <2>4, <2>6, <3>1
  <2>8. SubSeq(s, 4 * q + 2 + 1, 4 * q + 4) = <<k, k>>
    <3>1. /\ 4 * q + 2 \in Nat /\ 4 * q + 2 + 2 <= 4 * n
          /\ 4 * q + 2 + 1 = 4 * q + 3 /\ 4 * q + 2 + 2 = 4 * q + 4
      BY <1>2, <2>5
    <3>2. SubSeq(s, 4 * q + 2 + 1, 4 * q + 2 + 2) = <<s[4 * q + 2 + 1], s[4 * q + 2 + 2]>>
      BY <2>6, <3>1
    <3> QED
      BY <2>4, <3>1, <3>2
  <2> QED
    BY <2>7, <2>8 DEF k
<1> QED
  BY <1>1, <1>4, <1>5

LEMMA InStream ==
    ASSUME TypeOK, NEW c \in Conns, AtFrame(c)
    PROVE  /\ {totalRead[c], consumed[c], wanted[c], begun[c]} \subseteq Nat
           /\ Taken(c) \in Nat /\ Taken(c) <= Len(commands[c])
           /\ commands[c] \in Seq(Bodies) /\ Len(commands[c]) \in Nat
           /\ Len(Stream(c)) = FRAME * Len(commands[c])
<1>1. {totalRead[c], consumed[c], wanted[c], begun[c]} \subseteq Nat
  BY DEF AtFrame
<1>2. commands[c] \in Seq(Bodies)
  BY DEF TypeOK
<1>3. Taken(c) \in Nat
  BY <1>1 DEF Taken, FRAME
<1>4. Len(commands[c]) \in Nat
  BY <1>2
<1>5. Taken(c) <= Len(commands[c])
  BY <1>3, <1>4 DEF AtFrame
<1>6. Len(Stream(c)) = FRAME * Len(commands[c])
  BY <1>2, <1>3, FrameOfStream
<1> QED
  BY <1>1, <1>2, <1>3, <1>4, <1>5, <1>6

LEMMA UnderstoodNext ==
    ASSUME NEW T, NEW s \in Seq(T), NEW q \in Nat, q < Len(s), NEW S
    PROVE  Selected(SubSeq(s, 1, q + 1), S) =
               IF s[q + 1] \in S THEN Append(Selected(SubSeq(s, 1, q), S), s[q + 1])
               ELSE Selected(SubSeq(s, 1, q), S)
<1> DEFINE a == SubSeq(s, 1, q)
           b == SubSeq(s, 1, q + 1)
           x == s[q + 1]
<1>1. a \in Seq(T) /\ x \in T /\ Len(a) = q /\ \A i \in 1 .. q : a[i] = s[i]
  OBVIOUS
<1>2. b \in Seq(T) /\ Len(b) = q + 1 /\ \A i \in 1 .. q + 1 : b[i] = s[i]
  OBVIOUS
<1>3. b = Append(a, x)
  <2> DEFINE d == Append(a, x)
  <2> HIDE DEF a, b
  <2>1. d \in Seq(T) /\ Len(d) = q + 1 /\ d[q + 1] = x /\ \A i \in 1 .. q : d[i] = a[i]
    BY <1>1
  <2>2. \A i \in 1 .. q + 1 : i \in 1 .. q \/ i = q + 1
    OBVIOUS
  <2> HIDE DEF d
  <2>3. \A i \in 1 .. q + 1 : b[i] = d[i]
    BY <1>1, <1>2, <2>1, <2>2
  <2>4. b = d
    BY <1>2, <2>1, <2>3
  <2> QED
    BY <2>4 DEF d
<1> HIDE DEF a, b, x
<1>4. Selected(Append(a, x), S) = IF x \in S THEN Append(Selected(a, S), x) ELSE Selected(a, S)
  BY <1>1, SelectedAppend
<1> QED
  BY <1>3, <1>4 DEF a, b, x

\* A step after which the read thread of c owes what it owed, or one that takes
\* the next command, which is to be answered if it is understood.
Follows(c) ==
    LET k == commands[c][Taken(c) + 1]
    IN  /\ AtFrame(c)'
        /\ \/ Understood(c)' = Understood(c) /\ (Owes(c)' <=> Owes(c))
           \/ /\ ~Owes(c) /\ Taken(c) < Len(commands[c])
              /\ Understood(c)' = IF k \in DOMAIN CommandList THEN Append(Understood(c), k)
                                  ELSE Understood(c)
              /\ Owes(c)' <=> k \in DOMAIN CommandList

\* What a read thread and its peer have of their own.
OfConn(c) ==
    <<readPc[c], response[c], buffer[c], totalRead[c], consumed[c], wanted[c], begun[c],
      commands[c]>>

LEMMA OthersFollow ==
    ASSUME NEW c, AtFrame(c), UNCHANGED OfConn(c)
    PROVE  Follows(c)
<1>1. /\ readPc'[c] = readPc[c] /\ response'[c] = response[c] /\ buffer'[c] = buffer[c]
      /\ totalRead'[c] = totalRead[c] /\ consumed'[c] = consumed[c] /\ wanted'[c] = wanted[c]
      /\ begun'[c] = begun[c] /\ commands'[c] = commands[c]
  BY DEF OfConn
<1>2. Taken(c)' = Taken(c) /\ InFrame(c)' = InFrame(c) /\ HasBody(c)' = HasBody(c)
  BY <1>1 DEF Taken, InFrame, HasBody
<1>3. AtFrame(c)'
  BY <1>1, <1>2 DEF AtFrame
<1>4. Owes(c)' = Owes(c) /\ Understood(c)' = Understood(c)
  BY <1>1, <1>2 DEF Owes, Understood
<1> QED
  BY <1>3, <1>4 DEF Follows

\* A peer sends a command.
LEMMA SendsFollow ==
    ASSUME TypeOK, NEW c \in Conns, AtFrame(c), PeerSends(c)
    PROVE  Follows(c)
<1>1. PICK k \in Bodies : commands' = [commands EXCEPT ![c] = Append(@, k)]
  BY DEF PeerSends, Bodies
<1>2. UNCHANGED readVars
  BY DEF PeerSends
<1>3. /\ Taken(c) \in Nat /\ Taken(c) <= Len(commands[c]) /\ Len(commands[c]) \in Nat
      /\ commands[c] \in Seq(Bodies) /\ commands'[c] = Append(commands[c], k)
  BY <1>1, InStream DEF TypeOK
<1>4. /\ Len(commands'[c]) = Len(commands[c]) + 1
      /\ \A i \in 1 .. Len(commands[c]) : commands'[c][i] = commands[c][i]
  BY <1>3
<1>5. Taken(c)' = Taken(c)
  BY <1>2 DEF Taken, readVars
<1>6. Understood(c)' = Understood(c)
  <2>1. SubSeq(Append(commands[c], k), 1, Taken(c)) = SubSeq(commands[c], 1, Taken(c))
    BY <1>3, SubSeqOfAppend
  <2> QED
    BY <1>3, <1>5, <2>1 DEF Understood, Taken
<1>7. InFrame(c)' = InFrame(c) /\ HasBody(c)' = HasBody(c)
  BY <1>2 DEF InFrame, HasBody, readVars
<1>8. Taken(c) > 0 => commands'[c][Taken(c)] = commands[c][Taken(c)]
  BY <1>3, <1>4
<1>9. AtFrame(c)'
  BY <1>2, <1>3, <1>4, <1>5, <1>7, <1>8 DEF AtFrame, readVars
<1>10. Owes(c)' <=> Owes(c)
  BY <1>2, <1>5, <1>7, <1>8 DEF Owes, AtFrame, readVars
<1> QED
  BY <1>6, <1>9, <1>10 DEF Follows

\* A thread that waits for the next header.
LEMMA HeaderIsNext ==
    ASSUME TypeOK, NEW c \in Conns, AtFrame(c), ~InFrame(c), WantsHeader(c),
           UNCHANGED <<consumed, commands>>,
           \/ readPc' = [readPc EXCEPT ![c] = "header"]
           \/ readPc' = [readPc EXCEPT ![c] = "frame"]
    PROVE  AtFrame(c)' /\ ~Owes(c)' /\ Understood(c)' = Understood(c)
<1>1. /\ totalRead' = [totalRead EXCEPT ![c] = 0] /\ wanted' = [wanted EXCEPT ![c] = HEADER]
      /\ begun' = [begun EXCEPT ![c] = consumed[c]]
      /\ buffer' = [buffer EXCEPT ![c] = [i \in 1 .. HEADER |-> 0]]
  BY DEF WantsHeader
<1>2. DOMAIN buffer = Conns /\ DOMAIN totalRead = Conns /\ DOMAIN wanted = Conns
      /\ DOMAIN begun = Conns /\ DOMAIN readPc = Conns
  BY DEF TypeOK
<1>3. /\ readPc'[c] \in {"header", "frame"} /\ totalRead'[c] = 0 /\ wanted'[c] = HEADER
      /\ begun'[c] = consumed[c] /\ DOMAIN buffer'[c] = 1 .. HEADER
  BY <1>1, <1>2
<1>4. Taken(c)' = Taken(c) /\ Understood(c)' = Understood(c)
  BY DEF Taken, Understood
<1>5. ~InFrame(c)' /\ ~HasBody(c)' /\ ~Owes(c)'
  BY <1>3 DEF InFrame, HasBody, Owes, HEADER, Answering
<1>6. AtFrame(c)'
  BY <1>3, <1>4, <1>5 DEF AtFrame, Answering, HEADER
<1> QED
  BY <1>4, <1>5, <1>6

\* A connection is accepted.
LEMMA AcceptFollows ==
    ASSUME TypeOK, NEW c \in Conns, AtFrame(c), Accept(c)
    PROVE  Follows(c)
<1>1. /\ readPc[c] = "none" /\ readPc' = [readPc EXCEPT ![c] = "header"]
      /\ WantsHeader(c) /\ UNCHANGED <<consumed, commands>>
  BY DEF Accept, peerVars
<1>2. ~InFrame(c) /\ ~Owes(c)
  BY <1>1 DEF InFrame, Owes, HasBody, Answering
<1> QED
  BY <1>1, <1>2, HeaderIsNext DEF Follows

\* readExactly gets all that it asks for.
LEMMA ReadFollows ==
    ASSUME TypeOK, NEW c \in Conns, AtFrame(c), Read(c), c \notin parted'
    PROVE  Follows(c)
<1> DEFINE q == Taken(c)
           new == SubSeq(Stream(c), consumed[c] + 1, consumed[c] + HEADER)
<1>1. /\ consumed[c] \in Nat /\ q \in Nat /\ q <= Len(commands[c])
      /\ commands[c] \in Seq(Bodies) /\ Len(commands[c]) \in Nat
      /\ Len(Stream(c)) = FRAME * Len(commands[c])
      /\ begun[c] \in Nat
  BY InStream
<1>2. readPc[c] \in {"header", "body"} /\ totalRead[c] < wanted[c]
  BY DEF Read, IsReading
<1>3. /\ wanted[c] = HEADER /\ totalRead[c] = 0 /\ begun[c] = consumed[c]
      /\ DOMAIN buffer[c] = 1 .. HEADER
  <2>1. wanted[c] = HEADER /\ totalRead[c] = 0
    BY <1>2 DEF AtFrame, HEADER
  <2>2. begun[c] + 0 = consumed[c]
    BY <1>2, <2>1 DEF AtFrame
  <2> QED
    BY <1>1, <1>2, <2>1, <2>2 DEF AtFrame
<1>4. /\ consumed[c] + HEADER <= Len(Stream(c))
      /\ buffer' = [buffer EXCEPT ![c] = Overwritten(@, new)]
      /\ totalRead' = [totalRead EXCEPT ![c] = @ + HEADER]
      /\ consumed' = [consumed EXCEPT ![c] = @ + HEADER]
      /\ UNCHANGED <<readPc, response, commands, wanted, begun>>
  <2> DEFINE a == Len(Stream(c)) - consumed[c]
  <2>1. PICK n \in 1 .. Min({HEADER, a}) :
           /\ parted' = IF n < HEADER THEN parted \cup {c} ELSE parted
           /\ buffer' = [buffer EXCEPT ![c] =
                             Overwritten(@, SubSeq(Stream(c), consumed[c] + 1, consumed[c] + n))]
           /\ totalRead' = [totalRead EXCEPT ![c] = @ + n]
           /\ consumed' = [consumed EXCEPT ![c] = @ + n]
    BY <1>3 DEF Read
  <2>2. a \in Int
    BY <1>1 DEF FRAME
  <2>3. (a < HEADER => Min({HEADER, a}) = a) /\ (a >= HEADER => Min({HEADER, a}) = HEADER)
    BY <2>2 DEF Min, HEADER
  <2>4. n >= HEADER /\ n \in Nat
    <3>1. ~(n < HEADER)
      BY <2>1
    <3>2. Min({HEADER, a}) \in Int
      BY <2>2, <2>3 DEF HEADER
    <3> QED
      BY <2>1, <3>1, <3>2 DEF HEADER
  <2>5. n = HEADER /\ a >= HEADER
    BY <2>1, <2>2, <2>3, <2>4 DEF HEADER
  <2>6. consumed[c] + HEADER <= Len(Stream(c))
    BY <1>1, <2>5 DEF HEADER, FRAME
  <2> QED
    BY <2>1, <2>5, <2>6 DEF Read, peerVars
<1>5. /\ consumed'[c] = consumed[c] + HEADER /\ totalRead'[c] = HEADER
      /\ readPc'[c] = readPc[c] /\ wanted'[c] = HEADER /\ begun'[c] = consumed[c]
      /\ buffer'[c] = Overwritten(buffer[c], new)
  BY <1>3, <1>4 DEF TypeOK, HEADER
<1>6. ASSUME NEW x, NEW y, new = <<x, y>>
      PROVE  buffer'[c] = <<x, y>>
  <2> DEFINE t == <<x, y>>
  <2>1. t \in Seq({x, y}) /\ Len(t) = 2
    OBVIOUS
  <2> HIDE DEF t
  <2>2. DOMAIN t = 1 .. 2 /\ t = [i \in 1 .. 2 |-> t[i]]
    BY <2>1
  <2>3. new = t
    BY <1>6 DEF t
  <2>4. buffer'[c] = [i \in 1 .. 2 |-> IF i \in 1 .. 2 THEN t[i] ELSE buffer[c][i]]
    BY <1>3, <1>5, <2>2, <2>3 DEF Overwritten, HEADER
  <2>5. buffer'[c] = [i \in 1 .. 2 |-> t[i]]
    BY <2>4
  <2> QED
    BY <2>2, <2>5 DEF t
<1>7. /\ (FRAME * q) \div FRAME = q /\ (FRAME * q + HEADER) \div FRAME = q
      /\ (FRAME * (q + 1)) \div FRAME = q + 1
      /\ q < Len(commands[c]) =>
            LET k == commands[c][q + 1]
            IN  /\ SubSeq(Stream(c), FRAME * q + 1, FRAME * q + HEADER) = <<0, 2>>
                /\ SubSeq(Stream(c), FRAME * q + HEADER + 1, FRAME * q + FRAME) = <<k, k>>
  BY <1>1, FrameOfStream
<1>8. ~Owes(c)
  BY <1>2, <1>3 DEF Owes, HasBody, Answering, HEADER
<1> HIDE DEF q
<1>9. CASE readPc[c] = "header"
  <2>1. consumed[c] = FRAME * q
    BY <1>3, <1>9 DEF AtFrame, InFrame, HEADER, q
  <2>2. q < Len(commands[c])
    BY <1>1, <1>4, <2>1 DEF FRAME, HEADER
  <2>3. new = <<0, 2>>
    BY <1>7, <2>1, <2>2
  <2>4. consumed'[c] = FRAME * q + HEADER /\ Taken(c)' = q
    BY <1>5, <1>7, <2>1 DEF Taken
  <2>5. InFrame(c)' /\ ~HasBody(c)'
    BY <1>5, <1>9 DEF InFrame, HasBody
  <2>6. buffer'[c] = <<0, 2>>
    BY <1>6, <2>3
  <2>7. AtFrame(c)'
    BY <1>1, <1>4, <1>5, <1>9, <2>1, <2>2, <2>4, <2>5, <2>6 DEF AtFrame, Answering, HEADER, FRAME
  <2>8. ~Owes(c)' /\ Understood(c)' = Understood(c)
    BY <1>4, <1>5, <1>9, <2>4, <2>5 DEF Owes, Understood, Answering, Taken, q
  <2> QED
    BY <1>8, <2>7, <2>8 DEF Follows
<1>10. CASE readPc[c] = "body"
  <2> DEFINE k == commands[c][q + 1]
  <2>1. consumed[c] = FRAME * q + HEADER /\ q < Len(commands[c])
    BY <1>3, <1>10 DEF AtFrame, InFrame, HEADER, q
  <2>2. /\ consumed[c] + HEADER = FRAME * (q + 1) /\ FRAME * q + FRAME = FRAME * (q + 1)
    BY <1>1, <2>1 DEF FRAME, HEADER
  <2>3. new = <<k, k>>
    BY <1>7, <2>1, <2>2
  <2>4. consumed'[c] = FRAME * (q + 1) /\ Taken(c)' = q + 1
    BY <1>5, <1>7, <2>2 DEF Taken
  <2>5. ~InFrame(c)' /\ HasBody(c)'
    BY <1>5, <1>10 DEF InFrame, HasBody, HEADER
  <2>6. q + 1 > 0 /\ q + 1 <= Len(commands[c])
    BY <1>1, <2>1
  <2>7. buffer'[c] = <<k, k>>
    BY <1>6, <2>3
  <2>8. AtFrame(c)'
    <3>1. /\ {totalRead'[c], consumed'[c], wanted'[c], begun'[c]} \subseteq Nat
          /\ begun'[c] + totalRead'[c] = consumed'[c]
      BY <1>1, <1>5 DEF HEADER
    <3>2. readPc'[c] = "body" /\ totalRead'[c] # 0
      BY <1>5, <1>10 DEF HEADER
    <3> QED
      BY <1>4, <1>5, <2>4, <2>5, <2>6, <2>7, <3>1, <3>2 DEF AtFrame, Answering
  <2>9. /\ Understood(c) = Selected(SubSeq(commands[c], 1, q), DOMAIN CommandList)
        /\ Understood(c)' = Selected(SubSeq(commands[c], 1, q + 1), DOMAIN CommandList)
    BY <1>4, <2>4 DEF Understood, Taken, q
  <2>10. Understood(c)' = IF k \in DOMAIN CommandList THEN Append(Understood(c), k)
                          ELSE Understood(c)
    BY <1>1, <2>1, <2>9, UnderstoodNext
  <2>11. Owes(c)' <=> k \in DOMAIN CommandList
    BY <1>4, <1>5, <1>10, <2>4, <2>5 DEF Owes, Answering
  <2> QED
    BY <1>8, <2>1, <2>8, <2>10, <2>11 DEF Follows, q
<1> QED
  BY <1>2, <1>9, <1>10

\* The peer has closed its end.
LEMMA EndFollows ==
    ASSUME TypeOK, NEW c \in Conns, AtFrame(c), ReadEnd(c)
    PROVE  Follows(c)
<1>1. /\ IsReading(c) \/ readPc[c] = "frame"
      /\ consumed[c] = Len(Stream(c))
      /\ readPc' = [readPc EXCEPT ![c] = "ended"]
      /\ UNCHANGED <<response, buffer, totalRead, consumed, wanted, begun, commands>>
  BY DEF ReadEnd, peerVars
<1>2. /\ Taken(c) \in Nat /\ Taken(c) <= Len(commands[c]) /\ Len(commands[c]) \in Nat
      /\ Len(Stream(c)) = FRAME * Len(commands[c])
  BY InStream
<1>3. ~InFrame(c)
  <2>1. consumed[c] # FRAME * Taken(c) + HEADER
    BY <1>1, <1>2 DEF FRAME, HEADER
  <2> QED
    BY <2>1 DEF AtFrame
<1>4. readPc'[c] = "ended" /\ ~Owes(c)
  <2>1. totalRead[c] # HEADER \/ readPc[c] = "frame"
    BY <1>1 DEF IsReading, AtFrame, HEADER
  <2> QED
    BY <1>1, <2>1 DEF Owes, HasBody, IsReading, Answering, TypeOK
<1>5. /\ Taken(c)' = Taken(c) /\ Understood(c)' = Understood(c)
      /\ ~InFrame(c)' /\ ~HasBody(c)' /\ ~Owes(c)'
  BY <1>1, <1>4 DEF Taken, Understood, InFrame, HasBody, Owes, Answering
<1>6. AtFrame(c)'
  BY <1>1, <1>3, <1>4, <1>5 DEF AtFrame, Answering
<1> QED
  BY <1>4, <1>5, <1>6 DEF Follows

\* A header has been read: it announces a body of two bytes.
LEMMA BodyFollows ==
    ASSUME TypeOK, NEW c \in Conns, AtFrame(c), ReadBody(c)
    PROVE  Follows(c)
<1>1. readPc[c] = "header" /\ totalRead[c] = HEADER
  <2>1. readPc[c] = "header" /\ ~(totalRead[c] < wanted[c])
    BY DEF ReadBody, IsReading
  <2>2. wanted[c] = HEADER /\ totalRead[c] \in {0, HEADER}
    BY <2>1 DEF AtFrame
  <2> QED
    BY <2>1, <2>2 DEF HEADER
<1>2. /\ buffer[c] = <<0, 2>> /\ InFrame(c) /\ begun[c] + HEADER = consumed[c]
      /\ consumed[c] = FRAME * Taken(c) + HEADER /\ Taken(c) < Len(commands[c])
      /\ consumed[c] \in Nat
  BY <1>1 DEF AtFrame, InFrame
<1>3. msgSize(c) = 2
  BY <1>2 DEF msgSize
<1>4. /\ readPc' = [readPc EXCEPT ![c] = "body"] /\ wanted' = [wanted EXCEPT ![c] = HEADER]
      /\ begun' = [begun EXCEPT ![c] = consumed[c]]
      /\ buffer' = [buffer EXCEPT ![c] = [i \in 1 .. HEADER |-> 0]]
      /\ totalRead' = [totalRead EXCEPT ![c] = 0]
      /\ UNCHANGED <<consumed, commands, response>>
  BY <1>3 DEF ReadBody, HEADER, peerVars
<1>5. /\ readPc'[c] = "body" /\ totalRead'[c] = 0 /\ wanted'[c] = HEADER
      /\ begun'[c] = consumed[c] /\ DOMAIN buffer'[c] = 1 .. HEADER
  BY <1>4 DEF TypeOK
<1>6. Taken(c)' = Taken(c) /\ Understood(c)' = Understood(c)
  BY <1>4 DEF Taken, Understood
<1>7. InFrame(c)' /\ ~HasBody(c)' /\ ~Owes(c) /\ ~Owes(c)'
  BY <1>1, <1>5 DEF InFrame, HasBody, Owes, HEADER, Answering
<1>8. AtFrame(c)'
  BY <1>2, <1>4, <1>5, <1>6, <1>7 DEF AtFrame, Answering, HEADER
<1> QED
  BY <1>6, <1>7, <1>8 DEF Follows

\* A message has been read.
LEMMA MessageIsThere ==
    ASSUME NEW c, AtFrame(c), HasMessage(c)
    PROVE  HasBody(c) /\ ~InFrame(c) /\ readPc[c] = "body"
<1>1. readPc[c] = "body" /\ ~(totalRead[c] < wanted[c])
  BY DEF HasMessage, IsReading
<1>2. wanted[c] = HEADER /\ totalRead[c] \in {0, HEADER}
  BY <1>1 DEF AtFrame
<1> QED
  BY <1>1, <1>2 DEF HEADER, HasBody, InFrame

\* A command that does not parse is not answered.
LEMMA IgnoreFollows ==
    ASSUME TypeOK, NEW c \in Conns, AtFrame(c), IgnoreMessage(c)
    PROVE  Follows(c)
<1>1. HasBody(c) /\ ~InFrame(c)
  BY MessageIsThere DEF IgnoreMessage
<1>2. commands[c][Taken(c)] \notin DOMAIN CommandList
  BY <1>1 DEF AtFrame, IgnoreMessage, ParsedCommand
<1>3. ~Owes(c)
  BY <1>1, <1>2 DEF Owes, HasBody, Answering
<1>4. /\ WantsHeader(c) /\ UNCHANGED <<consumed, commands>>
      /\ \/ readPc' = [readPc EXCEPT ![c] = "header"]
         \/ readPc' = [readPc EXCEPT ![c] = "frame"]
  BY DEF IgnoreMessage, ReadNext, peerVars
<1> QED
  BY <1>1, <1>3, <1>4, HeaderIsNext DEF Follows

LEMMA ProcessFollows ==
    ASSUME TypeOK, NEW c \in Conns, AtFrame(c), ProcessMessage(c)
    PROVE  Follows(c)
<1>1. HasBody(c) /\ ~InFrame(c) /\ readPc[c] = "body"
  BY MessageIsThere DEF ProcessMessage
<1>2. /\ buffer[c] = <<commands[c][Taken(c)], commands[c][Taken(c)]>> /\ Taken(c) > 0
      /\ consumed[c] = FRAME * Taken(c) /\ Taken(c) <= Len(commands[c])
  BY <1>1 DEF AtFrame
<1>3. PICK k \in DOMAIN CommandList :
          /\ buffer[c] = <<k, k>>
          /\ response' = [response EXCEPT ![c] = processMessage(CommandList[k])]
  BY DEF ProcessMessage, ParsedCommand
<1>4. commands[c][Taken(c)] = k
  BY <1>2, <1>3
<1>5. /\ readPc' = [readPc EXCEPT ![c] = "length"]
      /\ UNCHANGED <<commands, buffer, totalRead, consumed, wanted, begun>>
  BY DEF ProcessMessage, peerVars
<1>6. readPc'[c] = "length" /\ response'[c].type = AnswerTo(CommandList[k].type)
  BY <1>3, <1>5, RepliesInKind DEF TypeOK
<1>7. Taken(c)' = Taken(c) /\ Understood(c)' = Understood(c)
  BY <1>5 DEF Taken, Understood
<1>8. ~InFrame(c)' /\ ~HasBody(c)' /\ Owes(c)' /\ Owes(c)
  BY <1>1, <1>3, <1>4, <1>6 DEF InFrame, HasBody, Owes, Answering
<1>9. AtFrame(c)'
  BY <1>2, <1>3, <1>4, <1>5, <1>6, <1>7, <1>8 DEF AtFrame, Answering
<1> QED
  BY <1>7, <1>8, <1>9 DEF Follows

\* A pipe reads a whole frame.
LEMMA FrameFollows ==
    ASSUME TypeOK, NEW c \in Conns, AtFrame(c), ReadFrame(c)
    PROVE  Follows(c)
<1> DEFINE q == Taken(c)
           k == commands[c][q + 1]
<1>1. /\ consumed[c] \in Nat /\ q \in Nat /\ q <= Len(commands[c])
      /\ commands[c] \in Seq(Bodies) /\ Len(commands[c]) \in Nat
      /\ Len(Stream(c)) = FRAME * Len(commands[c])
  BY InStream
<1>2. readPc[c] = "frame" /\ consumed[c] < Len(Stream(c))
  BY DEF ReadFrame
<1>3. consumed[c] = FRAME * q /\ ~Owes(c)
  BY <1>2 DEF AtFrame, InFrame, Owes, HasBody, Answering
<1>4. q < Len(commands[c])
  BY <1>1, <1>2, <1>3 DEF FRAME
<1>5. /\ readPc' = [readPc EXCEPT ![c] = "body"]
      /\ consumed' = [consumed EXCEPT ![c] = @ + FRAME]
      /\ wanted' = [wanted EXCEPT ![c] = HEADER]
      /\ begun' = [begun EXCEPT ![c] = consumed[c] + HEADER]
      /\ buffer' = [buffer EXCEPT ![c] = SubSeq(Stream(c), begun'[c] + 1, consumed'[c])]
      /\ totalRead' = [totalRead EXCEPT ![c] = wanted'[c]]
      /\ UNCHANGED <<commands, response>>
  BY DEF ReadFrame, FRAME, HEADER, peerVars
<1>6. /\ readPc'[c] = "body" /\ wanted'[c] = HEADER /\ totalRead'[c] = HEADER
      /\ consumed'[c] = FRAME * q + FRAME /\ begun'[c] = FRAME * q + HEADER
      /\ buffer'[c] = SubSeq(Stream(c), begun'[c] + 1, consumed'[c])
  BY <1>3, <1>5 DEF TypeOK
<1>7. /\ (FRAME * (q + 1)) \div FRAME = q + 1
      /\ SubSeq(Stream(c), FRAME * q + HEADER + 1, FRAME * q + FRAME) = <<k, k>>
  BY <1>1, <1>4, FrameOfStream
<1>8. FRAME * q + FRAME = FRAME * (q + 1)
  BY <1>1 DEF FRAME
<1> HIDE DEF q
<1>9. Taken(c)' = q + 1 /\ buffer'[c] = <<k, k>>
  BY <1>6, <1>7, <1>8 DEF Taken
<1>10. ~InFrame(c)' /\ HasBody(c)'
  BY <1>6 DEF InFrame, HasBody, HEADER
<1>11. /\ q + 1 > 0 /\ q + 1 <= Len(commands[c]) /\ begun'[c] + HEADER = consumed'[c]
       /\ begun'[c] \in Nat /\ consumed'[c] \in Nat /\ HEADER \in Nat
  BY <1>1, <1>4, <1>6 DEF FRAME, HEADER
<1>12. AtFrame(c)'
  <2>1. totalRead'[c] # 0 /\ {totalRead'[c], consumed'[c], wanted'[c], begun'[c]} \subseteq Nat
    BY <1>6, <1>11 DEF HEADER
  <2>2. consumed'[c] = FRAME * (q + 1)
    BY <1>6, <1>8
  <2> QED
    BY <1>5, <1>6, <1>9, <1>10, <1>11, <2>1, <2>2 DEF AtFrame, Answering
<1>13. /\ Understood(c) = Selected(SubSeq(commands[c], 1, q), DOMAIN CommandList)
       /\ Understood(c)' = Selected(SubSeq(commands[c], 1, q + 1), DOMAIN CommandList)
  BY <1>5, <1>9 DEF Understood, Taken, q
<1>14. Understood(c)' = IF k \in DOMAIN CommandList THEN Append(Understood(c), k)
                        ELSE Understood(c)
  BY <1>1, <1>4, <1>13, UnderstoodNext
<1>15. Owes(c)' <=> k \in DOMAIN CommandList
  BY <1>5, <1>6, <1>9, <1>10 DEF Owes, Answering
<1> QED
  BY <1>3, <1>4, <1>12, <1>14, <1>15 DEF Follows, q

\* The first piece of an answer.
LEMMA LengthFollows ==
    ASSUME TypeOK, NEW c \in Conns, AtFrame(c), WriteLength(c)
    PROVE  Follows(c)
<1>1. /\ readPc[c] = "length" /\ readPc' = [readPc EXCEPT ![c] = "data"]
      /\ UNCHANGED <<commands, response, buffer, totalRead, consumed, wanted, begun>>
  BY DEF WriteLength, peerVars
<1>2. readPc'[c] = "data"
  BY <1>1 DEF TypeOK
<1>3. /\ Taken(c)' = Taken(c) /\ Understood(c)' = Understood(c)
      /\ ~InFrame(c) /\ ~InFrame(c)' /\ ~HasBody(c) /\ ~HasBody(c)' /\ Owes(c) /\ Owes(c)'
  BY <1>1, <1>2 DEF Taken, Understood, InFrame, HasBody, Owes, Answering
<1>4. AtFrame(c)'
  BY <1>1, <1>2, <1>3 DEF AtFrame, Answering
<1> QED
  BY <1>3, <1>4 DEF Follows

\* The answer has been written, or cannot be.
LEMMA AnswerFollows ==
    ASSUME TypeOK, NEW c \in Conns, AtFrame(c), WriteBody(c) \/ WriteFails(c)
    PROVE  AtFrame(c)' /\ Owes(c) /\ ~Owes(c)' /\ Understood(c)' = Understood(c)
<1>1. /\ readPc[c] \in Answering
      /\ WantsHeader(c) /\ UNCHANGED <<consumed, commands>>
      /\ \/ readPc' = [readPc EXCEPT ![c] = "header"]
         \/ readPc' = [readPc EXCEPT ![c] = "frame"]
  BY DEF WriteBody, WriteFails, ReadNext, peerVars, Answering
<1>2. ~InFrame(c) /\ Owes(c)
  BY <1>1 DEF InFrame, Owes, Answering
<1> QED
  BY <1>1, <1>2, HeaderIsNext

-----------------------------------------------------------------------------
(***************************************************************************)
(* Commands are answered.                                                  *)
(***************************************************************************)

LEMMA UnderstoodTypes ==
    ASSUME TypeOK, NEW c \in Conns, AtFrame(c)
    PROVE  Understood(c) \in Seq(Bodies)
<1> DEFINE q == Taken(c)
           a == SubSeq(commands[c], 1, q)
<1>1. q \in Nat /\ q <= Len(commands[c]) /\ commands[c] \in Seq(Bodies)
  BY InStream
<1>2. a \in Seq(Bodies)
  <2> HIDE DEF q
  <2> QED
    BY <1>1
<1>3. Understood(c) = Selected(a, DOMAIN CommandList)
  BY DEF Understood, Taken
<1> HIDE DEF a
<1> QED
  BY <1>2, <1>3, SelectedElements

\* Nothing is answered in this step.
LEMMA AnsweredStays ==
    ASSUME TypeOK, NEW c \in Conns, AtFrame(c), Answered(c), Follows(c),
           Answers(c)' = Answers(c)
    PROVE  Answered(c)'
<1>1. PICK u, v, answers : u = Understood(c) /\ v = Understood(c)' /\ answers = Answers(c)
  OBVIOUS
<1>2. /\ Len(u) = IF Owes(c) THEN Len(answers) + 1 ELSE Len(answers)
      /\ \A i \in DOMAIN answers : answers[i].type = AnswerTo(CommandList[u[i]].type)
      /\ answers \in Seq(Messages) /\ u \in Seq(Bodies)
  BY <1>1, ToldTypes, UnderstoodTypes DEF Answered, TypeOK
<1>3. CASE v = u /\ (Owes(c)' <=> Owes(c))
  <2>1. /\ Len(v) = IF Owes(c)' THEN Len(answers) + 1 ELSE Len(answers)
        /\ \A i \in DOMAIN answers : answers[i].type = AnswerTo(CommandList[v[i]].type)
    BY <1>2, <1>3
  <2> QED
    BY <1>1, <2>1 DEF Answered
<1>4. ASSUME NEW k, ~Owes(c), Taken(c) < Len(commands[c]), k = commands[c][Taken(c) + 1],
             v = IF k \in DOMAIN CommandList THEN Append(u, k) ELSE u,
             Owes(c)' <=> k \in DOMAIN CommandList
      PROVE  Answered(c)'
  <2>1. k \in Bodies
    BY <1>4, InStream
  <2>2. DOMAIN answers = 1 .. Len(u) /\ Len(u) \in Nat /\ Len(u) = Len(answers)
    BY <1>2, <1>4
  <2>3. /\ Len(v) = IF Owes(c)' THEN Len(answers) + 1 ELSE Len(answers)
        /\ \A i \in DOMAIN answers : v[i] = u[i]
    <3>1. /\ Len(Append(u, k)) = Len(u) + 1
          /\ \A i \in 1 .. Len(u) : Append(u, k)[i] = u[i]
      BY <1>2, <2>1
    <3> QED
      BY <1>4, <2>2, <3>1
  <2>4. \A i \in DOMAIN answers : answers[i].type = AnswerTo(CommandList[v[i]].type)
    BY <1>2, <2>3
  <2> QED
    BY <1>1, <2>3, <2>4 DEF Answered
<1> QED
  BY <1>1, <1>3, <1>4 DEF Follows

\* The answer to the last command that was taken.
LEMMA AnsweredNext ==
    ASSUME TypeOK, NEW c \in Conns, AtFrame(c), Answered(c), readPc[c] = "data",
           Owes(c), ~Owes(c)', Understood(c)' = Understood(c),
           response[c] \in Messages, Answers(c)' = Append(Answers(c), response[c])
    PROVE  Answered(c)'
<1>1. PICK u, q, k, m, answers : /\ u = Understood(c) /\ q = Taken(c) /\ k = commands[c][q]
                                 /\ m = response[c] /\ answers = Answers(c)
  OBVIOUS
<1>2. /\ q \in Nat /\ q > 0 /\ q <= Len(commands[c]) /\ commands[c] \in Seq(Bodies)
      /\ k \in DOMAIN CommandList /\ m.type = AnswerTo(CommandList[k].type)
      /\ Len(commands[c]) \in Nat
  BY <1>1, InStream DEF AtFrame, Answering
<1>3. /\ answers \in Seq(Messages) /\ Len(u) = Len(answers) + 1 /\ m \in Messages
      /\ \A i \in DOMAIN answers : answers[i].type = AnswerTo(CommandList[u[i]].type)
  BY <1>1, ToldTypes DEF Answered, TypeOK
<1>4. u[Len(answers) + 1] = k
  <2>1. PICK r \in Nat : r + 1 = q
    <3>1. q - 1 \in Nat /\ (q - 1) + 1 = q
      BY <1>2
    <3> QED
      BY <3>1
  <2>2. r < Len(commands[c])
    BY <1>2, <2>1
  <2>3. PICK v : v = Selected(SubSeq(commands[c], 1, r), DOMAIN CommandList)
    OBVIOUS
  <2>4. u = Selected(SubSeq(commands[c], 1, r + 1), DOMAIN CommandList)
    BY <1>1, <2>1 DEF Understood, Taken
  <2>5. u = Append(v, k)
    <3>1. Selected(SubSeq(commands[c], 1, r + 1), DOMAIN CommandList) =
              IF commands[c][r + 1] \in DOMAIN CommandList
              THEN Append(Selected(SubSeq(commands[c], 1, r), DOMAIN CommandList),
                          commands[c][r + 1])
              ELSE Selected(SubSeq(commands[c], 1, r), DOMAIN CommandList)
      BY <1>2, <2>2, UnderstoodNext
    <3> QED
      BY <1>1, <1>2, <2>1, <2>3, <2>4, <3>1
  <2>6. v \in Seq(Bodies)
    <3>1. SubSeq(commands[c], 1, r) \in Seq(Bodies)
      BY <1>2, <2>2
    <3> QED
      BY <2>3, <3>1, SelectedElements
  <2>7. k \in Bodies
    BY <1>2 DEF Bodies
  <2>8. Len(v) \in Nat /\ Len(u) = Len(v) + 1 /\ u[Len(v) + 1] = k
    BY <2>5, <2>6, <2>7
  <2>9. Len(answers) \in Nat
    BY <1>3
  <2> QED
    BY <1>3, <2>8, <2>9
<1>5. PICK n, t : n = Len(answers) /\ t = Append(answers, m)
  OBVIOUS
<1>6. /\ n \in Nat /\ DOMAIN answers = 1 .. n /\ DOMAIN t = 1 .. n + 1 /\ Len(t) = n + 1
      /\ t[n + 1] = m /\ \A i \in 1 .. n : t[i] = answers[i]
  BY <1>3, <1>5
<1>7. \A i \in 1 .. n + 1 : i \in 1 .. n \/ i = n + 1
  BY <1>6
<1>8. \A i \in 1 .. n : t[i].type = AnswerTo(CommandList[u[i]].type)
  BY <1>3, <1>6
<1>9. t[n + 1].type = AnswerTo(CommandList[u[n + 1]].type)
  BY <1>2, <1>4, <1>5, <1>6
<1>10. \A i \in DOMAIN t : t[i].type = AnswerTo(CommandList[u[i]].type)
  BY <1>6, <1>7, <1>8, <1>9
<1>11. Len(u) = Len(t)
  BY <1>3, <1>5, <1>6
<1> QED
  BY <1>1, <1>5, <1>10, <1>11 DEF Answered

\* A read thread and its peer do nothing to other connections.
LEMMA PartsOfOthers ==
    ASSUME TypeOK, NEW c \in Conns, NEW d \in Conns, d # c,
           PeerSends(c) \/ PeerCloses(c) \/ Accept(c) \/ ReadThread(c)
    PROVE  UNCHANGED OfConn(d)
<1> USE DEF OfConn, peerVars
<1>1. CASE PeerSends(c)
  BY <1>1 DEF PeerSends, readVars, TypeOK
<1>2. CASE PeerCloses(c)
  BY <1>2 DEF PeerCloses, readVars
<1>3. CASE Accept(c)
  BY <1>3 DEF Accept, WantsHeader, TypeOK
<1>4. CASE Read(c)
  BY <1>4 DEF Read, TypeOK
<1>5. CASE ReadEnd(c)
  BY <1>5 DEF ReadEnd, TypeOK
<1>6. CASE ReadBody(c)
  BY <1>6 DEF ReadBody, TypeOK
<1>7. CASE ReadFrame(c)
  BY <1>7 DEF ReadFrame, TypeOK
<1>8. CASE IgnoreMessage(c)
  BY <1>8 DEF IgnoreMessage, ReadNext, WantsHeader, TypeOK
<1>9. CASE ProcessMessage(c)
  BY <1>9 DEF ProcessMessage, TypeOK
<1>10. CASE WriteLength(c)
  BY <1>10 DEF WriteLength, TypeOK
<1>11. CASE WriteBody(c) \/ WriteFails(c)
  BY <1>11 DEF WriteBody, WriteFails, ReadNext, WantsHeader, TypeOK
<1> QED
  BY <1>1, <1>2, <1>3, <1>4, <1>5, <1>6, <1>7, <1>8, <1>9, <1>10, <1>11 DEF ReadThread

\* What the other actions leave of a connection.
LEMMA OthersLeave ==
    ASSUME [Next]_vars, ~\E c \in Conns : PeerSends(c) \/ PeerCloses(c) \/ Accept(c) \/ ReadThread(c)
    PROVE  \A d : UNCHANGED OfConn(d)
<1> USE DEF OfConn, peerVars, readVars
<1>1. ASSUME RegisterConnection
      PROVE  \A d : UNCHANGED OfConn(d)
  BY <1>1 DEF RegisterConnection
<1>2. ASSUME NEW s \in Setters, Setter(s)
      PROVE  \A d : UNCHANGED OfConn(d)
  BY <1>2 DEF Setter, SetValue, LockSockets, WritePart, WritePartFails, UnlockSockets, Return
<1>3. ASSUME UNCHANGED vars
      PROVE  \A d : UNCHANGED OfConn(d)
  BY <1>3 DEF vars
<1> QED
  BY <1>1, <1>2, <1>3 DEF Next

\* Where a read thread is after a step, and what it owes.
LEMMA ReadsNext ==
    ASSUME TypeOK, [Next]_vars, NEW c \in Conns, AtFrame(c), c \notin parted'
    PROVE  Follows(c) \/ WriteBody(c) \/ WriteFails(c)
<1>1. ASSUME PeerSends(c) \/ PeerCloses(c) \/ Accept(c) \/ ReadThread(c)
      PROVE  Follows(c) \/ WriteBody(c) \/ WriteFails(c)
  <2>1. CASE PeerCloses(c)
    <3>1. UNCHANGED OfConn(c)
      BY <2>1 DEF PeerCloses, OfConn, readVars
    <3> QED
      BY <3>1, OthersFollow
  <2> QED
    BY <1>1, <2>1, SendsFollow, AcceptFollows, ReadFollows, EndFollows, BodyFollows,
       FrameFollows, IgnoreFollows, ProcessFollows, LengthFollows DEF ReadThread
<1>2. ASSUME NEW d \in Conns, d # c, PeerSends(d) \/ PeerCloses(d) \/ Accept(d) \/ ReadThread(d)
      PROVE  Follows(c)
  BY <1>2, PartsOfOthers, OthersFollow
<1> QED
  BY <1>1, <1>2, OthersLeave, OthersFollow

\* The answers of every connection stay those to its commands.
LEMMA AnswersNext ==
    ASSUME TypeOK, TypeOK', OnTheWay, Turns, Streams, Reads, AllAnswered, [Next]_vars
    PROVE  Reads' /\ AllAnswered'
<1>0. parted \subseteq parted'
  BY DEF Next, vars, PeerSends, PeerCloses, Accept, RegisterConnection, ReadThread, Setter,
         Read, ReadEnd, ReadBody, ReadFrame, IgnoreMessage, ProcessMessage, WriteLength,
         WriteBody, WriteFails, SetValue, LockSockets, WritePart, WritePartFails, UnlockSockets,
         Return, historyVars
<1>1. ASSUME NEW c \in Conns \ parted'
      PROVE  AtFrame(c) /\ AtFrame(c)'
  <2>1. AtFrame(c) /\ c \in Conns
    BY <1>0 DEF Reads
  <2>2. Follows(c) \/ WriteBody(c) \/ WriteFails(c)
    BY <2>1, ReadsNext
  <2> QED
    BY <2>1, <2>2, AnswerFollows DEF Follows
<1>2. ASSUME NEW c \in Conns \ (closed' \cup parted'), ~IsMixed(c)'
      PROVE  Answered(c)'
  <2>1. /\ c \in Conns /\ c \notin closed /\ ~IsMixed(c)
        /\ ~WriteBody(c) => Answers(c)' = Answers(c)
    BY <1>2, StreamsNext
  <2>2. AtFrame(c) /\ Answered(c)
    BY <1>0, <1>1, <2>1 DEF AllAnswered
  <2>3. CASE WriteBody(c)
    <3>1. response[c] \in Replies /\ Answers(c)' = Append(Answers(c), response[c])
      BY <1>2, <2>3, BodyStream
    <3>2. Owes(c) /\ ~Owes(c)' /\ Understood(c)' = Understood(c)
      BY <2>1, <2>2, <2>3, AnswerFollows
    <3>3. readPc[c] = "data"
      BY <2>3 DEF WriteBody
    <3> QED
      BY <2>1, <2>2, <3>1, <3>2, <3>3, AnsweredNext DEF Replies
  <2>4. CASE ~WriteBody(c)
    <3>1. ~WriteFails(c)
      BY <2>1 DEF WriteFails
    <3>2. Follows(c)
      BY <2>1, <2>2, <2>4, <3>1, ReadsNext
    <3> QED
      BY <2>1, <2>2, <2>4, <3>2, AnsweredStays
  <2> QED
    BY <2>3, <2>4
<1> QED
  BY <1>1, <1>2 DEF Reads, AllAnswered

LEMMA AnsweredInitially == Init => Reads /\ AllAnswered
<1> SUFFICES ASSUME Init, NEW c \in Conns
             PROVE  AtFrame(c) /\ Answered(c)
  BY DEF Reads, AllAnswered
<1>1. /\ readPc[c] \in {"none", "frame"} /\ consumed[c] = 0 /\ commands[c] = <<>>
      /\ written[c] = <<>> /\ totalRead[c] = 0 /\ wanted[c] = 0 /\ begun[c] = 0
  BY DEF Init
<1>2. Taken(c) = 0 /\ Len(commands[c]) = 0
  BY <1>1 DEF Taken, FRAME
<1>3. ~InFrame(c) /\ ~HasBody(c) /\ ~Owes(c)
  BY <1>1 DEF InFrame, HasBody, Owes, Answering
<1>4. AtFrame(c)
  BY <1>1, <1>2, <1>3 DEF AtFrame, Answering, FRAME
<1>5. Answers(c) = <<>>
  <2>1. written[c] \in Seq(Pieces) /\ Len(written[c]) = 0 /\ 0 \div 2 = 0
    BY <1>1
  <2>2. Received(c) \in Seq(Messages) /\ Len(Received(c)) = 0
    BY <2>1, ReceivedTypes
  <2>3. Received(c) = <<>>
    BY <2>2
  <2> QED
    BY <2>1, <2>3, ToldTypes, SelectedEmpty
<1>6. Understood(c) = <<>>
  <2>1. SubSeq(<<>>, 1, 0) = <<>>
    OBVIOUS
  <2> QED
    BY <1>1, <1>2, <2>1, SelectedEmpty DEF Understood, Taken
<1>7. Answered(c)
  <2>1. Len(<<>>) = 0 /\ DOMAIN <<>> = {}
    OBVIOUS
  <2>2. Len(Understood(c)) = Len(Answers(c)) /\ DOMAIN Answers(c) = {}
    BY <1>5, <1>6, <2>1
  <2> QED
    BY <1>3, <2>2 DEF Answered
<1> QED
  BY <1>4, <1>7

LEMMA AnsweredIsEnough ==
    ASSUME TypeOK, Streams, Reads, AllAnswered
    PROVE  ResponsesFollowCommands
<1> SUFFICES ASSUME NEW c \in Conns \ (closed \cup parted), ~IsMixed(c)
             PROVE  /\ IsWhole(c)
                    /\ Len(Answers(c)) <= Len(Understood(c))
                    /\ readPc[c] \in {"header", "frame"} /\ totalRead[c] = 0 =>
                          Len(Answers(c)) = Len(Understood(c))
                    /\ \A i \in DOMAIN Answers(c) :
                          Answers(c)[i].type = AnswerTo(CommandList[Understood(c)[i]].type)
  BY DEF ResponsesFollowCommands
<1>1. IsWhole(c) /\ Answered(c)
  BY DEF Streams, Framed, AllAnswered
<1>2. Len(Answers(c)) \in Nat
  BY ToldTypes DEF TypeOK
<1>3. readPc[c] \in {"header", "frame"} => ~Owes(c)
  BY DEF Owes, HasBody, Answering
<1> QED
  BY <1>1, <1>2, <1>3 DEF Answered

-----------------------------------------------------------------------------
(***************************************************************************)
(* The theorems.                                                           *)
(***************************************************************************)

\* The invariant: whoever is in the middle of a message is the last to have
\* written to its connection, each connection was or will be told by the holder
\* of the mutex what it has to be told, and each read thread is where the
\* frames that it took have brought it and has answered all but the last:
\* SocketComm.cpp:63-68 and 193-214, CommConn.cpp:44-72.
THEOREM Invariance == Spec => []Inv
<1>1. Init => Inv
  BY TypesInitially, ToldInitially, AnsweredInitially DEF Inv
<1>2. Inv /\ [Next]_vars => Inv'
  <2> SUFFICES ASSUME Inv, [Next]_vars
               PROVE  Inv'
    OBVIOUS
  <2>1. TypeOK' /\ OnTheWay'
    BY TypesNext DEF Inv
  <2>2. Turns' /\ RegisteredOnce'
    BY TurnsNext, RegisteredNext DEF Inv
  <2>3. Streams' /\ AllTold'
    BY <2>1, ToldNext DEF Inv
  <2>4. Reads' /\ AllAnswered'
    BY <2>1, AnswersNext DEF Inv
  <2> QED
    BY <2>1, <2>2, <2>3, <2>4 DEF Inv
<1> QED
  BY <1>1, <1>2, PTL DEF Spec

\* On its whole stream a peer gets each value set since it was registered, in
\* whole messages and in one order for all sockets, until its answers and the
\* notifications are mixed, for any number of setters and sockets:
\* SocketComm.cpp:63-68, VehicleEmulator.cpp:64-75.
THEOREM ConnectionsTold == Spec => []ConnectionsAreTold
<1>1. Inv => ConnectionsAreTold
  BY ToldIsEnough DEF Inv
<1> QED
  BY <1>1, Invariance, PTL

\* On its whole stream a peer gets the answers to its commands, in whole
\* messages, in their order, each once and of the right kind, until they are
\* mixed with notifications, unless a command reached it in parts, whatever
\* other peers and the binder threads do: CommConn.cpp:44-72.
THEOREM ResponsesInOrder == Spec => []ResponsesFollowCommands
<1>1. Inv => ResponsesFollowCommands
  BY AnsweredIsEnough DEF Inv
<1> QED
  BY <1>1, Invariance, PTL

\* Two setters are never both in the middle of a message to one socket, so
\* that notifications are not mixed with each other: what SocketComm's mMutex
\* is for, SocketComm.cpp:63-68.
THEOREM NotificationsAreNotMixed ==
    Spec => [](\A c \in Sockets : \A s, r \in Setters :
                  IsBetween(s, c) /\ IsBetween(r, c) => s = r)
<1>1. Inv => \A c \in Sockets : \A s, r \in Setters :
                IsBetween(s, c) /\ IsBetween(r, c) => s = r
  BY SettersExclude, ThreadsAssumption DEF Inv, IsBetween
<1> QED
  BY <1>1, Invariance, PTL
=============================================================================
