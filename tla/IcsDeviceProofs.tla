--------------------------- MODULE IcsDeviceProofs ---------------------------
(***************************************************************************)
(* A transfer that succeeds undisturbed returns its own reply, for every   *)
(* set of commands, timeout and number of bytes under way.                 *)
(***************************************************************************)
EXTENDS IcsDevice, SequenceTheorems, TLAPS

\* The bytes of s are those of the reply from the one after the a-th on.
From(s, a) == \A i \in 1 .. Len(s) : s[i] = <<"reply", a + i>>

\* What has been read, what waits in the buffer and what is under way continue
\* one another, the first a bytes having been lost.
InOrder(d, f, l) ==
  \E a \in Nat :
    /\ a + Len(d) + Len(f) + Len(l) <= cmd.rx
    /\ From(d, a)
    /\ From(f, a + Len(d))
    /\ From(l, a + Len(d) + Len(f))

\* The pin belongs to the sender from the drained buffer to the drained echo.
Pin ==
  /\ pc \in {"write", "flush_command", "drain_echo"} => en_pin = "high"
  /\ pc = "read" => en_pin = "low"

\* No byte of the command is sent twice.
Sent ==
  /\ pc = "drain" => tx_fifo = 0
  /\ pc = "write" => tx_fifo + unwritten <= 4

\* Of a transfer that began undisturbed nothing is heard before it has been sent.
Undisturbed ==
  quiet =>
    /\ pc = "flush" => tx_fifo = 0
    /\ pc \in {"flush", "drain", "write", "flush_command"} => line = <<>>
    /\ pc = "drain_echo" => InOrder(<<>>, <<>>, line)
    /\ pc = "read" => InOrder(data, rx_fifo, line)

Reading ==
  /\ pc \in {"flush", "drain", "write", "flush_command", "drain_echo"} => data = <<>>
  /\ pc = "read" => Len(data) < cmd.rx

IInv == TypeOK /\ Pin /\ Sent /\ Undisturbed /\ Reading /\ OkIsOwnReply

-----------------------------------------------------------------------------
\* The lengths of a command and of its reply.
LEMMA Lengths ==
  ASSUME NEW c \in Commands
  PROVE  /\ c.tx \in 1 .. 4 /\ c.rx \in 1 .. 4
BY CommandsAssumption DEF IcsCommands

\* The empty sequence is a sequence of bytes and goes on from anywhere.
LEMMA Nothing == <<>> \in Seq(Bytes) /\ Len(<<>>) = 0 /\ \A a : From(<<>>, a)
BY EmptySeq DEF From

\* A repeated byte.
LEMMA Copies ==
  ASSUME NEW n \in Nat, NEW byte \in Bytes
  PROVE  copies(n, byte) \in Seq(Bytes) /\ (n = 0 => copies(n, byte) = <<>>)
<1>1. copies(n, byte) \in [1 .. n -> Bytes]
  BY DEF copies
<1>2. copies(n, byte) \in Seq(Bytes) /\ Len(copies(n, byte)) = n
  BY <1>1, SeqDef
<1> QED BY <1>2, EmptySeq

\* A reply cut after its n-th byte.
LEMMA Replies ==
  ASSUME TypeOK, NEW n \in 0 .. cmd.rx
  PROVE  /\ SubSeq(reply, 1, n) \in Seq(Bytes)
         /\ Len(SubSeq(reply, 1, n)) = n
         /\ From(SubSeq(reply, 1, n), 0)
<1>1. cmd.rx \in 1 .. 4
  BY Lengths DEF TypeOK
<1>2. \A i \in 1 .. n : reply[i] = <<"reply", i>> /\ reply[i] \in Bytes
  BY <1>1 DEF reply, Bytes
<1> QED BY <1>1, <1>2, SubSeqProperties DEF From

\* Dropping bytes at the front keeps the rest in order.
LEMMA Fronts ==
  ASSUME NEW s \in Seq(Bytes), NEW n \in 0 .. Len(s)
  PROVE  /\ SubSeq(s, 1, n) \in Seq(Bytes) /\ Len(SubSeq(s, 1, n)) = n
         /\ SubSeq(s, n + 1, Len(s)) \in Seq(Bytes)
         /\ Len(SubSeq(s, n + 1, Len(s))) = Len(s) - n
         /\ \A a \in Nat : From(s, a) =>
              From(SubSeq(s, 1, n), a) /\ From(SubSeq(s, n + 1, Len(s)), a + n)
<1>1. Len(s) \in Nat
  BY LenProperties
<1>2. \A i \in 1 .. Len(s) : s[i] \in Bytes
  BY ElementOfSeq
<1>3. /\ SubSeq(s, 1, n) \in Seq(Bytes) /\ Len(SubSeq(s, 1, n)) = n
      /\ \A i \in 1 .. n : SubSeq(s, 1, n)[i] = s[i]
  BY <1>1, <1>2, SubSeqProperties
<1>4. /\ SubSeq(s, n + 1, Len(s)) \in Seq(Bytes)
      /\ Len(SubSeq(s, n + 1, Len(s))) = Len(s) - n
      /\ \A i \in 1 .. Len(s) - n : SubSeq(s, n + 1, Len(s))[i] = s[n + i]
  BY <1>1, <1>2, SubSeqProperties
<1> QED BY <1>1, <1>3, <1>4 DEF From

\* Two sequences one after the other are in order if the second goes on.
LEMMA Joined ==
  ASSUME NEW s \in Seq(Bytes), NEW t \in Seq(Bytes), NEW a \in Nat,
         From(s, a), From(t, a + Len(s))
  PROVE  s \o t \in Seq(Bytes) /\ Len(s \o t) = Len(s) + Len(t) /\ From(s \o t, a)
<1>1. Len(s) \in Nat /\ Len(t) \in Nat
  BY LenProperties
<1>2. /\ s \o t \in Seq(Bytes) /\ Len(s \o t) = Len(s) + Len(t)
      /\ \A i \in 1 .. Len(s) + Len(t) :
           (s \o t)[i] = IF i <= Len(s) THEN s[i] ELSE t[i - Len(s)]
  BY ConcatProperties
<1>3. ASSUME NEW i \in 1 .. Len(s) + Len(t)
      PROVE  (s \o t)[i] = <<"reply", a + i>>
  <2>1. CASE i <= Len(s)
    BY <1>1, <1>2, <2>1 DEF From
  <2>2. CASE i > Len(s)
    <3>1. i - Len(s) \in 1 .. Len(t)
      BY <1>1, <2>2
    <3>2. t[i - Len(s)] = <<"reply", a + Len(s) + (i - Len(s))>>
      BY <3>1 DEF From
    <3>3. a + Len(s) + (i - Len(s)) = a + i
      BY <1>1
    <3> QED BY <1>1, <1>2, <2>2, <3>2, <3>3
  <2> QED BY <1>1, <2>1, <2>2
<1> QED BY <1>2, <1>3 DEF From

\* Before the first transfer there is nothing to return.
LEMMA InitIInv == Init => IInv
<1> SUFFICES ASSUME Init PROVE IInv
  OBVIOUS
<1>1. <<>> \in Seq(Bytes) /\ <<<<"garbage">>>> \in Seq(Bytes)
  BY Nothing DEF Bytes
<1>2. rx_fifo \in Seq(Bytes)
  <2>1. rx_fifo = <<>> \/ rx_fifo = <<<<"garbage">>>>
    BY DEF Init
  <2> QED BY <1>1, <2>1
<1>3. TypeOK
  BY <1>1, <1>2, IcsAssumption DEF Init, TypeOK
<1> QED BY <1>3 DEF Init, IInv, Pin, Sent, Undisturbed, Reading, OkIsOwnReply

\* A transfer begins; what is under way of an earlier one is late.
LEMMA BeginStep ==
  ASSUME IInv, NEW c \in Commands, Begin(c)
  PROVE  IInv'
<1>1. Len(line) \in Nat /\ Len(rx_fifo) \in Nat
  BY LenProperties DEF IInv, TypeOK
<1>2. <<"late">> \in Bytes
  BY DEF Bytes
<1>3. line' \in Seq(Bytes) /\ rx_fifo' \in Seq(Bytes) /\ (line = <<>> => line' = <<>>)
  BY <1>1, <1>2, Copies, Nothing DEF Begin
<1>4. c.tx \in 1 .. 4 /\ <<>> \in Seq(Bytes)
  BY Lengths, Nothing
<1>5. TypeOK'
  BY <1>3, <1>4, IcsAssumption DEF IInv, TypeOK, Begin
<1> QED BY <1>3, <1>5 DEF IInv, Begin, Pin, Sent, Undisturbed, Reading, OkIsOwnReply

\* The flush that ends a command starts the reply.
LEMMA FlushStep ==
  ASSUME IInv, Flush
  PROVE  IInv'
<1>1. cmd.rx \in 1 .. 4 /\ tx_fifo \in Nat /\ <<"echo">> \in Bytes /\ <<"late">> \in Bytes
  BY Lengths DEF IInv, TypeOK, Bytes
<1>2. copies(tx_fifo, <<"echo">>) \in Seq(Bytes)
  BY <1>1, Copies
<1>3. rx_fifo' \in Seq(Bytes)
  BY <1>2, ConcatProperties DEF IInv, TypeOK, Flush
<1>4. CASE pc = "flush"
  <2>1. PICK n \in 0 .. (IF tx_fifo = 0 THEN 0 ELSE 4) : line' = line \o copies(n, <<"late">>)
    BY <1>4 DEF Flush
  <2>2. copies(n, <<"late">>) \in Seq(Bytes) /\ (n = 0 => copies(n, <<"late">>) = <<>>)
    BY <1>1, Copies
  <2>3. line' \in Seq(Bytes) /\ (tx_fifo = 0 => line' = line)
    BY <2>1, <2>2, ConcatProperties, ConcatEmptySeq DEF IInv, TypeOK
  <2>4. TypeOK'
    BY <1>3, <1>4, <2>3 DEF IInv, TypeOK, Flush
  <2> QED
    BY <1>4, <2>3, <2>4 DEF IInv, Flush, Pin, Sent, Undisturbed, Reading, OkIsOwnReply
<1>5. CASE pc = "flush_command"
  <2>1. PICK n \in 0 .. cmd.rx : line' = line \o SubSeq(reply, 1, n)
    BY <1>5 DEF Flush
  <2>2. /\ SubSeq(reply, 1, n) \in Seq(Bytes) /\ Len(SubSeq(reply, 1, n)) = n
        /\ From(SubSeq(reply, 1, n), 0)
    BY <2>1, Replies DEF IInv
  <2>3. line' \in Seq(Bytes) /\ (line = <<>> => line' = SubSeq(reply, 1, n))
    BY <2>1, <2>2, ConcatProperties, ConcatEmptySeq DEF IInv, TypeOK
  <2>4. pc' = "drain_echo" /\ UNCHANGED <<en_pin, cmd, unwritten, data, waited, result, quiet>>
        /\ tx_fifo' = 0
    BY <1>5 DEF Flush
  <2>5. TypeOK'
    BY <1>3, <2>3, <2>4 DEF IInv, TypeOK
  <2>6. quiet => InOrder(<<>>, <<>>, line)'
    <3> SUFFICES ASSUME quiet PROVE InOrder(<<>>, <<>>, line)'
      OBVIOUS
    <3>1. line' = SubSeq(reply, 1, n)
      BY <1>5, <2>3 DEF IInv, Undisturbed
    <3>2. 0 + Len(<<>>) + Len(<<>>) + Len(line') <= cmd'.rx
      BY <1>1, <2>2, <2>4, <3>1, Nothing
    <3>3. From(line', 0 + Len(<<>>) + Len(<<>>))
      BY <2>2, <3>1, Nothing
    <3> QED BY <3>2, <3>3, Nothing DEF InOrder, From
  <2> QED
    BY <1>5, <2>4, <2>5, <2>6 DEF IInv, Pin, Sent, Undisturbed, Reading, OkIsOwnReply
<1> QED BY <1>4, <1>5 DEF Flush

\* While it sends the board hears nothing of the reply.
LEMMA SendSteps ==
  ASSUME IInv, Drain \/ \E n \in 1 .. 4 : Write(n)
  PROVE  IInv'
<1>1. cmd.tx \in 1 .. 4 /\ cmd.tx \in Nat
  BY Lengths DEF IInv, TypeOK
<1>2. CASE Drain
  BY <1>1, <1>2, Nothing DEF Drain, drain_rx_buffer, IInv, TypeOK, Pin, Sent, Undisturbed,
     Reading, OkIsOwnReply
<1>3. ASSUME NEW n \in 1 .. 4, Write(n) PROVE IInv'
  <2>1. tx_fifo' \in 0 .. 4 /\ unwritten' \in 0 .. 4 /\ tx_fifo' + unwritten' <= 4
    BY <1>3 DEF Write, IInv, TypeOK, Sent
  <2> QED
    BY <1>3, <2>1 DEF Write, IInv, TypeOK, Pin, Sent, Undisturbed, Reading, OkIsOwnReply
<1> QED BY <1>2, <1>3

\* The reader starts with an empty buffer.
LEMMA DrainEchoStep ==
  ASSUME IInv, DrainEcho
  PROVE  IInv'
<1>1. /\ pc = "drain_echo" /\ pc' = "read" /\ en_pin' = "low" /\ rx_fifo' = <<>>
      /\ UNCHANGED <<tx_fifo, line, cmd, unwritten, data, waited, result, quiet>>
  BY DEF DrainEcho, drain_rx_buffer
<1>2. cmd.rx \in 1 .. 4 /\ data = <<>>
  BY <1>1, Lengths DEF IInv, TypeOK, Reading
<1>3. TypeOK'
  BY <1>1, Nothing DEF IInv, TypeOK
<1>4. quiet => InOrder(data, rx_fifo, line)'
  BY <1>1, <1>2 DEF IInv, Undisturbed, InOrder, From
<1> QED
  BY <1>1, <1>2, <1>3, <1>4, Nothing DEF IInv, Pin, Sent, Undisturbed, Reading, OkIsOwnReply

\* What is read completes the reply only if nothing of it has been lost.
LEMMA ReadStep ==
  ASSUME IInv, Read
  PROVE  IInv'
<1> DEFINE n == IF Len(rx_fifo) < missing THEN Len(rx_fifo) ELSE missing
           head == SubSeq(rx_fifo, 1, n)
           rest == SubSeq(rx_fifo, n + 1, Len(rx_fifo))
<1>1. /\ pc = "read" /\ data' = data \o head /\ rx_fifo' = rest
      /\ IF n = missing THEN pc' = "idle" /\ result' = "Ok" ELSE UNCHANGED <<pc, result>>
      /\ UNCHANGED <<en_pin, tx_fifo, line, cmd, unwritten, waited, quiet>>
  BY DEF Read
<1>2. /\ rx_fifo \in Seq(Bytes) /\ data \in Seq(Bytes) /\ line \in Seq(Bytes)
      /\ cmd.rx \in 1 .. 4 /\ Len(data) < cmd.rx
  BY <1>1, Lengths DEF IInv, TypeOK, Reading
<1>3. Len(rx_fifo) \in Nat /\ Len(data) \in Nat /\ Len(line) \in Nat
  BY <1>2, LenProperties
<1>4. n \in 0 .. Len(rx_fifo) /\ n <= cmd.rx - Len(data) /\ missing = cmd.rx - Len(data)
  BY <1>2, <1>3 DEF missing
<1> HIDE DEF n
<1>5. /\ head \in Seq(Bytes) /\ Len(head) = n
      /\ rest \in Seq(Bytes) /\ Len(rest) = Len(rx_fifo) - n
  BY <1>2, <1>4, Fronts
<1>6. data' \in Seq(Bytes) /\ Len(data') = Len(data) + n
  BY <1>1, <1>2, <1>5, ConcatProperties
<1>7. TypeOK'
  BY <1>1, <1>5, <1>6 DEF IInv, TypeOK
<1>12. Len(rx_fifo') = Len(rx_fifo) - n
  BY <1>1, <1>5
<1>13. n \in Nat /\ n <= Len(rx_fifo) /\ Len(data') \in Nat /\ Len(rx_fifo') \in Nat
  BY <1>3, <1>4, <1>6, <1>12
<1>8. quiet => InOrder(data, rx_fifo, line)'
  <2> SUFFICES ASSUME quiet PROVE InOrder(data, rx_fifo, line)'
    OBVIOUS
  <2>1. PICK a \in Nat :
          /\ a + Len(data) + Len(rx_fifo) + Len(line) <= cmd.rx
          /\ From(data, a)
          /\ From(rx_fifo, a + Len(data))
          /\ From(line, a + Len(data) + Len(rx_fifo))
    BY <1>1 DEF IInv, Undisturbed, InOrder
  <2>2. a + Len(data) \in Nat
    BY <1>3
  <2>3. From(head, a + Len(data)) /\ From(rest, a + Len(data) + n)
    BY <1>2, <1>4, <2>1, <2>2, Fronts
  <2>4. From(data', a)
    BY <1>1, <1>2, <1>5, <2>1, <2>3, Joined
  <2>5. /\ a + Len(data') = a + Len(data) + n
        /\ a + Len(data') + Len(rx_fifo') = a + Len(data) + Len(rx_fifo)
    BY <1>3, <1>6, <1>12, <1>13
  <2>6. From(rx_fifo', a + Len(data')) /\ From(line', a + Len(data') + Len(rx_fifo'))
    BY <1>1, <2>1, <2>3, <2>5
  <2>7. a + Len(data') + Len(rx_fifo') + Len(line') <= cmd'.rx
    BY <1>1, <2>1, <2>5
  <2> QED BY <2>4, <2>6, <2>7 DEF InOrder, From
<1>9. quiet /\ n = missing => data' = reply
  <2> SUFFICES ASSUME quiet, n = missing PROVE data' = reply
    OBVIOUS
  <2>1. Len(data') = cmd.rx
    BY <1>2, <1>3, <1>4, <1>6
  <2>2. PICK a \in Nat :
          a + Len(data') + Len(rx_fifo') + Len(line') <= cmd.rx /\ From(data', a)
    BY <1>1, <1>8 DEF InOrder, From
  <2>3. a = 0
    <3>1. Len(line') \in Nat /\ cmd.rx \in Nat
      BY <1>1, <1>2, <1>3
    <3> QED BY <1>13, <2>1, <2>2, <3>1
  <2>4. \A i \in 1 .. cmd.rx : data'[i] = <<"reply", i>>
    BY <1>2, <2>1, <2>2, <2>3 DEF From
  <2>5. data' \in [1 .. cmd.rx -> Bytes]
    BY <1>6, <2>1, LenProperties
  <2> QED BY <2>4, <2>5 DEF reply
<1>10. CASE n = missing
  <2>1. reply' = reply
    BY <1>1 DEF reply
  <2> QED
    BY <1>1, <1>7, <1>9, <1>10, <2>1 DEF IInv, Pin, Sent, Undisturbed, Reading, OkIsOwnReply
<1>11. CASE n # missing
  <2>1. n < missing /\ cmd' = cmd
    BY <1>1, <1>2, <1>3, <1>4, <1>13, <1>11
  <2>2. Len(data') < cmd'.rx
    BY <1>2, <1>3, <1>4, <1>6, <1>13, <2>1
  <2> QED
    BY <1>1, <1>7, <1>8, <1>11, <2>2 DEF IInv, Pin, Sent, Undisturbed, Reading, OkIsOwnReply
<1> QED BY <1>10, <1>11

\* An early return.
LEMMA FailSteps ==
  ASSUME IInv, Fails \/ ReadTimesOut
  PROVE  IInv'
<1>1. pc' = "idle" /\ result' # "Ok"
  BY DEF Fails, FlushFails, DrainFails, WriteFails, ReadFails, fail, ReadTimesOut
<1>2. CASE DrainFails
  <2>1. PICK n \in 0 .. Len(rx_fifo) : rx_fifo' = SubSeq(rx_fifo, n + 1, Len(rx_fifo))
    BY <1>2 DEF DrainFails
  <2>2. rx_fifo' \in Seq(Bytes)
    BY <2>1, Fronts DEF IInv, TypeOK
  <2>3. TypeOK'
    BY <1>2, <2>2 DEF IInv, TypeOK, DrainFails, fail
  <2> QED BY <1>1, <2>3 DEF IInv, Pin, Sent, Undisturbed, Reading, OkIsOwnReply
<1>3. CASE FlushFails \/ WriteFails \/ ReadFails \/ ReadTimesOut
  <2>1. rx_fifo' \in Seq(Bytes)
    BY <1>3, Nothing
       DEF IInv, TypeOK, FlushFails, WriteFails, ReadFails, ReadTimesOut
  <2>2. TypeOK'
    BY <1>3, <2>1
       DEF IInv, TypeOK, FlushFails, WriteFails, ReadFails, ReadTimesOut, fail
  <2> QED BY <1>1, <2>2 DEF IInv, Pin, Sent, Undisturbed, Reading, OkIsOwnReply
<1> QED BY <1>2, <1>3 DEF Fails

\* Time changes no byte.
LEMMA TickStep ==
  ASSUME IInv, Tick
  PROVE  IInv'
<1>1. TypeOK'
  BY IcsAssumption DEF IInv, TypeOK, Tick
<1>2. InOrder(data, rx_fifo, line)' <=> InOrder(data, rx_fifo, line)
  BY DEF Tick, InOrder, From
<1>3. reply' = reply
  BY DEF Tick, reply
<1> QED
  BY <1>1, <1>2, <1>3 DEF Tick, IInv, Pin, Sent, Undisturbed, Reading, OkIsOwnReply

\* A byte comes off the line: into the buffer, or lost while the pin is high.
LEMMA ByteStep ==
  ASSUME IInv, ByteArrives
  PROVE  IInv'
<1>1. /\ line # <<>> /\ line' = Tail(line)
      /\ rx_fifo' = IF en_pin = "low" THEN Append(rx_fifo, Head(line)) ELSE rx_fifo
      /\ UNCHANGED <<en_pin, tx_fifo, pc, cmd, unwritten, data, waited, result, quiet>>
  BY DEF ByteArrives
<1>2. /\ rx_fifo \in Seq(Bytes) /\ data \in Seq(Bytes) /\ line \in Seq(Bytes)
      /\ cmd.rx \in Nat
  BY Lengths DEF IInv, TypeOK
<1>3. Len(rx_fifo) \in Nat /\ Len(data) \in Nat /\ Len(line) \in Nat
  BY <1>2, LenProperties
<1>4. /\ Head(line) \in Bytes /\ Head(line) = line[1] /\ Tail(line) \in Seq(Bytes)
      /\ Len(Tail(line)) = Len(line) - 1 /\ Len(line) >= 1
      /\ \A i \in 1 .. Len(line) - 1 : Tail(line)[i] = line[i + 1]
  <2>1. /\ Head(line) \in Bytes /\ Tail(line) \in Seq(Bytes)
        /\ Len(Tail(line)) = Len(line) - 1
        /\ \A i \in 1 .. Len(Tail(line)) : Tail(line)[i] = line[i + 1]
    BY <1>1, <1>2, HeadTailProperties
  <2>2. Head(line) = line[1] /\ Len(line) >= 1
    BY <1>1, <1>2, <1>3, EmptySeq
  <2> QED BY <2>1, <2>2
<1>5. /\ Append(rx_fifo, Head(line)) \in Seq(Bytes)
      /\ Len(Append(rx_fifo, Head(line))) = Len(rx_fifo) + 1
      /\ \A i \in 1 .. Len(rx_fifo) : Append(rx_fifo, Head(line))[i] = rx_fifo[i]
      /\ Append(rx_fifo, Head(line))[Len(rx_fifo) + 1] = Head(line)
  BY <1>2, <1>4, AppendProperties
<1>6. TypeOK'
  BY <1>1, <1>4, <1>5 DEF IInv, TypeOK
<1>7. ASSUME NEW a \in Nat, From(line, a)
      PROVE  Head(line) = <<"reply", a + 1>> /\ From(Tail(line), a + 1)
  <2>1. Head(line) = <<"reply", a + 1>>
    BY <1>3, <1>4, <1>7 DEF From
  <2>2. ASSUME NEW i \in 1 .. Len(line) - 1
        PROVE  Tail(line)[i] = <<"reply", a + 1 + i>>
    <3>1. i + 1 \in 1 .. Len(line) /\ a + (i + 1) = a + 1 + i
      BY <1>3
    <3>2. line[i + 1] = <<"reply", a + (i + 1)>>
      BY <3>1, <1>7 DEF From
    <3> QED BY <1>4, <3>1, <3>2
  <2> QED BY <1>4, <2>1, <2>2 DEF From
<1>8. quiet /\ pc = "drain_echo" => InOrder(<<>>, <<>>, line)'
  <2> SUFFICES ASSUME quiet, pc = "drain_echo" PROVE InOrder(<<>>, <<>>, line)'
    OBVIOUS
  <2>1. PICK a \in Nat : a + Len(line) <= cmd.rx /\ From(line, a)
    <3>1. InOrder(<<>>, <<>>, line)
      BY DEF IInv, Undisturbed
    <3>2. \A a \in Nat : a + Len(<<>>) + Len(<<>>) = a
      BY Nothing
    <3> QED BY <1>3, <3>1, <3>2 DEF InOrder
  <2>2. a + 1 \in Nat /\ From(line', a + 1) /\ (a + 1) + Len(line') <= cmd'.rx
    BY <1>1, <1>2, <1>3, <1>4, <1>7, <2>1
  <2>3. (a + 1) + Len(<<>>) + Len(<<>>) = a + 1
    BY Nothing
  <2> QED BY <2>2, <2>3, Nothing DEF InOrder, From
<1>9. quiet /\ pc = "read" => InOrder(data, rx_fifo, line)'
  <2> SUFFICES ASSUME quiet, pc = "read" PROVE InOrder(data, rx_fifo, line)'
    OBVIOUS
  <2>1. PICK a \in Nat :
          /\ a + Len(data) + Len(rx_fifo) + Len(line) <= cmd.rx
          /\ From(data, a)
          /\ From(rx_fifo, a + Len(data))
          /\ From(line, a + Len(data) + Len(rx_fifo))
    BY DEF IInv, Undisturbed, InOrder
  <2>2. en_pin = "low" /\ rx_fifo' = Append(rx_fifo, Head(line))
    BY <1>1 DEF IInv, Pin
  <2>3. Len(rx_fifo') = Len(rx_fifo) + 1 /\ Len(line') = Len(line) - 1
    BY <1>1, <1>4, <1>5, <2>2
  <2>4. a + Len(data) + Len(rx_fifo) \in Nat /\ a + Len(data) \in Nat
    BY <1>3
  <2>5. /\ Head(line) = <<"reply", a + Len(data) + Len(rx_fifo) + 1>>
        /\ From(Tail(line), a + Len(data) + Len(rx_fifo) + 1)
    BY <1>7, <2>1, <2>4
  <2>6. From(rx_fifo', a + Len(data))
    <3>1. ASSUME NEW i \in 1 .. Len(rx_fifo) + 1
          PROVE  rx_fifo'[i] = <<"reply", a + Len(data) + i>>
      <4>1. CASE i = Len(rx_fifo) + 1
        <5>1. a + Len(data) + Len(rx_fifo) + 1 = a + Len(data) + i
          BY <1>3, <4>1
        <5> QED BY <1>5, <2>2, <2>5, <4>1, <5>1
      <4>2. CASE i \in 1 .. Len(rx_fifo)
        BY <1>5, <2>1, <2>2, <4>2 DEF From
      <4> QED BY <1>3, <4>1, <4>2
    <3> QED BY <2>3, <3>1 DEF From
  <2>7. a + Len(data) + Len(rx_fifo') = a + Len(data) + Len(rx_fifo) + 1
    BY <1>3, <2>3
  <2>8. From(line', a + Len(data) + Len(rx_fifo'))
    BY <1>1, <2>5, <2>7
  <2>9. a + Len(data) + Len(rx_fifo') + Len(line') <= cmd'.rx
    <3>1. cmd' = cmd
      BY <1>1
    <3> QED BY <1>2, <1>3, <2>1, <2>3, <3>1
  <2>10. From(data, a)' /\ data' = data
    BY <1>1, <2>1 DEF From
  <2> QED BY <2>1, <2>6, <2>8, <2>9, <2>10 DEF InOrder, From
<1>10. reply' = reply
  BY <1>1 DEF reply
<1>11. pc \in {"flush", "drain", "write", "flush_command"} => ~quiet
  BY <1>1 DEF IInv, Undisturbed
<1> QED
  BY <1>1, <1>6, <1>8, <1>9, <1>10, <1>11
     DEF IInv, Pin, Sent, Undisturbed, Reading, OkIsOwnReply

\* The invariant is inductive.
LEMMA StepIInv == IInv /\ [Next]_icsVars => IInv'
<1> SUFFICES ASSUME IInv, [Next]_icsVars PROVE IInv'
  OBVIOUS
<1>1. CASE \E c \in Commands : Begin(c)
  BY <1>1, BeginStep
<1>2. CASE Transfer
  BY <1>2, FlushStep, SendSteps, DrainEchoStep, ReadStep, FailSteps DEF Transfer
<1>3. CASE Tick
  BY <1>3, TickStep
<1>4. CASE ByteArrives
  BY <1>4, ByteStep
<1>5. CASE UNCHANGED icsVars
  BY <1>5 DEF icsVars, IInv, TypeOK, Pin, Sent, Undisturbed, InOrder, From, Reading,
     OkIsOwnReply, reply
<1> QED BY <1>1, <1>2, <1>3, <1>4, <1>5 DEF Next

\* For every set of commands, timeout and bound: a transfer that began with
\* nothing under way and succeeds has returned the reply to its own command,
\* whole and in order, whichever calls fail and whatever the servo leaves out
\* (krs_servo.rs 142-174).
THEOREM TransferReturnsOwnReply == Spec => []OkIsOwnReply
<1>1. IInv => OkIsOwnReply
  BY DEF IInv
<1> QED BY <1>1, InitIInv, StepIInv, PTL DEF Spec
=============================================================================
