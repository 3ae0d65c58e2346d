------------------------------ MODULE IcsDevice ------------------------------
(***************************************************************************)
(* The servo driver of src/src/krs_servo.rs: one half-duplex transfer at a *)
(* time over a UART and a direction pin.  While the pin is high the board  *)
(* sends and hears only the echo of what it sends; the servo answers after *)
(* a complete command, perhaps late, in part or not at all, and what comes *)
(* while the pin is high is lost.                                          *)
(*                                                                         *)
(* Of a byte only its origin matters: <<"reply", i>> is the i-th of the    *)
(* reply to the transfer in progress, "late" is of an earlier one, "echo"  *)
(* was sent by the board, "garbage" was there at power-on.                 *)
(***************************************************************************)
EXTENDS Integers, Sequences

CONSTANTS
  Commands,                  \* a subset of IcsCommands
  TIMEOUT,                   \* for a reply, in ticks
  MaxUnderWay                \* bound: late bytes under way when a transfer begins
ASSUME IcsAssumption ==
  /\ TIMEOUT \in Nat \ {0}
  /\ MaxUnderWay \in Nat

\* Lengths of the command and of its reply.
IcsCommands ==
  {[name |-> "set_pos", tx |-> 3, rx |-> 3], [name |-> "get_pos", tx |-> 2, rx |-> 4],
   [name |-> "set_free", tx |-> 3, rx |-> 3], [name |-> "get_spd", tx |-> 2, rx |-> 3],
   [name |-> "get_id", tx |-> 4, rx |-> 1]}
ASSUME CommandsAssumption == Commands \subseteq IcsCommands /\ Commands # {}

VARIABLES
  en_pin,                    \* high: the board drives the line
  rx_fifo,                   \* received, not yet read
  tx_fifo,                   \* number of bytes written whose echo is still to come
  line,                      \* bytes of replies still under way
  pc,
  cmd,
  unwritten,                 \* number of bytes of the command
  data,                      \* the reply as far as it has been read
  waited,                    \* time since the read began
  result,                    \* of the last transfer
  quiet                      \* nothing of an earlier transfer was under way when this began

icsVars == <<en_pin, rx_fifo, tx_fifo, line, pc, cmd, unwritten, data, waited, result, quiet>>

Bytes == {<<"reply", i>> : i \in 1 .. 4} \cup {<<"late">>, <<"echo">>, <<"garbage">>}

TypeOK ==
  /\ en_pin \in {"low", "high"}
  /\ rx_fifo \in Seq(Bytes) /\ line \in Seq(Bytes) /\ data \in Seq(Bytes)
  /\ tx_fifo \in 0 .. 4 /\ unwritten \in 0 .. 4
  /\ pc \in {"idle", "flush", "drain", "write", "flush_command", "drain_echo", "read"}
  /\ cmd \in Commands
  /\ waited \in 0 .. TIMEOUT
  /\ result \in {"Ok", "CommunicationError", "TimeoutError"}
  /\ quiet \in BOOLEAN

Init ==
  /\ en_pin = "low"
  /\ rx_fifo \in {<<>>, <<<<"garbage">>>>}
  /\ tx_fifo = 0 /\ line = <<>>
  /\ pc = "idle" /\ cmd \in Commands
  /\ unwritten = 0 /\ data = <<>> /\ waited = 0
  /\ result = "TimeoutError"
  /\ quiet = TRUE

reply == [i \in 1 .. cmd.rx |-> <<"reply", i>>]

copies(n, byte) == [i \in 1 .. n |-> byte]

-----------------------------------------------------------------------------
(* transfer, step by step.                                                  *)

\* What is still to come of the last reply is late from now on.
Begin(c) ==
  /\ pc = "idle" /\ Len(line) <= MaxUnderWay
  /\ cmd' = c
  /\ line' = copies(Len(line), <<"late">>)
  /\ rx_fifo' = copies(Len(rx_fifo), <<"late">>)
  /\ quiet' = (line = <<>> /\ tx_fifo = 0)
  /\ unwritten' = c.tx /\ data' = <<>> /\ waited' = 0
  /\ pc' = "flush"
  /\ UNCHANGED <<en_pin, tx_fifo, result>>

\* Every early return but the timeout: the pin stays as it is.
fail ==
  /\ pc' = "idle" /\ result' = "CommunicationError"
  /\ UNCHANGED <<en_pin, cmd, data, waited, quiet>>

\* What has been written is sent, and the servo answers: nothing, or a part of
\* its reply, or all.  In "flush" that is to a command an earlier transfer left.
Flush ==
  /\ pc \in {"flush", "flush_command"}
  /\ tx_fifo' = 0
  /\ rx_fifo' = rx_fifo \o copies(tx_fifo, <<"echo">>)
  /\ IF pc = "flush"
       THEN /\ pc' = "drain"
            /\ \E n \in 0 .. (IF tx_fifo = 0 THEN 0 ELSE 4) : line' = line \o copies(n, <<"late">>)
       ELSE /\ pc' = "drain_echo"
            /\ \E n \in 0 .. cmd.rx : line' = line \o SubSeq(reply, 1, n)
  /\ UNCHANGED <<en_pin, cmd, unwritten, data, waited, result, quiet>>

FlushFails ==
  /\ pc \in {"flush", "flush_command"}
  /\ fail
  /\ UNCHANGED <<rx_fifo, tx_fifo, line, unwritten>>

drain_rx_buffer ==
  /\ rx_fifo' = <<>>
  /\ UNCHANGED <<tx_fifo, line, cmd, unwritten, data, waited, result, quiet>>

Drain ==
  /\ pc = "drain"
  /\ drain_rx_buffer
  /\ en_pin' = "high"
  /\ pc' = "write"

\* An error of the receiver, after any part of the buffer was read.
DrainFails ==
  /\ pc \in {"drain", "drain_echo"} /\ rx_fifo # <<>>
  /\ fail
  /\ \E n \in 0 .. Len(rx_fifo) : rx_fifo' = SubSeq(rx_fifo, n + 1, Len(rx_fifo))
  /\ UNCHANGED <<tx_fifo, line, unwritten>>

\* One call of write takes some of the bytes.
Write(n) ==
  /\ pc = "write" /\ n \in 1 .. unwritten
  /\ unwritten' = unwritten - n
  /\ tx_fifo' = tx_fifo + n
  /\ pc' = IF unwritten' = 0 THEN "flush_command" ELSE "write"
  /\ UNCHANGED <<en_pin, rx_fifo, line, cmd, data, waited, result, quiet>>

\* It fails, or takes none.
WriteFails ==
  /\ pc = "write"
  /\ fail
  /\ UNCHANGED <<rx_fifo, tx_fifo, line, unwritten>>

\* Slips: the echo is left for the reader; the pin stays high.
DrainEcho_keeps_echo ==
  /\ pc = "drain_echo"
  /\ en_pin' = "low" /\ pc' = "read"
  /\ UNCHANGED <<rx_fifo, tx_fifo, line, cmd, unwritten, data, waited, result, quiet>>
DrainEcho_keeps_pin ==
  /\ pc = "drain_echo"
  /\ drain_rx_buffer
  /\ pc' = "read"
  /\ UNCHANGED en_pin

DrainEcho ==
  /\ pc = "drain_echo"
  /\ drain_rx_buffer
  /\ en_pin' = "low"
  /\ pc' = "read"

-----------------------------------------------------------------------------
(* read_expected_timeout.                                                   *)

missing == cmd.rx - Len(data)

Read ==
  /\ pc = "read" /\ rx_fifo # <<>>
  /\ LET n == IF Len(rx_fifo) < missing THEN Len(rx_fifo) ELSE missing
     IN  /\ data' = data \o SubSeq(rx_fifo, 1, n)
         /\ rx_fifo' = SubSeq(rx_fifo, n + 1, Len(rx_fifo))
         /\ IF n = missing THEN pc' = "idle" /\ result' = "Ok" ELSE UNCHANGED <<pc, result>>
  /\ UNCHANGED <<en_pin, tx_fifo, line, cmd, unwritten, waited, quiet>>

ReadFails ==
  /\ pc = "read" /\ rx_fifo # <<>>
  /\ fail
  /\ rx_fifo' \in {rx_fifo, <<>>}
  /\ UNCHANGED <<tx_fifo, line, unwritten>>

\* A slip: a reply that has begun is waited for again.
ReadTimesOut_if_silent ==
  /\ pc = "read" /\ rx_fifo = <<>> /\ waited = TIMEOUT
  /\ IF data = <<>>
       THEN pc' = "idle" /\ result' = "TimeoutError" /\ UNCHANGED waited
       ELSE waited' = 0 /\ UNCHANGED <<pc, result>>
  /\ UNCHANGED <<en_pin, rx_fifo, tx_fifo, line, cmd, unwritten, data, quiet>>

ReadTimesOut ==
  /\ pc = "read" /\ rx_fifo = <<>> /\ waited = TIMEOUT
  /\ pc' = "idle" /\ result' = "TimeoutError"
  /\ UNCHANGED <<en_pin, rx_fifo, tx_fifo, line, cmd, unwritten, data, waited, quiet>>

-----------------------------------------------------------------------------
(* Time at the poll timer of the read loop, and the line.                   *)

Tick ==
  /\ pc = "read" /\ waited < TIMEOUT
  /\ waited' = waited + 1
  /\ UNCHANGED <<en_pin, rx_fifo, tx_fifo, line, pc, cmd, unwritten, data, result, quiet>>

ByteArrives ==
  /\ line # <<>>
  /\ line' = Tail(line)
  /\ rx_fifo' = IF en_pin = "low" THEN Append(rx_fifo, Head(line)) ELSE rx_fifo
  /\ UNCHANGED <<en_pin, tx_fifo, pc, cmd, unwritten, data, waited, result, quiet>>

Fails == FlushFails \/ DrainFails \/ WriteFails \/ ReadFails

Transfer ==
  \/ Flush \/ Drain \/ (\E n \in 1 .. 4 : Write(n)) \/ DrainEcho
  \/ Read \/ ReadTimesOut \/ Fails

Next == (\E c \in Commands : Begin(c)) \/ Transfer \/ Tick \/ ByteArrives

Spec == Init /\ [][Next]_icsVars

(* The driver runs; time passes; a byte under way arrives or is lost; and   *)
(* servo_task asks again (its poll timer).                                  *)
FairSpec ==
  /\ Spec
  /\ WF_icsVars(Transfer) /\ WF_icsVars(Tick) /\ WF_icsVars(ByteArrives)
  /\ WF_icsVars(\E c \in Commands : Begin(c))

-----------------------------------------------------------------------------
\* A transfer that began with nothing under way and succeeds returns the reply to
\* its own command, whole and in order: not the echo, nor what an earlier transfer
\* or power-on left in the buffer, nor a reply cut short (krs_servo.rs 142-174).
OkIsOwnReply == pc = "idle" /\ result = "Ok" /\ quiet => data = reply

\* Whatever the servo answers and whichever call fails, servo_task gets its
\* result (krs_servo.rs 96-137): Core0 assumes it of every transfer.
TransferEnds == (pc # "idle") ~> (pc = "idle")

\* A misfortune of the hardware, the servo or the timing.
misfortune ==
  \/ Fails
  \/ Flush /\ Len(line') # Len(line) + (IF pc = "flush" THEN 0 ELSE cmd.rx)
  \/ ByteArrives /\ pc = "drain_echo"
  \/ Tick /\ line # <<>>
  \/ \E c \in Commands : Begin(c) /\ line # <<>>

\* From every state a failure may have left - the pin high, bytes half written,
\* late or unread - the driver finds its way back: once the hardware works and
\* the servo answers in time, every transfer returns its own reply
\* (krs_servo.rs 141-175).
ServiceRecovers ==
  <>[][~misfortune]_icsVars => <>[](pc = "idle" => result = "Ok" /\ data = reply)
=============================================================================
