---------------------------- MODULE BootHarness ----------------------------
(***************************************************************************)
(* The boot test harness, tests/boot.py: run and quit_qemu against a QEMU  *)
(* process with a serial pipe and a QMP connection.  QEMU, the guest and   *)
(* the clock are external: they may write, answer, stay silent, die or let *)
(* the deadline pass at any moment.                                        *)
(***************************************************************************)
EXTENDS Naturals, Sequences, FiniteSets

CONSTANTS
    Byte,        \* what the serial line carries
    NL, CR,      \* the bytes that end a line
    MARKERS,     \* the texts of the boot markers, in order
    RESULT,      \* the text that starts a test result
    OutputLimit, \* OUTPUT_LIMIT
    EventLimit,  \* QMP events tolerated before an answer
    PipeSize,    \* bytes the serial pipe holds
    MaxWritten   \* bound: bytes the guest writes

ASSUME HarnessAssumption ==
    /\ NL \in Byte /\ CR \in Byte
    /\ MARKERS \in Seq(Seq(Byte)) /\ Len(MARKERS) > 0 /\ RESULT \in Seq(Byte)
    /\ \A i, j \in 1..Len(MARKERS) : MARKERS[i] = MARKERS[j] => i = j
    /\ OutputLimit \in Nat /\ MaxWritten \in Nat
    /\ EventLimit \in Nat \ {0} /\ PipeSize \in Nat \ {0}

Markers == Len(MARKERS)
Marker == 1..Markers
Other == 0               \* any line that is no marker
Failed == Markers + 1    \* a TEST_RESULT line that is no marker

(* line.removesuffix(b"\r") *)
Strip(text) ==
    IF text # <<>> /\ text[Len(text)] = CR THEN SubSeq(text, 1, Len(text) - 1) ELSE text

StartsWith(text, prefix) ==
    Len(prefix) <= Len(text) /\ SubSeq(text, 1, Len(prefix)) = prefix

(* What the text of a line is to the harness: the marker of that index, a   *)
(* test result that is no marker, or anything else.                         *)
Kind(text) ==
    LET line == Strip(text)
    IN  IF \E i \in Marker : MARKERS[i] = line
        THEN CHOOSE i \in Marker : MARKERS[i] = line
        ELSE IF StartsWith(line, RESULT) THEN Failed ELSE Other

VARIABLES
    qemu,     \* "running", "closed" (serial closed, not yet reaped), "exited"
    status,   \* exit status, once exited
    pipe,     \* bytes written and not read
    written,  \* history: all bytes the guest wrote
    quit,     \* QEMU has accepted the quit command
    expired,  \* the deadline has passed
    at,       \* where run is
    markers,  \* marker_index
    serial,   \* bytes collected, len(serial)
    pending,  \* bytes read and not yet looked at
    quitting,
    events,   \* QMP events seen since the last command
    verdict   \* "none", "PASS", "FAIL"

world == <<qemu, status, pipe, written, quit, expired>>
vars == <<world, at, markers, serial, pending, quitting, events, verdict>>

Init ==
    /\ qemu = "running" /\ status = 0
    /\ pipe = <<>> /\ written = <<>>
    /\ quit = FALSE /\ expired = FALSE
    /\ at = "select" /\ markers = 0 /\ serial = 0 /\ pending = <<>>
    /\ quitting = FALSE /\ events = 0 /\ verdict = "none"

-----------------------------------------------------------------------------
(***************************************************************************)
(* QEMU, the guest and the clock                                           *)
(***************************************************************************)
Write(byte) ==
    /\ qemu = "running" /\ Len(pipe) < PipeSize
    /\ Len(written) < MaxWritten
    /\ pipe' = Append(pipe, byte)
    /\ written' = Append(written, byte)
    /\ UNCHANGED <<qemu, status, quit, expired, at, markers, serial, pending, quitting, events, verdict>>

(* It stops when told to, or by itself: first the serial line closes. *)
Close ==
    /\ qemu = "running"
    /\ qemu' = "closed"
    /\ UNCHANGED <<status, pipe, written, quit, expired, at, markers, serial, pending, quitting, events, verdict>>

Exit(code) ==
    /\ qemu = "closed"
    /\ qemu' = "exited" /\ status' = code
    /\ UNCHANGED <<pipe, written, quit, expired, at, markers, serial, pending, quitting, events, verdict>>

Expire ==
    /\ ~expired /\ expired' = TRUE
    /\ UNCHANGED <<qemu, status, pipe, written, quit, at, markers, serial, pending, quitting, events, verdict>>

-----------------------------------------------------------------------------
(***************************************************************************)
(* run: the serial loop                                                    *)
(***************************************************************************)

(* An exception: the result is a failure, and finally comes next. *)
Raise == at' = "finally" /\ verdict' = "FAIL"

(* Mutant: what is left of the chunk before, the start of a line, is lost. *)
ReadSerialFresh(k) ==
    /\ at = "select" /\ ~expired /\ k \in 1..Len(pipe)
    /\ pipe' = SubSeq(pipe, k + 1, Len(pipe))
    /\ IF serial + k > OutputLimit
       THEN serial' = OutputLimit /\ Raise /\ UNCHANGED pending
       ELSE /\ serial' = serial + k
            /\ pending' = SubSeq(pipe, 1, k)
            /\ at' = "parse" /\ UNCHANGED verdict
    /\ UNCHANGED <<qemu, status, written, quit, expired, markers, quitting, events>>

(* Select reports output, and a chunk of it is read, wherever it is cut:    *)
(* it continues the line that the chunk before left incomplete.             *)
ReadSerial(k) ==
    /\ at = "select" /\ ~expired /\ k \in 1..Len(pipe)
    /\ pipe' = SubSeq(pipe, k + 1, Len(pipe))
    /\ IF serial + k > OutputLimit
       THEN serial' = OutputLimit /\ Raise /\ UNCHANGED pending
       ELSE /\ serial' = serial + k
            /\ pending' = pending \o SubSeq(pipe, 1, k)
            /\ at' = "parse" /\ UNCHANGED verdict
    /\ UNCHANGED <<qemu, status, written, quit, expired, markers, quitting, events>>

Expected(line) == line \in Marker /\ line = markers + 1

(* A marker must be the one expected, another TEST_RESULT is an error. *)
Judge(line) ==
    \/ line = Other /\ UNCHANGED <<at, markers, verdict>>
    \/ Expected(line) /\ markers' = markers + 1 /\ UNCHANGED <<at, verdict>>
    \/ line # Other /\ ~Expected(line) /\ Raise /\ UNCHANGED markers

(* The first line break of what is pending *)
BreakAt(n) ==
    /\ n \in 1..Len(pending) /\ pending[n] = NL
    /\ \A i \in 1..(n - 1) : pending[i] # NL

(* The complete lines are looked at one by one, in order. *)
ParseLine ==
    /\ at = "parse"
    /\ \E n \in 1..Len(pending) :
          /\ BreakAt(n)
          /\ pending' = SubSeq(pending, n + 1, Len(pending))
          /\ Judge(Kind(SubSeq(pending, 1, n - 1)))
    /\ UNCHANGED <<world, serial, quitting, events>>

(* An incomplete line stays pending.  Once all markers are there the        *)
(* shutdown is requested, one time.                                         *)
ParseEnd ==
    /\ at = "parse" /\ \A i \in 1..Len(pending) : pending[i] # NL
    /\ at' = IF markers = Markers /\ ~quitting THEN "greeting" ELSE "select"
    /\ UNCHANGED <<world, markers, serial, pending, quitting, events, verdict>>

(* End of file is an error unless the shutdown was requested.  A last line  *)
(* without a line break is never looked at.                                 *)
ReadEof ==
    /\ at = "select" /\ ~expired /\ pipe = <<>> /\ qemu # "running"
    /\ IF quitting THEN at' = "wait" /\ UNCHANGED verdict ELSE Raise
    /\ UNCHANGED <<world, markers, serial, pending, quitting, events>>

(* Mutant: the socket has no timeout. *)
TimeoutSerialOnly ==
    /\ at \in {"select", "wait"} /\ expired
    /\ Raise
    /\ UNCHANGED <<world, markers, serial, pending, quitting, events>>

(* remaining(deadline), the timeouts of select, of the socket and of wait *)
Timeout ==
    /\ at \in {"select", "greeting", "capabilities", "quit", "wait"} /\ expired
    /\ Raise
    /\ UNCHANGED <<world, markers, serial, pending, quitting, events>>

-----------------------------------------------------------------------------
(***************************************************************************)
(* quit_qemu                                                               *)
(***************************************************************************)

(* No connection, end of file, a reply that is no answer to this command. *)
QmpFails ==
    /\ at \in {"greeting", "capabilities", "quit"}
    /\ Raise
    /\ UNCHANGED <<world, markers, serial, pending, quitting, events>>

(* Before each command QEMU must still be there: process.poll(). *)
QmpGreeting ==
    /\ at = "greeting" /\ ~expired /\ qemu # "exited"
    /\ at' = "capabilities" /\ events' = 0
    /\ UNCHANGED <<world, markers, serial, pending, quitting, verdict>>

(* An event may be read even after QEMU has gone. *)
QmpEvent ==
    /\ at \in {"capabilities", "quit"} /\ ~expired
    /\ events' = events + 1
    /\ IF events' = EventLimit THEN Raise ELSE UNCHANGED <<at, verdict>>
    /\ UNCHANGED <<world, markers, serial, pending, quitting>>

(* QEMU takes the quit command, which has been sent. *)
AcceptQuit ==
    /\ at = "quit" /\ qemu # "exited" /\ ~quit
    /\ quit' = TRUE
    /\ UNCHANGED <<qemu, status, pipe, written, expired, at, markers, serial, pending, quitting, events, verdict>>

(* The answer with the id of the command: to the first one, after which     *)
(* QEMU must still be there, or to quit, which QEMU has taken and may not   *)
(* have survived until its answer is read.                                  *)
QmpAcknowledge ==
    /\ at \in {"capabilities", "quit"} /\ ~expired
    /\ IF at = "capabilities"
       THEN qemu # "exited" /\ at' = "quit" /\ UNCHANGED quitting
       ELSE quit /\ at' = "select" /\ quitting' = TRUE
    /\ events' = 0
    /\ UNCHANGED <<world, markers, serial, pending, verdict>>

-----------------------------------------------------------------------------
(***************************************************************************)
(* run: the end                                                            *)
(***************************************************************************)

(* Mutant: the exit status is not looked at. *)
WaitAnyStatus ==
    /\ at = "wait" /\ ~expired /\ qemu = "exited"
    /\ at' = "finally"
    /\ verdict' = "PASS"
    /\ UNCHANGED <<world, markers, serial, pending, quitting, events>>

Wait ==
    /\ at = "wait" /\ ~expired /\ qemu = "exited"
    /\ at' = "finally"
    /\ verdict' = IF status = 0 THEN "PASS" ELSE "FAIL"
    /\ UNCHANGED <<world, markers, serial, pending, quitting, events>>

(* A process that is still there is killed and reaped. *)
Finally ==
    /\ at = "finally"
    /\ IF qemu # "exited" THEN qemu' = "exited" /\ status' = 137 ELSE UNCHANGED <<qemu, status>>
    /\ at' = "returned"
    /\ UNCHANGED <<pipe, written, quit, expired, markers, serial, pending, quitting, events, verdict>>

-----------------------------------------------------------------------------
Harness ==
    \/ \E k \in 1..PipeSize : ReadSerial(k)
    \/ ParseLine \/ ParseEnd
    \/ ReadEof \/ Timeout \/ Wait \/ Finally
    \/ QmpGreeting \/ QmpEvent \/ QmpAcknowledge \/ QmpFails

Next ==
    \/ \E byte \in Byte : Write(byte)
    \/ Close \/ \E code \in {0, 1} : Exit(code) \/ Expire \/ AcceptQuit
    \/ Harness

(* Time passes; the harness does what it can; QEMU owes nothing. *)
Spec ==
    /\ Init /\ [][Next]_vars
    /\ WF_vars(Expire)
    /\ WF_vars(ParseLine \/ ParseEnd \/ Timeout \/ Finally)

-----------------------------------------------------------------------------
(* Each variable ranges over the values its type allows. *)
TypeOK ==
    /\ qemu \in {"running", "closed", "exited"} /\ status \in {0, 1, 137}
    /\ pipe \in Seq(Byte) /\ written \in Seq(Byte) /\ pending \in Seq(Byte)
    /\ quit \in BOOLEAN /\ expired \in BOOLEAN /\ quitting \in BOOLEAN
    /\ at \in {"select", "parse", "greeting", "capabilities", "quit", "wait", "finally", "returned"}
    /\ markers \in 0..Markers /\ serial \in 0..OutputLimit
    /\ events \in 0..EventLimit
    /\ verdict \in {"none", "PASS", "FAIL"}

(* Where the lines that the byte at i may belong to begin, and the last one *)
(* of these places: where the line of that byte begins.                     *)
LineStarts(bytes, i) == {b \in 1..i : b = 1 \/ bytes[b - 1] = NL}

Begin(bytes, i) ==
    CHOOSE b \in LineStarts(bytes, i) : \A c \in LineStarts(bytes, i) : c <= b

(* The kind of each complete line, at the byte that ends it. *)
Lines(bytes) ==
    [i \in 1..Len(bytes) |->
        IF bytes[i] = NL THEN Kind(SubSeq(bytes, Begin(bytes, i), i - 1)) ELSE Other]

(* How many of the lines that end in the first n bytes are markers or       *)
(* results.                                                                 *)
Seen(lines, n) == Cardinality({i \in 1..n : lines[i] # Other})

(* The lines that end in the first n bytes hold markers in order from the   *)
(* first one on, each once, and no other test result.                       *)
InOrder(lines, n) ==
    \A i \in 1..n : lines[i] # Other => lines[i] \in Marker /\ lines[i] = Seen(lines, i)

(* PASS: the complete lines of the guest are each marker once and in order  *)
(* and no other test result, before it was asked to stop or after; QEMU     *)
(* took the quit command, and ended with status 0.                          *)
PassIsEarned ==
    verdict = "PASS" =>
        /\ InOrder(Lines(written), Len(written))
        /\ Seen(Lines(written), Len(written)) = Markers
        /\ quit /\ qemu = "exited" /\ status = 0

(* However it ends, the harness leaves no QEMU process behind. *)
NoOrphan == at = "returned" => qemu = "exited"

(* However the serial output, the deadline, the QMP dialogue and the end of *)
(* QEMU interleave, a PASS is earned and no process survives the harness.   *)
HarnessInv == TypeOK /\ PassIsEarned /\ NoOrphan

(* A guest that did everything right is failed only for the shutdown: the  *)
(* deadline, the QMP dialogue, the exit status or too much other output;    *)
(* never for its markers, wherever the reads cut them: in the middle of a   *)
(* line, before its line break, or several lines in one chunk.              *)
NoFalseAlarm ==
    [][ /\ verdict' = "FAIL" /\ verdict = "none"
        /\ at = "parse" \/ (at = "select" /\ ~expired)
        /\ Len(written) <= OutputLimit
        => ~(InOrder(Lines(written), Len(written)) /\ qemu = "running") ]_vars

(* The harness always returns, whatever QEMU does. *)
Returns == <>(at = "returned")

=============================================================================
