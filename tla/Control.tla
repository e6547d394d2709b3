------------------------------- MODULE Control -------------------------------
(***************************************************************************)
(* The serial controller (control.py): each line typed at its prompt is    *)
(* turned into a frame for a motor board with four channels; an empty line *)
(* repeats the last frame, Ctrl+C switches the channels off and ends.      *)
(*                                                                         *)
(* A frame is the sequence of its bytes.  The board is what it was last    *)
(* sent; what it does with a frame that is too long is not in the sources. *)
(***************************************************************************)
EXTENDS Integers, Sequences

CONSTANTS
  Lines    \* lines of seven fields, ch, volt, freq and duty, that may be typed

\* The bound on freq is the model's: with more digits the frame has more bytes
\* of frequency yet, and the board's reading of it is as unknown as with three.
ASSUME ControlAssumption ==
  \A l \in Lines : /\ l \in [ch : [1 .. 4 -> STRING], volt : Int, freq : Int, duty : Int]
                   /\ l.freq < 16777216

VARIABLES
  pc,        \* "prompt", "reading" the currents after a write, "closed" or "killed"
  driven,    \* the last frame the board received
  last_cmd,  \* the frame to repeat, Nothing, or None
  sent,      \* cmd_hex while the currents are read
  typed,     \* ghost: the line driven was made from
  again,     \* ghost: the line last_cmd was made from
  unsure     \* ghost: reading failed after a frame other than last_cmd was sent

vars == <<pc, driven, last_cmd, sent, typed, again, unsure>>

Off     == <<188, 1, 0, 0, 0, 0, 0, 0, 0, 170, 170, 255, 223>>
Nothing == <<>>      \* the initial last_cmd: no byte is sent
None    == <<-1>>    \* Python's None: no frame
NoLine  == [ch |-> <<"Z", "Z", "Z", "Z">>, volt |-> 0, freq |-> 0, duty |-> 0]
-----------------------------------------------------------------------------
AllOff(ch) == \A i \in 1 .. 4 : ch[i] = "Z"

CHANNEL_MAP == [c \in {"Z", "0", "1"} |-> CASE c = "Z" -> 1 [] c = "0" -> 0 [] c = "1" -> 2]

\* Mutant: the channels are not reversed.
PackedForward(ch) == 64 * CHANNEL_MAP[ch[1]] + 16 * CHANNEL_MAP[ch[2]]
                     + 4 * CHANNEL_MAP[ch[3]] + CHANNEL_MAP[ch[4]]

\* Two bits a channel, the first channel in the lowest.
Packed(ch) == 64 * CHANNEL_MAP[ch[4]] + 16 * CHANNEL_MAP[ch[3]]
              + 4 * CHANNEL_MAP[ch[2]] + CHANNEL_MAP[ch[1]]

\* Mutant: the percentage is not doubled and marked.
DutyBytePlain(d) == d

DutyByte(d) == 2 * d + 1

\* {freq:04X} and bytearray.fromhex: four digits at least; five make no bytes.
FreqBytes(f) == IF f < 65536 THEN <<f \div 256, f % 256>>
                ELSE <<f \div 65536, (f \div 256) % 256, f % 256>>

Frame(l) == <<188, 1, Packed(l.ch), l.volt, DutyByte(l.duty)>>
            \o FreqBytes(l.freq) \o <<255, 255, 255, 223>>

\* Mutant: one volt step too many.
VoltAcceptedTo256(v) == v >= 0 /\ v <= 256

VoltAccepted(v) == v >= 0 /\ v <= 255

\* The checks of set_configs on a line that is not all Z, and fromhex.  The
\* prompt announces 1-65536 for freq: 0 passes and 65536 has five digits.
Accepted(l) ==
  /\ \E i \in 1 .. 4 : l.ch[i] = "0"
  /\ \A i \in 1 .. 4 : l.ch[i] \in DOMAIN CHANNEL_MAP
  /\ VoltAccepted(l.volt)
  /\ l.duty >= 0 /\ l.duty <= 100
  /\ l.freq >= 0 /\ (l.freq < 65536 \/ l.freq >= 1048576)
-----------------------------------------------------------------------------
\* A frame goes out.  A line that is refused, or whose frame cannot be written,
\* raises, and main's except leaves everything as it was: no step.
Send(l) ==
  /\ pc = "prompt"
  /\ Accepted(l) /\ ~AllOff(l.ch)
  /\ pc' = "reading"
  /\ driven' = Frame(l) /\ sent' = Frame(l) /\ typed' = l
  /\ UNCHANGED <<last_cmd, again, unsure>>

\* All Z: nothing else of the line is looked at, set_configs returns None.
AllOffLine(l) ==
  /\ pc = "prompt"
  /\ AllOff(l.ch)
  /\ driven' = Off /\ typed' = NoLine
  /\ last_cmd' = None
  /\ unsure' = FALSE
  /\ UNCHANGED <<pc, sent, again>>

\* ENTER: the last command again, without looking at it.
Repeat ==
  /\ pc = "prompt"
  /\ last_cmd # None
  /\ pc' = "reading"
  /\ sent' = last_cmd
  /\ IF last_cmd = Nothing
     THEN UNCHANGED <<driven, typed>>
     ELSE driven' = last_cmd /\ typed' = again
  /\ UNCHANGED <<last_cmd, again, unsure>>

\* Mutant: the frame is remembered only if it is the first.
ReturnFirst ==
  /\ pc = "reading"
  /\ pc' = "prompt"
  /\ last_cmd' = IF last_cmd = Nothing THEN sent ELSE last_cmd
  /\ sent' = Nothing
  /\ again' = typed
  /\ unsure' = (sent = Nothing /\ unsure)
  /\ UNCHANGED <<driven, typed>>

\* check_current has read the currents, and set_configs returns the frame.
Return ==
  /\ pc = "reading"
  /\ pc' = "prompt"
  /\ last_cmd' = sent
  /\ sent' = Nothing
  /\ again' = typed
  /\ unsure' = (sent = Nothing /\ unsure)
  /\ UNCHANGED <<driven, typed>>

\* Reading the currents fails: the board has the frame, last_cmd does not.
ReadFails ==
  /\ pc = "reading"
  /\ pc' = "prompt"
  /\ sent' = Nothing
  /\ unsure' = (sent # last_cmd \/ (sent = Nothing /\ unsure))
  /\ UNCHANGED <<driven, last_cmd, typed, again>>

\* Ctrl+C at the prompt: all Z, close, end.
ShutDown ==
  /\ pc = "prompt"
  /\ driven' = Off /\ typed' = NoLine
  /\ pc' = "closed"
  /\ UNCHANGED <<last_cmd, sent, again, unsure>>

\* Ctrl+C elsewhere, or a shutdown whose frame cannot be written, is caught
\* by nobody.
Kill ==
  /\ pc \in {"prompt", "reading"}
  /\ pc' = "killed"
  /\ UNCHANGED <<driven, last_cmd, sent, typed, again, unsure>>

Init ==
  /\ pc = "prompt"
  /\ driven = Off /\ last_cmd = Nothing /\ sent = Nothing
  /\ typed = NoLine /\ again = NoLine /\ unsure = FALSE

Next ==
  \/ \E l \in Lines : Send(l)
  \/ \E l \in Lines : AllOffLine(l)
  \/ Repeat
  \/ Return
  \/ ReadFails
  \/ ShutDown
  \/ Kill

Spec == Init /\ [][Next]_vars
-----------------------------------------------------------------------------
(***************************************************************************)
(* Properties.                                                             *)
(***************************************************************************)
Bytes == 0 .. 255

\* Type invariant: a frame is made of bytes, and its duty byte is odd or zero.
TypeOK ==
  /\ pc \in {"prompt", "reading", "closed", "killed"}
  /\ driven \in Seq(Bytes) /\ sent \in Seq(Bytes)
  /\ last_cmd \in Seq(Bytes) \cup {None}
  /\ driven = Off \/ (driven[5] % 2 = 1 /\ driven[5] <= 201)
  /\ typed \in Lines \cup {NoLine} /\ again \in Lines \cup {NoLine}
  /\ unsure \in BOOLEAN

\* What the board reads in a frame with two bytes of frequency.
Level(f, i) == (f[3] \div <<1, 4, 16, 64>>[i]) % 4
Understood(f) == [ch   |-> [i \in 1 .. 4 |-> CHOOSE c \in DOMAIN CHANNEL_MAP :
                                               CHANNEL_MAP[c] = Level(f, i)],
                  volt |-> f[4], freq |-> 256 * f[6] + f[7], duty |-> (f[5] - 1) \div 2]

\* The board drives what the line said, also after repeats and failures: the
\* packing of channels, duty and frequency loses and mixes up nothing.
AsTyped == (driven # Off /\ typed.freq < 65536) => Understood(driven) = typed

\* ENTER cannot change what the board does: the frame to repeat is the one it
\* has, unless reading the currents failed right after another frame was sent.
\* Whatever failed before, it cannot switch on channels that are off.
RepeatChangesNothing ==
  pc = "prompt" =>
    /\ driven = Off => last_cmd \in {Nothing, None}
    /\ driven # Off /\ ~unsure => last_cmd = driven
=============================================================================
