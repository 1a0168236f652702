------------------------------- MODULE Frames -------------------------------
(***************************************************************************)
(* The framing of cockpit-bridge: encode and Decoder of src/cockpit.rs and *)
(* the thread that reads a bridge's output.                                *)
(*                                                                         *)
(* A frame is a length, a newline and a payload, whose first line is the   *)
(* channel.  Reads of the pipe have nothing to do with frames: one returns *)
(* any part of what is there.  A byte is a digit, a newline or another     *)
(* character, and lengths are written in base two, so that small frames    *)
(* have lengths of several digits.  A login profile may print something    *)
(* in front of the first frame.                                            *)
(***************************************************************************)
EXTENDS Naturals, SequencesExt

CONSTANTS
    MaxLine,    \* MAX_LENGTH_LINE
    MaxFrame,   \* MAX_FRAME
    MaxData,    \* bytes of data of a frame, at most
    MaxFrames   \* frames the bridge writes, at most

Newline == 2
Letter == 3
Digit == {0, 1}
Byte == Digit \cup {Newline, Letter}

VARIABLES
    prelude,    \* what the login profile printed
    emitted,    \* frames the bridge has written
    wire,       \* bytes in the pipe
    buffer,     \* bytes the decoder holds
    thread,     \* reading, decoding, or ended
    decoded,    \* frames it has sent on
    broken      \* it has sent on an error

framesVars == <<prelude, emitted, wire, buffer, thread, decoded, broken>>

\* What is written: the control channel or another, with data that may look
\* like a length or like two lines.
Data == BoundedSeq({1, Newline}, MaxData)
Written == [channel : {<<>>, <<Letter>>}, data : Data]

Digits[n \in Nat] == IF n < 2 THEN <<n>> ELSE Append(Digits[n \div 2], n % 2)

PayloadLength(f) == Len(f.channel) + 1 + Len(f.data)

Encode(f) ==
    Digits[PayloadLength(f)] \o <<Newline>> \o f.channel \o <<Newline>> \o f.data

\* The bridge writes no frame too long for the decoder.
ASSUME FramesAssumption ==
    /\ MaxLine \in Nat /\ MaxFrame \in Nat /\ MaxData \in Nat /\ MaxFrames \in Nat
    /\ MaxData + 2 <= MaxFrame
    /\ \A n \in 1..(MaxData + 2) : Len(Digits[n]) < MaxLine

FramesInit ==
    /\ prelude = <<>> /\ emitted = <<>> /\ wire = <<>>
    /\ buffer = <<>> /\ thread = "none"
    /\ decoded = <<>> /\ broken = FALSE

\* The process is started, and its login profile prints this or that.
StartReading ==
    /\ thread = "none"
    /\ prelude' \in {<<>>, <<Letter>>, <<Letter, Newline>>, [i \in 1..MaxLine |-> 1]}
    /\ wire' = prelude' /\ thread' = "reading"
    /\ UNCHANGED <<emitted, buffer, decoded, broken>>

BridgeWrites ==
    /\ thread # "none" /\ Len(emitted) < MaxFrames
    /\ \E f \in Written : /\ emitted' = Append(emitted, f)
                          /\ wire' = wire \o Encode(f)
    /\ UNCHANGED <<prelude, buffer, thread, decoded, broken>>

\* feed, after a read of any length.
ReadBytes ==
    /\ thread = "reading"
    /\ \E n \in 1..Len(wire) :
          /\ buffer' = buffer \o SubSeq(wire, 1, n)
          /\ wire' = SubSeq(wire, n + 1, Len(wire))
    /\ thread' = "decoding"
    /\ UNCHANGED <<prelude, emitted, decoded, broken>>

-----------------------------------------------------------------------------
(* next_frame *)

MinOf(a, b) == IF a < b THEN a ELSE b

Scanned == MinOf(Len(buffer), MaxLine)

\* Where the length line ends, or nowhere in what is looked at.
LineEnds == {i \in 1..Scanned : buffer[i] = Newline}
LineEnd == CHOOSE i \in LineEnds : \A j \in LineEnds : i <= j

LengthText == SubSeq(buffer, 1, LineEnd - 1)

IsLength == LengthText # <<>> /\ \A i \in 1..Len(LengthText) : LengthText[i] \in Digit

\* The number a text of digits is.
NumberOf(text) ==
    LET value[i \in 0..Len(text)] == IF i = 0 THEN 0 ELSE 2 * value[i - 1] + text[i]
    IN  value[Len(text)]

Length == NumberOf(LengthText)

FrameEnd == LineEnd + Length

Payload == SubSeq(buffer, LineEnd + 1, FrameEnd)

\* There is no frame to tell, and will be none however much arrives.
OutOfStep ==
    IF LineEnds = {}
    THEN Len(buffer) >= MaxLine
    ELSE \/ ~IsLength
         \/ Length > MaxFrame
         \/ Len(buffer) >= FrameEnd /\ ~Contains(Payload, Newline)

HasFrame == LineEnds # {} /\ Len(buffer) >= FrameEnd

DecodeFails ==
    /\ thread = "decoding" /\ OutOfStep
    /\ broken' = TRUE /\ thread' = "ended"
    /\ UNCHANGED <<prelude, emitted, wire, buffer, decoded>>

\* Mutant: one frame is decoded of each read.
OneFrameARead == "reading"

\* The thread asks for the next frame until there is none.
AfterFrame == "decoding"

DecodeFrame ==
    /\ thread = "decoding" /\ ~OutOfStep /\ HasFrame
    /\ LET nl == SelectInSeq(Payload, LAMBDA b : b = Newline)
       IN  decoded' = Append(decoded, [channel |-> SubSeq(Payload, 1, nl - 1),
                                       data |-> SubSeq(Payload, nl + 1, Len(Payload))])
    /\ buffer' = SubSeq(buffer, FrameEnd + 1, Len(buffer))
    /\ thread' = AfterFrame
    /\ UNCHANGED <<prelude, emitted, wire, broken>>

NeedMore ==
    /\ thread = "decoding" /\ ~OutOfStep /\ ~HasFrame
    /\ thread' = "reading"
    /\ UNCHANGED <<prelude, emitted, wire, buffer, decoded, broken>>

FramesNext == StartReading \/ BridgeWrites \/ ReadBytes \/ DecodeFails \/ DecodeFrame \/ NeedMore

FramesSpec == FramesInit /\ [][FramesNext]_framesVars

-----------------------------------------------------------------------------
FramesTypeOK ==
    /\ emitted \in Seq([channel : Seq(Byte), data : Seq(Byte)])
    /\ decoded \in Seq([channel : Seq(Byte), data : Seq(Byte)])
    /\ wire \in Seq(Byte) /\ buffer \in Seq(Byte)
    /\ thread \in {"none", "reading", "decoding", "ended"}
    /\ broken \in BOOLEAN

\* What frames are on the wire, the bytes of the first ones the bridge wrote,
\* and the bytes that have been read.
Stream(frames) == FlattenSeq([i \in 1..Len(frames) |-> Encode(frames[i])])
BytesOf(n) == Len(Stream(SubSeq(emitted, 1, n)))
BytesRead == BytesOf(Len(emitted)) - Len(wire)

\* However the stream was cut, what is decoded is what was written, in order,
\* and a stream that begins with a frame is never given up.
InStep == prelude = <<>> => IsPrefix(decoded, emitted) /\ ~broken

\* A frame all of whose bytes have been read is not withheld until the next
\* read, which may never come: the request it answers would wait for its
\* deadline.
NothingWithheld ==
    prelude = <<>> /\ thread = "reading" /\ Len(decoded) < Len(emitted)
        => BytesOf(Len(decoded) + 1) > BytesRead

\* What a login profile printed, unless it is a short line of digits, is never
\* taken for a frame, and neither is what comes behind it: the bridge is given
\* up rather than read out of step.
NoiseIsNoFrame == prelude # <<>> => decoded = <<>>

\* The decoder hands on what the bridge wrote, all of it and nothing else, as
\* soon as it can, however its bytes are cut into reads.
Decodes == InStep /\ NothingWithheld /\ NoiseIsNoFrame
=============================================================================
