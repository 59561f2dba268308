----------------------------- MODULE PacketFraming -----------------------------
(***************************************************************************)
(* DeviceSession._process_buffer(): packets cut from a TCP stream, which   *)
(* hands over any number of bytes at a time.  A byte has FBase values (256 *)
(* in the code); the preamble and the length field have FZeros bytes each  *)
(* (four) and the checksum one (four), so the code's 8 is FHeader and its  *)
(* 12 is FHeader + FSum.  A body is any whose length the field can hold.   *)
(***************************************************************************)
EXTENDS Integers, SequencesExt

CONSTANTS
    FBase,       \* values of a byte
    FZeros,      \* length of the preamble, and of the length field
    FBodies,     \* the bodies of packets: sequences of bytes
    FNoise,      \* what a line may carry between packets: sequences of bytes
    FMaxSent,    \* bound on the packets and pieces of noise sent
    FTooLong     \* 8192: a buffer longer than this without a preamble is dropped

FSum    == 1
FHeader == 2 * FZeros

FByte == 0..FBase - 1

(* The number that the bytes of a length field are, the first the highest.    *)
FValue(bytes) ==
    LET value[n \in 0..FZeros] == IF n = 0 THEN 0 ELSE FBase * value[n - 1] + bytes[n]
    IN value[FZeros]

FFields == [1..FZeros -> FByte]

ASSUME FAssumption == /\ FZeros \in Nat \ {0} /\ FMaxSent \in Nat /\ FTooLong \in Nat
                      /\ FBase \in Nat /\ FBase > 1
                      /\ FBodies \cup FNoise \subseteq Seq(FByte)
                      /\ \A b \in FBodies : \E h \in FFields : FValue(h) = Len(b)

VARIABLES
    fWire,      \* sent by the device and not read
    fBuffer,    \* DeviceSession.buffer
    fFrames,    \* packets handed to _handle_packet
    fSent,      \* ghost: the packets sent
    fClean,     \* ghost: no zero was sent outside a packet, and none was dropped
    fCount      \* packets and pieces of noise sent

framing == <<fWire, fBuffer, fFrames, fSent, fClean, fCount>>

FZero        == [i \in 1..FZeros |-> 0]
FField(n)    == CHOOSE h \in FFields : FValue(h) = n
FPacket(b)   == FZero \o FField(Len(b)) \o b \o <<1>>
FStart(s, i) == SubSeq(s, i, i + FZeros - 1) = FZero
FFrom(s, i)  == SubSeq(s, i, Len(s))
FStarts(s)   == {i \in 1..Len(s) - FZeros + 1 : FStart(s, i)}
FFirst(s)    == CHOOSE i \in FStarts(s) : \A j \in FStarts(s) : i <= j
FLength(s)   == FValue(SubSeq(s, FZeros + 1, FHeader))

(* Bug: the checksum is not counted.                                          *)
FFullBug(s)  == FHeader + FLength(s)

FFull(s)     == FHeader + FLength(s) + FSum

FInit == /\ fWire = <<>> /\ fBuffer = <<>> /\ fFrames = <<>>
         /\ fSent = <<>> /\ fClean = TRUE /\ fCount = 0

(* A round of the loop of _process_buffer(), which skips to a preamble, cuts  *)
(* off a packet, or ends; a buffer that is too long is dropped.               *)
FRound(loop) ==
    LET s == loop.rest
        done == [loop EXCEPT !.on = FALSE]
    IN  CASE ~loop.on \/ Len(s) < FHeader -> done
          [] loop.on /\ Len(s) >= FHeader /\ ~FStart(s, 1) ->
                IF FStarts(s) # {} THEN [loop EXCEPT !.rest = FFrom(s, FFirst(s))]
                ELSE IF Len(s) > FTooLong THEN [done EXCEPT !.rest = <<>>, !.dropped = s] ELSE done
          [] loop.on /\ Len(s) >= FHeader /\ FStart(s, 1) ->
                IF Len(s) < FFull(s) THEN done
                ELSE [loop EXCEPT !.frames = Append(@, SubSeq(s, 1, FFull(s))),
                                  !.rest = FFrom(s, FFull(s) + 1)]

(* A round that goes on shortens the buffer.                                  *)
FProcess(s) ==
    LET after[n \in 0..Len(s) + 1] ==
            IF n = 0 THEN [frames |-> <<>>, rest |-> s, dropped |-> <<>>, on |-> TRUE]
            ELSE FRound(after[n - 1])
    IN after[Len(s) + 1]

FSendPacket ==
    /\ fCount < FMaxSent /\ fCount' = fCount + 1
    /\ \E b \in FBodies : /\ fWire' = fWire \o FPacket(b)
                          /\ fSent' = Append(fSent, FPacket(b))
    /\ UNCHANGED <<fBuffer, fFrames, fClean>>

FSendNoise ==
    /\ fCount < FMaxSent /\ fCount' = fCount + 1
    /\ \E n \in FNoise : /\ fWire' = fWire \o n
                         /\ fClean' = (fClean /\ ~Contains(n, 0))
    /\ UNCHANGED <<fBuffer, fFrames, fSent>>

(* reader.read() returns what has arrived so far.                             *)
FRead ==
    /\ \E k \in 1..Len(fWire) :
          LET done == FProcess(fBuffer \o SubSeq(fWire, 1, k))
          IN /\ fWire' = FFrom(fWire, k + 1)
             /\ fBuffer' = done.rest
             /\ fFrames' = fFrames \o done.frames
             /\ fClean' = (fClean /\ ~Contains(done.dropped, 0))
    /\ UNCHANGED <<fSent, fCount>>

FNext == FSendPacket \/ FSendNoise \/ FRead

FSpec == FInit /\ [][FNext]_framing

-----------------------------------------------------------------------------
FTypeOK ==
    /\ {fWire, fBuffer} \subseteq Seq(FByte)
    /\ \A p \in Range(fFrames) \cup Range(fSent) : p \in Seq(FByte)
    /\ fClean \in BOOLEAN /\ fCount \in 0..FMaxSent

(* However the stream is cut into reads, and whatever noise without zeros is  *)
(* between them, the packets are framed as they were sent: in order, whole,   *)
(* and each as soon as its last byte is read.  A zero in the noise, or one    *)
(* dropped with a buffer that grew too long, may cost the packets behind it.  *)
FramesArePackets ==
    fClean => /\ IsPrefix(fFrames, fSent)
              /\ fWire = <<>> => fFrames = fSent
=============================================================================
