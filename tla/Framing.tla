------------------------------ MODULE Framing -------------------------------
(***************************************************************************)
(* How messages are cut out of a byte stream that delivers any number of   *)
(* bytes at a time: the length-prefixed frames of the clients              *)
(* (ipc/codec.rs), the lines of the peers (protocol/packet.rs), and the    *)
(* plaintext identity line before TLS (daemon/handshake.rs).               *)
(*                                                                         *)
(* A byte of a payload names its message and its place, so that no two are *)
(* alike; it is never a newline (JSON escapes them).                       *)
(***************************************************************************)
EXTENDS Integers, Sequences, SequencesExt

CONSTANTS
  Prefix,    \* LENGTH_PREFIX
  MaxLen,    \* MAX_FRAME_BYTES, MAX_PACKET_LEN
  MaxSent    \* bound: messages written

VARIABLES
  codec,     \* "ipc", "packet" or "plain"
  wire,      \* bytes between the two
  eof,       \* "no", "closed" after the last message, "cut" before that
  buf,       \* bytes read: FrameReader::buf, or the BufReader's
  line,      \* the line so far (packet, plain)
  status,    \* "reading", "done" (plain, its line read), "eof", "refused"
  got,       \* payload sizes and numbers of the frames returned
  sent       \* history: the frames written

vars == <<codec, wire, eof, buf, line, status, got, sent>>

-----------------------------------------------------------------------------
Newline == [msg |-> 0, at |-> 0]
Payload(f) == [i \in 1..f.len |-> [msg |-> f.msg, at |-> i]]

\* What write_frame and Packet::encode_into put on the wire.
Encode(f) ==
  IF codec = "ipc"
  THEN [i \in 1..Prefix |-> [msg |-> f.msg, at |-> -i, len |-> f.len]] \o Payload(f)
  ELSE Payload(f) \o <<Newline>>

EncodeAll(fs) == FlattenSeq([i \in DOMAIN fs |-> Encode(fs[i])])

Init ==
  /\ codec \in {"ipc", "packet", "plain"}
  /\ wire = <<>> /\ eof = "no" /\ buf = <<>> /\ line = <<>>
  /\ status = "reading" /\ got = <<>> /\ sent = <<>>

\* write_frame, Packet::write_to: a message that is too long is refused, and the
\* stream left untouched.  A program of somebody else's has no such limit.
Write ==
  \E ours \in BOOLEAN, n \in 0..(MaxLen + 1) :
    /\ eof = "no" /\ Len(sent) < MaxSent
    /\ ours => n \in 1..MaxLen
    /\ LET f == [msg |-> Len(sent) + 1, len |-> n] IN
         wire' = wire \o Encode(f) /\ sent' = Append(sent, f)
    /\ UNCHANGED <<codec, eof, buf, line, status, got>>

\* The writer closes, or its connection breaks and what is under way is lost.
Close ==
  \E j \in 0..Len(wire) :
    /\ eof = "no"
    /\ wire' = SubSeq(wire, 1, j)
    /\ eof' = IF j = Len(wire) THEN "closed" ELSE "cut"
    /\ UNCHANGED <<codec, buf, line, status, got, sent>>

\* One read of the socket returns n bytes of it, or says that it has ended.
Fill(n) ==
  /\ n \in 1..Len(wire)
  /\ buf' = buf \o SubSeq(wire, 1, n)
  /\ wire' = SubSeq(wire, n + 1, Len(wire))

AtEnd ==
  /\ wire = <<>> /\ eof # "no"
  /\ status' = "eof"
  /\ UNCHANGED <<wire, buf, line, got>>

Refuse == status' = "refused" /\ UNCHANGED <<wire, buf, line, got>>

-----------------------------------------------------------------------------
(* FrameReader::next, once round its loop. *)

HasPrefix == Len(buf) >= Prefix
Declared == buf[1].len
HasFrame == HasPrefix /\ Len(buf) >= Prefix + Declared

\* (mutant) Only the frame is kept, not what came with it.
DropTail == <<>>

\* The bytes past the frame stay buffered.
Tailing == SubSeq(buf, Prefix + Declared + 1, Len(buf))

NextFrame ==
  /\ codec = "ipc" /\ status = "reading"
  /\ \/ /\ HasPrefix /\ Declared > MaxLen
        /\ Refuse
     \/ /\ HasFrame /\ Declared <= MaxLen
        /\ got' = Append(got, [msg |-> buf[1].msg, len |-> Declared])
        /\ buf' = Tailing
        /\ UNCHANGED <<wire, line, status>>
     \/ /\ ~HasFrame /\ ~(HasPrefix /\ Declared > MaxLen)
        /\ \/ (\E n \in 1..Len(wire) : Fill(n)) /\ UNCHANGED <<line, status, got>>
           \/ AtEnd
  /\ UNCHANGED <<codec, eof, sent>>

-----------------------------------------------------------------------------
(* Packet::read_frame, once round its loop: the chunk is the BufReader's. *)

\* The newline of the chunk, 0 if there is none.
NewlineAt == SelectInSeq(buf, LAMBDA b : b = Newline)

\* line.len() + pos, or + chunk.len(), against MAX_PACKET_LEN.
TooLong(n) == Len(line) + n > MaxLen

ReadFrame ==
  /\ codec = "packet" /\ status = "reading"
  /\ \/ /\ buf = <<>>
        /\ \/ (\E n \in 1..Len(wire) : Fill(n)) /\ UNCHANGED <<line, status, got>>
           \/ AtEnd
     \/ /\ NewlineAt > 0
        /\ IF TooLong(NewlineAt - 1) THEN Refuse
           ELSE /\ LET l == line \o SubSeq(buf, 1, NewlineAt - 1) IN
                     got' = Append(got, [msg |-> IF l = <<>> THEN Len(got) + 1 ELSE l[1].msg,
                                         len |-> Len(l)])
                /\ buf' = SubSeq(buf, NewlineAt + 1, Len(buf))
                /\ line' = <<>>
                /\ UNCHANGED <<wire, status>>
     \/ /\ buf # <<>> /\ NewlineAt = 0
        /\ IF TooLong(Len(buf)) THEN Refuse
           ELSE line' = line \o buf /\ buf' = <<>> /\ UNCHANGED <<wire, status, got>>
  /\ UNCHANGED <<codec, eof, sent>>

-----------------------------------------------------------------------------
(* read_plaintext_identity: one byte at a time, so that TLS gets the rest. *)

ReadPlain ==
  /\ codec = "plain" /\ status = "reading"
  /\ \/ AtEnd
     \/ /\ wire # <<>>
        /\ wire' = Tail(wire)
        /\ IF Len(line) >= MaxLen \/ (line = <<>> /\ wire[1] = Newline)
           THEN status' = "refused" /\ buf' = <<wire[1]>> /\ UNCHANGED <<line, got>>
           ELSE IF wire[1] = Newline
           THEN /\ status' = "done"
                /\ got' = <<[msg |-> line[1].msg, len |-> Len(line)]>>
                /\ line' = <<>>
                /\ UNCHANGED buf
           ELSE line' = Append(line, wire[1]) /\ UNCHANGED <<status, got, buf>>
  /\ UNCHANGED <<codec, eof, sent>>

Next == Write \/ Close \/ NextFrame \/ ReadFrame \/ ReadPlain

Spec == Init /\ [][Next]_vars

-----------------------------------------------------------------------------
(* Properties. *)

\* However the stream cuts and joins what was written, every byte of it belongs
\* to a frame that was returned, in order, or is still there for the next read
\* (FrameReader: "Bytes past the current frame stay buffered"; read_from:
\* "over-read bytes ... are never lost"; read_plaintext_identity: "without
\* over-reading"); only a connection that breaks loses any.
Lossless ==
  /\ IsPrefix(EncodeAll(got) \o line \o buf \o wire, EncodeAll(sent))
  /\ eof # "cut" => EncodeAll(got) \o line \o buf \o wire = EncodeAll(sent)

\* A reader stops for size only at a message that is over the limit (for the
\* plaintext line: at it, or empty), and never holds a longer line than that.
OnlyOversizeRefused ==
  /\ Len(line) <= MaxLen
  /\ status = "refused" =>
       LET f == sent[Len(got) + 1] IN
         \/ f.len > MaxLen
         \/ codec = "plain" /\ f.len \in {0, MaxLen}
=============================================================================
