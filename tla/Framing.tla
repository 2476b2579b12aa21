------------------------------- MODULE Framing -------------------------------
(***************************************************************************)
(* How the programs find their messages in a TCP stream, which keeps the   *)
(* order of bytes and no boundaries: a read brings any number of them.     *)
(*                                                                         *)
(* "prefix" is the framing of the store, [length][type][data], written by  *)
(* LengthPrefixedCodec::sendRaw, RaftService and KvClient and read by      *)
(* DataServer, PdServer and RaftService.  "codec" is the same stream read  *)
(* by LengthPrefixedCodec::onMessage.  "braces" is the stream of JSON      *)
(* objects from a chat server, cut by extractJsonObjects of chat_client;   *)
(* "none" is the one towards a chat server, which takes every read for one *)
(* object.                                                                 *)
(*                                                                         *)
(* The length has two digits of base 2 here, not four bytes.  An object is *)
(* a string between braces, without the names of its fields.               *)
(***************************************************************************)
EXTENDS Integers, Sequences, SequencesExt

CONSTANTS
    Protocols,   \* which of the four are looked at
    Text,        \* contents of the string of an object: sequences of Char
    MaxData,     \* bound: length of the data of a frame
    MaxMessages  \* bound: messages on a stream

Backslash == "back"
Char == {"x", "open", "close", "quote", Backslash}

ASSUME FramingAssumption ==
    /\ Protocols \subseteq {"prefix", "codec", "braces", "none"}
    /\ Text \subseteq Seq(Char)
    /\ MaxData \in 0 .. 3 /\ MaxMessages \in Nat

VARIABLES
    protocol,
    written,  \* messages written, in order
    wire,     \* bytes on their way
    buffer,   \* the buffer of the reader between two reads
    got,      \* messages handed on, in order
    crashed   \* an exception has left onMessage

vars == <<protocol, written, wire, buffer, got, crashed>>

-----------------------------------------------------------------------------
(* Writing *)

Frame == [type : {0, 1}, data : UNION {[1 .. n -> {0, 1}] : n \in 0 .. MaxData}]

\* sendRaw: htonl of the size of the data, the type, the data
SendRaw(f) == <<Len(f.data) \div 2, Len(f.data) % 2, f.type>> \o f.data

\* dump: quotes and backslashes get a backslash before them
Escape(c) == IF c \in {"quote", Backslash} THEN <<Backslash, c>> ELSE <<c>>

Dump(t) == <<"open", "quote">> \o FlattenSeq([k \in DOMAIN t |-> Escape(t[k])]) \o <<"quote", "close">>

InFrames == protocol \in {"prefix", "codec"}

Message == IF InFrames THEN Frame ELSE Text

Encode(m) == IF InFrames THEN SendRaw(m) ELSE Dump(m)

-----------------------------------------------------------------------------
(* Reading *)

HeaderSize == IF protocol = "prefix" THEN 3 ELSE 2

\* The last byte of the first frame of b; 0 when it is not complete
PrefixEnd(b) ==
    LET size == HeaderSize + 2 * b[1] + b[2]
    IN  IF Len(b) < HeaderSize \/ Len(b) < size THEN 0 ELSE size

\* Mutant: braces inside strings count
InString_Never(c, previous, before) == FALSE

\* inString after the byte c
InString(c, previous, before) == IF c = "quote" /\ previous # Backslash THEN ~before ELSE before

Brace(c) == CASE c = "open" -> 1 [] c = "close" -> -1 [] OTHER -> 0

\* One byte of the loop that matches braces; it stops where depth is 0 again
Match(scan, c) ==
    LET in    == InString(c, scan.previous, scan.inString)
        depth == scan.depth + IF in THEN 0 ELSE Brace(c)
    IN  IF scan.closed THEN scan
        ELSE [inString |-> in, depth |-> depth, previous |-> c, at |-> scan.at + 1,
              closed |-> ~in /\ depth = 0]

\* The brace that closes the first one of b; 0 when there is none
BraceEnd(b) ==
    LET scan == FoldLeft(Match, [inString |-> FALSE, depth |-> 0, previous |-> "open",
                                 at |-> 0, closed |-> FALSE], b)
    IN  IF scan.closed THEN scan.at ELSE 0

\* What is left of b when everything before the first brace has been erased
FromBrace(b) ==
    LET start == SelectInSubSeq(b, 1, Len(b), LAMBDA c : c = "open")
    IN  IF start = 0 THEN <<>> ELSE SubSeq(b, start, Len(b))

FrameEnd(b) == IF b = <<>> THEN 0 ELSE IF InFrames THEN PrefixEnd(b) ELSE BraceEnd(b)

\* The loop of onMessage and of extractJsonObjects: complete frames are taken off the
\* front, the rest is kept
Extract(b) ==
    LET loop[n \in 0 .. Len(b)] ==
            LET suffix == SubSeq(b, Len(b) - n + 1, Len(b))
                r == IF InFrames THEN suffix ELSE FromBrace(suffix)
                end == FrameEnd(r)
            IN  IF end = 0 THEN [frames |-> <<>>, kept |-> r]
                ELSE LET after == loop[Len(r) - end]
                     IN  [after EXCEPT !.frames = <<SubSeq(r, 1, end)>> \o @]
    IN  loop[Len(b)]

\* json::parse: what is not an object is dropped by the client
Parse(bytes) == {t \in Text : Dump(t) = bytes}

\* The type and the data of a frame; without a type, everything after the length
Payload(bytes) ==
    IF protocol = "prefix"
    THEN [type |-> bytes[3], data |-> SubSeq(bytes, 4, Len(bytes))]
    ELSE [type |-> 0, data |-> SubSeq(bytes, 3, Len(bytes))]

Decode(frames) ==
    IF InFrames THEN [k \in DOMAIN frames |-> Payload(frames[k])]
    ELSE FlattenSeq([k \in DOMAIN frames |-> IF Parse(frames[k]) = {} THEN <<>>
                                             ELSE <<CHOOSE t \in Parse(frames[k]) : TRUE>>])

-----------------------------------------------------------------------------

Init ==
    /\ protocol \in Protocols
    /\ written = <<>> /\ wire = <<>> /\ buffer = <<>> /\ got = <<>>
    /\ crashed = FALSE

Write(m) ==
    /\ Len(written) < MaxMessages
    /\ written' = Append(written, m)
    /\ wire' = wire \o Encode(m)
    /\ UNCHANGED <<protocol, buffer, got, crashed>>

\* One read, of n bytes
Read(n) ==
    LET all == buffer \o SubSeq(wire, 1, n)
        found == Extract(all)
    IN  /\ protocol # "none"
        /\ got' = got \o Decode(found.frames)
        /\ buffer' = found.kept
        /\ wire' = SubSeq(wire, n + 1, Len(wire))
        /\ UNCHANGED <<protocol, written, crashed>>

\* ChatServer::onMessage: all that has come is one object, or json::parse throws
ReadWhole(n) ==
    LET objects == Parse(SubSeq(wire, 1, n))
    IN  /\ protocol = "none" /\ ~crashed
        /\ got' = IF objects = {} THEN got ELSE Append(got, CHOOSE t \in objects : TRUE)
        /\ crashed' = (objects = {})
        /\ wire' = SubSeq(wire, n + 1, Len(wire))
        /\ UNCHANGED <<protocol, written, buffer>>

Next ==
    \/ \E m \in Message : Write(m)
    \/ \E n \in 1 .. Len(wire) : Read(n) \/ ReadWhole(n)

Spec == Init /\ [][Next]_vars

-----------------------------------------------------------------------------
(* Properties *)

Stream(k) == FlattenSeq([i \in 1 .. k |-> Encode(written[i])])

\* Bytes the reader has seen
Seen == Len(Stream(Len(written))) - Len(wire)

\* Messages that have arrived with their last byte
Arrived == {k \in 0 .. Len(written) : Len(Stream(k)) <= Seen}

Complete == CHOOSE k \in Arrived : \A j \in Arrived : j <= k

\* However the stream is cut into reads, the reader has handed on exactly the messages whose
\* last byte has come, unchanged and in order: none is invented, joined, split or held back
\* until the next one comes.  The readers of length prefixes keep to that whatever bytes the
\* messages are made of, extractJsonObjects where no string ends in a backslash, the
\* ChatServer throws where it cannot, and the reader of the codec is not one of them (the
\* condition is Readable in FramingProof).
FramesIntact == ~crashed => got = SubSeq(written, 1, Complete)

\* resume.md says sticky packets are dealt with by matching brackets; towards the server
\* nothing does: onMessage survives whatever way the requests of a client are cut.
ReadsParse == ~crashed

=============================================================================
