------------------------------ MODULE Framing ------------------------------
(***************************************************************************)
(* The bytes of one direction of a connection between SocketClient and     *)
(* ClientHandler (src/sw/Drivers/source): what write() puts on the wire,   *)
(* and what the receiving thread of the other side makes of it, line by    *)
(* line or message by message.  Either side may be the reader.  TCP loses  *)
(* nothing, but send() and recv() may move fewer bytes than asked for, a   *)
(* recv() may time out, and connections end and are made again.            *)
(***************************************************************************)
EXTENDS Integers, Sequences, FiniteSets, SequencesExt

CONSTANTS
    Payloads,  \* what write() is called with on a connection, in this order
    BufSize,   \* SOCKET_MAX_PAYLOAD_LENGTH
    MaxLinks,  \* bound: connections made
    Envs       \* the environments considered, see Env

NewLine == 10    \* the delimiter
HeaderSize == 4

Byte == 0 .. 255

Env == [reader : {"client", "handler"},
        mode   : {"NEW_LINE_DELIMITER", "PAYLOAD_HEADER"},
        sends  : {"whole", "once", "any"}, \* how often a write() is cut
        recvs  : {"full", "any"},          \* whether recv() may return less
        ends   : {"line", "any"}]          \* where a connection may end

ASSUME ConstantsAssumption ==
    /\ Payloads \in Seq(Seq(Byte))
    /\ BufSize \in Nat /\ 0 < BufSize /\ BufSize < 65536  \* it is a uint16_t
    /\ MaxLinks \in Nat
    /\ Envs \subseteq Env

VARIABLES
    env,            \* the environment of this behaviour, never changed
    link,           \* "down", "up", or "hungup" by the writer
    links,          \* how many connections were made
    wire,           \* bytes sent and not received
    m_write_buffer, \* the writer's buffer, <<>> while no write() is in progress
    bytes_to_write,
    bytes_written,
    cuts,           \* how many sends of this write() were cut
    done,           \* history: the write() calls of this connection
    buffer,         \* m_recv_buffer up to m_recv_buffer_idx
    size,           \* the payload size that is awaited, or None
    rx,             \* history: bytes received on this connection
    heard,          \* history: messages reported on this connection
    overrun         \* history: recv() wrote behind the end of m_recv_buffer

None == -1

writing == <<m_write_buffer, bytes_to_write, bytes_written, cuts, done>>
reading == <<buffer, size, rx, heard, overrun>>
vars == <<env, link, links, wire, writing, reading>>

Init ==
    /\ env \in Envs
    /\ link = "down"
    /\ links = 0
    /\ wire = <<>>
    /\ m_write_buffer = <<>>
    /\ bytes_to_write = 0
    /\ bytes_written = 0
    /\ cuts = 0
    /\ done = <<>>
    /\ buffer = <<>>
    /\ size = None
    /\ rx = <<>>
    /\ heard = <<>>
    /\ overrun = FALSE

---------------------------------------------------------------------------
(* Data *)

Header(n) ==
    <<n \div 16777216, (n \div 65536) % 256, (n \div 256) % 256, n % 256>>

SlipMessageLength(h) == 256 * h[3] + h[2]
decodeMessageLength(h) == 256 * (256 * (256 * h[1] + h[2]) + h[3]) + h[4]

\* What write() composes of its argument.
Frame(p) ==
    (IF env.mode = "PAYLOAD_HEADER" THEN Header(Len(p)) ELSE <<>>) \o p

Rest(s, n) == SubSeq(s, n + 1, Len(s))

Smaller(a, b) == IF a < b THEN a ELSE b

\* What the loop over the delimiters has reported, and what it has left, after
\* one more byte.
Scanned(s, x) ==
    IF x = NewLine
    THEN [lines |-> Append(s.lines, Append(s.left, x)), left |-> <<>>]
    ELSE [s EXCEPT !.left = Append(@, x)]

\* The lines that the loop reports of a buffer, and what it leaves.
Scan(b) ==
    LET upTo[i \in 0 .. Len(b)] ==
            IF i = 0 THEN [lines |-> <<>>, left |-> <<>>]
                     ELSE Scanned(upTo[i - 1], b[i])
    IN upTo[Len(b)]
SlipLines(b) ==
    IF Scan(b).lines = <<>> THEN Scan(b)
    ELSE [lines |-> <<Head(Scan(b).lines)>>,
          left  |-> Rest(b, Len(Head(Scan(b).lines)))]
Lines(b) == Scan(b)

---------------------------------------------------------------------------
(* Connections *)

\* A handler is made for each connection; a client is kept, and its receive
\* buffer with it.
Connect ==
    /\ link = "down" /\ m_write_buffer = <<>>
    /\ links < MaxLinks
    /\ links' = links + 1
    /\ link' = "up"
    /\ wire' = <<>>
    /\ done' = <<>>
    /\ rx' = <<>>
    /\ heard' = <<>>
    /\ size' = None
    /\ buffer' = IF env.reader = "handler" THEN <<>> ELSE buffer
    /\ UNCHANGED <<env, m_write_buffer, bytes_to_write, bytes_written, cuts, overrun>>

Unread == buffer \o wire

AtLineEnd ==
    env.ends = "line" /\ Unread # <<>> => Last(Unread) = NewLine

\* The writer closes its socket; what it sent can still be read.
HangUp ==
    /\ link = "up" /\ m_write_buffer = <<>>
    /\ AtLineEnd
    /\ link' = "hungup"
    /\ UNCHANGED <<env, links, wire, writing, reading>>

\* The reader's owner disconnects; what was not read is lost.
Disconnect ==
    /\ link # "down"
    /\ env.ends = "line" => buffer = <<>>
    /\ link' = "down"
    /\ wire' = <<>>
    /\ UNCHANGED <<env, links, writing, reading>>

---------------------------------------------------------------------------
(* write() *)

Finish(ok, written) ==
    /\ done' = Append(done, [payload |-> Payloads[Len(done) + 1],
                             ok |-> ok, bytes |-> written])
    /\ m_write_buffer' = <<>>
    /\ bytes_to_write' = 0
    /\ bytes_written' = 0
    /\ cuts' = 0

Fits(b) == Len(b) <= BufSize

Write ==
    /\ link = "up" /\ m_write_buffer = <<>>
    /\ Len(done) < Len(Payloads)
    /\ LET b == Frame(Payloads[Len(done) + 1]) IN
       IF Fits(b)
       THEN /\ m_write_buffer' = b
            /\ bytes_to_write' = Len(b)
            /\ UNCHANGED <<bytes_written, cuts, done>>
       ELSE Finish(FALSE, 0)
    /\ UNCHANGED <<env, link, links, wire, reading>>

MayCut == \/ env.sends = "any"
          \/ env.sends = "once" /\ cuts = 0

\* bytes_to_write after another send: it is reduced by all that was written
\* so far, not by what this send took.
Left(left, written) == left - written

\* One round of the loop in which send() takes n bytes.  If the reader is
\* gone they go nowhere.
Send ==
    \E n \in 1 .. bytes_to_write :
        LET written == bytes_written + n
            left == Left(bytes_to_write, written)
        IN /\ n = bytes_to_write \/ MayCut
           /\ wire' = IF link = "down" THEN <<>>
                      ELSE wire \o SubSeq(m_write_buffer, bytes_written + 1, written)
           /\ IF left > 0
              THEN /\ bytes_written' = written
                   /\ bytes_to_write' = left
                   /\ cuts' = IF n < bytes_to_write THEN cuts + 1 ELSE cuts
                   /\ UNCHANGED <<m_write_buffer, done>>
              ELSE Finish(TRUE, written)
           /\ UNCHANGED <<env, link, links, reading>>

SlipFailed == TRUE
Failed == FALSE

\* send() fails: the reader is gone, or the network.
SendFails ==
    /\ m_write_buffer # <<>>
    /\ link = "down" \/ env.sends = "any" \/ bytes_written = 0
    /\ Finish(Failed, bytes_written)
    /\ UNCHANGED <<env, link, links, wire, reading>>

---------------------------------------------------------------------------
(* The receiving thread *)

\* The byte counts recv() may return for a request, other than 0 and an error.
Counts(asked) ==
    LET n == Smaller(asked, Len(wire)) IN
    IF env.recvs = "any" THEN 1 .. n
    ELSE {k \in {n} : 0 < k /\ (k = asked \/ link = "hungup")}

\* recv() takes n bytes off the wire.
Taken(n) == SubSeq(wire, 1, n)
Take(n) ==
    /\ link # "down"
    /\ wire' = Rest(wire, n)
    /\ rx' = rx \o Taken(n)

\* The buffer starts over when it is full; the room left is asked for.
Kept == IF Len(buffer) = BufSize THEN <<>> ELSE buffer
SlipRoom == BufSize
Room == BufSize - Len(Kept)

\* startDelimiterMode(): one recv() and the loop over what is now buffered.
RecvLines ==
    /\ env.mode = "NEW_LINE_DELIMITER"
    /\ \E n \in 1 .. Smaller(Room, Len(wire)) :
           LET r == Lines(Kept \o Taken(n)) IN
           /\ Take(n)
           /\ heard' = heard \o r.lines
           /\ buffer' = r.left
    /\ UNCHANGED <<env, link, links, writing, size, overrun>>

\* startHeaderMode(): the header.  A short one is dropped.
RecvHeader ==
    /\ env.mode = "PAYLOAD_HEADER" /\ size = None
    /\ \E n \in Counts(HeaderSize) :
           /\ Take(n)
           /\ size' = IF n = HeaderSize THEN decodeMessageLength(Taken(n)) ELSE None
    /\ UNCHANGED <<env, link, links, writing, buffer, heard, overrun>>

\* A client makes m_recv_buffer as large as the payload it awaits; a handler's
\* keeps its size, and nobody compares the two.
Overruns(n) == env.reader = "handler" /\ n > BufSize

\* The payload, into the beginning of m_recv_buffer.  A short one is dropped;
\* one of no bytes is not waited for.  What a reader does that has overrun its
\* buffer is undefined; here it goes on, and no property speaks of it.
RecvPayload ==
    /\ size # None
    /\ \E n \in Counts(size) \union {s \in {size} : s = 0} :
           /\ Take(n)
           /\ heard' = IF n = size THEN Append(heard, Taken(n)) ELSE heard
           /\ overrun' = (overrun \/ Overruns(n))
    /\ size' = None
    /\ UNCHANGED <<env, link, links, writing, buffer>>

\* recv() has failed, and returned -1: as a uint32_t that is this size.
IsError(n) == Header(n) = <<255, 255, 255, 255>>

\* The payload does not come in time: the next bytes are taken as a header.
\* If the size was that of an error, a message is reported of which nothing
\* was received.
RecvTimesOut ==
    /\ size \notin {None, 0}
    /\ env.recvs = "any" /\ link = "up" /\ wire = <<>>
    /\ size' = None
    /\ heard' = IF IsError(size) THEN Append(heard, <<>>) ELSE heard
    /\ UNCHANGED <<env, link, links, wire, writing, buffer, rx, overrun>>

\* recv() returns 0: the end of the connection is reported.
RecvEnd ==
    /\ link = "hungup" /\ wire = <<>> /\ size # 0
    /\ link' = "down"
    /\ size' = None
    /\ UNCHANGED <<env, links, wire, writing, buffer, rx, heard, overrun>>

Next ==
    \/ Connect \/ HangUp \/ Disconnect
    \/ Write \/ Send \/ SendFails
    \/ RecvLines \/ RecvHeader \/ RecvPayload \/ RecvTimesOut \/ RecvEnd

Spec == Init /\ [][Next]_vars

---------------------------------------------------------------------------
(* Properties *)

\* Types; what is kept of an unfinished line is no longer than the buffer.
TypeOK ==
    /\ env \in Env
    /\ link \in {"down", "up", "hungup"}
    /\ links \in 0 .. MaxLinks
    /\ {wire, m_write_buffer, buffer, rx} \subseteq Seq(Byte)
    /\ bytes_written + bytes_to_write \in 0 .. Len(m_write_buffer)
    /\ cuts \in Nat
    /\ done \in Seq([payload : Seq(Byte), ok : BOOLEAN, bytes : Nat])
    /\ Len(buffer) <= BufSize /\ ~Contains(buffer, NewLine)
    /\ size \in {None} \union Nat
    /\ heard \in Seq(Seq(Byte))
    /\ overrun \in BOOLEAN

\* The tail of a line that is left when the buffer has filled up with its
\* beginning once or several times.
FittingTail(line) ==
    SubSeq(line, BufSize * ((Len(line) - 1) \div BufSize) + 1, Len(line))

\* Reference: the lines of a stream of bytes, by where they end.
Ends(s) == {i \in DOMAIN s : s[i] = NewLine}
Count(s) == Cardinality(Ends(s))
Ending(s, k) == {i \in Ends(s) : Cardinality(Ends(s) \intersect (1 .. i)) = k}
End(s, k) == IF k = 0 THEN 0 ELSE CHOOSE i \in Ending(s, k) : TRUE
LinesOf(s) ==
    [k \in 1 .. Count(s) |-> FittingTail(SubSeq(s, End(s, k - 1) + 1, End(s, k)))]

\* However a stream is cut into pieces, the lines reported are those of the
\* stream, in order, each once and as soon as it is complete; a line that does
\* not fit loses exactly the buffers it filled.  A client needs connections
\* that end at the end of a line: it keeps the head of an unfinished one.
LinesHeard ==
    env.mode = "NEW_LINE_DELIMITER" /\ (env.reader = "handler" \/ env.ends = "line")
        => heard = LinesOf(rx)

Frames(s) == FlattenSeq([i \in DOMAIN s |-> Frame(s[i])])

\* The payloads of the write() calls that returned true.
Accepted(calls) ==
    LET upTo[i \in 0 .. Len(calls)] ==
            IF i = 0 THEN <<>>
            ELSE IF calls[i].ok THEN Append(upTo[i - 1], calls[i].payload)
                                ELSE upTo[i - 1]
    IN upTo[Len(calls)]

\* If messages arrive whole, the reader stays in step with the headers: it has
\* reported exactly the messages whose bytes it has read, in the order written.
HeadersInStep ==
    env.mode = "PAYLOAD_HEADER" /\ env.recvs = "full" /\ env.sends # "any" =>
        /\ IsPrefix(heard, Accepted(done))
        /\ rx = Frames(heard) \o (IF size = None THEN <<>> ELSE Header(size))

\* Nobody checks a decoded size against the fixed buffer it is read into: only
\* that the reader is in step keeps recv() inside it.  If messages arrive whole
\* and no write() is cut twice, no size is awaited that does not fit, and a
\* handler's m_recv_buffer is never overrun.
PayloadsFit ==
    env.recvs = "full" /\ env.sends # "any" =>
        (size # None => size + HeaderSize <= BufSize) /\ ~overrun

\* write() reports what it did: true if and only if all bytes were sent, as
\* long as a write() is cut at most once.
WriteTruth ==
    env.sends # "any" =>
        \A i \in DOMAIN done : done[i].ok <=> done[i].bytes = Len(Frame(done[i].payload))
=============================================================================
