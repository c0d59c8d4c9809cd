---------------------------- MODULE MspTelemetry ----------------------------
(***************************************************************************)
(* MSP over telemetry: the request and the reply of telemetry/msp_shared.c *)
(* in chunks, and the two transports that carry them, processSmartPort-    *)
(* Telemetry() of telemetry/smartport.c, in which a poll of the receiver   *)
(* takes one chunk and may answer with one, and the frame buffer of        *)
(* telemetry/crsf.c, which the receiver's interrupt fills.  The client, on *)
(* the radio, is external: it follows the framing msp_shared.c describes.  *)
(*                                                                         *)
(* A chunk's payload is known by the request (or reply) and the part of it *)
(* that it carries, so that parts put together wrongly show.               *)
(***************************************************************************)
EXTENDS Integers, Sequences

CONSTANTS
    SeqCount,     \* MSP_STATUS_SEQUENCE_MASK + 1
    MaxLost,    \* chunks in a row that a link loses at most
    Skips,      \* TELEMETRY_REQUEST_SKIPS_AFTER_EEPROMWRITE
    BufferMax,  \* chunks that fit CRSF_MSP_BUFFER_SIZE
    Gens,       \* requests that an impatient client makes at most; a patient one
                \* numbers them in turns 0 and 1
    Transports, \* those considered
    Requests    \* the requests a client makes

Version == 1 .. 3

ASSUME MspTelemetryAssumption ==
    /\ {SeqCount, Skips, BufferMax, Gens} \subseteq Nat \ {0} /\ Gens >= 2
    /\ MaxLost \in 0 .. SeqCount - 2
    /\ Transports \subseteq {"SMARTPORT", "CRSF"}
    /\ Requests \subseteq [cmd : STRING, version : Version, origin : STRING,
                           parts : Nat \ {0},   \* chunks of the request
                           size : Nat,          \* units of the reply; a chunk carries one
                           tooBig : BOOLEAN,    \* for requestBuffer
                           save : BOOLEAN]      \* MSP_EEPROM_WRITE

VARIABLES
    transport,
    patient,        \* the client awaits the answer to a request before the next
    msp,            \* the statics of msp_shared.c
    pending,        \* smartPortMspReplyPending or mspRespPending
    skipRequests,
    frames, origin, \* mspRequestDataBuffer and mspRequestOriginID
    handled,        \* frames of the buffer that its turn has been through, `pos'
    asks, gen, sent, nextSeq,   \* the client's request, its number and progress
    have,           \* what the client has of an answer
    answered,       \* the client has taken that for whole
    lossy, lostUp, lostDown     \* the link loses chunks; how many in a row so far

fcVars     == <<transport, patient, msp, pending, skipRequests, frames, handled, origin>>
clientVars == <<asks, gen, sent, nextSeq>>
linkVars   == <<lossy, lostUp, lostDown>>
vars == <<fcVars, clientVars, have, answered, linkVars>>

Succ(n) == (n + 1) % SeqCount

ErrorUnit == [number |-> -1, unit |-> 0]
NoReply(request) == [left |-> <<>>, of |-> <<>>, request |-> request, error |-> FALSE, size |-> 0]
NoAnswer == [seq |-> 0, size |-> -1, units |-> <<>>, error |-> FALSE]

\* The parts of the numbered request, as its START and the chunks after it carry them.
Whole(request, number) == [i \in 1 .. request.parts |-> [number |-> number, part |-> i]]

-----------------------------------------------------------------------------
(* handleMspFrame(): the statics after a chunk, and whether a reply is due. *)

NotYet(m) == [msp |-> m, replies |-> FALSE]
Due(m)    == [msp |-> m, replies |-> TRUE]

\* Mutant: a reply that replaces one goes on without a START of its own.
Prepared_noStart(m, reply) == [m EXCEPT !.reply = reply]

Prepared(m, reply) == [m EXCEPT !.reply = reply, !.headerSent = FALSE]

\* sendMspErrorResponse(): one unit, the error.
ErrorReply(m) ==
    Prepared(m, [left |-> <<ErrorUnit>>, of |-> <<>>, request |-> m.request, error |-> TRUE, size |-> 1])

\* Mutant: the request stays open to more chunks.
Processed_open(m) ==
    Prepared(m, [left |-> [i \in 1 .. m.request.size |-> [number |-> m.parts[1].number, unit |-> i]],
                 of |-> m.parts, request |-> m.request, error |-> FALSE, size |-> m.request.size])

\* processMspPacket()
Processed(m) ==
    Prepared([m EXCEPT !.started = FALSE],
             [left |-> [i \in 1 .. m.request.size |-> [number |-> m.parts[1].number, unit |-> i]],
              of |-> m.parts, request |-> m.request, error |-> FALSE, size |-> m.request.size])

\* The chunk completes the request, or more are to come.
Accepted(m, c) ==
    LET n == [m EXCEPT !.lastSeq = c.seq, !.parts = Append(@, c.payload)] IN
    IF Len(n.parts) < n.expects THEN NotYet(n) ELSE Due(Processed(n))

\* Mutant: the sequence number is not compared.
Follows_any(m, c) == TRUE

Follows(m, c) == c.seq = Succ(m.lastSeq)

handleMspFrame(m, c) ==
    LET n == [m EXCEPT !.version = c.version] IN
    IF c.start
    THEN IF c.request.tooBig
         THEN Due(ErrorReply([n EXCEPT !.request = c.request]))
         ELSE Accepted([n EXCEPT !.request = c.request, !.expects = c.request.parts,
                                 !.parts = <<>>, !.started = TRUE], c)
    ELSE IF ~m.started THEN NotYet(n)
    ELSE IF ~Follows(m, c) THEN NotYet([n EXCEPT !.started = FALSE])
    ELSE Accepted(n, c)

-----------------------------------------------------------------------------
(* sendMspReply() *)

\* The START has the size, and room for one unit like any other chunk; a chunk
\* that is full to the last byte is not the last.
ReplyChunk(m) ==
    [start |-> ~m.headerSent, seq |-> m.replySeq, version |-> m.version, to |-> origin,
     cmd |-> m.request.cmd, error |-> m.reply.error, size |-> m.reply.size,
     unit |-> IF m.reply.left = <<>> THEN <<>> ELSE <<Head(m.reply.left)>>]

MoreToSend(m) == Len(m.reply.left) >= 1

AfterChunk(m) ==
    [m EXCEPT !.replySeq = Succ(@), !.headerSent = MoreToSend(m),
              !.reply.left = IF @ = <<>> THEN <<>> ELSE Tail(@)]

\* What the client makes of a chunk of an answer.
Assembled(d) ==
    IF d.start
    THEN IF d.cmd = asks.cmd /\ d.version = asks.version /\ d.to = asks.origin
         THEN [seq |-> d.seq, size |-> d.size, units |-> d.unit, error |-> d.error]
         ELSE NoAnswer
    ELSE IF have.size # -1 /\ d.seq = Succ(have.seq) /\ d.to = asks.origin
    THEN [have EXCEPT !.seq = d.seq, !.units = @ \o d.unit]
    ELSE NoAnswer

\* A chunk of the reply goes out, and is heard or lost.
Send(m) ==
    /\ msp' = AfterChunk(m) /\ pending' = MoreToSend(m)
    /\ \/ /\ lossy /\ lostDown < MaxLost
          /\ lostDown' = lostDown + 1
          /\ UNCHANGED <<have, answered>>
       \/ /\ lostDown' = 0
          /\ have' = IF answered THEN have ELSE Assembled(ReplyChunk(m))
          /\ answered' = (answered \/ have'.size = Len(have'.units))

Silent(m, due) ==
    /\ msp' = m /\ pending' = due
    /\ UNCHANGED <<have, answered, lostDown>>

-----------------------------------------------------------------------------
(* The client.  Sequence numbers go on from request to request. *)

Asking == sent < asks.parts

\* The n-th chunk of the request, as sent now.
Chunk(n) == [start |-> n = 1, seq |-> nextSeq, version |-> asks.version,
             request |-> asks, payload |-> [number |-> gen, part |-> n]]

NewRequest(request) ==
    /\ asks' = request /\ gen' = (IF patient THEN 1 - gen ELSE gen + 1) /\ sent' = 0
    /\ have' = NoAnswer /\ answered' = FALSE
    /\ UNCHANGED <<fcVars, nextSeq, linkVars>>

\* The link has nothing under way.
Quiet == ~pending /\ skipRequests = 0 /\ frames = <<>>

\* The next request: a patient client has its answer by then.
ask ==
    /\ IF patient THEN answered ELSE gen + 1 < Gens
    /\ \E request \in Requests : NewRequest(request)

\* No answer came, or an error did: once more.
retry ==
    /\ patient /\ ~Asking /\ Quiet /\ ~answered
    /\ NewRequest(asks)

\* A chunk is sent; `arrives' is the step of the one that gets through.
Transmit(arrives) ==
    /\ nextSeq' = Succ(nextSeq)
    /\ UNCHANGED <<asks, gen, lossy>>
    /\ \/ /\ lossy /\ lostUp < MaxLost /\ lostUp' = lostUp + 1
          /\ UNCHANGED <<fcVars, have, answered, lostDown>>
       \/ lostUp' = 0 /\ arrives

\* The next chunk of the request.
TransmitNext(arrives) == Asking /\ sent' = sent + 1 /\ Transmit(arrives)

\* A request of one chunk is sent once more before anything of its answer is
\* heard.  On a calm link only a board that skips polls takes that long.
TransmitAgain(arrives) ==
    /\ patient /\ ~Asking /\ asks.parts = 1 /\ ~answered /\ have.size = -1
    /\ lossy \/ skipRequests > 0
    /\ sent' = sent /\ Transmit(arrives)

\* The link gets better, for good.
calm ==
    /\ lossy /\ lossy' = FALSE
    /\ UNCHANGED <<fcVars, clientVars, have, answered, lostUp, lostDown>>

-----------------------------------------------------------------------------
(* processSmartPortTelemetry(): a poll, with the chunk that came or without. *)

Unframed == UNCHANGED <<transport, patient, frames, handled, origin>>

\* Nothing is heard or said for some polls after a save.
Skipped ==
    /\ skipRequests > 0 /\ skipRequests' = skipRequests - 1
    /\ UNCHANGED <<msp, pending, have, answered, lostDown>>

\* A reply is sent when the receiver is clear to be answered.
Answer(m, due, clearToSend) ==
    IF clearToSend /\ due THEN Send(m) ELSE Silent(m, due)

Poll(clearToSend) ==
    /\ transport = "SMARTPORT" /\ Unframed
    /\ \/ Skipped
       \/ /\ skipRequests = 0 /\ UNCHANGED skipRequests
          /\ Answer(msp, pending, clearToSend)

\* What is due is answered, unless the chunk was the save's.
Handled(chunk, clearToSend) ==
    LET after == handleMspFrame(msp, chunk)
        saves == after.replies /\ after.msp.request.save /\ ~after.msp.reply.error
    IN  /\ skipRequests' = IF saves THEN Skips ELSE 0
        /\ Answer(after.msp, after.replies, clearToSend /\ ~saves)

\* Mutant: polls are skipped, but not those with a chunk.
PollWithChunk_heard(chunk, clearToSend) ==
    /\ transport = "SMARTPORT" /\ Unframed
    /\ Handled(chunk, clearToSend)

\* A chunk that does not complete a request ends the reply that was due.
PollWithChunk(chunk, clearToSend) ==
    /\ transport = "SMARTPORT" /\ Unframed
    /\ \/ Skipped
       \/ skipRequests = 0 /\ Handled(chunk, clearToSend)

poll == \E clear \in BOOLEAN : Poll(clear) /\ UNCHANGED <<clientVars, lossy, lostUp>>

pollWithChunk == \E clear \in BOOLEAN : TransmitNext(PollWithChunk(Chunk(sent + 1), clear))

\* The client loses patience with the board, and repeats its request.
repeat ==
    /\ transport = "SMARTPORT"
    /\ \E clear \in BOOLEAN : TransmitAgain(PollWithChunk(Chunk(1), clear))

-----------------------------------------------------------------------------
(* crsf.c *)

\* bufferCrsfMspFrame(), in the interrupt: a frame that does not fit is dropped,
\* which counts as lost.
Buffered ==
    /\ transport = "CRSF"
    /\ Len(frames) < BufferMax
    /\ frames' = Append(frames, Chunk(sent + 1)) /\ origin' = asks.origin
    /\ UNCHANGED <<transport, patient, msp, pending, skipRequests, handled, have, answered, lostDown>>

bufferCrsfMspFrame == TransmitNext(Buffered)

\* handleCrsfMspFrameBuffer(), when telemetry may be sent: the next chunk of a
\* reply, or the next frame of the buffer; the interrupt comes between two of
\* them.  After the last frame, or the one that calls for a reply, the buffer is
\* emptied, of the frames behind that one too.
handleCrsfMspFrameBuffer ==
    /\ transport = "CRSF"
    /\ \/ pending /\ Send(msp) /\ UNCHANGED <<frames, handled>>
       \/ ~pending /\ frames = <<>> /\ Silent(msp, FALSE) /\ UNCHANGED <<frames, handled>>
       \/ /\ ~pending /\ frames # <<>>
          /\ LET after == handleMspFrame(msp, frames[handled + 1])
                 done  == after.replies \/ handled + 1 = Len(frames)
             IN  /\ frames' = IF done THEN <<>> ELSE frames
                 /\ handled' = IF done THEN 0 ELSE handled + 1
                 /\ IF after.replies THEN Send(after.msp) ELSE Silent(after.msp, FALSE)
    /\ UNCHANGED <<transport, patient, skipRequests, origin, clientVars, lossy, lostUp>>

Init ==
    /\ transport \in Transports /\ patient \in BOOLEAN
    /\ \E request \in Requests :
          /\ asks = request /\ origin = request.origin
          /\ msp = [started |-> FALSE, lastSeq |-> 0, version |-> 1, request |-> request,
                    expects |-> 0, parts |-> <<>>, reply |-> NoReply(request),
                    headerSent |-> FALSE, replySeq |-> 0]
    /\ pending = FALSE /\ skipRequests = 0 /\ frames = <<>> /\ handled = 0
    /\ gen = 0 /\ sent = 0 /\ nextSeq = 0
    /\ have = NoAnswer /\ answered = FALSE
    /\ lossy = TRUE /\ lostUp = 0 /\ lostDown = 0

Next == \/ ask \/ retry \/ calm \/ poll \/ pollWithChunk \/ repeat
        \/ bufferCrsfMspFrame \/ handleCrsfMspFrameBuffer

Spec == Init /\ [][Next]_vars

\* The board is polled clear to answer, or runs its telemetry task.
Serve == \/ Poll(TRUE) /\ UNCHANGED <<clientVars, lossy, lostUp>>
         \/ handleCrsfMspFrameBuffer

\* The board is served again and again; the client sends what it has begun, and
\* asks again.
FairSpec == /\ Spec
            /\ WF_vars(Serve) /\ WF_vars(pollWithChunk \/ bufferCrsfMspFrame) /\ WF_vars(retry)

-----------------------------------------------------------------------------
TypeOK ==
    /\ msp.lastSeq \in 0 .. SeqCount - 1 /\ msp.replySeq \in 0 .. SeqCount - 1
    /\ msp.started => msp.parts # <<>> /\ Len(msp.parts) < msp.expects
    /\ msp.headerSent => msp.reply.size > 0
    /\ pending \in BOOLEAN /\ skipRequests \in 0 .. Skips /\ Len(frames) <= BufferMax
    /\ handled = 0 \/ handled \in 1 .. Len(frames) - 1
    /\ asks \in Requests /\ gen \in 0 .. Gens - 1 /\ sent \in 0 .. asks.parts
    /\ nextSeq \in 0 .. SeqCount - 1 /\ answered \in BOOLEAN /\ lossy \in BOOLEAN
    /\ lostUp \in 0 .. MaxLost /\ lostDown \in 0 .. MaxLost

\* The board only acts on a request that came whole: the chunks of two requests,
\* of which some were lost or the first was abandoned, are never put together.
\* (Except under the command of a request that was too big: its START is refused
\* and leaves the parts of the request before it.)
RequestIsWhole ==
    \/ msp.reply.of = <<>> \/ msp.reply.request.tooBig
    \/ \E n \in 0 .. Gens - 1 : msp.reply.of = Whole(msp.reply.request, n)

Answers(n, size) == [i \in 1 .. size |-> [number |-> n, unit |-> i]]

\* An answer a client takes for whole is whole, and of one reply; a client that
\* waits for its answers never takes one to an earlier request for it.
AnswerIsWhole ==
    answered => \/ have.error /\ have.units = <<ErrorUnit>>
                \/ patient /\ have.units = Answers(gen, asks.size)
                \/ ~patient /\ \E n \in 0 .. Gens - 1 : have.units = Answers(n, have.size)

\* Once the link stops losing chunks, a client that asks again gets its answer,
\* though it repeats its request while the board skips the polls after a save;
\* unless the request is too big: the rest of it ends the reply to its START.
AnswersComeBack == patient /\ <>~lossy => []<>(answered \/ asks.tooBig)

=============================================================================
