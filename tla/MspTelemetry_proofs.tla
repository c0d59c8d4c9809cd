------------------------ MODULE MspTelemetry_proofs ------------------------
(***************************************************************************)
(* Proofs about MspTelemetry: its types, that the board acts on whole      *)
(* requests only, and that a client takes only whole answers, and only its *)
(* own.  Sequence numbers wrap, so that both rest on a link that loses     *)
(* fewer chunks in a row than there are numbers.                           *)
(***************************************************************************)
EXTENDS MspTelemetry, TLAPS

SeqNo   == 0 .. SeqCount - 1
Gen     == 0 .. Gens - 1
Payload == [number : Gen, part : Nat \ {0}]
Unit    == [number : Int, unit : Nat]
Frame   == [start : BOOLEAN, seq : SeqNo, version : Version, request : Requests, payload : Payload]
Reply   == [left : Seq(Unit), of : Seq(Payload), request : Requests, error : BOOLEAN, size : Nat]
Statics == [started : BOOLEAN, lastSeq : SeqNo, version : Version, request : Requests,
            expects : Nat, parts : Seq(Payload), reply : Reply, headerSent : BOOLEAN,
            replySeq : SeqNo]
Partial == [seq : SeqNo, size : Int, units : Seq(Unit), error : BOOLEAN]

Typed ==
    /\ transport \in Transports /\ patient \in BOOLEAN
    /\ msp \in Statics /\ pending \in BOOLEAN /\ skipRequests \in 0 .. Skips
    /\ frames \in Seq(Frame) /\ Len(frames) <= BufferMax
    /\ handled \in Nat /\ (handled = 0 \/ handled <= Len(frames) - 1)
    /\ asks \in Requests /\ gen \in Gen /\ sent \in 0 .. asks.parts /\ nextSeq \in SeqNo
    /\ have \in Partial /\ answered \in BOOLEAN /\ lossy \in BOOLEAN
    /\ lostUp \in 0 .. MaxLost /\ lostDown \in 0 .. MaxLost

-----------------------------------------------------------------------------
(* How far the sequence number b is ahead of a. *)

Ahead(a, b) == IF b >= a THEN b - a ELSE b - a + SeqCount

(* The way up.  In what follows m stands for the statics of msp_shared.c,  *)
(* at the beginning of a step or between its parts.                        *)

Last(m) == m.parts[Len(m.parts)]

\* A request is being put together that is not too big.
Open(m) == m.started /\ ~m.request.tooBig

Gathered(m) ==
    /\ m.started => m.parts # <<>> /\ Len(m.parts) < m.expects
    /\ Open(m) => /\ m.expects = m.request.parts
                  /\ \A i \in 1 .. Len(m.parts) :
                        m.parts[i] = [number |-> m.parts[1].number, part |-> i]

\* With the number that follows comes the part that follows, or a START.
Follower(c, seq, request, payload) ==
    c.seq = Succ(seq) =>
        \/ c.start
        \/ c.request = request /\ c.payload = [number |-> payload.number, part |-> payload.part + 1]

\* The client, after the last chunk that arrived.
GoesOn(seq, request, payload) ==
    /\ Ahead(seq, nextSeq) = lostUp + 1
    /\ lostUp = 0 => sent = 0 \/ (asks = request /\ payload = [number |-> gen, part |-> sent])

Made(c) == c.start = (c.payload.part = 1) /\ c.payload.part <= c.request.parts

InOrder ==
    /\ \A i \in 1 .. Len(frames) : Made(frames[i])
    /\ \A i \in 1 .. Len(frames) - 1 :
          Follower(frames[i + 1], frames[i].seq, frames[i].request, frames[i].payload)
    /\ frames # <<>> => GoesOn(frames[Len(frames)].seq, frames[Len(frames)].request,
                               frames[Len(frames)].payload)
    /\ frames # <<>> /\ Open(msp) =>
          Follower(frames[handled + 1], msp.lastSeq, msp.request, Last(msp))
    /\ frames = <<>> /\ Open(msp) => GoesOn(msp.lastSeq, msp.request, Last(msp))

Idle ==
    /\ skipRequests > 0 => ~msp.started
    /\ handled > 0 => ~pending
    /\ transport = "SMARTPORT" => frames = <<>>
    /\ transport = "CRSF" => skipRequests = 0

-----------------------------------------------------------------------------
(* The way down. *)

\* RequestIsWhole of the statics m.
WholeIn(m) ==
    \/ m.reply.of = <<>> \/ m.reply.request.tooBig
    \/ \E n \in Gen : m.reply.of = Whole(m.reply.request, n)

UnitOf(r, i) == IF r.error THEN ErrorUnit ELSE [number |-> r.of[1].number, unit |-> i]

\* `due' says that the reply is to be sent.
ReplyMade(m, due) ==
    /\ Len(m.reply.left) <= m.reply.size
    /\ \A i \in 1 .. Len(m.reply.left) :
          m.reply.left[i] = UnitOf(m.reply, m.reply.size - Len(m.reply.left) + i)
    /\ m.reply.error => m.reply.size = 1
    /\ ~m.reply.error /\ m.reply.of # <<>> => m.reply.size = m.reply.request.size
    /\ due => m.reply.error \/ m.reply.of # <<>>
    /\ due /\ ~m.headerSent => Len(m.reply.left) = m.reply.size
    /\ m.headerSent => m.reply.size > 0

\* The rest of the reply is the rest of what the client has of it.
InStep(m, x) ==
    /\ x.error = m.reply.error /\ x.size = m.reply.size
    /\ Len(x.units) >= 1 /\ Len(x.units) + Len(m.reply.left) = x.size
    /\ \A i \in 1 .. Len(x.units) : x.units[i] = UnitOf(m.reply, i)

\* What the client has of an answer, and what is to come of it.
Heard(m, due) ==
    have.size # -1 /\ ~answered =>
        /\ Ahead(have.seq, m.replySeq) = lostDown + 1
        /\ lostDown = 0 /\ due /\ m.headerSent => InStep(m, have)

\* The first units of one reply; of its own, for a patient client.
PartMade(x) ==
    x.size # -1 =>
        /\ Len(x.units) <= x.size
        /\ x.error => x.size = 1 /\ \A i \in 1 .. Len(x.units) : x.units[i] = ErrorUnit
        /\ ~x.error =>
              /\ \A i \in 1 .. Len(x.units) : x.units[i] = [number |-> x.units[1].number, unit |-> i]
              /\ x.units # <<>> => x.units[1].number \in Gen
              /\ patient => /\ x.size = asks.size
                            /\ x.units # <<>> => x.units[1].number = gen

AnswerMade == PartMade(have) /\ (answered => have.size = Len(have.units))

-----------------------------------------------------------------------------
(* The turns of a patient client. *)

\* The board has come to answer the request.
Served(m, due) == (due /\ ~m.headerSent) \/ have.size # -1

Turns ==
    patient =>
        /\ gen \in {0, 1}
        /\ msp.started => msp.request = asks /\ ~msp.request.tooBig
        /\ \A i \in handled + 1 .. Len(frames) :
              IF frames[i].payload.number = gen
              THEN frames[i].request = asks /\ frames[i].payload.part <= sent
              ELSE /\ ~frames[i].start /\ ~msp.started
                   /\ \A j \in handled + 1 .. i : frames[j].payload.number # gen

\* `n' chunks of the request are sent.
Answering(m, due, n) ==
    patient =>
        /\ due /\ ~m.headerSent =>
              m.reply.error \/ (m.reply.request = asks /\ m.reply.of[1].number = gen)
        /\ have.size # -1 /\ due => m.headerSent
        /\ Served(m, due) => ~m.started /\ n > 0

\* What is left in the buffer then is the rest of the request.
OnlyTheRest ==
    patient /\ Served(msp, pending) =>
        \A i \in handled + 1 .. Len(frames) :
            ~frames[i].start /\ frames[i].payload.number = gen

\* What the board and the client know of the reply.
Exchange(m, due, n) == ReplyMade(m, due) /\ Heard(m, due) /\ AnswerMade /\ Answering(m, due, n)

IInv == /\ Typed /\ Idle /\ Gathered(msp) /\ WholeIn(msp) /\ InOrder
        /\ Exchange(msp, pending, sent) /\ Turns /\ OnlyTheRest

-----------------------------------------------------------------------------
(* Sequence numbers. *)

\* Succ() counts up, and from the last number to zero.
LEMMA SuccIs ==
  ASSUME NEW n \in SeqNo
  PROVE  Succ(n) \in SeqNo /\ Succ(n) = IF n = SeqCount - 1 THEN 0 ELSE n + 1
<1>1. SeqCount \in Nat /\ SeqCount > 1
  BY MspTelemetryAssumption
<1>2. n \in Int /\ 0 <= n /\ n < SeqCount
  BY <1>1 DEF SeqNo
<1>3. CASE n = SeqCount - 1
  <2>1. SeqCount % SeqCount = 0
    BY <1>1
  <2> QED BY <1>1, <1>2, <1>3, <2>1 DEF Succ, SeqNo
<1>4. CASE n # SeqCount - 1
  <2>1. ASSUME NEW x \in Int, 0 <= x, x < SeqCount PROVE x % SeqCount = x
    BY <1>1, <2>1
  <2>2. (n + 1) % SeqCount = n + 1
    BY <1>1, <1>2, <1>4, <2>1
  <2> QED BY <1>1, <1>2, <1>4, <2>2 DEF Succ, SeqNo
<1> QED BY <1>3, <1>4

\* The successor is one ahead, and a number that is one ahead the successor; a
\* number that goes up gets further ahead, unless it has been all the way round.
LEMMA AheadFacts ==
  ASSUME NEW a \in SeqNo, NEW b \in SeqNo
  PROVE  /\ Ahead(a, b) \in SeqNo
         /\ Ahead(a, Succ(a)) = 1
         /\ b = Succ(a) <=> Ahead(a, b) = 1
         /\ Ahead(a, b) < SeqCount - 1 => Ahead(a, Succ(b)) = Ahead(a, b) + 1
<1>1. SeqCount \in Nat /\ SeqCount > 1
  BY MspTelemetryAssumption
<1>2. a \in Int /\ b \in Int /\ 0 <= a /\ a < SeqCount /\ 0 <= b /\ b < SeqCount
  BY <1>1 DEF SeqNo
<1>3. Succ(a) = (IF a = SeqCount - 1 THEN 0 ELSE a + 1) /\ Succ(b) = IF b = SeqCount - 1 THEN 0 ELSE b + 1
  BY SuccIs
<1> QED BY <1>1, <1>2, <1>3 DEF Ahead, SeqNo

-----------------------------------------------------------------------------
(* handleMspFrame() *)

SameReply(m, n) == n.reply = m.reply /\ n.headerSent = m.headerSent /\ n.replySeq = m.replySeq

\* The chunk belongs to nothing.
Dropped(m, c, h) ==
    /\ ~h.replies /\ ~h.msp.started /\ ~c.start
    /\ SameReply(m, h.msp)

\* The START of a request that is too big.
Refused(m, c, h) ==
    /\ h.replies /\ c.start /\ c.request.tooBig
    /\ h.msp.started = m.started /\ h.msp.parts = m.parts /\ h.msp.expects = m.expects
    /\ h.msp.request = c.request /\ h.msp.headerSent = FALSE /\ h.msp.replySeq = m.replySeq
    /\ h.msp.reply = [left |-> <<ErrorUnit>>, of |-> <<>>, request |-> c.request,
                      error |-> TRUE, size |-> 1]

RequestAfter(m, c) == IF c.start THEN c.request ELSE m.request
PartsAfter(m, c)   == IF c.start THEN <<c.payload>> ELSE Append(m.parts, c.payload)
ExpectsAfter(m, c) == IF c.start THEN c.request.parts ELSE m.expects

\* The chunk is the next of a request.
Taken(m, c, h) ==
    /\ c.start => ~c.request.tooBig
    /\ ~c.start => m.started /\ Follows(m, c)
    /\ h.msp.request = RequestAfter(m, c) /\ h.msp.parts = PartsAfter(m, c)
    /\ h.msp.expects = ExpectsAfter(m, c) /\ h.msp.lastSeq = c.seq

\* It is not the last.
More(m, c, h) ==
    /\ Taken(m, c, h) /\ ~h.replies
    /\ Len(PartsAfter(m, c)) < ExpectsAfter(m, c)
    /\ h.msp.started /\ SameReply(m, h.msp)

\* It is the last.
Completed(m, c, h) ==
    /\ Taken(m, c, h) /\ h.replies
    /\ ~(Len(PartsAfter(m, c)) < ExpectsAfter(m, c))
    /\ ~h.msp.started /\ h.msp.headerSent = FALSE /\ h.msp.replySeq = m.replySeq
    /\ h.msp.reply =
          [left |-> [i \in 1 .. RequestAfter(m, c).size |->
                        [number |-> PartsAfter(m, c)[1].number, unit |-> i]],
           of |-> PartsAfter(m, c), request |-> RequestAfter(m, c), error |-> FALSE,
           size |-> RequestAfter(m, c).size]

\* The fields of a request and of the statics have their types.
LEMMA RequestTyped ==
  ASSUME NEW r \in Requests
  PROVE  /\ r.version \in Version /\ r.parts \in Nat \ {0} /\ r.size \in Nat
         /\ r.tooBig \in BOOLEAN /\ r.save \in BOOLEAN
<1>1. r \in [cmd : STRING, version : Version, origin : STRING, parts : Nat \ {0},
             size : Nat, tooBig : BOOLEAN, save : BOOLEAN]
  BY MspTelemetryAssumption
<1> QED BY <1>1

\* The parts of a request, with one more.
LEMMA PartsAfterTyped ==
  ASSUME NEW m \in Statics, NEW c \in Frame
  PROVE  /\ PartsAfter(m, c) \in Seq(Payload) /\ PartsAfter(m, c) # <<>>
         /\ Len(PartsAfter(m, c)) = (IF c.start THEN 1 ELSE Len(m.parts) + 1)
         /\ PartsAfter(m, c)[Len(PartsAfter(m, c))] = c.payload
         /\ \A i \in 1 .. Len(m.parts) : ~c.start => PartsAfter(m, c)[i] = m.parts[i]
         /\ RequestAfter(m, c) \in Requests /\ ExpectsAfter(m, c) \in Nat
<1>1. c.payload \in Payload /\ m.parts \in Seq(Payload) /\ c.request \in Requests
      /\ m.request \in Requests /\ m.expects \in Nat /\ c.start \in BOOLEAN
  BY DEF Statics, Frame
<1>2. CASE c.start
  BY <1>1, <1>2, RequestTyped DEF PartsAfter, RequestAfter, ExpectsAfter
<1>3. CASE ~c.start
  BY <1>1, <1>3, RequestTyped DEF PartsAfter, RequestAfter, ExpectsAfter
<1> QED BY <1>2, <1>3

\* What becomes of a chunk.
LEMMA HandleCases ==
  ASSUME NEW m \in Statics, NEW c \in Frame, NEW h, h = handleMspFrame(m, c)
  PROVE  Dropped(m, c, h) \/ Refused(m, c, h) \/ More(m, c, h) \/ Completed(m, c, h)
<1> DEFINE n == [m EXCEPT !.version = c.version]
           s == [n EXCEPT !.request = c.request, !.expects = c.request.parts,
                          !.parts = <<>>, !.started = TRUE]
<1>1. CASE c.start /\ c.request.tooBig
  <2>1. h = Due(ErrorReply([n EXCEPT !.request = c.request]))
    BY <1>1 DEF handleMspFrame
  <2> DEFINE a == [n EXCEPT !.request = c.request]
  <2>2. a \in Statics /\ a.request = c.request /\ a.started = m.started /\ a.parts = m.parts
        /\ a.expects = m.expects /\ a.replySeq = m.replySeq
    BY DEF Statics, Frame
  <2>3. h = Due(ErrorReply(a))
    BY <2>1
  <2> HIDE DEF a
  <2>4. h.replies = TRUE /\ h.msp = ErrorReply(a)
    BY <2>3 DEF Due
  <2>5. h.msp.started = a.started /\ h.msp.parts = a.parts /\ h.msp.expects = a.expects
        /\ h.msp.request = a.request /\ h.msp.headerSent = FALSE /\ h.msp.replySeq = a.replySeq
    BY <2>2, <2>4 DEF ErrorReply, Prepared, Statics
  <2>6. h.msp.reply = [left |-> <<ErrorUnit>>, of |-> <<>>, request |-> a.request,
                       error |-> TRUE, size |-> 1]
    BY <2>2, <2>4 DEF ErrorReply, Prepared, Statics
  <2> QED BY <1>1, <2>2, <2>4, <2>5, <2>6 DEF Refused
<1>2. CASE c.start /\ ~c.request.tooBig
  <2>1. h = Accepted(s, c)
    BY <1>2 DEF handleMspFrame
  <2> DEFINE a == [s EXCEPT !.lastSeq = c.seq, !.parts = Append(@, c.payload)]
  <2>2. a \in Statics
    <3>1. Append(m.parts, c.payload) \in Seq(Payload) /\ Append(<<>>, c.payload) \in Seq(Payload)
          /\ c.request.parts \in Nat /\ c.request \in Requests
      BY RequestTyped DEF Statics, Frame
    <3> QED BY <1>2, <3>1 DEF Statics, Frame
  <2>6. a.parts = PartsAfter(m, c) /\ a.request = RequestAfter(m, c) /\ a.started = TRUE
        /\ a.expects = ExpectsAfter(m, c) /\ a.lastSeq = c.seq /\ SameReply(m, a)
    BY <1>2 DEF PartsAfter, RequestAfter, ExpectsAfter, SameReply, Statics
  <2>3. h = IF Len(a.parts) < a.expects THEN NotYet(a) ELSE Due(Processed(a))
    BY <2>1 DEF Accepted
  <2> HIDE DEF a
  <2>4. CASE Len(a.parts) < a.expects
    BY <1>2, <2>2, <2>6, <2>3, <2>4 DEF More, Taken, NotYet
  <2>5. CASE ~(Len(a.parts) < a.expects)
    <3>1. h.replies = TRUE /\ h.msp = Processed(a)
      BY <2>3, <2>5 DEF Due
    <3>2. h.msp.started = FALSE /\ h.msp.parts = a.parts /\ h.msp.expects = a.expects
          /\ h.msp.request = a.request /\ h.msp.headerSent = FALSE /\ h.msp.replySeq = a.replySeq
          /\ h.msp.lastSeq = a.lastSeq
      BY <2>2, <3>1 DEF Processed, Prepared, Statics
    <3>3. h.msp.reply = [left |-> [i \in 1 .. a.request.size |-> [number |-> a.parts[1].number, unit |-> i]],
                         of |-> a.parts, request |-> a.request, error |-> FALSE, size |-> a.request.size]
      BY <2>2, <3>1 DEF Processed, Prepared, Statics
    <3> QED BY <1>2, <2>5, <2>6, <3>1, <3>2, <3>3 DEF Completed, Taken, SameReply
  <2> QED BY <2>4, <2>5
<1>3. CASE ~c.start /\ ~m.started
  BY <1>3 DEF handleMspFrame, NotYet, Dropped, SameReply, Statics
<1>4. CASE ~c.start /\ m.started /\ ~Follows(m, c)
  BY <1>4 DEF handleMspFrame, NotYet, Dropped, SameReply, Statics
<1>5. CASE ~c.start /\ m.started /\ Follows(m, c)
  <2>1. h = Accepted(n, c)
    BY <1>5 DEF handleMspFrame
  <2> DEFINE a == [n EXCEPT !.lastSeq = c.seq, !.parts = Append(@, c.payload)]
  <2>2. a \in Statics
    <3>1. Append(m.parts, c.payload) \in Seq(Payload) /\ Append(<<>>, c.payload) \in Seq(Payload)
          /\ c.request.parts \in Nat /\ c.request \in Requests
      BY RequestTyped DEF Statics, Frame
    <3> QED BY <1>5, <3>1 DEF Statics, Frame
  <2>6. a.parts = PartsAfter(m, c) /\ a.request = RequestAfter(m, c) /\ a.started = TRUE
        /\ a.expects = ExpectsAfter(m, c) /\ a.lastSeq = c.seq /\ SameReply(m, a)
    BY <1>5 DEF PartsAfter, RequestAfter, ExpectsAfter, SameReply, Statics
  <2>3. h = IF Len(a.parts) < a.expects THEN NotYet(a) ELSE Due(Processed(a))
    BY <2>1 DEF Accepted
  <2> HIDE DEF a
  <2>4. CASE Len(a.parts) < a.expects
    BY <1>5, <2>2, <2>6, <2>3, <2>4 DEF More, Taken, NotYet
  <2>5. CASE ~(Len(a.parts) < a.expects)
    <3>1. h.replies = TRUE /\ h.msp = Processed(a)
      BY <2>3, <2>5 DEF Due
    <3>2. h.msp.started = FALSE /\ h.msp.parts = a.parts /\ h.msp.expects = a.expects
          /\ h.msp.request = a.request /\ h.msp.headerSent = FALSE /\ h.msp.replySeq = a.replySeq
          /\ h.msp.lastSeq = a.lastSeq
      BY <2>2, <3>1 DEF Processed, Prepared, Statics
    <3>3. h.msp.reply = [left |-> [i \in 1 .. a.request.size |-> [number |-> a.parts[1].number, unit |-> i]],
                         of |-> a.parts, request |-> a.request, error |-> FALSE, size |-> a.request.size]
      BY <2>2, <3>1 DEF Processed, Prepared, Statics
    <3> QED BY <1>5, <2>5, <2>6, <3>1, <3>2, <3>3 DEF Completed, Taken, SameReply
  <2> QED BY <2>4, <2>5
<1> QED BY <1>1, <1>2, <1>3, <1>4, <1>5

\* A reply replaces another within the types.
LEMMA PreparedTyped ==
  ASSUME NEW m \in Statics, NEW r \in Reply
  PROVE  Prepared(m, r) \in Statics
BY DEF Prepared, Statics

\* handleMspFrame() stays within the types.
LEMMA HandleTyped ==
  ASSUME NEW m \in Statics, NEW c \in Frame, NEW h, h = handleMspFrame(m, c)
  PROVE  h.msp \in Statics /\ h.replies \in BOOLEAN
<1> DEFINE n == [m EXCEPT !.version = c.version]
           s == [n EXCEPT !.request = c.request, !.expects = c.request.parts,
                          !.parts = <<>>, !.started = TRUE]
<1>1. n \in Statics /\ [n EXCEPT !.started = FALSE] \in Statics
  BY DEF Statics, Frame
<1>2. s \in Statics
  <2>1. c.request.parts \in Nat /\ c.request \in Requests /\ <<>> \in Seq(Payload)
    BY RequestTyped DEF Frame
  <2> QED BY <2>1 DEF Statics, Frame
<1>3. ASSUME NEW a \in Statics
      PROVE  ErrorReply(a) \in Statics
  <2>1. a.request \in Requests /\ <<ErrorUnit>> \in Seq(Unit) /\ <<>> \in Seq(Payload)
    BY DEF Statics, Unit, ErrorUnit
  <2>2. [left |-> <<ErrorUnit>>, of |-> <<>>, request |-> a.request, error |-> TRUE, size |-> 1] \in Reply
    BY <2>1 DEF Reply
  <2> QED BY <2>2, PreparedTyped DEF ErrorReply
<1>4. ASSUME NEW a \in Statics, a.parts # <<>>
      PROVE  Processed(a) \in Statics
  <2>1. a.request \in Requests /\ a.request.size \in Nat /\ a.parts \in Seq(Payload)
    BY RequestTyped DEF Statics
  <2>2. a.parts[1].number \in Int
    <3>1. a.parts[1] \in Payload
      BY <1>4, <2>1
    <3> QED BY <3>1, MspTelemetryAssumption DEF Payload, Gen
  <2>3. [i \in 1 .. a.request.size |-> [number |-> a.parts[1].number, unit |-> i]] \in Seq(Unit)
    <3>1. \A i \in 1 .. a.request.size : [number |-> a.parts[1].number, unit |-> i] \in Unit
      BY <2>1, <2>2 DEF Unit
    <3> QED BY <2>1, <3>1
  <2>4. [left |-> [i \in 1 .. a.request.size |-> [number |-> a.parts[1].number, unit |-> i]],
         of |-> a.parts, request |-> a.request, error |-> FALSE, size |-> a.request.size] \in Reply
    BY <2>1, <2>3 DEF Reply
  <2>5. [a EXCEPT !.started = FALSE] \in Statics
    BY DEF Statics
  <2> QED BY <2>4, <2>5, PreparedTyped DEF Processed
<1>5. ASSUME NEW b \in Statics
      PROVE  Accepted(b, c).msp \in Statics /\ Accepted(b, c).replies \in BOOLEAN
  <2> DEFINE a == [b EXCEPT !.lastSeq = c.seq, !.parts = Append(@, c.payload)]
  <2>1. a \in Statics /\ a.parts # <<>>
    <3>1. Append(b.parts, c.payload) \in Seq(Payload) /\ Append(b.parts, c.payload) # <<>>
      <4>1. b.parts \in Seq(Payload) /\ c.payload \in Payload
        BY DEF Statics, Frame
      <4> QED BY <4>1
    <3> QED BY <3>1 DEF Statics, Frame
  <2>2. Accepted(b, c) = IF Len(a.parts) < a.expects THEN NotYet(a) ELSE Due(Processed(a))
    BY DEF Accepted
  <2> HIDE DEF a
  <2> QED BY <1>4, <2>1, <2>2 DEF NotYet, Due
<1>6. [n EXCEPT !.request = c.request] \in Statics
  BY <1>1 DEF Statics, Frame
<1>7. \/ h = Due(ErrorReply([n EXCEPT !.request = c.request]))
      \/ h = Accepted(s, c) \/ h = Accepted(n, c)
      \/ h = NotYet(n) \/ h = NotYet([n EXCEPT !.started = FALSE])
  BY DEF handleMspFrame
<1> DEFINE b == [n EXCEPT !.request = c.request]
           l == [n EXCEPT !.started = FALSE]
<1> HIDE DEF n, s, b, l
<1>8. CASE h = Due(ErrorReply(b))
  <2>1. h.msp = ErrorReply(b) /\ h.replies = TRUE
    BY <1>8 DEF Due
  <2> QED BY <1>3, <1>6, <2>1 DEF b
<1>9. CASE h = NotYet(n) \/ h = NotYet(l)
  <2>1. n \in Statics /\ l \in Statics
    BY <1>1 DEF l
  <2>2. h.replies = FALSE /\ (h.msp = n \/ h.msp = l)
    BY <1>9 DEF NotYet
  <2> QED BY <2>1, <2>2
<1> QED BY <1>1, <1>2, <1>5, <1>7, <1>8, <1>9 DEF b, l

\* The sequence `of' is the whole of a request when it has as many parts, in order.
LEMMA WholeRequest ==
  ASSUME NEW r \in Requests, NEW s \in Seq(Payload), Len(s) = r.parts,
         \A i \in 1 .. Len(s) : s[i] = [number |-> s[1].number, part |-> i]
  PROVE  \E n \in Gen : s = Whole(r, n)
<1>1. r.parts \in Nat /\ r.parts >= 1
  BY RequestTyped
<1>2. s[1].number \in Gen
  <2>1. s[1] \in Payload
    BY <1>1
  <2> QED BY <2>1 DEF Payload
<1>3. s = [i \in 1 .. r.parts |-> [number |-> s[1].number, part |-> i]]
  <2>1. DOMAIN s = 1 .. r.parts /\ s = [i \in DOMAIN s |-> s[i]]
    BY <1>1
  <2> QED BY <2>1
<1> QED BY <1>2, <1>3 DEF Whole

\* A chunk is put behind the part before it, and a request acted on is whole.
LEMMA HandleGathers ==
  ASSUME NEW m \in Statics, NEW c \in Frame, NEW h, h = handleMspFrame(m, c),
         Gathered(m), WholeIn(m), Made(c),
         Open(m) => Follower(c, m.lastSeq, m.request, Last(m))
  PROVE  /\ Gathered(h.msp) /\ WholeIn(h.msp)
         /\ Open(h.msp) => /\ h.msp.lastSeq = c.seq /\ h.msp.request = c.request
                           /\ Last(h.msp) = c.payload
         /\ h.replies => ~Open(h.msp) /\ (~h.msp.reply.error => ~h.msp.started)
<1> DEFINE p == PartsAfter(m, c)
           r == RequestAfter(m, c)
           e == ExpectsAfter(m, c)
<1>1. /\ p \in Seq(Payload) /\ p # <<>> /\ Len(p) = (IF c.start THEN 1 ELSE Len(m.parts) + 1)
      /\ p[Len(p)] = c.payload /\ (~c.start => \A i \in 1 .. Len(m.parts) : p[i] = m.parts[i])
      /\ r \in Requests /\ e \in Nat /\ Len(p) \in Nat /\ r.parts \in Nat /\ r.parts >= 1
  BY PartsAfterTyped, RequestTyped
<1>2. c.payload \in Payload /\ m.parts \in Seq(Payload) /\ c.start \in BOOLEAN /\ m.expects \in Nat
      /\ c.payload.part \in Nat
  BY DEF Frame, Statics, Payload
<1>3. ASSUME Taken(m, c, h), ~r.tooBig
      PROVE  /\ e = r.parts /\ r = c.request /\ Len(p) <= e
             /\ \A i \in 1 .. Len(p) : p[i] = [number |-> p[1].number, part |-> i]
  <2>1. CASE c.start
    <3>1. c.payload.part = 1 /\ c.payload = [number |-> c.payload.number, part |-> 1]
      BY <2>1, <1>2 DEF Made, Payload
    <3> QED BY <1>1, <2>1, <3>1 DEF RequestAfter, ExpectsAfter
  <2>2. CASE ~c.start
    <3>1. Open(m) /\ r = m.request /\ e = m.expects
      BY <1>3, <2>2 DEF Taken, Open, RequestAfter, ExpectsAfter
    <3>2. m.parts # <<>> /\ Len(m.parts) \in Nat /\ Len(m.parts) >= 1 /\ Len(m.parts) < m.expects
          /\ m.expects = m.request.parts
          /\ \A i \in 1 .. Len(m.parts) : m.parts[i] = [number |-> m.parts[1].number, part |-> i]
      BY <1>2, <3>1 DEF Gathered, Open
    <3>3. c.request = m.request
          /\ c.payload = [number |-> Last(m).number, part |-> Last(m).part + 1]
      BY <1>3, <2>2, <3>1 DEF Taken, Follows, Follower
    <3>4. Last(m) = [number |-> m.parts[1].number, part |-> Len(m.parts)]
      BY <3>2 DEF Last
    <3>5. c.payload = [number |-> p[1].number, part |-> Len(m.parts) + 1]
      BY <1>1, <2>2, <3>2, <3>3, <3>4
    <3>6. ASSUME NEW i \in 1 .. Len(p) PROVE p[i] = [number |-> p[1].number, part |-> i]
      <4>1. CASE i = Len(p)
        BY <1>1, <2>2, <3>5, <4>1
      <4>2. CASE i \in 1 .. Len(m.parts)
        BY <1>1, <2>2, <3>2, <4>2
      <4> QED BY <1>1, <2>2, <3>2, <4>1, <4>2
    <3> QED BY <1>1, <2>2, <3>1, <3>2, <3>3, <3>6
  <2> QED BY <2>1, <2>2
<1>4. CASE Dropped(m, c, h)
  BY <1>4 DEF Dropped, SameReply, Gathered, Open, WholeIn
<1>5. CASE Refused(m, c, h)
  BY <1>5 DEF Refused, Gathered, Open, WholeIn
<1>6. CASE More(m, c, h)
  <2>1. Taken(m, c, h) /\ Len(p) < e /\ h.replies = FALSE /\ h.msp.started = TRUE
        /\ h.msp.parts = p /\ h.msp.request = r /\ h.msp.expects = e /\ h.msp.lastSeq = c.seq
        /\ h.msp.reply = m.reply
    BY <1>6, HandleTyped DEF More, Taken, SameReply, Statics
  <2> HIDE DEF p, r, e
  <2>2. WholeIn(h.msp)
    BY <2>1 DEF WholeIn
  <2>3. Gathered(h.msp)
    BY <1>1, <1>3, <2>1 DEF Gathered, Open
  <2>4. Open(h.msp) => r = c.request
    BY <1>3, <2>1 DEF Open
  <2> QED BY <1>1, <2>1, <2>2, <2>3, <2>4 DEF Last
<1>7. CASE Completed(m, c, h)
  <2>1. Taken(m, c, h) /\ ~(Len(p) < e) /\ h.msp.started = FALSE
        /\ h.msp.reply.of = p /\ h.msp.reply.request = r
    BY <1>7, HandleTyped DEF Completed, Statics
  <2>2. ~r.tooBig => \E n \in Gen : p = Whole(r, n)
    <3> HAVE ~r.tooBig
    <3> HIDE DEF p, r, e
    <3>1. Len(p) = r.parts /\ \A i \in 1 .. Len(p) : p[i] = [number |-> p[1].number, part |-> i]
      BY <1>1, <1>3, <2>1
    <3> QED BY <1>1, <3>1, WholeRequest
  <2> HIDE DEF p, r, e
  <2>3. WholeIn(h.msp)
    BY <2>1, <2>2 DEF WholeIn
  <2> QED BY <2>1, <2>3 DEF Gathered, Open
<1> QED BY <1>4, <1>5, <1>6, <1>7, HandleCases

\* The reply that is due afterwards is one to send from its START; what the
\* client has of another one ends with it.
LEMMA HandleReplies ==
  ASSUME NEW m \in Statics, NEW c \in Frame, NEW h, h = handleMspFrame(m, c), NEW due \in BOOLEAN,
         ReplyMade(m, due), Heard(m, due)
  PROVE  ReplyMade(h.msp, h.replies) /\ Heard(h.msp, h.replies)
<1>1. m.reply \in Reply /\ h.msp \in Statics /\ h.msp.reply \in Reply
  BY HandleTyped DEF Statics
<1>2. CASE ~h.replies /\ SameReply(m, h.msp)
  BY <1>2 DEF SameReply, ReplyMade, Heard, UnitOf
<1>3. CASE Refused(m, c, h)
  <2>1. h.msp.headerSent = FALSE /\ h.msp.replySeq = m.replySeq
        /\ h.msp.reply = [left |-> <<ErrorUnit>>, of |-> <<>>, request |-> c.request,
                          error |-> TRUE, size |-> 1]
    BY <1>3 DEF Refused
  <2>2. Heard(h.msp, h.replies)
    BY <2>1 DEF Heard
  <2>3. h.msp.reply.left = <<ErrorUnit>> /\ h.msp.reply.error = TRUE /\ h.msp.reply.size = 1
    BY <2>1
  <2>4. ReplyMade(h.msp, h.replies)
    BY <2>1, <2>3 DEF ReplyMade, UnitOf
  <2> QED BY <2>2, <2>4
<1>4. CASE Completed(m, c, h)
  <2> DEFINE p == PartsAfter(m, c)
             r == RequestAfter(m, c)
  <2>1. p # <<>> /\ r.size \in Nat
    BY PartsAfterTyped, RequestTyped
  <2>2. /\ h.msp.headerSent = FALSE /\ h.msp.replySeq = m.replySeq
        /\ h.msp.reply = [left |-> [i \in 1 .. r.size |-> [number |-> p[1].number, unit |-> i]],
                          of |-> p, request |-> r, error |-> FALSE, size |-> r.size]
    BY <1>4 DEF Completed
  <2> HIDE DEF p, r
  <2>3. Heard(h.msp, h.replies)
    BY <2>2 DEF Heard
  <2>4. Len(h.msp.reply.left) = r.size
    BY <2>1, <2>2
  <2>5. ReplyMade(h.msp, h.replies)
    BY <2>1, <2>2, <2>4 DEF ReplyMade, UnitOf
  <2> QED BY <2>3, <2>5
<1> QED BY <1>2, <1>3, <1>4, HandleCases DEF Dropped, More

\* The chunk that a patient client's request has next, with `n' of its chunks sent.
OfItsTurn(m, c, n) ==
    patient =>
        /\ m.started => m.request = asks /\ ~m.request.tooBig
        /\ IF c.payload.number = gen THEN c.request = asks /\ c.payload.part <= n
           ELSE ~c.start /\ ~m.started
        /\ have.size # -1 => ~c.start

\* A patient client is answered by the request it makes, once.
LEMMA HandleAnswers ==
  ASSUME NEW m \in Statics, NEW c \in Frame, NEW h, h = handleMspFrame(m, c), NEW due \in BOOLEAN,
         NEW k \in Nat, NEW n \in Nat, k <= n,
         Gathered(m), Made(c), Open(m) => Follower(c, m.lastSeq, m.request, Last(m)),
         OfItsTurn(m, c, n), Answering(m, due, k)
  PROVE  /\ Answering(h.msp, h.replies, n)
         /\ patient => /\ h.msp.started => h.msp.request = asks /\ ~h.msp.request.tooBig
                       /\ c.payload.number # gen => ~h.msp.started
<1> SUFFICES ASSUME patient
             PROVE  /\ Answering(h.msp, h.replies, n)
                    /\ h.msp.started => h.msp.request = asks /\ ~h.msp.request.tooBig
                    /\ c.payload.number # gen => ~h.msp.started
  BY DEF Answering, Served
<1>1. /\ m.started => m.request = asks /\ ~m.request.tooBig
      /\ c.payload.number = gen => c.request = asks /\ c.payload.part <= n
      /\ c.payload.number # gen => ~c.start /\ ~m.started
      /\ have.size # -1 => ~c.start
      /\ Served(m, due) => ~m.started /\ n > 0
  BY DEF OfItsTurn, Answering
<1>2. c.payload.part \in Nat /\ c.payload.part >= 1
  BY DEF Frame, Payload
<1>3. CASE Dropped(m, c, h)
  BY <1>1, <1>3 DEF Dropped, SameReply, Answering, Served
<1>4. CASE Refused(m, c, h)
  <2>1. c.payload.number = gen /\ n > 0 /\ ~m.started /\ have.size = -1
    BY <1>1, <1>2, <1>4 DEF Refused, Served
  <2> QED BY <1>4, <2>1 DEF Refused, Answering, Served
<1>5. CASE More(m, c, h)
  <2>1. c.payload.number = gen /\ have.size = -1
    BY <1>1, <1>5 DEF More, Taken, Served
  <2>2. h.msp.request = asks /\ ~h.msp.request.tooBig
    BY <1>1, <1>5, <2>1 DEF More, Taken, RequestAfter
  <2> QED BY <1>5, <2>1, <2>2 DEF More, Answering, Served
<1>6. CASE Completed(m, c, h)
  <2>1. c.payload.number = gen /\ n > 0 /\ have.size = -1
    BY <1>1, <1>2, <1>6 DEF Completed, Taken, Served
  <2>2. RequestAfter(m, c) = asks
    BY <1>1, <1>6, <2>1 DEF Completed, Taken, RequestAfter
  <2>3. PartsAfter(m, c)[1].number = gen
    <3>1. CASE c.start
      BY <2>1, <3>1 DEF PartsAfter
    <3>2. CASE ~c.start
      <4>1. Open(m) /\ m.parts \in Seq(Payload) /\ m.parts # <<>>
        BY <1>1, <1>6, <3>2 DEF Completed, Taken, Open, Gathered, Statics
      <4>2. c.payload.number = Last(m).number
        BY <1>6, <3>2, <4>1 DEF Completed, Taken, Follows, Follower
      <4>3. Last(m).number = m.parts[1].number
        <5>1. Len(m.parts) \in 1 .. Len(m.parts)
          BY <4>1
        <5>2. m.parts[Len(m.parts)] = [number |-> m.parts[1].number, part |-> Len(m.parts)]
          BY <4>1, <5>1 DEF Gathered
        <5> QED BY <5>2 DEF Last
      <4>4. PartsAfter(m, c)[1] = m.parts[1]
        BY <3>2, <4>1, PartsAfterTyped
      <4> QED BY <2>1, <4>2, <4>3, <4>4
    <3> QED BY <3>1, <3>2 DEF Frame
  <2> QED BY <1>6, <2>1, <2>2, <2>3 DEF Completed, Answering, Served
<1> QED BY <1>3, <1>4, <1>5, <1>6, HandleCases

-----------------------------------------------------------------------------
(* sendMspReply() *)

\* What is left of a reply after a chunk of it.
Left(m) == IF m.reply.left = <<>> THEN <<>> ELSE Tail(m.reply.left)

UnitsOf(m) == IF m.reply.left = <<>> THEN <<>> ELSE <<Head(m.reply.left)>>

\* The units left of a reply after its next one.
LEMMA LeftFacts ==
  ASSUME NEW m \in Statics
  PROVE  /\ m.reply.left \in Seq(Unit) /\ m.reply.of \in Seq(Payload)
         /\ Left(m) \in Seq(Unit) /\ UnitsOf(m) \in Seq(Unit)
         /\ Len(m.reply.left) \in Nat /\ MoreToSend(m) \in BOOLEAN
         /\ MoreToSend(m) => /\ Len(m.reply.left) = Len(Left(m)) + 1
                            /\ Len(UnitsOf(m)) = 1 /\ UnitsOf(m)[1] = m.reply.left[1]
         /\ ~MoreToSend(m) => /\ Len(m.reply.left) = 0 /\ Len(Left(m)) = 0
                             /\ Len(UnitsOf(m)) = 0
         /\ \A i \in 1 .. Len(Left(m)) : Left(m)[i] = m.reply.left[i + 1]
<1>1. m.reply.left \in Seq(Unit) /\ m.reply.of \in Seq(Payload)
  BY DEF Statics, Reply
<1>2. CASE m.reply.left = <<>>
  BY <1>1, <1>2 DEF Left, UnitsOf, MoreToSend
<1>3. CASE m.reply.left # <<>>
  BY <1>1, <1>3 DEF Left, UnitsOf, MoreToSend
<1> QED BY <1>2, <1>3

\* What sendMspReply() leaves of the statics.
LEMMA AfterChunkFacts ==
  ASSUME NEW m \in Statics, NEW a, a = AfterChunk(m)
  PROVE  /\ a \in Statics
         /\ a.started = m.started /\ a.request = m.request /\ a.parts = m.parts
         /\ a.expects = m.expects /\ a.lastSeq = m.lastSeq
         /\ a.replySeq = Succ(m.replySeq) /\ a.headerSent = MoreToSend(m)
         /\ a.reply = [m.reply EXCEPT !.left = Left(m)]
         /\ a.reply.left = Left(m) /\ a.reply.of = m.reply.of /\ a.reply.error = m.reply.error
         /\ a.reply.request = m.reply.request /\ a.reply.size = m.reply.size
<1>1. Succ(m.replySeq) \in SeqNo /\ MoreToSend(m) \in BOOLEAN /\ Left(m) \in Seq(Unit)
  BY SuccIs, LeftFacts DEF Statics
<1> DEFINE r == [m.reply EXCEPT !.left = Left(m)]
<1>2. r \in Reply /\ r.left = Left(m) /\ r.of = m.reply.of /\ r.error = m.reply.error
      /\ r.request = m.reply.request /\ r.size = m.reply.size
  BY <1>1 DEF Statics, Reply
<1>3. a = [m EXCEPT !.replySeq = Succ(m.replySeq), !.headerSent = MoreToSend(m), !.reply = r]
  BY DEF AfterChunk, Left, Statics
<1> HIDE DEF r
<1>4. a \in Statics /\ a.reply = r
  BY <1>1, <1>2, <1>3 DEF Statics
<1>5. /\ a.started = m.started /\ a.request = m.request /\ a.parts = m.parts
      /\ a.expects = m.expects /\ a.lastSeq = m.lastSeq
      /\ a.replySeq = Succ(m.replySeq) /\ a.headerSent = MoreToSend(m)
  BY <1>3 DEF Statics
<1> QED BY <1>2, <1>4, <1>5 DEF r

\* The rest of the reply is still what it is to be.
LEMMA ChunkLeavesReply ==
  ASSUME NEW m \in Statics, ReplyMade(m, TRUE)
  PROVE  ReplyMade(AfterChunk(m), MoreToSend(m))
<1> DEFINE a == AfterChunk(m)
<1>1. /\ a.headerSent = MoreToSend(m) /\ a.reply.left = Left(m) /\ a.reply.of = m.reply.of
      /\ a.reply.error = m.reply.error /\ a.reply.request = m.reply.request
      /\ a.reply.size = m.reply.size
  BY AfterChunkFacts
<1>2. m.reply.size \in Nat /\ Len(Left(m)) \in Nat /\ Len(m.reply.left) \in Nat
  BY LeftFacts DEF Statics, Reply
<1>6. Len(m.reply.left) <= m.reply.size
  BY DEF ReplyMade
<1>7. /\ MoreToSend(m) => Len(m.reply.left) = Len(Left(m)) + 1
      /\ ~MoreToSend(m) => Len(m.reply.left) = Len(Left(m)) /\ Len(m.reply.left) = 0
  BY <1>2, LeftFacts
<1> HIDE DEF a
<1>3. ASSUME NEW i \in 1 .. Len(Left(m))
      PROVE  Left(m)[i] = UnitOf(a.reply, a.reply.size - Len(Left(m)) + i)
  <2>1. MoreToSend(m) /\ Len(m.reply.left) = Len(Left(m)) + 1 /\ i + 1 \in 1 .. Len(m.reply.left)
    BY <1>2, <1>7
  <2>2. Left(m)[i] = UnitOf(m.reply, m.reply.size - Len(m.reply.left) + (i + 1))
    BY <2>1, LeftFacts DEF ReplyMade
  <2>3. m.reply.size - Len(m.reply.left) + (i + 1) = m.reply.size - Len(Left(m)) + i
    BY <1>2, <2>1
  <2> QED BY <1>1, <2>2, <2>3 DEF UnitOf
<1>4. MoreToSend(m) => m.reply.size > 0
  BY <1>2, <1>6, <1>7
<1>5. Len(Left(m)) <= m.reply.size
  BY <1>2, <1>6, <1>7
<1> QED BY <1>1, <1>3, <1>4, <1>5 DEF ReplyMade, a

-----------------------------------------------------------------------------
(* What a client has of the reply after a chunk that it heard, if anything. *)

GoesOnWith(m, x) ==
    /\ x.seq = m.replySeq /\ x.size = m.reply.size /\ x.error = m.reply.error
    /\ Len(x.units) + Len(Left(m)) = x.size /\ (MoreToSend(m) => Len(x.units) >= 1)
    /\ \A i \in 1 .. Len(x.units) : x.units[i] = UnitOf(m.reply, i)

Begun(m)     == [seq |-> m.replySeq, size |-> m.reply.size, units |-> UnitsOf(m),
                 error |-> m.reply.error]
Continued(m) == [have EXCEPT !.seq = m.replySeq, !.units = @ \o UnitsOf(m)]

\* A sequence, and one element or none behind it.
LEMMA Joined ==
  ASSUME NEW S, NEW a \in Seq(S), NEW b \in Seq(S)
  PROVE  /\ a \o b \in Seq(S) /\ Len(a \o b) = Len(a) + Len(b)
         /\ \A i \in 1 .. Len(a) : (a \o b)[i] = a[i]
         /\ Len(b) = 1 => (a \o b)[Len(a) + 1] = b[1]
<1>1. a \o b \in Seq(S) /\ Len(a \o b) = Len(a) + Len(b) /\ Len(a) \in Nat /\ Len(b) \in Nat
  OBVIOUS
<1>2. \A i \in 1 .. Len(a) + Len(b) : (a \o b)[i] = IF i <= Len(a) THEN a[i] ELSE b[i - Len(a)]
  OBVIOUS
<1> QED BY <1>1, <1>2

\* The START of a reply, as the client takes it.
LEMMA FirstChunk ==
  ASSUME NEW m \in Statics, ReplyMade(m, TRUE), m.headerSent = FALSE,
         NEW x, x = Begun(m)
  PROVE  x \in Partial /\ GoesOnWith(m, x)
<1>1. m.reply.size \in Nat /\ m.reply.error \in BOOLEAN /\ m.replySeq \in SeqNo
      /\ UnitsOf(m) \in Seq(Unit) /\ Len(Left(m)) \in Nat
  BY LeftFacts DEF Statics, Reply
<1>2. x \in Partial /\ x.seq = m.replySeq /\ x.size = m.reply.size /\ x.error = m.reply.error
      /\ x.units = UnitsOf(m)
  BY <1>1 DEF Partial, Begun
<1>3. Len(m.reply.left) = m.reply.size
  BY DEF ReplyMade
<1>6. x.size = m.reply.size /\ m.reply.size \in Nat /\ Len(Left(m)) \in Nat
  BY <1>1, <1>2
<1>4. CASE MoreToSend(m)
  <2>1. Len(m.reply.left) = Len(Left(m)) + 1 /\ Len(UnitsOf(m)) = 1
        /\ UnitsOf(m)[1] = m.reply.left[1]
    BY <1>4, LeftFacts
  <2>2. m.reply.left[1] = UnitOf(m.reply, m.reply.size - Len(m.reply.left) + 1)
    BY <1>1, <2>1 DEF ReplyMade
  <2>3. m.reply.size - Len(m.reply.left) + 1 = 1
    BY <1>1, <1>3
  <2>4. UnitsOf(m)[1] = UnitOf(m.reply, 1)
    BY <2>1, <2>2, <2>3
  <2>5. x.units = UnitsOf(m) /\ \A i \in 1 .. Len(UnitsOf(m)) : i = 1
    BY <1>2, <2>1
  <2>6. Len(x.units) + Len(Left(m)) = x.size /\ Len(x.units) >= 1
    <3> DEFINE l == Len(m.reply.left)
               s == m.reply.size
               k == Len(Left(m))
    <3>1. l = s /\ l = k + 1 /\ k \in Nat
      BY <1>3, <1>6, <2>1
    <3>2. Len(x.units) = 1 /\ x.size = s
      BY <1>6, <2>1, <2>5
    <3> HIDE DEF l, s, k
    <3>3. 1 + k = s
      BY <3>1
    <3> QED BY <3>2, <3>3 DEF k
  <2> QED BY <1>2, <2>4, <2>5, <2>6 DEF GoesOnWith
<1>5. CASE ~MoreToSend(m)
  <2>1. Len(m.reply.left) = 0 /\ Len(Left(m)) = 0 /\ Len(UnitsOf(m)) = 0
    BY <1>5, LeftFacts
  <2> QED BY <1>1, <1>2, <1>3, <1>5, <2>1 DEF GoesOnWith
<1> QED BY <1>2, <1>4, <1>5

\* A chunk of a reply that the client takes for the next one of its answer.
LEMMA NextChunk ==
  ASSUME NEW m \in Statics, ReplyMade(m, TRUE), m.headerSent = TRUE, Heard(m, TRUE), NEW x,
         have \in Partial, lostDown \in Nat, have.size # -1, answered = FALSE, m.replySeq = Succ(have.seq),
         x = Continued(m)
  PROVE  /\ x \in Partial /\ GoesOnWith(m, x)
         /\ have.error = m.reply.error /\ have.size = m.reply.size /\ Len(have.units) >= 1
         /\ have.units[1] = UnitOf(m.reply, 1)
<1>1. have.units \in Seq(Unit) /\ have.seq \in SeqNo /\ have.size \in Int /\ have.error \in BOOLEAN
      /\ m.replySeq \in SeqNo /\ UnitsOf(m) \in Seq(Unit) /\ Len(Left(m)) \in Nat
      /\ Len(have.units) \in Nat /\ Len(m.reply.left) \in Nat /\ m.reply.size \in Nat
  BY LeftFacts DEF Statics, Partial, Reply
<1>2. lostDown = 0
  <2>1. Ahead(have.seq, m.replySeq) = lostDown + 1
    BY DEF Heard
  <2>2. Ahead(have.seq, m.replySeq) = 1
    BY <1>1, AheadFacts
  <2> QED BY <2>1, <2>2
<1>3. /\ have.error = m.reply.error /\ have.size = m.reply.size
      /\ Len(have.units) >= 1 /\ Len(have.units) + Len(m.reply.left) = have.size
      /\ \A i \in 1 .. Len(have.units) : have.units[i] = UnitOf(m.reply, i)
  BY <1>2 DEF Heard, InStep
<1> DEFINE h == Len(have.units)
           l == Len(m.reply.left)
           s == m.reply.size
           k == Len(Left(m))
<1>7. h \in Nat /\ l \in Nat /\ k \in Nat /\ s \in Nat /\ have.size = s /\ h >= 1 /\ h + l = s
  BY <1>1, <1>3
<1> HIDE DEF h, l, s, k
<1> DEFINE u == have.units \o UnitsOf(m)
<1>4. u \in Seq(Unit) /\ x \in Partial /\ x.units = u /\ x.seq = m.replySeq /\ x.size = have.size
      /\ x.error = have.error /\ Len(u) = Len(have.units) + Len(UnitsOf(m))
      /\ \A i \in 1 .. Len(have.units) : u[i] = have.units[i]
  <2>1. u \in Seq(Unit) /\ Len(u) = Len(have.units) + Len(UnitsOf(m))
        /\ \A i \in 1 .. Len(have.units) : u[i] = have.units[i]
    BY <1>1, Joined
  <2> HIDE DEF u
  <2>2. x = [have EXCEPT !.seq = m.replySeq, !.units = u]
    BY DEF u, Partial, Continued
  <2> QED BY <1>1, <2>1, <2>2 DEF Partial
<1>5. CASE MoreToSend(m)
  <2>1. Len(m.reply.left) = Len(Left(m)) + 1 /\ Len(UnitsOf(m)) = 1
        /\ UnitsOf(m)[1] = m.reply.left[1]
    BY <1>5, LeftFacts
  <2>2. m.reply.left[1] = UnitOf(m.reply, m.reply.size - Len(m.reply.left) + 1)
    BY <1>1, <2>1 DEF ReplyMade
  <2>3. m.reply.size - Len(m.reply.left) + 1 = Len(have.units) + 1
    <3>1. s - l + 1 = h + 1
      BY <1>7
    <3> QED BY <3>1 DEF s, l, h
  <2>4. u[Len(have.units) + 1] = UnitsOf(m)[1]
    BY <1>1, <2>1, Joined
  <2>5. Len(u) = Len(have.units) + 1
    BY <1>4, <2>1
  <2> HIDE DEF u
  <2>6. ASSUME NEW i \in 1 .. Len(u) PROVE u[i] = UnitOf(m.reply, i)
    <3>1. CASE i = Len(have.units) + 1
      BY <2>1, <2>2, <2>3, <2>4, <3>1
    <3>2. CASE i # Len(have.units) + 1
      <4>1. i \in 1 .. Len(have.units)
        BY <1>1, <2>5, <3>2
      <4> QED BY <1>3, <1>4, <4>1
    <3> QED BY <3>1, <3>2
  <2>7. Len(u) + Len(Left(m)) = have.size /\ Len(u) >= 1
    <3>1. l = k + 1 /\ Len(u) = h + 1
      BY <2>1, <2>5 DEF l, k, h
    <3>2. Len(u) + k = s /\ Len(u) >= 1
      BY <1>7, <3>1
    <3> QED BY <1>7, <3>2 DEF k
  <2>8. GoesOnWith(m, x)
    BY <1>3, <1>4, <2>6, <2>7 DEF GoesOnWith
  <2> QED BY <1>1, <1>3, <1>4, <2>8
<1>6. CASE ~MoreToSend(m)
  <2>1. Len(m.reply.left) = 0 /\ Len(Left(m)) = 0 /\ Len(UnitsOf(m)) = 0
    BY <1>6, LeftFacts
  <2>2. Len(u) = Len(have.units)
    BY <1>1, <1>4, <2>1
  <2> HIDE DEF u
  <2>3. Len(u) + Len(Left(m)) = have.size /\ Len(u) >= 1
    <3>1. l = 0 /\ k = 0 /\ Len(u) = h
      BY <2>1, <2>2 DEF l, k, h
    <3>2. Len(u) + k = s /\ Len(u) >= 1
      BY <1>7, <3>1
    <3> QED BY <1>7, <3>2 DEF k
  <2>4. GoesOnWith(m, x)
    BY <1>3, <1>4, <2>2, <2>3 DEF GoesOnWith
  <2> QED BY <1>1, <1>3, <1>4, <2>4
<1> QED BY <1>5, <1>6

\* A chunk that is heard leaves the client in step with the reply.
LEMMA ChunkHeard ==
  ASSUME NEW m \in Statics, ReplyMade(m, TRUE), Heard(m, TRUE), have \in Partial,
         lostDown \in Nat, answered = FALSE, NEW x, x = Assembled(ReplyChunk(m))
  PROVE  /\ x \in Partial
         /\ \/ x = NoAnswer
            \/ /\ GoesOnWith(m, x)
               /\ \/ m.headerSent = FALSE
                  \/ /\ have.size # -1 /\ have.error = m.reply.error /\ have.size = m.reply.size
                     /\ Len(have.units) >= 1 /\ have.units[1] = UnitOf(m.reply, 1)
<1> DEFINE d == ReplyChunk(m)
<1>1. d.start = ~m.headerSent /\ d.seq = m.replySeq /\ d.error = m.reply.error
      /\ d.size = m.reply.size /\ d.unit = UnitsOf(m)
  BY DEF ReplyChunk, UnitsOf
<1>2. m.headerSent \in BOOLEAN /\ NoAnswer \in Partial
  <2>1. 0 \in SeqNo /\ <<>> \in Seq(Unit)
    BY MspTelemetryAssumption DEF SeqNo
  <2> QED BY <2>1 DEF Statics, Partial, NoAnswer
<1> HIDE DEF d
<1>3. CASE d.start
  <2>1. x = [seq |-> d.seq, size |-> d.size, units |-> d.unit, error |-> d.error] \/ x = NoAnswer
    BY <1>3 DEF Assembled, d
  <2>2. x = Begun(m) \/ x = NoAnswer
    BY <1>1, <2>1 DEF Begun
  <2>3. m.headerSent = FALSE
    BY <1>1, <1>2, <1>3
  <2> QED BY <1>2, <2>2, <2>3, FirstChunk
<1>4. CASE ~d.start
  <2>1. \/ /\ x = [have EXCEPT !.seq = d.seq, !.units = @ \o d.unit]
           /\ have.size # -1 /\ d.seq = Succ(have.seq)
        \/ x = NoAnswer
    BY <1>4 DEF Assembled, d
  <2>2. \/ x = Continued(m) /\ have.size # -1 /\ m.replySeq = Succ(have.seq)
        \/ x = NoAnswer
    BY <1>1, <2>1 DEF Continued
  <2>3. m.headerSent = TRUE
    BY <1>1, <1>2, <1>4
  <2> QED BY <1>2, <2>2, <2>3, NextChunk
<1> QED BY <1>3, <1>4

\* What it has then is a part of one reply still, and of its own.
LEMMA PartOfReply ==
  ASSUME NEW m \in Statics, ReplyMade(m, TRUE), NEW n, Answering(m, TRUE, n), PartMade(have),
         NEW x \in Partial, GoesOnWith(m, x), patient \in BOOLEAN,
         \/ m.headerSent = FALSE
         \/ /\ have.size # -1 /\ have.error = m.reply.error /\ have.size = m.reply.size
            /\ Len(have.units) >= 1 /\ have.units[1] = UnitOf(m.reply, 1)
  PROVE  PartMade(x)
<1> DEFINE r == m.reply
           u == x.units
<1>1. r.size \in Nat /\ r.error \in BOOLEAN /\ r.of \in Seq(Payload) /\ u \in Seq(Unit)
      /\ Len(u) \in Nat /\ Len(Left(m)) \in Nat
  BY LeftFacts DEF Statics, Reply, Partial
<1>2. x.size = r.size /\ x.error = r.error /\ Len(u) + Len(Left(m)) = r.size
      /\ \A i \in 1 .. Len(u) : u[i] = UnitOf(r, i)
  BY DEF GoesOnWith
<1>3. /\ r.error => r.size = 1
      /\ ~r.error => r.of # <<>> /\ r.size = r.request.size
  BY DEF ReplyMade
<1>4. patient /\ m.headerSent = FALSE /\ ~r.error => r.request = asks /\ r.of[1].number = gen
  BY DEF Answering
<1>5. ASSUME patient, ~r.error
      PROVE  r.size = asks.size /\ (u # <<>> => r.of[1].number = gen)
  <2>1. CASE m.headerSent = FALSE
    BY <1>3, <1>4, <1>5, <2>1
  <2>2. CASE have.size # -1 /\ have.error = m.reply.error /\ have.size = m.reply.size
             /\ Len(have.units) >= 1 /\ have.units[1] = UnitOf(m.reply, 1)
    <3>1. have.units # <<>> /\ ~have.error
      BY <1>5, <2>2
    <3>2. have.size = asks.size /\ have.units[1].number = gen
      BY <1>5, <2>2, <3>1 DEF PartMade
    <3> QED BY <1>5, <2>2, <3>2 DEF UnitOf
  <2> QED BY <2>1, <2>2
<1>6. ~r.error => r.of[1].number \in Gen
  <2> HAVE ~r.error
  <2>1. r.of[1] \in Payload
    BY <1>1, <1>3
  <2> QED BY <2>1 DEF Payload
<1>7. ASSUME ~r.error, NEW i \in 1 .. Len(u)
      PROVE  u[i] = [number |-> r.of[1].number, unit |-> i]
  BY <1>2, <1>7 DEF UnitOf
<1>8. u # <<>> => 1 \in 1 .. Len(u)
  BY <1>1
<1>9. ~r.error /\ u # <<>> => u[1].number = r.of[1].number
  <2> HAVE ~r.error /\ u # <<>>
  <2>1. u[1] = [number |-> r.of[1].number, unit |-> 1]
    BY <1>7, <1>8
  <2> QED BY <2>1
<1>10. Len(u) <= x.size
  <2> DEFINE k == Len(Left(m))
             s == r.size
             l == Len(u)
  <2>1. l + k = s /\ l \in Nat /\ k \in Nat /\ s \in Nat
    BY <1>1, <1>2
  <2> HIDE DEF k, s, l
  <2>2. l <= s
    BY <2>1
  <2> QED BY <1>2, <2>2 DEF l, s
<1>11. ASSUME ~r.error, NEW i \in 1 .. Len(u)
       PROVE  u[i] = [number |-> u[1].number, unit |-> i]
  <2>1. u # <<>>
    BY <1>1
  <2> QED BY <1>7, <1>9, <1>11, <2>1
<1>12. r.error => \A i \in 1 .. Len(u) : u[i] = ErrorUnit
  BY <1>2 DEF UnitOf
<1> QED BY <1>2, <1>3, <1>5, <1>6, <1>9, <1>10, <1>11, <1>12 DEF PartMade

-----------------------------------------------------------------------------
(* The client's side and the reply, after a chunk or without one. *)

\* A chunk goes out, heard or lost, and the exchange goes on.
LEMMA SendKeeps ==
  ASSUME NEW m \in Statics, NEW n \in Nat, Exchange(m, TRUE, n), have \in Partial,
         lostDown \in 0 .. MaxLost, answered \in BOOLEAN, patient \in BOOLEAN,
         Send(m), UNCHANGED <<patient, asks, gen>>
  PROVE  /\ Exchange(msp, pending, n)' /\ msp' \in Statics /\ pending' \in BOOLEAN
         /\ have' \in Partial /\ lostDown' \in 0 .. MaxLost /\ answered' \in BOOLEAN
         /\ Served(msp, pending)' => Served(m, TRUE)
         /\ msp'.started = m.started /\ msp'.request = m.request /\ msp'.parts = m.parts
         /\ msp'.expects = m.expects /\ msp'.lastSeq = m.lastSeq
         /\ msp'.reply.of = m.reply.of /\ msp'.reply.request = m.reply.request
         /\ msp'.reply.error = m.reply.error
<1>1. msp' = AfterChunk(m) /\ pending' = MoreToSend(m) /\ pending' \in BOOLEAN
  BY LeftFacts DEF Send
<1>2. /\ msp' \in Statics /\ msp'.started = m.started /\ msp'.request = m.request
      /\ msp'.parts = m.parts /\ msp'.expects = m.expects /\ msp'.lastSeq = m.lastSeq
      /\ msp'.replySeq = Succ(m.replySeq) /\ msp'.headerSent = pending'
      /\ msp'.reply.left = Left(m) /\ msp'.reply.of = m.reply.of /\ msp'.reply.error = m.reply.error
      /\ msp'.reply.request = m.reply.request /\ msp'.reply.size = m.reply.size
  BY <1>1, AfterChunkFacts
<1>3. ReplyMade(msp, pending)'
  <2>1. ReplyMade(msp', pending')
    BY <1>1, ChunkLeavesReply DEF Exchange
  <2> QED BY <2>1 DEF ReplyMade, UnitOf
<1>4. \A i : UnitOf(msp'.reply, i) = UnitOf(m.reply, i)
  BY <1>2 DEF UnitOf
<1>7. ASSUME Served(msp, pending)' PROVE have'.size # -1
  BY <1>2, <1>7 DEF Served
<1>8. ASSUME have'.size # -1 => Served(m, TRUE)
      PROVE  Answering(msp, pending, n)' /\ (Served(msp, pending)' => Served(m, TRUE))
  BY <1>2, <1>7, <1>8 DEF Answering, Exchange
<1>9. lostDown \in Int /\ MaxLost \in Int /\ SeqCount \in Int /\ MaxLost <= SeqCount - 2 /\ 0 <= MaxLost
      /\ 0 <= lostDown /\ lostDown <= MaxLost /\ lostDown \in Nat
  BY MspTelemetryAssumption
<1>5. CASE /\ lossy /\ lostDown < MaxLost /\ lostDown' = lostDown + 1
           /\ UNCHANGED <<have, answered>>
  <2>1. have' = have /\ answered' = answered /\ lostDown' = lostDown + 1 /\ lostDown < MaxLost
    BY <1>5
  <2>2. lostDown' \in 0 .. MaxLost /\ lostDown' # 0
    BY <1>9, <2>1
  <2>3. AnswerMade'
    BY <2>1 DEF Exchange, AnswerMade, PartMade
  <2>4. have.size # -1 => Served(m, TRUE)
    BY DEF Served
  <2>5. ASSUME have.size # -1, answered = FALSE
        PROVE  Ahead(have.seq, msp'.replySeq) = lostDown' + 1
    <3>1. Ahead(have.seq, m.replySeq) = lostDown + 1
      BY <2>5 DEF Exchange, Heard
    <3>2. have.seq \in SeqNo /\ m.replySeq \in SeqNo
      BY DEF Partial, Statics
    <3>3. lostDown + 1 < SeqCount - 1
      BY <1>9, <2>1
    <3>4. Ahead(have.seq, Succ(m.replySeq)) = lostDown + 1 + 1
      BY <3>1, <3>2, <3>3, AheadFacts
    <3> QED BY <1>2, <1>9, <2>1, <3>4
  <2>6. Heard(msp, pending)'
    BY <2>1, <2>2, <2>5 DEF Heard, Ahead
  <2> QED BY <1>1, <1>2, <1>3, <1>8, <2>1, <2>2, <2>3, <2>4, <2>6 DEF Exchange
<1>6. CASE /\ lostDown' = 0
           /\ have' = IF answered THEN have ELSE Assembled(ReplyChunk(m))
           /\ answered' = (answered \/ have'.size = Len(have'.units))
  <2>1. lostDown' \in 0 .. MaxLost
    BY <1>6, <1>9
  <2>2. CASE answered = TRUE
    <3>1. have' = have /\ answered' = TRUE
      BY <1>6, <2>2
    <3>2. AnswerMade'
      BY <2>2, <3>1 DEF Exchange, AnswerMade, PartMade
    <3>3. Heard(msp, pending)'
      BY <3>1 DEF Heard
    <3>4. have.size # -1 => Served(m, TRUE)
      BY DEF Served
    <3> QED BY <1>1, <1>2, <1>3, <1>8, <2>1, <3>1, <3>2, <3>3, <3>4 DEF Exchange
  <2>3. CASE answered = FALSE
    <3> DEFINE x == Assembled(ReplyChunk(m))
    <3>1. have' = x /\ answered' = (x.size = Len(x.units))
      BY <1>6, <2>3
    <3>2. /\ x \in Partial
          /\ \/ x = NoAnswer
             \/ /\ GoesOnWith(m, x)
                /\ \/ m.headerSent = FALSE
                   \/ /\ have.size # -1 /\ have.error = m.reply.error /\ have.size = m.reply.size
                      /\ Len(have.units) >= 1 /\ have.units[1] = UnitOf(m.reply, 1)
      BY <1>9, <2>3, ChunkHeard DEF Exchange
    <3> HIDE DEF x
    <3>3. x.size # -1 => Served(m, TRUE)
      BY <3>2 DEF Served, NoAnswer
    <3>4. PartMade(x)
      <4>1. CASE x = NoAnswer
        BY <4>1 DEF NoAnswer, PartMade
      <4>2. CASE x # NoAnswer
        BY <3>2, <4>2, PartOfReply DEF Exchange, AnswerMade
      <4> QED BY <4>1, <4>2
    <3>5. AnswerMade'
      <4>1. PartMade(have')
        BY <3>1, <3>4
      <4>2. PartMade(have)'
        BY <4>1 DEF PartMade
      <4> QED BY <3>1, <4>2 DEF AnswerMade
    <3>6. ASSUME x.size # -1
          PROVE  /\ Ahead(x.seq, msp'.replySeq) = 1
                 /\ pending' => InStep(msp', x)
      <4>1. GoesOnWith(m, x)
        BY <3>2, <3>6 DEF NoAnswer
      <4>2. m.replySeq \in SeqNo
        BY DEF Statics
      <4>3. Ahead(x.seq, msp'.replySeq) = 1
        BY <1>2, <4>1, <4>2, AheadFacts DEF GoesOnWith
      <4> QED BY <1>1, <1>2, <1>4, <4>1, <4>3 DEF GoesOnWith, InStep
    <3>7. Heard(msp, pending)'
      <4>1. lostDown' = 0 /\ lostDown' + 1 = 1
        BY <1>6
      <4>2. InStep(msp', have') => InStep(msp, have)'
        BY Zenon DEF InStep, UnitOf
      <4>3. Ahead(have'.seq, msp'.replySeq) = 1 => Ahead(have.seq, msp.replySeq)' = 1
        BY DEF Ahead
      <4> QED BY <3>1, <3>6, <4>1, <4>2, <4>3 DEF Heard
    <3>8. answered' \in BOOLEAN
      BY <3>1
    <3> QED BY <1>1, <1>2, <1>3, <1>8, <2>1, <3>1, <3>2, <3>3, <3>5, <3>7, <3>8 DEF Exchange
  <2> QED BY <2>2, <2>3
<1> QED BY <1>5, <1>6 DEF Send

\* A step that may send the reply, and may not.
LEMMA AnswerKeeps ==
  ASSUME NEW m \in Statics, NEW due \in BOOLEAN, NEW k \in Nat, NEW n \in Nat, k <= n,
         Exchange(m, due, k), have \in Partial, lostDown \in 0 .. MaxLost, answered \in BOOLEAN,
         patient \in BOOLEAN, UNCHANGED <<patient, asks, gen>>,
         (due /\ Send(m)) \/ Silent(m, due)
  PROVE  /\ Exchange(msp, pending, n)' /\ msp' \in Statics /\ pending' \in BOOLEAN
         /\ have' \in Partial /\ lostDown' \in 0 .. MaxLost /\ answered' \in BOOLEAN
         /\ Served(msp, pending)' => Served(m, due)
         /\ msp'.started = m.started /\ msp'.request = m.request /\ msp'.parts = m.parts
         /\ msp'.expects = m.expects /\ msp'.lastSeq = m.lastSeq
         /\ msp'.reply.of = m.reply.of /\ msp'.reply.request = m.reply.request
         /\ msp'.reply.error = m.reply.error
<1>1. Answering(m, due, n)
  BY DEF Exchange, Answering
<1>2. Exchange(m, due, n)
  BY <1>1 DEF Exchange
<1>3. CASE due /\ Send(m)
  BY <1>2, <1>3, SendKeeps DEF Served
<1>4. CASE Silent(m, due)
  <2>1. msp' = m /\ pending' = due /\ have' = have /\ answered' = answered /\ lostDown' = lostDown
    BY <1>4 DEF Silent
  <2>2. ReplyMade(msp, pending)'
    BY <1>2, <2>1 DEF Exchange, ReplyMade, UnitOf
  <2>3. Heard(msp, pending)'
    <3>1. InStep(m, have) => InStep(msp, have)'
      BY <2>1 DEF InStep, UnitOf
    <3> QED BY <1>2, <2>1, <3>1 DEF Exchange, Heard, Ahead
  <2>4. AnswerMade'
    BY <1>2, <2>1 DEF Exchange, AnswerMade, PartMade
  <2>5. Answering(msp, pending, n)' /\ (Served(msp, pending)' => Served(m, due))
    BY <1>2, <2>1 DEF Exchange, Answering, Served
  <2> QED BY <2>1, <2>2, <2>3, <2>4, <2>5 DEF Exchange
<1> QED BY <1>3, <1>4

-----------------------------------------------------------------------------
(* A chunk that the client sends. *)

\* It is the next of its request, or a request of one chunk again.
Sends(n) ==
    /\ n \in 1 .. asks.parts
    /\ n = sent + 1 \/ (n = 1 /\ sent = 1 /\ have.size = -1)

LEMMA SendsIs ==
  ASSUME Typed, NEW n, Sends(n)
  PROVE  n \in Nat /\ sent \in Nat /\ n \in 1 .. asks.parts /\ n \in sent .. asks.parts
         /\ asks.parts \in Nat /\ (n = sent + 1 \/ n = 1)
<1>1. asks.parts \in Nat /\ sent \in Nat
  BY RequestTyped DEF Typed
<1> QED BY <1>1 DEF Sends

\* It goes on where the last chunk that arrived left off, or its number tells.
LEMMA ChunkFits ==
  ASSUME Typed, NEW n, Sends(n)
  PROVE  /\ Chunk(n) \in Frame /\ Made(Chunk(n)) /\ Chunk(n).seq = nextSeq /\ Chunk(n).request = asks
         /\ Chunk(n).payload = [number |-> gen, part |-> n] /\ Chunk(n).start = (n = 1)
         /\ \A seq \in SeqNo : \A r, p :
               GoesOn(seq, r, p) => Follower(Chunk(n), seq, r, p)
<1>1. asks \in Requests /\ asks.version \in Version /\ gen \in Gen /\ nextSeq \in SeqNo
      /\ n \in Nat \ {0} /\ n <= asks.parts /\ asks.parts \in Nat /\ sent \in Nat
      /\ (n = sent + 1 \/ n = 1)
  BY SendsIs, RequestTyped DEF Typed
<1>2. /\ Chunk(n).start = (n = 1) /\ Chunk(n).seq = nextSeq /\ Chunk(n).request = asks
      /\ Chunk(n).payload = [number |-> gen, part |-> n]
  BY DEF Chunk
<1>3. Chunk(n) \in Frame
  BY <1>1 DEF Chunk, Frame, Payload
<1>4. Made(Chunk(n))
  BY <1>1, <1>2 DEF Made
<1>5. ASSUME NEW seq \in SeqNo, NEW r, NEW p, GoesOn(seq, r, p), nextSeq = Succ(seq), n # 1
      PROVE  asks = r /\ [number |-> gen, part |-> n] = [number |-> p.number, part |-> p.part + 1]
  <2>1. Ahead(seq, nextSeq) = 1
    BY <1>1, <1>5, AheadFacts
  <2>2. lostUp = 0
    <3>1. Ahead(seq, nextSeq) = lostUp + 1 /\ lostUp \in Int
      BY <1>5, MspTelemetryAssumption DEF GoesOn, Typed
    <3> QED BY <2>1, <3>1
  <2>3. n = sent + 1 /\ sent # 0
    BY <1>1, <1>5
  <2>4. asks = r /\ p = [number |-> gen, part |-> sent]
    BY <1>5, <2>2, <2>3 DEF GoesOn
  <2> QED BY <2>3, <2>4
<1>6. ASSUME NEW seq \in SeqNo, NEW r, NEW p, GoesOn(seq, r, p)
      PROVE  Follower(Chunk(n), seq, r, p)
  BY <1>2, <1>5, <1>6 DEF Follower
<1> QED BY <1>2, <1>3, <1>4, <1>6

\* It is lost, and the chunks after the one that arrived last are one more.
LEMMA LostMoves ==
  ASSUME Typed, nextSeq' = Succ(nextSeq), lostUp < MaxLost, lostUp' = lostUp + 1
  PROVE  /\ nextSeq' \in SeqNo /\ lostUp' \in 0 .. MaxLost
         /\ \A seq \in SeqNo : \A r, p :
               GoesOn(seq, r, p) => Ahead(seq, nextSeq') = lostUp' + 1 /\ lostUp' # 0
<1>1. nextSeq \in SeqNo /\ lostUp \in Nat /\ MaxLost \in Nat /\ MaxLost <= SeqCount - 2
      /\ SeqCount \in Int
  BY MspTelemetryAssumption DEF Typed
<1>2. nextSeq' \in SeqNo
  BY <1>1, SuccIs
<1>3. ASSUME NEW seq \in SeqNo, NEW r, NEW p, GoesOn(seq, r, p)
      PROVE  Ahead(seq, nextSeq') = lostUp' + 1
  <2>1. Ahead(seq, nextSeq) = lostUp + 1
    BY <1>3 DEF GoesOn
  <2>2. Ahead(seq, nextSeq) < SeqCount - 1
    BY <1>1, <2>1
  <2> QED BY <1>1, <2>1, <2>2, AheadFacts
<1>4. lostUp' \in 0 .. MaxLost /\ lostUp' # 0
  BY <1>1
<1> QED BY <1>2, <1>3, <1>4

\* It arrives, and is the last to have arrived.
LEMMA ArrivedMoves ==
  ASSUME Typed, NEW n, Sends(n), sent' = n, nextSeq' = Succ(nextSeq), lostUp' = 0
  PROVE  /\ sent' \in 0 .. asks.parts /\ nextSeq' \in SeqNo /\ lostUp' \in 0 .. MaxLost
         /\ Ahead(Chunk(n).seq, nextSeq') = lostUp' + 1
         /\ Chunk(n).request = asks /\ Chunk(n).payload = [number |-> gen, part |-> sent']
<1>1. n \in 0 .. asks.parts /\ nextSeq \in SeqNo /\ MaxLost \in Nat
  BY SendsIs, MspTelemetryAssumption DEF Typed
<1>2. nextSeq' \in SeqNo /\ Ahead(nextSeq, nextSeq') = 1
  BY <1>1, SuccIs, AheadFacts
<1> QED BY <1>1, <1>2, ChunkFits

-----------------------------------------------------------------------------
(* The steps. *)

\* All that handleMspFrame() makes of a chunk that is of its turn.
LEMMA HandleKeeps ==
  ASSUME NEW c \in Frame, IInv, Made(c), Open(msp) => Follower(c, msp.lastSeq, msp.request, Last(msp)),
         NEW n \in Nat, sent <= n, OfItsTurn(msp, c, n), NEW h, h = handleMspFrame(msp, c)
  PROVE  /\ h.msp \in Statics /\ h.replies \in BOOLEAN
         /\ Gathered(h.msp) /\ WholeIn(h.msp) /\ Exchange(h.msp, h.replies, n)
         /\ Open(h.msp) => /\ h.msp.lastSeq = c.seq /\ h.msp.request = c.request
                           /\ Last(h.msp) = c.payload
         /\ h.replies => ~Open(h.msp) /\ (~h.msp.reply.error => ~h.msp.started)
         /\ patient => /\ h.msp.started => h.msp.request = asks /\ ~h.msp.request.tooBig
                       /\ c.payload.number # gen => ~h.msp.started
<1>1. msp \in Statics /\ pending \in BOOLEAN /\ sent \in Nat
  BY RequestTyped DEF IInv, Typed
<1>2. h.msp \in Statics /\ h.replies \in BOOLEAN
  BY <1>1, HandleTyped
<1>3. /\ Gathered(h.msp) /\ WholeIn(h.msp)
      /\ Open(h.msp) => /\ h.msp.lastSeq = c.seq /\ h.msp.request = c.request
                        /\ Last(h.msp) = c.payload
      /\ h.replies => ~Open(h.msp) /\ (~h.msp.reply.error => ~h.msp.started)
  BY <1>1, HandleGathers DEF IInv
<1>4. ReplyMade(h.msp, h.replies) /\ Heard(h.msp, h.replies)
  BY <1>1, HandleReplies DEF IInv, Exchange
<1>5. /\ Answering(h.msp, h.replies, n)
      /\ patient => /\ h.msp.started => h.msp.request = asks /\ ~h.msp.request.tooBig
                    /\ c.payload.number # gen => ~h.msp.started
  BY <1>1, HandleAnswers DEF IInv, Exchange
<1> QED BY <1>2, <1>3, <1>4, <1>5 DEF IInv, Exchange

\* Sending leaves what is known of the request.
LEMMA SameRequest ==
  ASSUME NEW m \in Statics, Gathered(m), WholeIn(m),
         msp'.started = m.started, msp'.request = m.request, msp'.parts = m.parts,
         msp'.expects = m.expects, msp'.lastSeq = m.lastSeq,
         msp'.reply.of = m.reply.of, msp'.reply.request = m.reply.request
  PROVE  /\ Gathered(msp)' /\ WholeIn(msp)' /\ (Open(msp)' <=> Open(m))
         /\ Last(msp)' = Last(m)
BY DEF Gathered, WholeIn, Open, Last

\* The client begins a request, its next or the same again.
LEMMA AskKeeps ==
  ASSUME IInv, ask \/ retry
  PROVE  IInv'
<1>1. PICK request \in Requests : NewRequest(request) /\ (retry => request = asks)
  BY DEF ask, retry, IInv, Typed
<1>2. /\ transport' = transport /\ patient' = patient /\ msp' = msp /\ pending' = pending
      /\ skipRequests' = skipRequests /\ frames' = frames /\ handled' = handled /\ nextSeq' = nextSeq
      /\ lossy' = lossy /\ lostUp' = lostUp /\ lostDown' = lostDown
      /\ asks' = request /\ gen' = (IF patient THEN 1 - gen ELSE gen + 1) /\ sent' = 0
      /\ have' = NoAnswer /\ answered' = FALSE
  BY <1>1 DEF NewRequest, fcVars, linkVars
<1>3. have'.size = -1 /\ have' \in Partial
  <2>1. 0 \in SeqNo /\ <<>> \in Seq(Unit)
    BY MspTelemetryAssumption DEF SeqNo
  <2> QED BY <1>2, <2>1 DEF Partial, NoAnswer
<1>4. gen' \in Gen /\ (patient => gen' \in {0, 1} /\ gen' # gen)
  <2>1. gen \in Int /\ Gens \in Int /\ Gens >= 2
    BY MspTelemetryAssumption DEF IInv, Typed, Gen
  <2>2. CASE patient
    <3>1. gen = 0 \/ gen = 1
      BY <2>2 DEF IInv, Turns
    <3> QED BY <1>2, <2>1, <2>2, <3>1 DEF Gen
  <2>3. CASE ~patient
    <3>1. gen + 1 < Gens
      BY <2>3 DEF ask, retry
    <3> QED BY <1>2, <2>1, <2>3, <3>1 DEF IInv, Typed, Gen
  <2> QED BY <2>2, <2>3
<1>5. Typed'
  <2>1. sent' \in 0 .. asks'.parts
    BY <1>2, RequestTyped
  <2> QED BY <1>2, <1>3, <1>4, <2>1 DEF IInv, Typed
<1>6. Idle' /\ Gathered(msp)' /\ WholeIn(msp)'
  BY <1>2 DEF IInv, Idle, Gathered, WholeIn, Open
<1>7. InOrder'
  BY <1>2 DEF IInv, InOrder, Made, Follower, GoesOn, Open, Last, Ahead, Succ
\* A patient client has had its answer, or there is none under way.
<1>8. patient /\ pending => msp.headerSent
  <2>1. CASE retry
    BY <2>1 DEF retry, Quiet
  <2>2. CASE ask /\ patient
    <3>1. have.size = Len(have.units) /\ have.units \in Seq(Unit)
      BY <2>2 DEF ask, IInv, Exchange, AnswerMade, Typed, Partial
    <3>2. have.size # -1
      BY <3>1
    <3> QED BY <3>2 DEF IInv, Exchange, Answering
  <2> QED BY <2>1, <2>2
<1>9. Exchange(msp, pending, sent)'
  <2>1. ReplyMade(msp, pending)'
    BY <1>2 DEF IInv, Exchange, ReplyMade, UnitOf
  <2>2. Heard(msp, pending)' /\ AnswerMade'
    BY <1>2, <1>3 DEF Heard, AnswerMade, PartMade
  <2>3. Answering(msp, pending, sent)'
    BY <1>2, <1>3, <1>8 DEF Answering, Served
  <2> QED BY <2>1, <2>2, <2>3 DEF Exchange
<1>10. OnlyTheRest'
  BY <1>2, <1>3, <1>8 DEF OnlyTheRest, Served
\* What is still in the buffer is of the request before.
<1>11. ASSUME patient
       PROVE  /\ msp.started => msp.request = request /\ ~msp.request.tooBig
              /\ \A i \in handled + 1 .. Len(frames) :
                    /\ frames[i].payload.number # gen' /\ ~frames[i].start /\ ~msp.started
  <2>1. CASE retry
    <3>1. frames = <<>> /\ handled + 1 \in Int /\ handled + 1 > 0
      BY <2>1 DEF retry, Quiet, IInv, Typed
    <3> QED BY <1>1, <1>11, <2>1, <3>1 DEF IInv, Turns
  <2>2. CASE ask
    <3>1. have.size = Len(have.units) /\ have.units \in Seq(Unit)
      BY <1>11, <2>2 DEF ask, IInv, Exchange, AnswerMade, Typed, Partial
    <3>2. Served(msp, pending)
      BY <3>1 DEF Served
    <3>3. ~msp.started
      BY <1>11, <3>2 DEF IInv, Exchange, Answering
    <3> QED BY <1>4, <1>11, <3>2, <3>3 DEF IInv, OnlyTheRest
  <2> QED BY <2>1, <2>2
<1>12. Turns'
  BY <1>2, <1>4, <1>11 DEF Turns
<1> QED BY <1>5, <1>6, <1>7, <1>9, <1>10, <1>12 DEF IInv

\* The link gets better, or nothing happens.
LEMMA CalmKeeps ==
  ASSUME IInv, calm \/ UNCHANGED vars
  PROVE  IInv'
<1>1. /\ transport' = transport /\ patient' = patient /\ msp' = msp /\ pending' = pending
      /\ skipRequests' = skipRequests /\ frames' = frames /\ handled' = handled /\ nextSeq' = nextSeq
      /\ lossy' \in BOOLEAN /\ lostUp' = lostUp /\ lostDown' = lostDown
      /\ asks' = asks /\ gen' = gen /\ sent' = sent /\ have' = have /\ answered' = answered
  BY DEF calm, vars, fcVars, clientVars, linkVars, IInv, Typed
<1>2. Typed' /\ Idle' /\ Gathered(msp)' /\ WholeIn(msp)'
  BY <1>1 DEF IInv, Typed, Idle, Gathered, WholeIn, Open
<1>3. InOrder'
  BY <1>1 DEF IInv, InOrder, Made, Follower, GoesOn, Open, Last, Ahead, Succ
<1>4. ReplyMade(msp, pending)' /\ AnswerMade'
  BY <1>1 DEF IInv, Exchange, ReplyMade, UnitOf, AnswerMade, PartMade
<1>5. Heard(msp, pending)'
  <2>1. InStep(msp, have) => InStep(msp, have)'
    BY <1>1 DEF InStep, UnitOf
  <2> QED BY <1>1, <2>1 DEF IInv, Exchange, Heard, Ahead
<1>6. Answering(msp, pending, sent)' /\ Turns' /\ OnlyTheRest'
  BY <1>1 DEF IInv, Exchange, Answering, Turns, OnlyTheRest, Served
<1> QED BY <1>2, <1>3, <1>4, <1>5, <1>6 DEF IInv, Exchange

\* The chunk is lost.
LEMMA LostKeeps ==
  ASSUME IInv, sent' \in sent .. asks.parts, nextSeq' = Succ(nextSeq), UNCHANGED <<asks, gen, lossy>>,
         lostUp < MaxLost, lostUp' = lostUp + 1, UNCHANGED <<fcVars, have, answered, lostDown>>
  PROVE  IInv'
<1>1. /\ transport' = transport /\ patient' = patient /\ msp' = msp /\ pending' = pending
      /\ skipRequests' = skipRequests /\ frames' = frames /\ handled' = handled
      /\ lossy' = lossy /\ lostDown' = lostDown /\ sent \in Nat /\ sent' \in Nat /\ sent <= sent'
      /\ asks' = asks /\ gen' = gen /\ have' = have /\ answered' = answered
  BY RequestTyped DEF fcVars, IInv, Typed
<1>2. /\ sent' \in 0 .. asks.parts /\ nextSeq' \in SeqNo /\ lostUp' \in 0 .. MaxLost
      /\ \A seq \in SeqNo : \A r, p :
               GoesOn(seq, r, p) => Ahead(seq, nextSeq') = lostUp' + 1 /\ lostUp' # 0
  <2>1. sent' \in 0 .. asks.parts
    BY <1>1
  <2>2. Typed
    BY DEF IInv
  <2> QED BY <2>1, <2>2, LostMoves
<1>3. Typed' /\ Idle' /\ Gathered(msp)' /\ WholeIn(msp)'
  BY <1>1, <1>2 DEF IInv, Typed, Idle, Gathered, WholeIn, Open
<1>4. InOrder'
  <2>1. \A seq \in SeqNo : \A r, p :
           GoesOn(seq, r, p) => Ahead(seq, nextSeq') = lostUp' + 1
                                /\ (lostUp' = 0 => sent' = 0 \/ (asks' = r /\ p = [number |-> gen', part |-> sent']))
    BY <1>2
  <2>2. frames # <<>> => frames[Len(frames)].seq \in SeqNo
    <3>1. frames # <<>> => frames[Len(frames)] \in Frame
      BY DEF IInv, Typed
    <3> QED BY <3>1 DEF Frame
  <2>3. msp.lastSeq \in SeqNo
    BY DEF IInv, Typed, Statics
  <2>4. /\ \A i \in 1 .. Len(frames) : Made(frames[i])
        /\ \A i \in 1 .. Len(frames) - 1 :
              Follower(frames[i + 1], frames[i].seq, frames[i].request, frames[i].payload)
        /\ frames # <<>> /\ Open(msp) =>
              Follower(frames[handled + 1], msp.lastSeq, msp.request, Last(msp))
    BY DEF IInv, InOrder
  <2>5. (frames # <<>> => GoesOn(frames[Len(frames)].seq, frames[Len(frames)].request,
                               frames[Len(frames)].payload))'
    BY <1>1, <2>1, <2>2 DEF IInv, InOrder, GoesOn, Ahead
  <2>6. (frames = <<>> /\ Open(msp) => GoesOn(msp.lastSeq, msp.request, Last(msp)))'
    BY <1>1, <2>1, <2>3 DEF IInv, InOrder, GoesOn, Open, Last, Ahead
  <2>7. /\ (\A i \in 1 .. Len(frames) : Made(frames[i]))'
        /\ (\A i \in 1 .. Len(frames) - 1 :
              Follower(frames[i + 1], frames[i].seq, frames[i].request, frames[i].payload))'
        /\ (frames # <<>> /\ Open(msp) =>
              Follower(frames[handled + 1], msp.lastSeq, msp.request, Last(msp)))'
    BY <1>1, <2>4 DEF Made, Follower, Succ, Open, Last
  <2> QED BY <2>5, <2>6, <2>7 DEF InOrder
<1>5. ReplyMade(msp, pending)' /\ AnswerMade'
  BY <1>1 DEF IInv, Exchange, ReplyMade, UnitOf, AnswerMade, PartMade
<1>6. Heard(msp, pending)'
  <2>1. InStep(msp, have) => InStep(msp, have)'
    BY <1>1 DEF InStep, UnitOf
  <2> QED BY <1>1, <2>1 DEF IInv, Exchange, Heard, Ahead
<1>7. Answering(msp, pending, sent)' /\ OnlyTheRest'
  BY <1>1 DEF IInv, Exchange, Answering, OnlyTheRest, Served
<1>8. Turns'
  <2>1. \A i \in handled + 1 .. Len(frames) : frames[i].payload.part \in Nat
    <3>1. \A i \in handled + 1 .. Len(frames) : frames[i] \in Frame
      BY DEF IInv, Typed
    <3> QED BY <3>1 DEF Frame, Payload
  <2> QED BY <1>1, <2>1 DEF IInv, Turns
<1> QED BY <1>3, <1>4, <1>5, <1>6, <1>7, <1>8 DEF IInv, Exchange

\* A poll without a chunk.
LEMMA PollKeeps ==
  ASSUME IInv, poll
  PROVE  IInv'
<1>1. PICK clear \in BOOLEAN : Poll(clear) /\ UNCHANGED <<clientVars, lossy, lostUp>>
  BY DEF poll
<1>2. /\ transport' = transport /\ patient' = patient /\ frames' = frames /\ handled' = handled
      /\ lossy' = lossy /\ lostUp' = lostUp
      /\ asks' = asks /\ gen' = gen /\ sent' = sent /\ nextSeq' = nextSeq
      /\ transport = "SMARTPORT" /\ frames = <<>>
  BY <1>1 DEF Poll, Unframed, clientVars, IInv, Idle
<1>3. \/ /\ skipRequests' \in 0 .. Skips /\ (skipRequests' > 0 => skipRequests > 0)
         /\ Silent(msp, pending)
      \/ /\ skipRequests' = skipRequests
         /\ (pending /\ Send(msp)) \/ Silent(msp, pending)
  <2>1. CASE Skipped
    BY <2>1, MspTelemetryAssumption DEF Skipped, Silent, IInv, Typed
  <2>2. CASE skipRequests' = skipRequests /\ Answer(msp, pending, clear)
    BY <2>2 DEF Answer
  <2> QED BY <1>1, <2>1, <2>2 DEF Poll
<1>4. /\ msp \in Statics /\ pending \in BOOLEAN /\ sent \in Nat /\ have \in Partial
      /\ lostDown \in 0 .. MaxLost /\ answered \in BOOLEAN /\ patient \in BOOLEAN
      /\ Exchange(msp, pending, sent) /\ Gathered(msp) /\ WholeIn(msp)
  BY RequestTyped DEF IInv, Typed
<1>5. (pending /\ Send(msp)) \/ Silent(msp, pending)
  BY <1>3
<1>6. \A k \in Nat : k = sent => Exchange(msp, pending, k)'
  BY <1>2, <1>4, <1>5, AnswerKeeps
<1>7. /\ msp' \in Statics /\ pending' \in BOOLEAN
      /\ have' \in Partial /\ lostDown' \in 0 .. MaxLost /\ answered' \in BOOLEAN
      /\ msp'.started = msp.started /\ msp'.request = msp.request /\ msp'.parts = msp.parts
      /\ msp'.expects = msp.expects /\ msp'.lastSeq = msp.lastSeq
      /\ msp'.reply.of = msp.reply.of /\ msp'.reply.request = msp.reply.request
  BY <1>2, <1>4, <1>5, AnswerKeeps
<1>8. Exchange(msp, pending, sent)'
  BY <1>2, <1>4, <1>6 DEF Exchange, Answering
<1>9. Gathered(msp)' /\ WholeIn(msp)' /\ (Open(msp)' <=> Open(msp)) /\ Last(msp)' = Last(msp)
  BY <1>4, <1>7, SameRequest
<1>10. Typed' /\ Idle'
  BY <1>2, <1>3, <1>7 DEF IInv, Typed, Idle
<1>11. InOrder'
  BY <1>2, <1>7, <1>9 DEF IInv, InOrder, Made, Follower, GoesOn, Ahead, Succ
<1>12. Turns' /\ OnlyTheRest'
  <2>1. \A i \in handled + 1 .. Len(frames) : FALSE
    BY <1>2 DEF IInv, Typed
  <2> QED BY <1>2, <1>7, <2>1 DEF IInv, Turns, OnlyTheRest
<1> QED BY <1>8, <1>9, <1>10, <1>11, <1>12 DEF IInv

\* What a chunk that arrives is to the statics, when the buffer is empty.
LEMMA ChunkIsNext ==
  ASSUME IInv, NEW n, Sends(n)
  PROVE  /\ frames = <<>> /\ Open(msp) => Follower(Chunk(n), msp.lastSeq, msp.request, Last(msp))
         /\ OfItsTurn(msp, Chunk(n), n)
<1>1. msp.lastSeq \in SeqNo /\ sent \in Nat /\ n \in Nat
  BY SendsIs DEF IInv, Typed, Statics
<1>2. frames = <<>> /\ Open(msp) => GoesOn(msp.lastSeq, msp.request, Last(msp))
  BY DEF IInv, InOrder
<1>3. /\ Chunk(n).request = asks /\ Chunk(n).payload = [number |-> gen, part |-> n]
      /\ Chunk(n).start = (n = 1)
      /\ \A seq \in SeqNo : \A r, p : GoesOn(seq, r, p) => Follower(Chunk(n), seq, r, p)
  BY ChunkFits DEF IInv
<1>4. patient /\ have.size # -1 => sent > 0
  BY DEF IInv, Exchange, Answering, Served
<1>5. patient /\ msp.started => msp.request = asks /\ ~msp.request.tooBig
  BY DEF IInv, Turns
<1>6. Chunk(n).payload.part <= n /\ Chunk(n).payload.number = gen
  BY <1>1, <1>3
<1>7. patient /\ have.size # -1 => ~Chunk(n).start
  <2>1. patient /\ have.size # -1 => n # 1
    BY <1>1, <1>4 DEF Sends
  <2>2. Chunk(n).start => n = 1
    BY <1>3
  <2> QED BY <2>1, <2>2
<1> QED BY <1>1, <1>2, <1>3, <1>5, <1>6, <1>7 DEF OfItsTurn

\* A poll with a chunk, that was heard.
LEMMA PollWithChunkKeeps ==
  ASSUME IInv, NEW n, Sends(n), sent' = n, nextSeq' = Succ(nextSeq), UNCHANGED <<asks, gen, lossy>>,
         lostUp' = 0, NEW clear \in BOOLEAN, PollWithChunk(Chunk(n), clear)
  PROVE  IInv'
<1> DEFINE c == Chunk(n)
           h == handleMspFrame(msp, c)
           saves == h.replies /\ h.msp.request.save /\ ~h.msp.reply.error
           m == IF skipRequests > 0 THEN msp ELSE h.msp
           due == IF skipRequests > 0 THEN pending ELSE h.replies
<1>1. /\ transport' = transport /\ patient' = patient /\ frames' = frames /\ handled' = handled
      /\ lossy' = lossy /\ asks' = asks /\ gen' = gen /\ transport = "SMARTPORT" /\ frames = <<>>
  BY DEF PollWithChunk, Unframed, IInv, Idle
<1>2. /\ sent' \in 0 .. asks.parts /\ nextSeq' \in SeqNo /\ lostUp' \in 0 .. MaxLost
      /\ Ahead(c.seq, nextSeq') = lostUp' + 1
      /\ c.request = asks /\ c.payload = [number |-> gen, part |-> sent']
  BY ArrivedMoves DEF IInv
<1>3. c \in Frame /\ Made(c)
  BY ChunkFits DEF IInv
<1>4. /\ msp \in Statics /\ pending \in BOOLEAN /\ sent \in Nat /\ n \in Nat /\ sent <= n /\ n > 0
      /\ have \in Partial /\ skipRequests \in Nat
      /\ lostDown \in 0 .. MaxLost /\ answered \in BOOLEAN /\ patient \in BOOLEAN
      /\ Gathered(msp) /\ WholeIn(msp)
  BY SendsIs, MspTelemetryAssumption DEF IInv, Typed
<1>5. /\ h.msp \in Statics /\ h.replies \in BOOLEAN
      /\ Gathered(h.msp) /\ WholeIn(h.msp) /\ Exchange(h.msp, h.replies, n)
      /\ Open(h.msp) => /\ h.msp.lastSeq = c.seq /\ h.msp.request = c.request
                        /\ Last(h.msp) = c.payload
      /\ h.replies => ~Open(h.msp) /\ (~h.msp.reply.error => ~h.msp.started)
      /\ patient => /\ h.msp.started => h.msp.request = asks /\ ~h.msp.request.tooBig
                    /\ c.payload.number # gen => ~h.msp.started
  BY <1>1, <1>3, <1>4, ChunkIsNext, HandleKeeps
<1>6. \/ /\ skipRequests > 0 /\ Silent(msp, pending)
         /\ skipRequests' = skipRequests - 1
      \/ /\ ~(skipRequests > 0)
         /\ (h.replies /\ Send(h.msp)) \/ Silent(h.msp, h.replies)
         /\ skipRequests' = IF saves THEN Skips ELSE 0
  BY <1>4 DEF PollWithChunk, Handled, Skipped, Silent, Answer
<1>7. Exchange(msp, pending, n)
  BY <1>4 DEF IInv, Exchange, Answering
<1>8. skipRequests > 0 => ~msp.started
  BY DEF IInv, Idle
<1> HIDE DEF h
<1>9. /\ m \in Statics /\ due \in BOOLEAN /\ Gathered(m) /\ WholeIn(m) /\ Exchange(m, due, n)
      /\ (due /\ Send(m)) \/ Silent(m, due)
  BY <1>4, <1>5, <1>6, <1>7
<1>10. Open(m) => m.lastSeq = c.seq /\ m.request = asks /\ Last(m) = c.payload
  BY <1>2, <1>5, <1>8 DEF Open
<1>11. patient /\ m.started => m.request = asks /\ ~m.request.tooBig
  BY <1>5, <1>8
<1>12. skipRequests' \in 0 .. Skips /\ (skipRequests' > 0 => ~m.started)
  <2>1. Skips \in Nat /\ skipRequests <= Skips
    BY MspTelemetryAssumption DEF IInv, Typed
  <2>2. CASE skipRequests > 0
    BY <1>4, <1>6, <1>8, <2>1, <2>2
  <2>3. CASE ~(skipRequests > 0)
    <3>1. skipRequests' = IF saves THEN Skips ELSE 0
      BY <1>6, <2>3
    <3>2. saves => ~h.msp.started
      BY <1>5
    <3> QED BY <2>1, <2>3, <3>1, <3>2
  <2> QED BY <2>2, <2>3
<1> HIDE DEF m, due
<1>13. \A k \in Nat : k = n => Exchange(msp, pending, k)'
  BY <1>1, <1>4, <1>9, AnswerKeeps
<1>14. /\ msp' \in Statics /\ pending' \in BOOLEAN
      /\ have' \in Partial /\ lostDown' \in 0 .. MaxLost /\ answered' \in BOOLEAN
      /\ msp'.started = m.started /\ msp'.request = m.request /\ msp'.parts = m.parts
      /\ msp'.expects = m.expects /\ msp'.lastSeq = m.lastSeq
      /\ msp'.reply.of = m.reply.of /\ msp'.reply.request = m.reply.request
  BY <1>1, <1>4, <1>9, AnswerKeeps
<1>15. Exchange(msp, pending, sent)'
  BY <1>4, <1>13 DEF Exchange, Answering
<1>16. Gathered(msp)' /\ WholeIn(msp)' /\ (Open(msp)' <=> Open(m)) /\ Last(msp)' = Last(m)
  BY <1>9, <1>14, SameRequest
<1>17. Typed' /\ Idle'
  <2>1. handled = 0 \/ ~(handled > 0)
    BY <1>1 DEF IInv, Typed
  <2>2. handled \in Nat /\ handled <= 0
    BY <1>1 DEF IInv, Typed
  <2> QED BY <1>1, <1>2, <1>12, <1>14, <2>2 DEF IInv, Typed, Idle
<1>18. InOrder'
  <2>1. Open(m) => /\ Ahead(m.lastSeq, nextSeq') = lostUp' + 1
                   /\ asks = m.request /\ Last(m) = [number |-> gen, part |-> sent']
    BY <1>2, <1>10
  <2>2. (frames = <<>> /\ Open(msp) => GoesOn(msp.lastSeq, msp.request, Last(msp)))'
    BY <1>1, <1>14, <1>16, <2>1 DEF GoesOn, Ahead
  <2>3. frames' = <<>>
    BY <1>1
  <2> QED BY <2>2, <2>3 DEF InOrder
<1>19. Turns' /\ OnlyTheRest'
  <2>1. \A i \in handled + 1 .. Len(frames) : FALSE
    BY <1>1 DEF IInv, Typed
  <2> QED BY <1>1, <1>11, <1>14, <2>1 DEF IInv, Turns, OnlyTheRest
<1> QED BY <1>15, <1>16, <1>17, <1>18, <1>19 DEF IInv

\* A chunk of a poll, heard or not.
LEMMA SentChunkKeeps ==
  ASSUME IInv, NEW n, Sends(n), sent' = n, NEW clear \in BOOLEAN,
         Transmit(PollWithChunk(Chunk(n), clear))
  PROVE  IInv'
<1>1. nextSeq' = Succ(nextSeq) /\ UNCHANGED <<asks, gen, lossy>>
  BY DEF Transmit
<1>2. sent' \in sent .. asks.parts
  BY SendsIs DEF IInv
<1>3. CASE /\ lossy /\ lostUp < MaxLost /\ lostUp' = lostUp + 1
           /\ UNCHANGED <<fcVars, have, answered, lostDown>>
  BY <1>1, <1>2, <1>3, LostKeeps
<1>4. CASE lostUp' = 0 /\ PollWithChunk(Chunk(n), clear)
  BY <1>1, <1>4, PollWithChunkKeeps
<1> QED BY <1>3, <1>4 DEF Transmit

\* A client that is still asking sends its next chunk.
LEMMA NextIsSent ==
  ASSUME IInv, Asking
  PROVE  Sends(sent + 1)
BY RequestTyped DEF Sends, Asking, IInv, Typed

\* A frame that the interrupt puts into the buffer.
LEMMA BufferKeeps ==
  ASSUME IInv, Asking, sent' = sent + 1, nextSeq' = Succ(nextSeq), UNCHANGED <<asks, gen, lossy>>,
         lostUp' = 0, Buffered
  PROVE  IInv'
<1> DEFINE c == Chunk(sent + 1)
<1>0. Sends(sent + 1)
  BY NextIsSent
<1>1. /\ transport' = transport /\ patient' = patient /\ msp' = msp /\ pending' = pending
      /\ skipRequests' = skipRequests /\ handled' = handled /\ frames' = Append(frames, c)
      /\ lossy' = lossy /\ lostDown' = lostDown /\ sent' = sent + 1
      /\ asks' = asks /\ gen' = gen /\ have' = have /\ answered' = answered
      /\ transport = "CRSF" /\ Len(frames) < BufferMax
  BY DEF Buffered
<1>2. /\ sent' \in 0 .. asks.parts /\ nextSeq' \in SeqNo /\ lostUp' \in 0 .. MaxLost
      /\ Ahead(c.seq, nextSeq') = lostUp' + 1
      /\ c.request = asks /\ c.payload = [number |-> gen, part |-> sent']
  BY <1>0, ArrivedMoves DEF IInv
<1>3. /\ c \in Frame /\ Made(c)
      /\ \A seq \in SeqNo : \A r, p : GoesOn(seq, r, p) => Follower(c, seq, r, p)
  BY <1>0, ChunkFits DEF IInv
<1>4. frames \in Seq(Frame) /\ Len(frames) \in Nat /\ BufferMax \in Nat /\ handled \in Nat /\ sent \in Nat
      /\ (handled = 0 \/ handled <= Len(frames) - 1)
  BY RequestTyped, MspTelemetryAssumption DEF IInv, Typed
<1>5. /\ frames' \in Seq(Frame) /\ Len(frames') = Len(frames) + 1 /\ frames' # <<>>
      /\ \A i \in 1 .. Len(frames) : frames'[i] = frames[i]
      /\ frames'[Len(frames) + 1] = c
  BY <1>1, <1>3, <1>4
<1>6. Typed' /\ Idle' /\ Gathered(msp)' /\ WholeIn(msp)'
  <2>1. Len(frames') <= BufferMax /\ (handled = 0 \/ handled <= Len(frames') - 1)
    BY <1>1, <1>4, <1>5
  <2> QED BY <1>1, <1>2, <1>5, <2>1 DEF IInv, Typed, Idle, Gathered, WholeIn, Open
<1>7. InOrder'
  <2>1. \A i \in 1 .. Len(frames') : Made(frames'[i])
    <3> TAKE i \in 1 .. Len(frames')
    <3>1. i \in 1 .. Len(frames) \/ i = Len(frames) + 1
      BY <1>4, <1>5
    <3> QED BY <1>3, <1>5, <3>1 DEF IInv, InOrder
  <2>2. \A i \in 1 .. Len(frames') - 1 :
           Follower(frames'[i + 1], frames'[i].seq, frames'[i].request, frames'[i].payload)
    <3> TAKE i \in 1 .. Len(frames') - 1
    <3>1. CASE i + 1 = Len(frames) + 1
      <4>1. i = Len(frames) /\ i \in 1 .. Len(frames) /\ frames # <<>>
        BY <1>4, <1>5, <3>1
      <4>2. frames[i] \in Frame /\ GoesOn(frames[i].seq, frames[i].request, frames[i].payload)
        BY <1>4, <4>1 DEF IInv, InOrder
      <4>3. frames[i].seq \in SeqNo
        BY <4>2 DEF Frame
      <4>4. frames'[i] = frames[i] /\ frames'[i + 1] = c
        BY <1>5, <3>1, <4>1
      <4> QED BY <1>3, <4>2, <4>3, <4>4
    <3>2. CASE i + 1 # Len(frames) + 1
      <4>1. i \in 1 .. Len(frames) - 1 /\ i \in 1 .. Len(frames) /\ i + 1 \in 1 .. Len(frames)
        BY <1>4, <1>5, <3>2
      <4> QED BY <1>5, <4>1 DEF IInv, InOrder
    <3> QED BY <3>1, <3>2
  <2>3. Ahead(frames'[Len(frames')].seq, nextSeq') = lostUp' + 1
        /\ asks' = frames'[Len(frames')].request
        /\ frames'[Len(frames')].payload = [number |-> gen', part |-> sent']
    BY <1>1, <1>2, <1>5
  <2>4. Open(msp) => Follower(frames'[handled + 1], msp.lastSeq, msp.request, Last(msp))
    <3>1. CASE frames = <<>>
      <4>1. handled = 0 /\ frames'[handled + 1] = c
        BY <1>4, <1>5, <3>1
      <4> QED BY <1>0, <3>1, <4>1, ChunkIsNext
    <3>2. CASE frames # <<>>
      <4>1. handled + 1 \in 1 .. Len(frames)
        BY <1>4, <3>2
      <4> QED BY <1>5, <3>2, <4>1 DEF IInv, InOrder
    <3> QED BY <3>1, <3>2
  <2>5. (frames # <<>> => GoesOn(frames[Len(frames)].seq, frames[Len(frames)].request,
                               frames[Len(frames)].payload))'
    BY <2>3 DEF GoesOn, Ahead
  <2>6. (frames # <<>> /\ Open(msp) =>
              Follower(frames[handled + 1], msp.lastSeq, msp.request, Last(msp)))'
    BY <1>1, <2>4 DEF Follower, Succ, Open, Last
  <2>7. (\A i \in 1 .. Len(frames) : Made(frames[i]))'
    BY <2>1 DEF Made
  <2>8. (\A i \in 1 .. Len(frames) - 1 :
              Follower(frames[i + 1], frames[i].seq, frames[i].request, frames[i].payload))'
    BY <2>2 DEF Follower, Succ
  <2> QED BY <1>5, <2>5, <2>6, <2>7, <2>8 DEF InOrder
<1>8. ReplyMade(msp, pending)' /\ AnswerMade'
  BY <1>1 DEF IInv, Exchange, ReplyMade, UnitOf, AnswerMade, PartMade
<1>9. Heard(msp, pending)'
  <2>1. InStep(msp, have) => InStep(msp, have)'
    BY <1>1 DEF InStep, UnitOf
  <2> QED BY <1>1, <2>1 DEF IInv, Exchange, Heard, Ahead
<1>10. Answering(msp, pending, sent)'
  BY <1>1, <1>4 DEF IInv, Exchange, Answering, Served
<1>11. ASSUME NEW i \in handled + 1 .. Len(frames')
       PROVE  \/ i \in handled + 1 .. Len(frames) /\ frames'[i] = frames[i]
              \/ i = Len(frames) + 1 /\ frames'[i] = c
  <2>1. i = Len(frames) + 1 \/ (i \in handled + 1 .. Len(frames) /\ i \in 1 .. Len(frames))
    BY <1>4, <1>5
  <2> QED BY <1>5, <2>1
<1>12. OnlyTheRest'
  <2>1. patient /\ Served(msp, pending) => ~c.start
    <3>1. patient /\ Served(msp, pending) => sent + 1 # 1
      BY <1>4 DEF IInv, Exchange, Answering
    <3>2. c.start => sent + 1 = 1
      BY <1>0, ChunkFits DEF IInv
    <3> QED BY <3>1, <3>2
  <2>2. c.payload.number = gen
    BY <1>2
  <2>3. ASSUME patient, Served(msp, pending), NEW i \in handled + 1 .. Len(frames')
        PROVE  ~frames'[i].start /\ frames'[i].payload.number = gen
    BY <1>11, <2>1, <2>2, <2>3 DEF IInv, OnlyTheRest
  <2>4. Served(msp, pending)' => Served(msp, pending)
    BY <1>1 DEF Served
  <2> QED BY <1>1, <2>3, <2>4 DEF OnlyTheRest
<1>13. Turns'
  <2>1. ASSUME patient, NEW i \in handled + 1 .. Len(frames')
        PROVE  IF frames'[i].payload.number = gen
               THEN frames'[i].request = asks /\ frames'[i].payload.part <= sent'
               ELSE /\ ~frames'[i].start /\ ~msp.started
                    /\ \A j \in handled + 1 .. i : frames'[j].payload.number # gen
    <3>1. CASE i = Len(frames) + 1 /\ frames'[i] = c
      <4>1. c.payload.number = gen /\ c.payload.part <= sent'
        BY <1>1, <1>2, <1>4
      <4> QED BY <1>2, <3>1, <4>1
    <3>2. CASE i \in handled + 1 .. Len(frames) /\ frames'[i] = frames[i]
      <4>1. frames[i].payload.part \in Nat
        <5>1. frames[i] \in Frame
          BY <1>4, <3>2
        <5> QED BY <5>1 DEF Frame, Payload
      <4>2. \A j \in handled + 1 .. i : frames'[j] = frames[j]
        BY <1>4, <1>5, <3>2
      <4>3. IF frames[i].payload.number = gen
            THEN frames[i].request = asks /\ frames[i].payload.part <= sent
            ELSE /\ ~frames[i].start /\ ~msp.started
                 /\ \A j \in handled + 1 .. i : frames[j].payload.number # gen
        BY <2>1, <3>2 DEF IInv, Turns
      <4>4. frames[i].payload.part <= sent => frames[i].payload.part <= sent'
        BY <1>1, <1>4, <4>1
      <4>5. CASE frames[i].payload.number = gen
        BY <3>2, <4>3, <4>4, <4>5
      <4>6. CASE frames[i].payload.number # gen
        BY <3>2, <4>2, <4>3, <4>6
      <4> QED BY <4>5, <4>6
    <3> QED BY <1>11, <3>1, <3>2
  <2>2. patient => gen \in {0, 1} /\ (msp.started => msp.request = asks /\ ~msp.request.tooBig)
    BY DEF IInv, Turns
  <2>3. patient' = patient /\ handled' = handled /\ msp' = msp /\ asks' = asks /\ gen' = gen
    BY <1>1
  <2> QED BY <2>1, <2>2, <2>3 DEF Turns
<1>14. Exchange(msp, pending, sent)'
  BY <1>8, <1>9, <1>10 DEF Exchange
<1> QED BY <1>6, <1>7, <1>12, <1>13, <1>14 DEF IInv

\* A chunk of a reply that is under way.
LEMMA ReplyKeeps ==
  ASSUME IInv, pending, Send(msp), UNCHANGED <<frames, handled>>,
         UNCHANGED <<transport, patient, skipRequests, origin, clientVars, lossy, lostUp>>
  PROVE  IInv'
<1>1. /\ transport' = transport /\ patient' = patient /\ frames' = frames /\ handled' = handled
      /\ lossy' = lossy /\ lostUp' = lostUp /\ skipRequests' = skipRequests
      /\ asks' = asks /\ gen' = gen /\ sent' = sent /\ nextSeq' = nextSeq
  BY DEF clientVars
<1>2. /\ msp \in Statics /\ pending \in BOOLEAN /\ sent \in Nat /\ have \in Partial
      /\ lostDown \in 0 .. MaxLost /\ answered \in BOOLEAN /\ patient \in BOOLEAN
      /\ Exchange(msp, pending, sent) /\ Gathered(msp) /\ WholeIn(msp)
  BY RequestTyped DEF IInv, Typed
<1>3. pending = TRUE /\ ((pending /\ Send(msp)) \/ Silent(msp, pending))
  BY <1>2
<1>4. /\ \A k \in Nat : k = sent => Exchange(msp, pending, k)'
      /\ msp' \in Statics /\ pending' \in BOOLEAN
      /\ have' \in Partial /\ lostDown' \in 0 .. MaxLost /\ answered' \in BOOLEAN
      /\ Served(msp, pending)' => Served(msp, pending)
      /\ msp'.started = msp.started /\ msp'.request = msp.request /\ msp'.parts = msp.parts
      /\ msp'.expects = msp.expects /\ msp'.lastSeq = msp.lastSeq
      /\ msp'.reply.of = msp.reply.of /\ msp'.reply.request = msp.reply.request
  <2>1. sent <= sent
    BY <1>2
  <2> QED BY <1>1, <1>2, <1>3, <2>1, AnswerKeeps
<1>5. Exchange(msp, pending, sent)'
  BY <1>1, <1>2, <1>4 DEF Exchange, Answering
<1>6. Gathered(msp)' /\ WholeIn(msp)' /\ (Open(msp)' <=> Open(msp)) /\ Last(msp)' = Last(msp)
  BY <1>2, <1>4, SameRequest
<1>7. Typed' /\ Idle'
  BY <1>1, <1>4 DEF IInv, Typed, Idle
<1>8. InOrder'
  BY <1>1, <1>4, <1>6 DEF IInv, InOrder, Made, Follower, GoesOn, Ahead, Succ
<1>9. Turns'
  BY <1>1, <1>4 DEF IInv, Turns
<1>10. OnlyTheRest'
  <2>1. CASE Served(msp, pending)
    BY <1>1, <1>4, <2>1 DEF IInv, OnlyTheRest
  <2>2. CASE ~Served(msp, pending)
    BY <1>1, <1>4, <2>2 DEF IInv, OnlyTheRest
  <2> QED BY <2>1, <2>2
<1> QED BY <1>5, <1>6, <1>7, <1>8, <1>9, <1>10 DEF IInv

\* The next frame of the buffer.
LEMMA FrameKeeps ==
  ASSUME IInv, ~pending, frames # <<>>, transport = "CRSF",
         NEW h, h = handleMspFrame(msp, frames[handled + 1]),
         NEW done \in BOOLEAN, done = (h.replies \/ handled + 1 = Len(frames)),
         frames' = (IF done THEN <<>> ELSE frames), handled' = (IF done THEN 0 ELSE handled + 1),
         IF h.replies THEN Send(h.msp) ELSE Silent(h.msp, FALSE),
         UNCHANGED <<transport, patient, skipRequests, origin, clientVars, lossy, lostUp>>
  PROVE  IInv'
<1> DEFINE c == frames[handled + 1]
<1>1. /\ transport' = transport /\ patient' = patient
      /\ lossy' = lossy /\ lostUp' = lostUp /\ skipRequests' = skipRequests
      /\ asks' = asks /\ gen' = gen /\ sent' = sent /\ nextSeq' = nextSeq
  BY DEF clientVars
<1>2. /\ msp \in Statics /\ pending \in BOOLEAN /\ sent \in Nat /\ sent <= sent /\ have \in Partial
      /\ lostDown \in 0 .. MaxLost /\ answered \in BOOLEAN /\ patient \in BOOLEAN
      /\ frames \in Seq(Frame) /\ Len(frames) \in Nat /\ handled \in Nat
      /\ handled + 1 \in 1 .. Len(frames)
  BY RequestTyped DEF IInv, Typed
<1>3. c \in Frame /\ Made(c)
      /\ (Open(msp) => Follower(c, msp.lastSeq, msp.request, Last(msp)))
  BY <1>2 DEF IInv, InOrder
<1>4. handled + 1 \in handled + 1 .. Len(frames)
  BY <1>2
<1>5. OfItsTurn(msp, c, sent)
  BY <1>4 DEF OfItsTurn, IInv, Turns, OnlyTheRest, Served
<1>6. /\ h.msp \in Statics /\ h.replies \in BOOLEAN
      /\ Gathered(h.msp) /\ WholeIn(h.msp) /\ Exchange(h.msp, h.replies, sent)
      /\ Open(h.msp) => /\ h.msp.lastSeq = c.seq /\ h.msp.request = c.request
                        /\ Last(h.msp) = c.payload
      /\ h.replies => ~Open(h.msp)
      /\ patient => /\ h.msp.started => h.msp.request = asks /\ ~h.msp.request.tooBig
                    /\ c.payload.number # gen => ~h.msp.started
  BY <1>2, <1>3, <1>5, HandleKeeps
<1>7. (h.replies /\ Send(h.msp)) \/ Silent(h.msp, h.replies)
  <2>1. CASE h.replies = TRUE
    BY <2>1
  <2>2. CASE h.replies = FALSE
    BY <2>2
  <2> QED BY <1>6, <2>1, <2>2
<1> HIDE DEF c
<1>8. \A k \in Nat : k = sent => Exchange(msp, pending, k)'
  BY <1>1, <1>2, <1>6, <1>7, AnswerKeeps
<1>9. /\ msp' \in Statics /\ pending' \in BOOLEAN
      /\ have' \in Partial /\ lostDown' \in 0 .. MaxLost /\ answered' \in BOOLEAN
      /\ Served(msp, pending)' => Served(h.msp, h.replies)
      /\ msp'.started = h.msp.started /\ msp'.request = h.msp.request /\ msp'.parts = h.msp.parts
      /\ msp'.expects = h.msp.expects /\ msp'.lastSeq = h.msp.lastSeq
      /\ msp'.reply.of = h.msp.reply.of /\ msp'.reply.request = h.msp.reply.request
  BY <1>1, <1>2, <1>6, <1>7, AnswerKeeps
<1>10. Exchange(msp, pending, sent)'
  BY <1>1, <1>2, <1>8 DEF Exchange, Answering
<1>11. Gathered(msp)' /\ WholeIn(msp)' /\ (Open(msp)' <=> Open(h.msp)) /\ Last(msp)' = Last(h.msp)
  BY <1>6, <1>9, SameRequest
<1>12. CASE done
  <2>1. frames' = <<>> /\ handled' = 0 /\ Len(frames') = 0 /\ frames' \in Seq(Frame)
    BY <1>12
  <2>2. Typed' /\ Idle'
    BY <1>1, <1>9, <2>1, MspTelemetryAssumption DEF IInv, Typed, Idle
  <2>3. ASSUME Open(h.msp) PROVE GoesOn(c.seq, c.request, c.payload)
    <3>1. handled + 1 = Len(frames)
      BY <1>6, <1>12, <2>3
    <3> QED BY <3>1 DEF IInv, InOrder, c
  <2>4. (frames = <<>> /\ Open(msp) => GoesOn(msp.lastSeq, msp.request, Last(msp)))'
    BY <1>1, <1>6, <1>9, <1>11, <2>3 DEF GoesOn, Ahead
  <2>5. InOrder'
    BY <2>1, <2>4 DEF InOrder
  <2>6. Turns' /\ OnlyTheRest'
    BY <1>1, <1>6, <1>9, <2>1 DEF IInv, Turns, OnlyTheRest
  <2> QED BY <1>10, <1>11, <2>2, <2>5, <2>6 DEF IInv
<1>13. CASE ~done
  <2>1. frames' = frames /\ handled' = handled + 1 /\ h.replies = FALSE /\ handled + 1 # Len(frames)
    BY <1>6, <1>13
  <2>2. pending' = FALSE
    BY <1>7, <2>1 DEF Silent
  <2>3. handled' \in Nat /\ handled' <= Len(frames') - 1 /\ handled + 1 \in 1 .. Len(frames) - 1
    BY <1>2, <2>1
  <2>4. Typed' /\ Idle'
    BY <1>1, <1>9, <2>1, <2>2, <2>3 DEF IInv, Typed, Idle
  <2>5. InOrder'
    <3>1. Open(h.msp) => Follower(frames[handled' + 1], h.msp.lastSeq, h.msp.request, Last(h.msp))
      <4>1. Follower(frames[handled + 1 + 1], c.seq, c.request, c.payload)
        BY <2>3 DEF IInv, InOrder, c
      <4> QED BY <1>6, <2>1, <4>1
    <3>2. (frames # <<>> /\ Open(msp) =>
              Follower(frames[handled + 1], msp.lastSeq, msp.request, Last(msp)))'
      BY <1>9, <1>11, <2>1, <3>1 DEF Follower, Succ
    <3>3. (frames # <<>> => GoesOn(frames[Len(frames)].seq, frames[Len(frames)].request,
                                   frames[Len(frames)].payload))'
      BY <1>1, <2>1 DEF IInv, InOrder, GoesOn, Ahead
    <3>4. /\ (\A i \in 1 .. Len(frames) : Made(frames[i]))'
          /\ (\A i \in 1 .. Len(frames) - 1 :
                 Follower(frames[i + 1], frames[i].seq, frames[i].request, frames[i].payload))'
      BY <2>1 DEF IInv, InOrder, Made, Follower, Succ
    <3> QED BY <2>1, <3>2, <3>3, <3>4 DEF InOrder
  <2>6. Turns'
    <3>1. ASSUME patient, NEW i \in handled' + 1 .. Len(frames)
          PROVE  IF frames[i].payload.number = gen
                 THEN frames[i].request = asks /\ frames[i].payload.part <= sent
                 ELSE /\ ~frames[i].start /\ ~h.msp.started
                      /\ \A j \in handled' + 1 .. i : frames[j].payload.number # gen
      <4>1. i \in handled + 1 .. Len(frames) /\ handled + 1 \in handled + 1 .. i
            /\ \A j \in handled' + 1 .. i : j \in handled + 1 .. i
        BY <1>2, <2>1
      <4>2. IF frames[i].payload.number = gen
            THEN frames[i].request = asks /\ frames[i].payload.part <= sent
            ELSE /\ ~frames[i].start /\ ~msp.started
                 /\ \A j \in handled + 1 .. i : frames[j].payload.number # gen
        BY <3>1, <4>1 DEF IInv, Turns
      <4>3. CASE frames[i].payload.number = gen
        BY <4>2, <4>3
      <4>4. CASE frames[i].payload.number # gen
        <5>1. c.payload.number # gen
          BY <4>1, <4>2, <4>4 DEF c
        <5> QED BY <1>6, <3>1, <4>1, <4>2, <4>4, <5>1
      <4> QED BY <4>3, <4>4
    <3>2. patient => gen \in {0, 1}
      BY DEF IInv, Turns
    <3> QED BY <1>1, <1>6, <1>9, <2>1, <3>1, <3>2 DEF Turns
  <2>7. OnlyTheRest'
    <3>1. Served(msp, pending)' => Served(msp, pending)
      BY <1>9, <2>1 DEF Served
    <3>2. \A i \in handled' + 1 .. Len(frames) : i \in handled + 1 .. Len(frames)
      BY <1>2, <2>1
    <3> QED BY <1>1, <2>1, <3>1, <3>2 DEF IInv, OnlyTheRest
  <2> QED BY <1>10, <1>11, <2>4, <2>5, <2>6, <2>7 DEF IInv
<1> QED BY <1>12, <1>13

-----------------------------------------------------------------------------
(* The theorems. *)

\* The board starts with the first request not yet sent.
LEMMA InitInv == Init => IInv
<1> SUFFICES ASSUME Init PROVE IInv
  OBVIOUS
<1>1. PICK request \in Requests :
          /\ asks = request
          /\ msp = [started |-> FALSE, lastSeq |-> 0, version |-> 1, request |-> request,
                    expects |-> 0, parts |-> <<>>, reply |-> NoReply(request),
                    headerSent |-> FALSE, replySeq |-> 0]
  BY DEF Init
<1>2. 0 \in SeqNo /\ 0 \in Gen /\ SeqCount \in Nat /\ Gens \in Nat /\ MaxLost \in Nat /\ Skips \in Nat
      /\ BufferMax \in Nat
  BY MspTelemetryAssumption DEF SeqNo, Gen
<1>3. NoReply(request) \in Reply /\ NoAnswer \in Partial
  <2>1. <<>> \in Seq(Unit) /\ <<>> \in Seq(Payload)
    OBVIOUS
  <2> QED BY <1>2, <2>1 DEF NoReply, Reply, NoAnswer, Partial
<1>4. msp \in Statics
  <2>1. <<>> \in Seq(Payload)
    OBVIOUS
  <2> QED BY <1>1, <1>2, <1>3, <2>1 DEF Statics, Version
<1>5. /\ pending = FALSE /\ frames = <<>> /\ handled = 0 /\ skipRequests = 0
      /\ transport \in Transports /\ patient \in BOOLEAN
      /\ gen = 0 /\ sent = 0 /\ nextSeq = 0 /\ have = NoAnswer /\ answered = FALSE
      /\ lossy = TRUE /\ lostUp = 0 /\ lostDown = 0
  BY DEF Init
<1>6. Typed
  <2>1. asks.parts \in Nat /\ frames \in Seq(Frame) /\ Len(frames) = 0
    BY <1>1, <1>5, RequestTyped
  <2>2. /\ asks \in Requests /\ gen \in Gen /\ sent \in 0 .. asks.parts /\ nextSeq \in SeqNo
        /\ skipRequests \in 0 .. Skips /\ lostUp \in 0 .. MaxLost /\ lostDown \in 0 .. MaxLost
    BY <1>1, <1>2, <1>5, <2>1
  <2>3. pending \in BOOLEAN /\ answered \in BOOLEAN /\ lossy \in BOOLEAN
    BY <1>5
  <2>4. have \in Partial
    BY <1>3, <1>5
  <2>5. handled \in Nat /\ handled = 0 /\ Len(frames) \in Nat /\ Len(frames) <= BufferMax
    BY <1>2, <1>5, <2>1
  <2> QED BY <1>4, <1>5, <2>1, <2>2, <2>3, <2>4, <2>5 DEF Typed
<1>7. msp.started = FALSE /\ msp.reply = NoReply(request) /\ msp.headerSent = FALSE
  BY <1>1
<1>8. /\ msp.reply.left = <<>> /\ msp.reply.of = <<>> /\ msp.reply.error = FALSE /\ msp.reply.size = 0
      /\ have.size = -1
  BY <1>5, <1>7 DEF NoReply, NoAnswer
<1>9. Idle /\ Gathered(msp) /\ WholeIn(msp) /\ InOrder
  BY <1>5, <1>7, <1>8 DEF Idle, Gathered, WholeIn, InOrder, Open
<1>10. Exchange(msp, pending, sent)
  <2>1. ReplyMade(msp, pending)
    BY <1>5, <1>7, <1>8 DEF ReplyMade
  <2> QED BY <1>5, <1>8, <2>1 DEF Exchange, Heard, AnswerMade, PartMade, Answering, Served
<1>11. Turns /\ OnlyTheRest
  BY <1>5, <1>7, <1>8 DEF Turns, OnlyTheRest
<1> QED BY <1>6, <1>9, <1>10, <1>11 DEF IInv

\* One case for each action.
LEMMA NextKeeps == IInv /\ [Next]_vars => IInv'
<1> SUFFICES ASSUME IInv, [Next]_vars PROVE IInv'
  OBVIOUS
<1>1. CASE ask \/ retry
  BY <1>1, AskKeeps
<1>2. CASE calm \/ UNCHANGED vars
  BY <1>2, CalmKeeps
<1>3. CASE poll
  BY <1>3, PollKeeps
<1>4. CASE pollWithChunk
  <2>1. PICK clear \in BOOLEAN : TransmitNext(PollWithChunk(Chunk(sent + 1), clear))
    BY <1>4 DEF pollWithChunk
  <2>2. Sends(sent + 1) /\ sent' = sent + 1 /\ Transmit(PollWithChunk(Chunk(sent + 1), clear))
    BY <2>1, NextIsSent DEF TransmitNext
  <2> QED BY <2>2, SentChunkKeeps
<1>5. CASE repeat
  <2>1. PICK clear \in BOOLEAN : TransmitAgain(PollWithChunk(Chunk(1), clear))
    BY <1>5 DEF repeat
  <2>2. Sends(1) /\ sent' = 1 /\ Transmit(PollWithChunk(Chunk(1), clear))
    BY <2>1, RequestTyped DEF TransmitAgain, Asking, Sends, IInv, Typed
  <2> QED BY <2>2, SentChunkKeeps
<1>6. CASE bufferCrsfMspFrame
  <2>1. Asking /\ sent' = sent + 1 /\ Transmit(Buffered)
    BY <1>6 DEF bufferCrsfMspFrame, TransmitNext
  <2>2. Sends(sent + 1) /\ sent' \in sent .. asks.parts
    BY <2>1, NextIsSent, SendsIs DEF IInv
  <2>3. CASE /\ lossy /\ lostUp < MaxLost /\ lostUp' = lostUp + 1
             /\ UNCHANGED <<fcVars, have, answered, lostDown>>
    BY <2>1, <2>2, <2>3, LostKeeps DEF Transmit
  <2>4. CASE lostUp' = 0 /\ Buffered
    BY <2>1, <2>4, BufferKeeps DEF Transmit
  <2> QED BY <2>1, <2>3, <2>4 DEF Transmit
<1>7. CASE handleCrsfMspFrameBuffer
  <2>1. UNCHANGED <<transport, patient, skipRequests, origin, clientVars, lossy, lostUp>>
        /\ transport = "CRSF"
    BY <1>7 DEF handleCrsfMspFrameBuffer
  <2>2. CASE pending /\ Send(msp) /\ UNCHANGED <<frames, handled>>
    BY <2>1, <2>2, ReplyKeeps
  <2>3. CASE ~pending /\ frames = <<>> /\ Silent(msp, FALSE) /\ UNCHANGED <<frames, handled>>
    <3>1. pending = FALSE
      BY <2>3 DEF IInv, Typed
    <3>2. UNCHANGED vars
      BY <2>1, <2>3, <3>1 DEF Silent, vars, fcVars, linkVars
    <3> QED BY <3>2, CalmKeeps
  <2>4. CASE /\ ~pending /\ frames # <<>>
             /\ LET after == handleMspFrame(msp, frames[handled + 1])
                    done  == after.replies \/ handled + 1 = Len(frames)
                IN  /\ frames' = IF done THEN <<>> ELSE frames
                    /\ handled' = IF done THEN 0 ELSE handled + 1
                    /\ IF after.replies THEN Send(after.msp) ELSE Silent(after.msp, FALSE)
    <3> DEFINE h == handleMspFrame(msp, frames[handled + 1])
               done == h.replies \/ handled + 1 = Len(frames)
    <3>1. /\ frames' = (IF done THEN <<>> ELSE frames) /\ handled' = (IF done THEN 0 ELSE handled + 1)
          /\ IF h.replies THEN Send(h.msp) ELSE Silent(h.msp, FALSE)
      BY <2>4
    <3>2. done \in BOOLEAN /\ done = (h.replies \/ handled + 1 = Len(frames))
      OBVIOUS
    <3> HIDE DEF h, done
    <3> QED BY <2>1, <2>4, <3>1, <3>2, FrameKeeps DEF h
  <2> QED BY <1>7, <2>2, <2>3, <2>4 DEF handleCrsfMspFrameBuffer
<1> QED BY <1>1, <1>2, <1>3, <1>4, <1>5, <1>6, <1>7 DEF Next

\* The statics, the buffer, the link and the client keep to the chunks that were
\* sent and to the reply they are of: the argument of the theorems below.
THEOREM IInvHolds == Spec => []IInv
<1> QED BY InitInv, NextKeeps, PTL DEF Spec

\* The statics, the buffer and the client's progress stay within their types:
\* the replies and requests of msp_shared.c within their sizes.
THEOREM TypeTheorem == Spec => []TypeOK
<1>1. IInv => TypeOK
  <2> SUFFICES ASSUME IInv PROVE TypeOK
    OBVIOUS
  <2>1. msp.lastSeq \in 0 .. SeqCount - 1 /\ msp.replySeq \in 0 .. SeqCount - 1
    BY DEF IInv, Typed, Statics, SeqNo
  <2>2. handled = 0 \/ handled \in 1 .. Len(frames) - 1
    <3>1. handled \in Nat /\ (handled = 0 \/ handled <= Len(frames) - 1) /\ Len(frames) \in Nat
      BY DEF IInv, Typed
    <3> QED BY <3>1
  <2>3. /\ msp.started => msp.parts # <<>> /\ Len(msp.parts) < msp.expects
        /\ msp.headerSent => msp.reply.size > 0
    BY DEF IInv, Gathered, Exchange, ReplyMade
  <2> QED BY <2>1, <2>2, <2>3 DEF IInv, Typed, TypeOK, Gen, SeqNo
<1> QED BY <1>1, IInvHolds, PTL

\* The board acts on whole requests only (handleMspFrame(), the sequence number).
THEOREM RequestTheorem == Spec => []RequestIsWhole
<1>1. IInv => RequestIsWhole
  BY DEF IInv, WholeIn, RequestIsWhole, Gen
<1> QED BY <1>1, IInvHolds, PTL

\* A client takes only a whole answer, of one reply, and a patient one only the
\* answer to the request it makes (sendMspReply(), headerSent).
THEOREM AnswerTheorem == Spec => []AnswerIsWhole
<1>1. IInv => AnswerIsWhole
  <2> SUFFICES ASSUME IInv, answered PROVE AnswerIsWhole
    BY DEF AnswerIsWhole
  <2> DEFINE u == have.units
  <2>1. u \in Seq(Unit) /\ Len(u) \in Nat /\ have.size = Len(u) /\ have.size # -1
        /\ have.error \in BOOLEAN /\ PartMade(have) /\ patient \in BOOLEAN
    BY DEF IInv, Typed, Partial, Exchange, AnswerMade
  <2>2. u = [i \in 1 .. Len(u) |-> u[i]]
    BY <2>1
  <2>3. CASE have.error
    <3>1. Len(u) = 1 /\ \A i \in 1 .. Len(u) : u[i] = ErrorUnit
      BY <2>1, <2>3 DEF PartMade
    <3>2. u[1] = ErrorUnit
      BY <3>1
    <3>3. u = <<ErrorUnit>>
      BY <2>1, <3>1, <3>2
    <3> QED BY <2>3, <3>3 DEF AnswerIsWhole
  <2>4. CASE ~have.error
    <3>1. /\ \A i \in 1 .. Len(u) : u[i] = [number |-> u[1].number, unit |-> i]
          /\ u # <<>> => u[1].number \in Gen
          /\ patient => have.size = asks.size /\ (u # <<>> => u[1].number = gen)
      BY <2>1, <2>4 DEF PartMade
    <3>2. \A n : u = <<>> \/ n = u[1].number => u = Answers(n, Len(u))
      <4> TAKE n
      <4> HAVE u = <<>> \/ n = u[1].number
      <4>1. \A i \in 1 .. Len(u) : u[i] = [number |-> n, unit |-> i]
        BY <2>1, <3>1
      <4>2. DOMAIN u = 1 .. Len(u)
        BY <2>1
      <4>3. u = [i \in 1 .. Len(u) |-> [number |-> n, unit |-> i]]
        BY <2>2, <4>1
      <4> QED BY <4>3 DEF Answers
    <3>3. 0 \in Gen
      BY MspTelemetryAssumption DEF Gen
    <3>4. CASE patient
      <4>1. u = Answers(gen, asks.size)
        BY <2>1, <3>1, <3>2, <3>4
      <4> QED BY <3>4, <4>1 DEF AnswerIsWhole
    <3>5. CASE ~patient
      <4>1. \E n \in Gen : u = Answers(n, have.size)
        BY <2>1, <3>1, <3>2, <3>3
      <4> QED BY <3>5, <4>1 DEF AnswerIsWhole, Gen
    <3> QED BY <3>4, <3>5
  <2> QED BY <2>3, <2>4
<1> QED BY <1>1, IInvHolds, PTL
=============================================================================
