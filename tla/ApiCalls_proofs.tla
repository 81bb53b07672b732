---------------------------- MODULE ApiCalls_proofs ----------------------------
(***************************************************************************)
(* Proofs about the API calls, for any number of attempts, failures and    *)
(* expired tokens and any size of file and chunk.  TypeInv says what the   *)
(* phases mean for the request and the network; CreateInv, DeleteInv and   *)
(* UploadInv add, for one job each, what the client may conclude from an   *)
(* answer.                                                                 *)
(***************************************************************************)
EXTENDS ApiCalls, TLAPS

Flags ==
  /\ provider \in BOOLEAN /\ unknown \in BOOLEAN
  /\ refreshed \in BOOLEAN /\ hopped \in BOOLEAN

Progress ==
  /\ phase \in {"idle", "ready", "sent", "answered", "hop", "refresh", "over"}
  /\ attempt \in Nat /\ token \in Nat /\ dead \subseteq Nat
  /\ phase # "idle" => call.verb \in Verb /\ call.tries \in Nat \ {0} /\ attempt <= call.tries
  /\ phase = "ready" => attempt < call.tries
  /\ phase = "answered" => reply.status \in Answered \cup Redirects /\ reply.more \in Nat
  /\ phase = "over" => result.status \in Answered \cup Failure /\ result.more \in Nat
  /\ (phase = "sent") <=> (wire # {})
  /\ \A m \in wire : m.call = call
  /\ late = {} \/ phase # "idle"
  /\ phase = "hop" => hopped
  /\ phase = "refresh" => refreshed

RequestInv == Flags /\ Progress

\* A single request is what Command made it.
Commanded(c) ==
  /\ c.body = job
  /\ c.verb = IF job = "delete" THEN "DELETE" ELSE "POST"
  /\ c.idempotency = IF job = "keyed" THEN "idempotent" ELSE "fromMethod"

ObjectInv ==
  /\ job \in Kind \cup {"upload"} /\ exists \in BOOLEAN /\ applied \in Nat
  /\ job # "upload" =>
       /\ phase # "idle" => Commanded(call)
       /\ \A m \in late : Commanded(m.call)

\* A PUT carries bytes up to sentEnd or asks for the status.
SoundPut(c) ==
  c.verb = "PUT" =>
    /\ c.body.first \in 0 .. Total /\ c.body.end \in 0 .. Total
    /\ c.body.end <= sentEnd \/ c.body.first = Total

\* The server has the end of the file only after that was given to the client,
\* and says that it has it only when the session is done.
WireInv ==
  /\ phase # "idle" => SoundPut(call)
  /\ \A m \in late : SoundPut(m.call)
  /\ phase # "hop" /\ (phase = "answered" => reply.status \notin Redirects)
  /\ (session = "done" \/ persisted = Total) => sentEnd = Total
  /\ phase = "answered" /\ call.verb = "PUT" /\ reply.status = "ok" => session = "done"
  /\ phase = "over" /\ call.verb = "PUT" /\ result.status = "ok" => session = "done"

\* A server that speaks of this upload only has what it says it has.
KeptInv ==
  ~confused =>
    /\ 0 .. (persisted - 1) \subseteq kept
    /\ session = "done" => persisted = Total

OffsetInv ==
  /\ offset <= sentEnd
  /\ handed = 0 .. (sentEnd - 1)
  /\ step \in {"sending", "asking"} => call.verb = "PUT" /\ phase # "idle"
  /\ outcome = "ok" => session = "done"

UploadInv ==
  /\ UploadType
  /\ step # "end" => failures <= MaxFailures
  /\ job = "upload" => WireInv /\ OffsetInv /\ KeptInv
  /\ job # "upload" => outcome = None

TypeInv == RequestInv /\ ObjectInv /\ UploadInv

\* The initial states are well typed.
LEMMA TypeInit == Init => TypeInv
  <1> SUFFICES ASSUME Init PROVE TypeInv
    OBVIOUS
  <1>1. Flags
    BY DEF Init, HttpInit, Flags
  <1>2. Progress
    BY DEF Init, HttpInit, Progress
  <1>3. ObjectInv
    BY DEF Init, HttpInit, ObjectInit, ObjectInv, Kind
  <1>4. UploadType /\ failures <= MaxFailures /\ outcome = None
    BY UploadAssumption DEF Init, UploadInit, UploadType
  <1>5. WireInv
    BY UploadAssumption DEF Init, HttpInit, UploadInit, WireInv
  <1>6. handed = 0 .. (sentEnd - 1)
    BY DEF Init, UploadInit
  <1>7. OffsetInv
    BY <1>6, UploadAssumption DEF Init, UploadInit, OffsetInv
  <1>8. KeptInv
    BY DEF Init, UploadInit, KeptInv
  <1> QED
    BY <1>1, <1>2, <1>3, <1>4, <1>5, <1>7, <1>8 DEF TypeInv, RequestInv, UploadInv

\* Where a request starts.
LEMMA RequestType ==
  ASSUME RequestInv, NEW verb \in Verb, NEW how, NEW tries \in Nat \ {0}, NEW body,
         Request(verb, how, tries, body)
  PROVE  RequestInv'
  <1>1. Flags'
    BY DEF RequestInv, Flags, Request
  <1>2. Progress'
    BY DEF RequestInv, Progress, Request
  <1> QED
    BY <1>1, <1>2 DEF RequestInv

\* The two ways on from an answer, and from a failure.
LEMMA ClassifyType ==
  ASSUME RequestInv, phase \in {"answered", "hop"}, NEW a, a.status \in Answered, a.more \in Nat, Classify(a),
         UNCHANGED <<provider, call, attempt, token, dead, wire, late, hopped>>
  PROVE  RequestInv'
  <1>1. Flags'
    BY DEF RequestInv, Flags, Classify
  <1>2. Progress'
    <2>1. CASE a.status \in Retryable /\ MayResend(call) /\ attempt < call.tries /\ ~a.tooLong
      BY <2>1 DEF RequestInv, Progress, Classify, Again
    <2>2. CASE a.status \in Retryable /\ ~(MayResend(call) /\ attempt < call.tries /\ ~a.tooLong)
      BY <2>2 DEF RequestInv, Progress, Classify, Return
    <2>3. CASE a.status \notin Retryable
      BY <2>3 DEF RequestInv, Progress, Classify, Return
    <2> QED
      BY <2>1, <2>2, <2>3
  <1> QED
    BY <1>1, <1>2 DEF RequestInv

LEMMA ClientType == RequestInv /\ ClientStep => RequestInv'
  <1> SUFFICES ASSUME RequestInv, ClientStep PROVE RequestInv'
    OBVIOUS
  <1> USE DEF RequestInv
  <1>1. CASE Send
    BY <1>1 DEF Flags, Progress, Send
  <1>2. CASE ConnectFails
    BY <1>2 DEF Flags, Progress, ConnectFails, Again, Fail, Return, Failure
  <1>3. CASE NoAnswer
    <2>1. Flags'
      BY <1>3 DEF Flags, NoAnswer
    <2> QED
      BY <1>3, <2>1 DEF Progress, NoAnswer, GiveUpWaiting, Again, Fail, Return, Failure
  <1>4. CASE Broken
    BY <1>4 DEF Flags, Progress, Broken, GiveUpWaiting, Fail, Return, Failure
  <1>5. CASE Receive
    BY <1>5, ClassifyType DEF Flags, Progress, Receive
  <1>6. CASE Redirected
    <2>1. Flags'
      BY <1>6 DEF Flags, Redirected
    <2> QED
      BY <1>6, <2>1 DEF Progress, Redirected, Fail, Return, Failure
  <1>7. CASE Hop
    <2>1. PICK status \in Answered \ {"more"}, tooLong \in BOOLEAN : Classify(Answer(status, 0, tooLong))
      BY <1>7 DEF Hop
    <2> QED
      BY <1>7, <2>1, ClassifyType DEF Hop, Answer
  <1>8. CASE HopFails
    BY <1>8 DEF Flags, Progress, HopFails, Fail, Return, Failure
  <1>9. CASE Refresh
    <2>1. Flags'
      BY <1>9 DEF Flags, Refresh
    <2> QED
      BY <1>9, <2>1 DEF Progress, Refresh
  <1>10. CASE RefreshFails
    BY <1>10 DEF Flags, Progress, RefreshFails, Fail, Return, Failure
  <1> QED
    BY <1>1, <1>2, <1>3, <1>4, <1>5, <1>6, <1>7, <1>8, <1>9, <1>10 DEF ClientStep

LEMMA AnswersType ==
  ASSUME RequestInv, NEW m, NEW a, a.status \in Answered \cup Redirects, a.more \in Nat, Answers(m, a)
  PROVE  RequestInv'
  BY DEF RequestInv, Flags, Progress, Answers

LEMMA ServeType ==
  ASSUME RequestInv, NEW m \in wire \cup late, Serve(m)
  PROVE  RequestInv'
  <1>1. \E a : a.status \in Answered \cup Redirects /\ a.more \in Nat /\ Answers(m, a)
    BY DEF Serve, Answer, Answered, Retryable, Success
  <1> QED
    BY <1>1, AnswersType

LEMMA SaysType ==
  ASSUME RequestInv, NEW m, NEW status \in Answered, NEW more \in Nat, NEW tooLong, Says(m, status, more, tooLong)
  PROVE  RequestInv' /\ UNCHANGED <<loopVars, resized>>
  BY AnswersType DEF Says, Answer

-------------------------------------------------------------------------------
\* What the server has carried out and what was asked of it.
LEMMA ClientKeepsCalls ==
  ASSUME RequestInv, ClientStep
  PROVE  call' = call /\ phase # "idle" /\ phase' # "idle" /\ late' \subseteq late \cup wire
  BY DEF RequestInv, Progress, ClientStep, Send, ConnectFails, NoAnswer, Broken, Receive,
         Redirected, Hop, HopFails, Refresh, RefreshFails, Classify, Again, Fail, Return,
         GiveUpWaiting

LEMMA CarriedOut ==
  ASSUME ObjectInv, NEW m, Commanded(m.call), job \in Kind, CarryOut(m)
  PROVE  exists' \in BOOLEAN /\ applied' \in Nat
  <1>1. CASE job = "create"
    BY <1>1 DEF ObjectInv, CarryOut, Commanded
  <1>2. CASE job = "keyed"
    BY <1>2 DEF ObjectInv, CarryOut, Commanded
  <1>3. CASE job = "delete" /\ exists
    <2>1. applied' = applied + 1
      BY <1>3 DEF CarryOut, Commanded
    <2>2. exists' = FALSE
      BY <1>3 DEF CarryOut, Commanded
    <2>3. exists' \in BOOLEAN
      BY <2>2, Zenon
    <2> QED
      BY <2>1, <2>3 DEF ObjectInv
  <1>4. CASE job = "delete" /\ ~exists
    BY <1>4 DEF ObjectInv, CarryOut, Commanded, objectVars
  <1> QED
    BY <1>1, <1>2, <1>3, <1>4 DEF Kind

LEMMA ServeKeepsObject ==
  ASSUME RequestInv, ObjectInv, NEW m \in wire \cup late, Serve(m), job' = job, job # "upload"
  PROVE  ObjectInv'
  <1>1. Commanded(m.call)
    BY DEF RequestInv, Progress, ObjectInv
  <1>2. job \in Kind
    BY DEF ObjectInv
  <1>3. CarryOut(m) \/ UNCHANGED objectVars
    BY DEF Serve
  <1>4. exists' \in BOOLEAN /\ applied' \in Nat
    BY <1>1, <1>2, <1>3, CarriedOut DEF ObjectInv, objectVars
  <1>5. call' = call /\ late' \subseteq late
    BY DEF Serve, Answers
  <1>6. phase # "idle"
    BY DEF RequestInv, Progress
  <1> QED
    BY <1>2, <1>4, <1>5, <1>6 DEF ObjectInv, Commanded

LEMMA CommandKeepsObject ==
  ASSUME RequestInv, ObjectInv, Command(job), job' = job, job # "upload"
  PROVE  RequestInv' /\ ObjectInv'
  <1>1. job \in Kind
    BY DEF ObjectInv
  <1>2. CASE job = "create"
    <2>1. Request("POST", "fromMethod", MaxAttempts, job)
      BY <1>2 DEF Command
    <2> QED
      BY <1>2, <2>1, RequestType, HttpAssumption
      DEF Command, ObjectInv, Commanded, Request, Verb, objectVars
  <1>3. CASE job = "keyed"
    <2>1. Request("POST", "idempotent", MaxAttempts, job)
      BY <1>3 DEF Command
    <2> QED
      BY <1>3, <2>1, RequestType, HttpAssumption
      DEF Command, ObjectInv, Commanded, Request, Verb, objectVars
  <1>4. CASE job = "delete"
    <2>1. Request("DELETE", "fromMethod", MaxAttempts, job)
      BY <1>4 DEF Command
    <2> QED
      BY <1>4, <2>1, RequestType, HttpAssumption
      DEF Command, ObjectInv, Commanded, Request, Verb, objectVars
  <1> QED
    BY <1>1, <1>2, <1>3, <1>4 DEF Kind

LEMMA ClientKeepsWire == RequestInv /\ WireInv /\ ClientStep /\ UNCHANGED uploadVars => WireInv'
  <1> SUFFICES ASSUME RequestInv, WireInv, ClientStep, UNCHANGED uploadVars PROVE WireInv'
    OBVIOUS
  <1> USE DEF uploadVars, loopVars, serverVars, WireInv, SoundPut, RequestInv, Progress
  <1>1. CASE Send
    BY <1>1 DEF Send
  <1>2. CASE ConnectFails
    BY <1>2 DEF ConnectFails, Again, Fail, Return
  <1>3. CASE NoAnswer
    BY <1>3 DEF NoAnswer, GiveUpWaiting, Again, Fail, Return
  <1>4. CASE Broken
    BY <1>4 DEF Broken, GiveUpWaiting, Fail, Return
  <1>5. CASE Receive
    BY <1>5 DEF Receive, Classify, Again, Return
  <1>6. CASE Redirected
    BY <1>6 DEF Redirected
  <1>7. CASE Hop \/ HopFails
    BY <1>7 DEF Hop, HopFails
  <1>8. CASE Refresh \/ RefreshFails
    BY <1>8 DEF Refresh, RefreshFails, Fail, Return
  <1> QED
    BY <1>1, <1>2, <1>3, <1>4, <1>5, <1>6, <1>7, <1>8 DEF ClientStep

LEMMA ClientKeepsOffsets == OffsetInv /\ RequestInv /\ ClientStep /\ UNCHANGED uploadVars => OffsetInv'
  <1>1. ClientStep => call' = call
    BY DEF ClientStep, Send, ConnectFails, NoAnswer, Broken, Receive, Redirected, Hop, HopFails,
           Refresh, RefreshFails
  <1>2. RequestInv /\ ClientStep => phase' # "idle"
    BY DEF ClientStep, Send, ConnectFails, NoAnswer, Broken, Receive, Redirected, Hop, HopFails,
           Refresh, RefreshFails, Classify, Again, Fail, Return
  <1> QED
    BY <1>1, <1>2 DEF OffsetInv, uploadVars, loopVars, serverVars

LEMMA TokenDiesKeeps ==
  ASSUME RequestInv, WireInv, OffsetInv, TokenDies, UNCHANGED uploadVars
  PROVE  RequestInv' /\ WireInv' /\ OffsetInv'
  BY DEF RequestInv, Flags, Progress, WireInv, SoundPut, OffsetInv, TokenDies, clientVars,
         uploadVars, loopVars, serverVars


\* The upload's loop and server are sound users of the client.
LEMMA PutType ==
  ASSUME RequestInv, NEW first, NEW end, Put(first, end)
  PROVE  RequestInv'
  BY RequestType DEF Put, Verb

LEMMA LoopType ==
  ASSUME RequestInv, LoopStep
  PROVE  RequestInv' /\ UNCHANGED <<serverVars, resized>>
  <1>1. CASE StartSession
    <2>1. Request("POST", "idempotent", MaxAttempts, [first |-> 0, end |-> 0])
      BY <1>1 DEF StartSession
    <2> QED
      BY <1>1, <2>1, RequestType, HttpAssumption DEF StartSession, Verb
  <1>2. CASE Started \/ ChunkAnswered \/ QueryAnswered
    BY <1>2 DEF Started, ChunkAnswered, QueryAnswered, RequestInv, Flags, Progress, httpVars, clientVars
  <1>3. CASE SendChunk
    BY <1>3, PutType DEF SendChunk, RequestInv, Flags, Progress, httpVars, clientVars
  <1>4. CASE Query
    BY <1>4, PutType DEF Query, AskStatus
  <1> QED
    BY <1>1, <1>2, <1>3, <1>4 DEF LoopStep

LEMMA HandleType ==
  ASSUME RequestInv, UploadType, NEW m \in wire \cup late, HandleUpload(m)
  PROVE  RequestInv' /\ UNCHANGED <<loopVars, resized>>
  <1>1. ASSUME NEW status \in Answered, NEW more \in Nat, NEW tooLong, Says(m, status, more, tooLong)
        PROVE  RequestInv' /\ UNCHANGED <<loopVars, resized>>
    BY <1>1, SaysType
  <1>2. CASE m.token \in dead
    BY <1>1, <1>2 DEF HandleUpload, Answered
  <1>3. CASE OpenSession(m)
    BY <1>1, <1>3 DEF OpenSession, Answered
  <1>4. CASE Persist(m)
    <2>1. persisted \in Nat
      BY UploadAssumption DEF UploadType
    <2>2. PICK p \in persisted .. Greater(persisted, m.call.body.end) :
            \/ Says(m, "ok", 0, FALSE) \/ Says(m, "more", p, FALSE) \/ Says(m, "failed", 0, FALSE)
      BY <1>4 DEF Persist
    <2>3. p \in Nat
      BY <2>1
    <2> QED
      BY <1>1, <2>2, <2>3 DEF Answered, Retryable
  <1>5. CASE Decline(m)
    <2>1. persisted \in Nat
      BY UploadAssumption DEF UploadType
    <2> QED
      BY <1>1, <1>5, <2>1 DEF Decline, Answered, Retryable
  <1> QED
    BY <1>2, <1>3, <1>4, <1>5 DEF HandleUpload

LEMMA RequestKept ==
  ASSUME RequestInv, ObjectInv, UploadType, [Next]_vars
  PROVE  RequestInv'
  <1>1. CASE CallStep
    <2>1. CASE Command(job)
      BY <1>1, <2>1, CommandKeepsObject DEF CallStep
    <2>2. CASE \E m \in wire \cup late : Serve(m)
      BY <2>2, ServeType
    <2> QED
      BY <1>1, <2>1, <2>2 DEF CallStep
  <1>2. CASE UploadStep
    <2>1. CASE LoopStep
      BY <2>1, LoopType
    <2>2. CASE \E m \in wire \cup late : HandleUpload(m)
      BY <2>2, HandleType
    <2>3. CASE SessionExpires \/ Confuse \/ FileResized
      BY <2>3 DEF SessionExpires, Confuse, FileResized, RequestInv, Flags, Progress, httpVars, clientVars
    <2> QED
      BY <1>2, <2>1, <2>2, <2>3 DEF UploadStep
  <1>3. CASE ClientStep
    BY <1>3, ClientType
  <1>4. CASE TokenDies
    BY <1>4 DEF TokenDies, clientVars, RequestInv, Flags, Progress
  <1>5. CASE UNCHANGED vars
    BY <1>5 DEF vars, httpVars, clientVars, RequestInv, Flags, Progress
  <1> QED
    BY <1>1, <1>2, <1>3, <1>4, <1>5 DEF Next, HttpStep

LEMMA ObjectKept ==
  ASSUME RequestInv, ObjectInv, [Next]_vars
  PROVE  ObjectInv'
  <1>1. CASE CallStep
    <2>1. CASE Command(job)
      BY <1>1, <2>1, CommandKeepsObject DEF CallStep
    <2>2. CASE \E m \in wire \cup late : Serve(m)
      BY <1>1, <2>2, ServeKeepsObject DEF CallStep
    <2> QED
      BY <1>1, <2>1, <2>2 DEF CallStep
  <1>2. CASE UploadStep
    BY <1>2 DEF UploadStep, ObjectInv, objectVars
  <1>3. CASE ClientStep /\ UNCHANGED <<objectVars, job>>
    <2>1. call' = call /\ phase # "idle" /\ late' \subseteq late \cup wire
      BY <1>3, ClientKeepsCalls
    <2> QED
      BY <1>3, <2>1 DEF ObjectInv, Commanded, objectVars, RequestInv, Progress
  <1>4. CASE TokenDies /\ UNCHANGED <<objectVars, job>>
    BY <1>4 DEF TokenDies, clientVars, ObjectInv, Commanded, objectVars
  <1>5. CASE UNCHANGED vars
    BY <1>5 DEF vars, httpVars, clientVars, objectVars, ObjectInv, Commanded
  <1> QED
    BY <1>1, <1>2, <1>3, <1>4, <1>5 DEF Next, HttpStep

-------------------------------------------------------------------------------
\* A chunk starts at offset and ends in the file.
LEMMA ChunkEnd ==
  ASSUME offset \in 0 .. Total
  PROVE  offset + Lesser(Total - offset, ChunkSize) \in offset .. Total
  BY UploadAssumption DEF Lesser

LEMMA LoopKeepsType ==
  ASSUME RequestInv, UploadInv, LoopStep, job = "upload"
  PROVE  UploadType' /\ (step' # "end" => failures' <= MaxFailures)
  <1> USE UploadAssumption
  <1>0. UploadType /\ OffsetInv /\ (step # "end" => failures <= MaxFailures)
    BY DEF UploadInv
  <1>a. phase = "over" => result.status \in Answered \cup Failure
    BY DEF RequestInv, Progress
  <1>1. CASE StartSession
    BY <1>0, <1>1 DEF StartSession, UploadType, serverVars
  <1>2. CASE Started
    BY <1>0, <1>a, <1>2 DEF Started, UploadType, serverVars, End
  <1>3. CASE SendChunk
    <2>1. CASE resized
      BY <1>0, <1>3, <2>1 DEF SendChunk, UploadType, serverVars, End
    <2>2. CASE ~resized
      <3> DEFINE end == offset + Lesser(Total - offset, ChunkSize)
      <3>1. end \in offset .. Total
        BY <1>0, ChunkEnd DEF UploadType
      <3>2. /\ sentEnd' = Greater(sentEnd, end) /\ handed' = handed \cup offset .. (end - 1)
            /\ step' = "sending" /\ UNCHANGED <<outcome, offset, failures, serverVars>>
        BY <1>3, <2>2 DEF SendChunk
      <3> HIDE DEF end
      <3>3. sentEnd' \in 0 .. Total /\ handed' \subseteq 0 .. (Total - 1)
        BY <1>0, <3>1, <3>2 DEF UploadType, Greater
      <3> QED
        BY <1>0, <1>3, <3>2, <3>3 DEF SendChunk, UploadType, serverVars
    <2> QED
      BY <2>1, <2>2
  <1>4. CASE ChunkAnswered
    <2>1. offset' \in 0 .. Total
      BY <1>0, <1>4 DEF ChunkAnswered, UploadType, Plausible, ChunkFails, RequestInv, Progress
    <2>2. failures' \in 0 .. (MaxFailures + 1) /\ (step' # "end" => failures' <= MaxFailures)
      BY <1>0, <1>4 DEF ChunkAnswered, UploadType, ChunkFails, End
    <2>3. step' \in {"chunk", "query", "end"} /\ outcome' \in {outcome, "ok", "implausible", "expired", "gaveUp", result.status}
      BY <1>4 DEF ChunkAnswered, ChunkFails, End
    <2> QED
      BY <1>0, <1>a, <1>4, <2>1, <2>2, <2>3 DEF ChunkAnswered, UploadType, serverVars
  <1>5. CASE Query
    BY <1>0, <1>5 DEF Query, UploadType, serverVars
  <1>6. CASE QueryAnswered
    <2>1. offset' \in 0 .. Total
      BY <1>0, <1>6 DEF QueryAnswered, UploadType, Plausible, RequestInv, Progress
    <2>2. step' \in {"chunk", "end"} /\ outcome' \in {outcome, "ok", "implausible"}
      BY <1>6 DEF QueryAnswered, End
    <2> QED
      BY <1>0, <1>6, <2>1, <2>2 DEF QueryAnswered, UploadType, serverVars
  <1> QED
    BY <1>1, <1>2, <1>3, <1>4, <1>5, <1>6 DEF LoopStep

\* The upload's loop keeps what it knows of the server.
LEMMA LoopKeeps ==
  ASSUME RequestInv, UploadInv, LoopStep, job = "upload"
  PROVE  WireInv' /\ OffsetInv' /\ KeptInv'
  <1> USE UploadAssumption
  <1> SUFFICES WireInv' /\ OffsetInv'
    BY LoopType DEF UploadInv, KeptInv, serverVars
  <1>0. WireInv /\ OffsetInv /\ UploadType
    BY DEF UploadInv
  <1>1. CASE StartSession
    <2>1. call'.verb = "POST" /\ phase' = "ready" /\ UNCHANGED <<late, sentEnd, session, persisted, offset, handed, outcome>> /\ step' = "start"
      BY <1>1 DEF StartSession, Request, serverVars
    <2> QED
      BY <1>0, <2>1 DEF WireInv, OffsetInv, SoundPut
  <1>2. CASE Started
    BY <1>0, <1>2 DEF Started, WireInv, OffsetInv, SoundPut, httpVars, clientVars, serverVars, End
  <1>3. CASE SendChunk
    <2>1. CASE resized
      BY <1>0, <1>3, <2>1 DEF SendChunk, WireInv, OffsetInv, SoundPut, httpVars, clientVars, serverVars, End
    <2>2. CASE ~resized
      <3> DEFINE end == offset + Lesser(Total - offset, ChunkSize)
      <3>1. end \in offset .. Total
        BY <1>0, ChunkEnd DEF UploadType
      <3>2. /\ sentEnd' = Greater(sentEnd, end) /\ handed' = handed \cup offset .. (end - 1)
            /\ step' = "sending" /\ UNCHANGED <<outcome, offset, failures, session, persisted>>
            /\ Put(offset, end)
        BY <1>3, <2>2 DEF SendChunk, serverVars
      <3> HIDE DEF end
      <3>3. /\ phase' = "ready" /\ UNCHANGED late
            /\ call'.verb = "PUT" /\ call'.body.first = offset /\ call'.body.end = end
        BY <3>2 DEF Put, Request
      <3>4. sentEnd' \in sentEnd .. Total /\ end <= sentEnd' /\ handed' = 0 .. (sentEnd' - 1)
        BY <1>0, <3>1, <3>2 DEF UploadType, OffsetInv, Greater
      <3>5. WireInv'
        BY <1>0, <3>1, <3>2, <3>3, <3>4 DEF WireInv, SoundPut, UploadType
      <3> QED
        BY <1>0, <3>1, <3>2, <3>3, <3>4, <3>5 DEF OffsetInv, UploadType
    <2> QED
      BY <2>1, <2>2
  <1>4. CASE ChunkAnswered
    <2>1. WireInv'
      BY <1>0, <1>4 DEF ChunkAnswered, WireInv, SoundPut, httpVars, clientVars, serverVars
    <2>2. offset' <= sentEnd
      BY <1>0, <1>4 DEF ChunkAnswered, ChunkFails, OffsetInv, Plausible
    <2>3. outcome' = "ok" => session = "done"
      BY <1>0, <1>4 DEF ChunkAnswered, ChunkFails, OffsetInv, WireInv, End
    <2>4. step' \in {"chunk", "query", "end"}
      BY <1>4 DEF ChunkAnswered, ChunkFails, End
    <2> QED
      BY <1>0, <1>4, <2>1, <2>2, <2>3, <2>4 DEF ChunkAnswered, OffsetInv, serverVars
  <1>5. CASE Query
    <2>1. /\ phase' = "ready" /\ UNCHANGED late
          /\ call'.verb = "PUT" /\ call'.body.first = Total /\ call'.body.end = Total
      BY <1>5 DEF Query, AskStatus, Put, Request
    <2> QED
      BY <1>0, <1>5, <2>1 DEF Query, WireInv, OffsetInv, SoundPut, serverVars
  <1>6. CASE QueryAnswered
    <2>1. WireInv'
      BY <1>0, <1>6 DEF QueryAnswered, WireInv, SoundPut, httpVars, clientVars, serverVars
    <2>2. offset' <= sentEnd /\ (outcome' = "ok" => session = "done") /\ step' \in {"chunk", "end"}
      BY <1>0, <1>6 DEF QueryAnswered, OffsetInv, WireInv, Plausible, End
    <2> QED
      BY <1>0, <1>6, <2>1, <2>2 DEF QueryAnswered, OffsetInv, serverVars
  <1> QED
    BY <1>1, <1>2, <1>3, <1>4, <1>5, <1>6 DEF LoopStep

\* An answer keeps WireInv if it claims the end of the file only when the
\* session is done.
LEMMA SaysKeepsWire ==
  ASSUME RequestInv, WireInv, NEW m \in wire \cup late, NEW status \in Answered, NEW more, NEW tooLong,
         Says(m, status, more, tooLong),
         m.call.verb = "PUT" /\ status = "ok" => session' = "done",
         session = "done" => session' = "done",
         session' = "done" \/ persisted' = Total => sentEnd = Total
  PROVE  WireInv'
  <1>1. status \notin Redirects
    BY DEF Answered, Retryable, Redirects
  <1>2. UNCHANGED <<call, result, sentEnd>> /\ (phase' = "over" => phase = "over") /\ phase # "idle"
    BY DEF Says, Answers, loopVars, RequestInv, Progress
  <1>3. (\A x \in late' : SoundPut(x.call)')
    BY <1>2 DEF Says, Answers, WireInv, SoundPut
  <1>4. phase' = "answered" => \/ phase = "answered" /\ reply' = reply
                               \/ m.call = call /\ reply'.status = status
    BY DEF Says, Answers, Answer, RequestInv, Progress
  <1>5. phase' # "hop"
    BY DEF Says, Answers, WireInv
  <1>6. SoundPut(call)'
    BY <1>2 DEF WireInv, SoundPut
  <1> QED
    BY <1>1, <1>2, <1>3, <1>4, <1>5, <1>6 DEF WireInv

LEMMA HandleKeeps ==
  ASSUME RequestInv, UploadInv, job = "upload", NEW m \in wire \cup late, HandleUpload(m)
  PROVE  WireInv' /\ UploadType' /\ KeptInv' /\ (session = "done" => session' = "done")
  <1> USE UploadAssumption
  <1>0. WireInv /\ UploadType /\ KeptInv /\ UNCHANGED <<loopVars, resized>>
    BY HandleType DEF UploadInv
  <1>a. SoundPut(m.call)
    BY <1>0 DEF RequestInv, Progress, WireInv
  <1>1. ASSUME NEW status \in Answered, NEW more, NEW tooLong, Says(m, status, more, tooLong), UNCHANGED serverVars,
               m.call.verb = "PUT" /\ status = "ok" => session = "done"
        PROVE  WireInv' /\ UploadType' /\ KeptInv' /\ (session = "done" => session' = "done")
    <2>1. UploadType' /\ KeptInv'
      BY <1>0, <1>1 DEF UploadType, KeptInv, loopVars, serverVars
    <2> QED
      BY <1>0, <1>1, <2>1, SaysKeepsWire DEF WireInv, serverVars
  <1>2. CASE m.token \in dead
    BY <1>1, <1>2 DEF HandleUpload, Answered
  <1>3. CASE OpenSession(m)
    <2>1. Says(m, "ok", 0, FALSE) /\ m.call.verb = "POST" /\ UNCHANGED <<persisted, confused, kept>>
      BY <1>3 DEF OpenSession
    <2>2. session' \in {session, "open"} /\ (session = "done" => session' = "done") /\ (session' = "done" => session = "done")
      BY <1>3 DEF OpenSession
    <2>3. UploadType' /\ KeptInv'
      BY <1>0, <2>1, <2>2 DEF UploadType, KeptInv, loopVars
    <2> QED
      BY <1>0, <2>1, <2>2, <2>3, SaysKeepsWire DEF WireInv, Answered
  <1>4. CASE Persist(m)
    <2>1. m.call.verb = "PUT" /\ m.call.body.first <= persisted /\ session = "open"
      BY <1>4 DEF Persist
    <2>2. PICK p \in persisted .. Greater(persisted, m.call.body.end) :
            /\ persisted' = p /\ UNCHANGED confused
            /\ kept' = kept \cup m.call.body.first .. (Lesser(p, m.call.body.end) - 1)
            /\ session' \in {"open", "done"} /\ (session' = "done" => p = Total)
            /\ \/ session' = "done" /\ Says(m, "ok", 0, FALSE)
               \/ Says(m, "more", p, FALSE)
               \/ Says(m, "failed", 0, FALSE)
      BY <1>4 DEF Persist
    <2>3. p \in 0 .. Total
      BY <1>0, <1>a, <2>1 DEF SoundPut, UploadType, Greater
    <2>4. p = Total => sentEnd = Total
      BY <1>0, <1>a, <2>1 DEF SoundPut, UploadType, Greater, WireInv
    <2>5. m.call.body.first .. (Lesser(p, m.call.body.end) - 1) \subseteq 0 .. (Total - 1)
      BY <1>0, <1>a, <2>1, <2>3 DEF SoundPut, Lesser
    <2>6. UploadType'
      BY <1>0, <2>2, <2>3, <2>5 DEF UploadType, loopVars
    <2>7. 0 .. (persisted - 1) \subseteq kept => 0 .. (p - 1) \subseteq kept'
      BY <1>0, <1>a, <2>1, <2>2 DEF SoundPut, Lesser, Greater, UploadType
    <2>8. KeptInv'
      BY <1>0, <2>2, <2>7 DEF KeptInv
    <2> QED
      BY <1>0, <2>1, <2>2, <2>4, <2>6, <2>8, SaysKeepsWire DEF Answered, Retryable
  <1>5. CASE Decline(m)
    BY <1>1, <1>5 DEF Decline, Answered, Retryable
  <1> QED
    BY <1>2, <1>3, <1>4, <1>5 DEF HandleUpload

LEMMA UploadKept ==
  ASSUME RequestInv, ObjectInv, UploadInv, [Next]_vars
  PROVE  UploadInv'
  <1> USE UploadAssumption
  <1>1. CASE LoopStep /\ job = "upload" /\ job' = job
    BY <1>1, LoopKeepsType, LoopKeeps DEF UploadInv
  <1>2. ASSUME NEW m \in wire \cup late, HandleUpload(m), job = "upload", job' = job PROVE UploadInv'
    <2>1. WireInv' /\ UploadType' /\ KeptInv' /\ (session = "done" => session' = "done") /\ UNCHANGED loopVars /\ phase' # "idle" /\ call' = call
      BY <1>2, HandleKeeps, HandleType DEF HandleUpload, OpenSession, Persist, Decline, Says, Answers, RequestInv, Progress
    <2>2. OffsetInv => OffsetInv'
      BY <2>1 DEF OffsetInv, loopVars
    <2> QED
      BY <1>2, <2>1, <2>2 DEF UploadInv, loopVars
  <1>3. CASE (SessionExpires \/ Confuse \/ FileResized) /\ job' = job
    <2>1. UNCHANGED <<loopVars, kept>> /\ session' \in {session, "gone"} /\ (session = "done" => session' = "done")
      BY <1>3 DEF SessionExpires, Confuse, FileResized, serverVars
    <2>2. persisted' = persisted \/ persisted' \in 0 .. (Total - 1)
      BY <1>3 DEF SessionExpires, Confuse, FileResized, serverVars
    <2>3. UploadType'
      BY <2>1, <2>2 DEF UploadInv, UploadType, loopVars
    <2>4. WireInv => WireInv'
      BY <1>3, <2>1 DEF SessionExpires, Confuse, FileResized, WireInv, SoundPut, loopVars, serverVars,
           httpVars, clientVars
    <2>5. OffsetInv => OffsetInv'
      BY <1>3, <2>1 DEF SessionExpires, Confuse, FileResized, OffsetInv, loopVars, httpVars, clientVars
    <2>6. KeptInv => KeptInv'
      BY <1>3, <2>1 DEF SessionExpires, Confuse, FileResized, KeptInv, serverVars
    <2> QED
      BY <1>3, <2>1, <2>3, <2>4, <2>5, <2>6 DEF UploadInv, loopVars
  <1>4. CASE HttpStep
    <2>1. UNCHANGED <<uploadVars, job>>
      BY <1>4 DEF HttpStep
    <2>2. job = "upload" => WireInv' /\ OffsetInv'
      BY <1>4, <2>1, ClientKeepsWire, ClientKeepsOffsets, TokenDiesKeeps DEF HttpStep, UploadInv
    <2> QED
      BY <2>1, <2>2 DEF UploadInv, UploadType, KeptInv, uploadVars, loopVars, serverVars
  <1>5. CASE CallStep
    BY <1>5 DEF CallStep, UploadInv, UploadType, uploadVars, loopVars, serverVars
  <1>6. CASE UNCHANGED vars
    BY <1>6 DEF vars, httpVars, clientVars, uploadVars, loopVars, serverVars, UploadInv, UploadType,
                WireInv, SoundPut, OffsetInv, KeptInv
  <1> QED
    BY <1>1, <1>2, <1>3, <1>4, <1>5, <1>6 DEF Next, UploadStep

LEMMA TypeKept == TypeInv /\ [Next]_vars => TypeInv'
  BY RequestKept, ObjectKept, UploadKept DEF TypeInv, UploadInv

\* The phases of a request and of an upload are what TypeOK says, whatever the
\* server and the network do (client.rs:685-789; upload.rs:211-344).
THEOREM TypeCorrect == Spec => []TypeOK
  <1>1. TypeInv => TypeOK
    BY DEF TypeInv, RequestInv, Flags, Progress, ObjectInv, UploadInv, TypeOK, HttpType
  <1> QED
    BY TypeInit, TypeKept, <1>1, PTL DEF Spec

\* An upload that succeeds is finished at a server that has the whole file, or
\* has spoken of another upload; then too every chunk was given to the client.
\* For every size of file and chunk (upload.rs:346-374).
THEOREM WholeFileKept == Spec => []NothingSkipped
  <1>1. TypeInv => NothingSkipped
    <2> SUFFICES ASSUME TypeInv, outcome = "ok"
                 PROVE  /\ session = "done" /\ handed = 0 .. (Total - 1)
                        /\ ~confused => kept = 0 .. (Total - 1)
      BY DEF NothingSkipped
    <2>1. job = "upload" /\ UploadType /\ WireInv /\ OffsetInv /\ KeptInv
      BY UploadAssumption DEF TypeInv, UploadInv
    <2>2. session = "done" /\ sentEnd = Total /\ handed = 0 .. (Total - 1)
      BY <2>1 DEF OffsetInv, WireInv
    <2> QED
      BY <2>1, <2>2 DEF KeptInv, UploadType
  <1> QED
    BY TypeInit, TypeKept, <1>1, PTL DEF Spec

-------------------------------------------------------------------------------
(* A POST that nothing de-duplicates is sent only while it has surely not    *)
(* been carried out; once it may have been, no copy is on its way.  This     *)
(* ends when a redirect to another origin is answered by a 401 there.        *)

Untouched == applied = 0 /\ late = {}

CreateInv ==
  job = "create" /\ (phase = "idle" \/ ~(hopped /\ refreshed)) =>
    /\ applied <= 1
    /\ late # {} => phase = "over" /\ applied = 0 /\ result.status = "network"
    /\ \A a, b \in wire \cup late : a = b
    /\ phase \in {"idle", "ready", "sent", "refresh"} => Untouched
    /\ phase = "answered" /\ reply.status \in {"limited", "refused", "denied"} => Untouched
    /\ phase = "over" /\ result.status \in {"limited", "refused", "denied"} /\ ~hopped => Untouched

LEMMA CreateInit == Init => CreateInv
  BY DEF Init, HttpInit, ObjectInit, CreateInv, Untouched

LEMMA NeverResent == TypeInv /\ job = "create" /\ phase # "idle" => ~MayResend(call)
  BY DEF TypeInv, ObjectInv, Commanded, MayResend

LEMMA CreateClient ==
  ASSUME TypeInv, CreateInv, ClientStep, UNCHANGED <<objectVars, job>>, job = "create"
  PROVE  CreateInv'
  <1> USE DEF CreateInv, Untouched, objectVars
  <1>0. phase # "idle" => ~MayResend(call)
    BY NeverResent
  <1>a. Progress
    BY DEF TypeInv, RequestInv
  <1>1. CASE Send
    BY <1>1 DEF Send
  <1>2. CASE ConnectFails
    BY <1>2 DEF ConnectFails, Again, Fail, Return
  <1>3. CASE NoAnswer \/ Broken
    <2>1. phase \in {"sent", "answered"} /\ phase' = "over" /\ result'.status = "network"
          /\ late' = late \cup wire /\ wire' = {} /\ UNCHANGED <<hopped, refreshed>>
      BY <1>0, <1>3 DEF NoAnswer, Broken, Fail, Return, GiveUpWaiting
    <2>2. phase = "answered" => wire = {}
      BY <1>a DEF Progress
    <2> QED
      BY <2>1, <2>2
  <1>4. CASE Receive
    BY <1>0, <1>4 DEF Receive, Classify, Return
  <1>5. CASE Redirected
    BY <1>5 DEF Redirected, Fail, Return, Redirects
  <1>6. CASE Hop \/ HopFails
    <2>1. hopped' /\ phase' # "idle" /\ UNCHANGED <<late, wire, applied>>
      BY <1>a, <1>6, ClientKeepsCalls DEF Hop, HopFails, Progress, TypeInv
    <2> QED
      BY <1>0, <1>6, <2>1 DEF Hop, HopFails, Classify, Fail, Return
  <1>7. CASE Refresh \/ RefreshFails
    BY <1>7 DEF Refresh, RefreshFails, Fail, Return
  <1> QED
    BY <1>1, <1>2, <1>3, <1>4, <1>5, <1>6, <1>7 DEF ClientStep

LEMMA CreateServe ==
  ASSUME TypeInv, CreateInv, NEW m \in wire \cup late, Serve(m), job' = job, job = "create"
  PROVE  CreateInv'
  <1>1. m.call.body = "create" /\ m.call.verb = "POST"
    BY DEF TypeInv, RequestInv, Progress, ObjectInv, Commanded
  <1>2. CarryOut(m) => applied' = applied + 1
    BY <1>1 DEF CarryOut
  <1>3. PICK status \in Answered \cup Redirects, tooLong \in BOOLEAN :
          /\ Answers(m, Answer(status, 0, tooLong))
          /\ applied' = applied \/ (applied' = applied + 1 /\ status \notin {"limited", "refused", "denied"})
    <2> DEFINE Result(status, tooLong) ==
                 /\ Answers(m, Answer(status, 0, tooLong))
                 /\ applied' = applied \/ (applied' = applied + 1 /\ status \notin {"limited", "refused", "denied"})
    <2> SUFFICES \E s \in Answered \cup Redirects, t \in BOOLEAN : Result(s, t)
      OBVIOUS
    <2>1. CASE Answers(m, Answer("denied", 0, FALSE)) /\ UNCHANGED objectVars
      <3>1. Result("denied", FALSE)
        BY <2>1 DEF objectVars
      <3> QED
        BY <3>1 DEF Answered
    <2>2. CASE Answers(m, Answer("refused", 0, FALSE)) /\ UNCHANGED objectVars
      <3>1. Result("refused", FALSE)
        BY <2>2 DEF objectVars
      <3> QED
        BY <3>1 DEF Answered
    <2>3. CASE Answers(m, Answer(Success(m), 0, FALSE)) /\ CarryOut(m)
      <3>1. Result("ok", FALSE)
        BY <1>1, <1>2, <2>3 DEF Success
      <3> QED
        BY <3>1 DEF Answered
    <2>4. ASSUME NEW tooLong \in BOOLEAN, NEW status \in {"limited", "failed"},
                 Answers(m, Answer(status, 0, tooLong)),
                 UNCHANGED objectVars \/ (status = "failed" /\ CarryOut(m))
          PROVE  \E s \in Answered \cup Redirects, t \in BOOLEAN : Result(s, t)
      <3>1. Result(status, tooLong)
        BY <1>2, <2>4 DEF objectVars
      <3> QED
        BY <3>1 DEF Answered, Retryable
    <2>5. ASSUME NEW status \in Redirects, Answers(m, Answer(status, 0, FALSE)),
                 CarryOut(m) \/ UNCHANGED objectVars
          PROVE  \E s \in Answered \cup Redirects, t \in BOOLEAN : Result(s, t)
      <3>1. Result(status, FALSE)
        BY <1>2, <2>5 DEF objectVars, Redirects
      <3> QED
        BY <3>1
    <2>6. ASSUME ~(Answers(m, Answer("denied", 0, FALSE)) /\ UNCHANGED objectVars),
                 ~(Answers(m, Answer("refused", 0, FALSE)) /\ UNCHANGED objectVars),
                 ~(Answers(m, Answer(Success(m), 0, FALSE)) /\ CarryOut(m))
          PROVE  \/ \E tooLong \in BOOLEAN, status \in {"limited", "failed"} :
                      /\ Answers(m, Answer(status, 0, tooLong))
                      /\ UNCHANGED objectVars \/ (status = "failed" /\ CarryOut(m))
                 \/ \E status \in Redirects :
                      Answers(m, Answer(status, 0, FALSE)) /\ (CarryOut(m) \/ UNCHANGED objectVars)
      BY <2>6 DEF Serve
    <2> HIDE DEF Result
    <2> QED
      BY <2>1, <2>2, <2>3, <2>4, <2>5, <2>6
  <1>4. applied \in Nat
    BY DEF TypeInv, ObjectInv
  <1>5. wire = {} \/ (phase = "sent" /\ late = {}) \/ (hopped /\ refreshed)
    BY DEF TypeInv, RequestInv, Progress, CreateInv, Untouched
  <1> QED
    BY <1>3, <1>4, <1>5 DEF CreateInv, Untouched, Answers, Answer

LEMMA CreateKept == TypeInv /\ CreateInv /\ [Next]_vars => CreateInv'
  <1> SUFFICES ASSUME TypeInv, CreateInv, [Next]_vars PROVE CreateInv'
    OBVIOUS
  <1>1. CASE CallStep /\ job = "create"
    <2>1. CASE Command(job)
      <3>1. Request("POST", "fromMethod", MaxAttempts, job) /\ UNCHANGED objectVars /\ phase = "idle"
        BY <1>1, <2>1 DEF Command
      <3> QED
        BY <1>1, <3>1 DEF CallStep, Request, CreateInv, Untouched, objectVars, TypeInv, RequestInv, Progress
    <2> QED
      BY <1>1, <2>1, CreateServe DEF CallStep
  <1>2. CASE ClientStep /\ UNCHANGED <<objectVars, job>>
    BY <1>2, CreateClient DEF CreateInv
  <1>3. CASE TokenDies /\ UNCHANGED <<objectVars, job>>
    BY <1>3 DEF TokenDies, clientVars, objectVars, CreateInv, Untouched
  <1>4. CASE UNCHANGED vars
    BY <1>4 DEF vars, httpVars, clientVars, objectVars, CreateInv, Untouched
  <1> QED
    BY <1>1, <1>2, <1>3, <1>4 DEF Next, CallStep, UploadStep, HttpStep, CreateInv

\* Whatever is lost, late or expired, a POST takes effect once (client.rs:29,
\* 661-668), but for the redirected one that is rejected elsewhere.
THEOREM PostedOnce == Spec => []AtMostOnce
  <1>1. CreateInv /\ TypeInv => AtMostOnce
    BY DEF CreateInv, TypeInv, ObjectInv, AtMostOnce
  <1> QED
    BY TypeInit, TypeKept, CreateInit, CreateKept, <1>1, PTL DEF Spec

\* A POST answered with a rejection has not been carried out and never will be
\* (client.rs:746-789).
THEOREM RejectionIsFinal == Spec => []RejectedMeansNothing
  <1>1. CreateInv => RejectedMeansNothing
    BY DEF CreateInv, Untouched, RejectedMeansNothing
  <1> QED
    BY TypeInit, TypeKept, CreateInit, CreateKept, <1>1, PTL DEF Spec

-------------------------------------------------------------------------------
(* A DELETE of this command may have taken effect, or may yet, only while    *)
(* the client knows that it may: it remembers a lost attempt, or holds an    *)
(* answer that says so.                                                      *)

Suspected ==
  \/ unknown
  \/ phase = "answered" /\ reply.status \in {"ok", "failed"} \cup Redirects
  \/ phase = "over" /\ result.status # "missing"

DeleteInv ==
  job = "delete" /\ (phase = "idle" \/ ~(refreshed \/ hopped)) =>
    /\ phase = "idle" => applied = 0
    /\ applied > 0 \/ late # {} => Suspected
    /\ phase = "over" /\ result.status = "missing" /\ unknown => result.note

LEMMA DeleteInit == Init => DeleteInv
  BY DEF Init, HttpInit, ObjectInit, DeleteInv

LEMMA DeleteClient ==
  ASSUME TypeInv, DeleteInv, ClientStep, UNCHANGED <<objectVars, job>>, job = "delete"
  PROVE  DeleteInv'
  <1> USE DEF DeleteInv, Suspected, objectVars
  <1>a. Progress /\ (phase # "idle" => call.verb = "DELETE")
    BY DEF TypeInv, RequestInv, ObjectInv, Commanded
  <1>b. phase # "idle" /\ phase' # "idle"
    BY ClientKeepsCalls DEF TypeInv
  <1>1. CASE Send
    BY <1>1 DEF Send
  <1>2. CASE ConnectFails
    BY <1>2 DEF ConnectFails, Again, Fail, Return
  <1>3. CASE NoAnswer
    BY <1>3 DEF NoAnswer, Again, Fail, Return
  <1>4. CASE Broken
    BY <1>4 DEF Broken, Fail, Return
  <1>5. CASE Receive
    <2> DEFINE resent == MayResend(call) /\ attempt < call.tries /\ ~reply.tooLong
    <2>0. /\ phase = "answered" /\ reply.status \notin Redirects /\ Classify(reply)
          /\ UNCHANGED <<late, hopped, applied, job>>
      BY <1>5 DEF Receive
    <2>1. CASE reply.status \in Retryable /\ resent
      <3>1. phase' = "ready" /\ UNCHANGED refreshed
        BY <2>0, <2>1 DEF Classify, Again
      <3>2. unknown \/ reply.status = "failed" => unknown'
        BY <2>0, <2>1, Zenon DEF Classify
      <3> QED
        BY <2>0, <2>1, <3>1, <3>2 DEF Retryable
    <2>2. CASE reply.status \in Retryable /\ ~resent
      BY <2>0, <2>2 DEF Classify, Return, Retryable
    <2>3. CASE reply.status = "denied" /\ provider /\ ~refreshed
      BY <2>0, <2>3 DEF Classify, Retryable
    <2>4. CASE reply.status \notin Retryable /\ ~(reply.status = "denied" /\ provider /\ ~refreshed)
      <3>1. /\ phase' = "over" /\ UNCHANGED <<unknown, refreshed>> /\ result'.status = reply.status
            /\ result'.note = (call.verb = "DELETE" /\ reply.status = "missing" /\ unknown)
        BY <2>0, <2>4 DEF Classify, Return
      <3> QED
        BY <1>a, <2>0, <2>4, <3>1 DEF Retryable
    <2> QED
      BY <2>1, <2>2, <2>3, <2>4 DEF Retryable
  <1>6. CASE Redirected
    <2>1. CASE RedirectedVerb(reply.status, call.verb) = "GET"
      <3>1. hopped' = TRUE
        BY <1>6, <2>1 DEF Redirected
      <3> QED
        BY <1>b, <3>1
    <2>2. CASE RedirectedVerb(reply.status, call.verb) # "GET"
      BY <1>b, <1>6, <2>2 DEF Redirected, Fail, Return
    <2> QED
      BY <2>1, <2>2
  <1>7. CASE Hop \/ HopFails
    <2>1. hopped'
      BY <1>a, <1>7 DEF Hop, HopFails, Progress
    <2> QED
      BY <1>b, <2>1
  <1>8. CASE Refresh \/ RefreshFails
    <2>1. refreshed'
      BY <1>a, <1>8 DEF Refresh, RefreshFails, Progress
    <2> QED
      BY <1>b, <2>1
  <1> QED
    BY <1>1, <1>2, <1>3, <1>4, <1>5, <1>6, <1>7, <1>8 DEF ClientStep

LEMMA DeleteServe ==
  ASSUME TypeInv, DeleteInv, NEW m \in wire \cup late, Serve(m), job' = job, job = "delete"
  PROVE  DeleteInv'
  <1>1. m.call.body = "delete"
    BY DEF TypeInv, RequestInv, Progress, ObjectInv, Commanded
  <1>2. PICK status : /\ \E tooLong \in BOOLEAN : Answers(m, Answer(status, 0, tooLong))
                      /\ applied' = applied \/ status \in {"ok", "failed"} \cup Redirects
    <2>1. CarryOut(m) /\ Success(m) # "ok" => applied' = applied
      BY <1>1 DEF CarryOut, Success, objectVars
    <2> QED
      BY <2>1 DEF Serve, objectVars, Success
  <1>3. PICK a : Answers(m, a) /\ a.status = status
    BY <1>2 DEF Answer
  <1>4. m \in wire /\ late = {} => phase = "sent"
    BY DEF TypeInv, RequestInv, Progress
  <1>5. (phase = "over" => phase' = "over") /\ phase # "idle"
    BY <1>3 DEF Answers, TypeInv, RequestInv, Progress
  <1> QED
    BY <1>2, <1>3, <1>4, <1>5 DEF DeleteInv, Suspected, Answers, TypeInv, RequestInv, Progress

LEMMA DeleteKept == TypeInv /\ DeleteInv /\ [Next]_vars => DeleteInv'
  <1> SUFFICES ASSUME TypeInv, DeleteInv, [Next]_vars PROVE DeleteInv'
    OBVIOUS
  <1>1. CASE CallStep /\ job = "delete"
    <2>1. CASE Command(job)
      <3>1. Request("DELETE", "fromMethod", MaxAttempts, job) /\ UNCHANGED objectVars /\ phase = "idle"
        BY <1>1, <2>1 DEF Command
      <3> QED
        BY <1>1, <3>1 DEF CallStep, Request, DeleteInv, Suspected, objectVars, TypeInv, RequestInv, Progress
    <2> QED
      BY <1>1, <2>1, DeleteServe DEF CallStep
  <1>2. CASE ClientStep /\ UNCHANGED <<objectVars, job>>
    BY <1>2, DeleteClient DEF DeleteInv
  <1>3. CASE TokenDies /\ UNCHANGED <<objectVars, job>>
    BY <1>3 DEF TokenDies, clientVars, objectVars, DeleteInv, Suspected
  <1>4. CASE UNCHANGED vars
    BY <1>4 DEF vars, httpVars, clientVars, objectVars, DeleteInv, Suspected
  <1> QED
    BY <1>1, <1>2, <1>3, <1>4 DEF Next, CallStep, UploadStep, HttpStep, DeleteInv
\* "Not found" without a note: the object was missing before this command
\* (client.rs:406-422), unless a refresh or another origin intervened.
THEOREM MissingBefore == Spec => []NotFoundIsHonest
  <1>1. DeleteInv /\ TypeInv => NotFoundIsHonest
    BY DEF DeleteInv, Suspected, TypeInv, ObjectInv, NotFoundIsHonest, RequestInv, Flags
  <1> QED
    BY TypeInit, TypeKept, DeleteInit, DeleteKept, <1>1, PTL DEF Spec
===============================================================================
