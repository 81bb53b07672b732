--------------------------- MODULE ResumableUpload ---------------------------
(***************************************************************************)
(* The resumable upload of executor/upload.rs: start a session, PUT the    *)
(* file chunk by chunk, after a failure ask the server how much it has,    *)
(* give up after MaxFailures failures in a row.  The file is Total units   *)
(* long, a chunk is one unit (chunk_size is a number of units here).       *)
(*                                                                         *)
(* Left out: metadata, progress output, a Location or Range header that    *)
(* does not parse (an error like the one of a Range past what was sent).   *)
(* The upload server redirects nothing to another origin.                  *)
(***************************************************************************)
EXTENDS HttpClient

CONSTANTS
  Total,        \* size of the file
  ChunkSize,
  MaxFailures   \* MAX_CHUNK_FAILURES

ASSUME UploadAssumption ==
  /\ Total \in Nat /\ ChunkSize \in Nat \ {0} /\ MaxFailures \in Nat
  /\ None # "ok"

VARIABLES
  step,      \* idle, start, chunk, sending, query, asking or end
  offset,    \* where the next chunk begins
  sentEnd,   \* sent_end: end of the furthest chunk given to the client
  failures,  \* consecutive failures
  outcome,   \* how the upload ended
  resized,   \* whether the file has changed its size
  session,   \* at the server: none, open, done or gone
  persisted, \* what the server says it has of the file
  confused,  \* whether the server has described some other upload
  handed,    \* history: the units of the file read and given to the client
  kept       \* history: the units of the file the server has kept

loopVars == <<step, offset, sentEnd, failures, outcome, handed>>
serverVars == <<session, persisted, confused, kept>>
uploadVars == <<loopVars, serverVars, resized>>

UploadInit ==
  /\ step = "idle" /\ outcome = None
  /\ offset = 0 /\ sentEnd = 0 /\ failures = 0
  /\ resized = FALSE
  /\ session = "none" /\ persisted = 0 /\ confused = FALSE
  /\ handed = {} /\ kept = {}

Lesser(a, b) == IF a <= b THEN a ELSE b
Greater(a, b) == IF a >= b THEN a ELSE b

\* A request of the upload; the resume logic retries chunks and queries itself.
Put(first, end) == Request("PUT", "idempotent", 1, [first |-> first, end |-> end])
AskStatus == Put(Total, Total)    \* "bytes */total"

End(status) == step' = "end" /\ outcome' = status

StartSession ==
  /\ step = "idle" /\ phase = "idle"
  /\ Request("POST", "idempotent", MaxAttempts, [first |-> 0, end |-> 0])
  /\ step' = "start"
  /\ UNCHANGED <<offset, sentEnd, failures, outcome, handed, serverVars, resized>>

Started ==
  /\ step = "start" /\ phase = "over"
  /\ IF result.status = "ok" THEN step' = "chunk" /\ UNCHANGED outcome ELSE End(result.status)
  /\ UNCHANGED <<offset, sentEnd, failures, handed, serverVars, resized, httpVars>>

\* read_range refuses a file whose size has changed.  The chunk counts as sent
\* before the client has so much as a connection.
SendChunk ==
  /\ step = "chunk"
  /\ IF resized
     THEN /\ End("resized")
          /\ UNCHANGED <<sentEnd, handed, httpVars>>
     ELSE LET end == offset + Lesser(Total - offset, ChunkSize) IN
          /\ Put(offset, end)
          /\ sentEnd' = Greater(sentEnd, end)
          /\ handed' = handed \cup offset .. (end - 1)
          /\ step' = "sending"
          /\ UNCHANGED outcome
  /\ UNCHANGED <<offset, failures, serverVars, resized>>

\* Mutant: the server is believed.
PlausibleAnyway(next) == next <= Total

\* next_offset: the server cannot have more than was given to the client.
Plausible(next) == next <= Total /\ next <= sentEnd

ChunkFails ==
  /\ failures' = failures + 1
  /\ IF failures' > MaxFailures \/ result.tooLong
     THEN End("gaveUp")
     ELSE step' = "query" /\ UNCHANGED outcome

ChunkAnswered ==
  /\ step = "sending" /\ phase = "over"
  /\ CASE result.status = "ok" -> End("ok") /\ UNCHANGED <<offset, failures>>
       [] result.status = "more" /\ ~Plausible(result.more) ->
            End("implausible") /\ UNCHANGED <<offset, failures>>
       [] result.status = "more" /\ Plausible(result.more) ->
            /\ offset' = result.more
            /\ IF result.more > offset
               THEN failures' = 0 /\ step' = "chunk" /\ UNCHANGED outcome
               ELSE ChunkFails
       [] result.status = "missing" -> End("expired") /\ UNCHANGED <<offset, failures>>
       [] result.gaveUp \/ result.status \in Failure -> ChunkFails /\ UNCHANGED offset
       [] OTHER -> End(result.status) /\ UNCHANGED <<offset, failures>>
  /\ UNCHANGED <<sentEnd, handed, serverVars, resized, httpVars>>

Query ==
  /\ step = "query"
  /\ AskStatus
  /\ step' = "asking"
  /\ UNCHANGED <<offset, sentEnd, failures, outcome, handed, serverVars, resized>>

\* Mutant: an answered query starts the count of failures anew.
QueryAnsweredResets ==
  /\ step = "asking" /\ phase = "over"
  /\ CASE result.status = "ok" -> End("ok") /\ UNCHANGED offset
       [] result.status = "more" /\ ~Plausible(result.more) ->
            End("implausible") /\ UNCHANGED offset
       [] result.status = "more" /\ Plausible(result.more) ->
            offset' = result.more /\ step' = "chunk" /\ UNCHANGED outcome
       [] OTHER -> step' = "chunk" /\ UNCHANGED <<offset, outcome>>
  /\ failures' = 0
  /\ UNCHANGED <<sentEnd, handed, serverVars, resized, httpVars>>

\* Only a success and a 308 count; after anything else the chunk is sent again.
QueryAnswered ==
  /\ step = "asking" /\ phase = "over"
  /\ CASE result.status = "ok" -> End("ok") /\ UNCHANGED offset
       [] result.status = "more" /\ ~Plausible(result.more) ->
            End("implausible") /\ UNCHANGED offset
       [] result.status = "more" /\ Plausible(result.more) ->
            offset' = result.more /\ step' = "chunk" /\ UNCHANGED outcome
       [] OTHER -> step' = "chunk" /\ UNCHANGED <<offset, outcome>>
  /\ UNCHANGED <<failures, sentEnd, handed, serverVars, resized, httpVars>>

LoopStep ==
  \/ StartSession \/ Started
  \/ SendChunk \/ ChunkAnswered
  \/ Query \/ QueryAnswered

-------------------------------------------------------------------------------
(* The server.  It keeps what it has in order, finishes at the last byte or  *)
(* when asked after it, and may keep a part of a chunk and answer late.      *)

Says(m, status, more, tooLong) ==
  Answers(m, Answer(status, more, tooLong)) /\ UNCHANGED <<loopVars, resized>>

OpenSession(m) ==
  /\ m.call.verb = "POST"
  /\ session' = IF session = "none" THEN "open" ELSE session
  /\ Says(m, "ok", 0, FALSE)
  /\ UNCHANGED <<persisted, confused, kept>>

Persist(m) ==
  /\ m.call.verb = "PUT"
  /\ session = "open"
  /\ m.call.body.first <= persisted
  /\ \E p \in persisted .. Greater(persisted, m.call.body.end) :
       /\ persisted' = p
       /\ kept' = kept \cup m.call.body.first .. (Lesser(p, m.call.body.end) - 1)
       /\ session' \in {IF p = Total THEN "done" ELSE "open"}
                         \cup (IF m.call.body.first < Total THEN {"open"} ELSE {})
       /\ \/ session' = "done" /\ Says(m, "ok", 0, FALSE)
          \/ session' = "open" /\ Says(m, "more", p, FALSE)
          \/ Says(m, "failed", 0, FALSE)
  /\ UNCHANGED confused

\* Not carried out: a status query before the last byte, a chunk past the end
\* of what the server has, a finished or expired session, a server that is
\* busy or down, a token it does not accept.
Decline(m) ==
  /\ \/ m.call.verb = "PUT" /\ session = "open" /\ m.call.body.first > persisted
        /\ Says(m, "more", persisted, FALSE)
     \/ m.call.verb = "PUT" /\ session = "done" /\ Says(m, "ok", 0, FALSE)
     \/ m.call.verb = "PUT" /\ session = "gone" /\ Says(m, "missing", 0, FALSE)
     \/ \E status \in Retryable, tooLong \in BOOLEAN : Says(m, status, 0, tooLong)
     \/ Says(m, "refused", 0, FALSE)
  /\ UNCHANGED serverVars

HandleUpload(m) ==
  IF m.token \in dead
  THEN Says(m, "denied", 0, FALSE) /\ UNCHANGED serverVars
  ELSE OpenSession(m) \/ Persist(m) \/ Decline(m)

SessionExpires ==
  /\ session = "open" /\ wire \cup late # {}
  /\ session' = "gone"
  /\ UNCHANGED <<persisted, confused, kept, loopVars, resized, httpVars>>

\* The server describes some other upload: any amount short of a finished one.
Confuse ==
  /\ session = "open" /\ wire \cup late # {} /\ ~confused
  /\ confused' = TRUE
  /\ persisted' \in 0 .. (Total - 1)
  /\ UNCHANGED <<session, kept, loopVars, resized, httpVars>>

FileResized ==
  /\ step = "chunk" /\ ~resized
  /\ resized' = TRUE
  /\ UNCHANGED <<loopVars, serverVars, httpVars>>

UploadType ==
  /\ step \in {"idle", "start", "chunk", "sending", "query", "asking", "end"}
  /\ offset \in 0 .. Total /\ sentEnd \in 0 .. Total
  /\ failures \in 0 .. (MaxFailures + 1)
  /\ outcome \in {None, "ok", "implausible", "expired", "resized", "gaveUp"}
                   \cup Answered \cup Failure
  /\ persisted \in 0 .. Total
  /\ session \in {"none", "open", "done", "gone"}
  /\ handed \subseteq 0 .. (Total - 1) /\ kept \subseteq 0 .. (Total - 1)
===============================================================================
