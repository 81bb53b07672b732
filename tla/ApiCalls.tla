------------------------------- MODULE ApiCalls -------------------------------
(***************************************************************************)
(* A process that makes one API call, on the HTTP client all share: a      *)
(* single request (a POST that creates something, a POST whose requestId   *)
(* the server de-duplicates, a DELETE), or a resumable upload.  For a      *)
(* single request, the object at the server and how often the request took *)
(* effect on it.                                                           *)
(***************************************************************************)
EXTENDS ResumableUpload

VARIABLES
  exists,   \* whether the object to delete exists
  applied,  \* how often the request was carried out
  job       \* a Kind, or "upload"

objectVars == <<exists, applied>>
Kind == {"create", "keyed", "delete"}

ObjectInit == exists \in BOOLEAN /\ applied = 0

\* What the server does when it carries out request m.
CarryOut(m) ==
  CASE m.call.body = "create" -> applied' = applied + 1 /\ UNCHANGED exists
    [] m.call.body = "keyed" -> applied' = 1 /\ UNCHANGED exists
    [] m.call.body = "delete" ->
         IF exists THEN exists' = FALSE /\ applied' = applied + 1 ELSE UNCHANGED objectVars

Success(m) == IF m.call.body = "delete" /\ ~exists THEN "missing" ELSE "ok"

\* A rejected or limited request is not carried out; one that fails or is
\* redirected may be.
Serve(m) ==
  IF m.token \in dead
  THEN Answers(m, Answer("denied", 0, FALSE)) /\ UNCHANGED objectVars
  ELSE \/ /\ Answers(m, Answer(Success(m), 0, FALSE))
          /\ CarryOut(m)
       \/ /\ \E tooLong \in BOOLEAN :
               \/ Answers(m, Answer("limited", 0, tooLong)) /\ UNCHANGED objectVars
               \/ Answers(m, Answer("failed", 0, tooLong)) /\ (CarryOut(m) \/ UNCHANGED objectVars)
       \/ Answers(m, Answer("refused", 0, FALSE)) /\ UNCHANGED objectVars
       \/ \E status \in Redirects :
            Answers(m, Answer(status, 0, FALSE)) /\ (CarryOut(m) \/ UNCHANGED objectVars)

Command(kind) ==
  /\ phase = "idle"
  /\ CASE kind = "create" -> Request("POST", "fromMethod", MaxAttempts, kind)
       [] kind = "keyed" -> Request("POST", "idempotent", MaxAttempts, kind)
       [] kind = "delete" -> Request("DELETE", "fromMethod", MaxAttempts, kind)
  /\ UNCHANGED objectVars

vars == <<httpVars, objectVars, uploadVars, job>>

\* (That there is no object makes a difference to a delete only.)
Init ==
  /\ job \in Kind \cup {"upload"}
  /\ HttpInit /\ ObjectInit /\ UploadInit
  /\ job # "delete" => exists

CallStep ==
  /\ job # "upload"
  /\ Command(job) \/ \E m \in wire \cup late : Serve(m)
  /\ UNCHANGED <<uploadVars, job>>

UploadStep ==
  /\ job = "upload"
  /\ \/ LoopStep
     \/ \E m \in wire \cup late : HandleUpload(m)
     \/ SessionExpires \/ Confuse \/ FileResized
  /\ UNCHANGED <<objectVars, job>>

HttpStep ==
  /\ ClientStep \/ TokenDies
  /\ UNCHANGED <<objectVars, uploadVars, job>>

Next == CallStep \/ UploadStep \/ HttpStep

Spec == Init /\ [][Next]_vars

Finished == IF job = "upload" THEN step = "end" ELSE phase = "over"

\* The process goes on: a connection answers, breaks or times out (--timeout).
Proceed ==
  /\ \/ ClientStep /\ UNCHANGED <<objectVars, uploadVars, job>>
     \/ job # "upload" /\ Command(job) /\ UNCHANGED <<uploadVars, job>>
     \/ job = "upload" /\ LoopStep /\ UNCHANGED <<objectVars, job>>

FairSpec == Spec /\ WF_vars(Proceed)

TypeOK ==
  /\ HttpType
  /\ UploadType
  /\ job \in Kind \cup {"upload"}
  /\ exists \in BOOLEAN /\ applied \in Nat

\* A POST that nothing de-duplicates is carried out at most once, however
\* often it was tried and however late its copies arrive (client.rs:29,
\* 661-668).  The exception: redirected to another origin and rejected there
\* with 401, it is sent again (transport/mod.rs:317-326).
AtMostOnce == job = "create" /\ applied > 1 => hopped /\ refreshed

\* "Not found" without the note that an earlier attempt may have deleted the
\* object means that this command has not deleted it (client.rs:406-422).
\* What the client knew is gone after a refresh and says nothing about the
\* origin that redirected the request.
NotFoundIsHonest ==
  (job = "delete" /\ phase = "over" /\ result.status = "missing"
     /\ ~result.note /\ ~refreshed /\ ~hopped) => applied = 0

\* A single request that is answered with an error the client could not
\* repeat has not been carried out and never will be.
RejectedMeansNothing ==
  (job = "create" /\ phase = "over"
     /\ result.status \in {"refused", "denied", "limited"} /\ ~hopped) =>
  applied = 0

\* An upload that succeeds is finished at the server, which has the whole
\* file if it never spoke of another upload; if it did, what it could make the
\* upload skip is no more than chunks that were read and given to the client
\* (upload.rs:346-374).  Those need not have left the machine: a chunk counts
\* as sent (upload.rs:541) also when the connection then fails, although the
\* comment speaks of bytes transmitted (upload.rs:357-359).
NothingSkipped ==
  outcome = "ok" =>
    /\ session = "done"
    /\ ~confused => kept = 0 .. (Total - 1)
    /\ handed = 0 .. (Total - 1)

\* What the message of a file that changed its size says: "nothing was
\* uploaded" (upload.rs:283-287).
NothingUploaded == outcome = "resized" => session # "done"

\* Every call ends (upload.rs:39-40; client.rs:685, 792).
CallEnds == <>Finished
===============================================================================
