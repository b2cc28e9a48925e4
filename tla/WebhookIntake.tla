--------------------------- MODULE WebhookIntake ---------------------------
(***************************************************************************)
(* The intake of WhatsApp messages (routes/whatsapp.js): Meta posts        *)
(* deliveries, each a batch of messages, and sends a delivery again until  *)
(* it is answered 200.  Each message is claimed in the process's cache of  *)
(* message ids (messageIdempotency.js), its file is downloaded, uploaded   *)
(* to temporary/ and recorded in temporary_data, and the claim is then     *)
(* completed, or released when nothing was recorded.                       *)
(*                                                                         *)
(* One action is the code between two awaits: one call to Meta, to the     *)
(* storage or to the database, with the decisions up to the next one.      *)
(* Several processes may run; each has its own cache, lost on a restart.   *)
(***************************************************************************)
EXTENDS SequencesExt

CONSTANTS
  Messages,     \* message ids
  Kind,         \* [Messages -> KINDS]: what the message contains
  Requests,     \* the HTTP requests that can be open at one time
  BatchOf,      \* [Requests -> Seq(Messages)]: the delivery a request carries
  Processes,    \* application instances
  Paths,        \* object names in temporary/ (random UUIDs)
  MaxEntries,   \* MESSAGE_ID_MAX_ENTRIES
  MaxFaults     \* bound of the model: failed calls, lost answers, crashes, expiries

VARIABLES
  rows,       \* temporary_data: the message and the file of each row
  objects,    \* objects in temporary/
  cache,      \* per process: its message-id cache, oldest entry first
  inFlight,   \* per process: the request that handles a message
  pc,         \* per request: the call it makes next
  req,        \* per request: its local state
  acked,      \* deliveries Meta has seen answered 200
  faults      \* how much of MaxFaults is used

vars == <<rows, objects, cache, inFlight, pc, req, acked, faults>>

None == "none"
\* A file; a file that validation refuses; a message without a usable file;
\* a message without an id or without a sender.
KINDS == {"media", "refused", "plain", "anonymous"}
Batches == {BatchOf[r] : r \in Requests}
MESSAGE_STATE == {"IN_PROGRESS", "PROCESSED"}
Entry == [id : Messages, state : MESSAGE_STATE]
Row == [message : Messages, path : Paths]
Call == {"Idle", "Next", "Waiting", "Download", "Upload", "Insert", "Drop", "Undo"}
Local == [proc : Processes \cup {None}, at : Nat \ {0}, ok : BOOLEAN, late : BOOLEAN,
          waitsFor : Requests \cup {None}, path : Paths \cup {None}]

ASSUME KindIsKind == Kind \in [Messages -> KINDS]
ASSUME BatchIsBatch == BatchOf \in [Requests -> Seq(Messages)]
ASSUME CacheHoldsOne == MaxEntries \in Nat \ {0}
ASSUME NoneIsNobody == None \notin Requests \cup Processes \cup Paths

Opened(p) == [proc |-> p, at |-> 1, ok |-> TRUE, late |-> FALSE, waitsFor |-> None, path |-> None]
NoRequest == Opened(None)

Init ==
  /\ rows = {}
  /\ objects = {}
  /\ cache = [p \in Processes |-> <<>>]
  /\ inFlight = [p \in Processes |-> [m \in Messages |-> None]]
  /\ pc = [r \in Requests |-> "Idle"]
  /\ req = [r \in Requests |-> NoRequest]
  /\ acked = {}
  /\ faults = 0

-----------------------------------------------------------------------------
(* The message-id cache.                                                   *)

\* Variant: only finished messages count as seen.
StateOfFinished(c, m) ==
  IF \E k \in DOMAIN c : c[k].id = m /\ c[k].state = "PROCESSED" THEN "PROCESSED" ELSE None

StateOf(c, m) == IF \E k \in DOMAIN c : c[k].id = m
                 THEN c[CHOOSE k \in DOMAIN c : c[k].id = m].state
                 ELSE None

Without(c, m) == IF \E k \in DOMAIN c : c[k].id = m
                 THEN RemoveAt(c, CHOOSE k \in DOMAIN c : c[k].id = m)
                 ELSE c

\* set: the entry moves to the end, and the oldest is dropped when one is too
\* many, whatever its state.
Put(c, m, state) ==
  LET longer == Append(Without(c, m), [id |-> m, state |-> state])
  IN IF Len(longer) > MaxEntries THEN Tail(longer) ELSE longer

-----------------------------------------------------------------------------
(* Helpers of the handlers.                                                *)

Anonymous(m) == Kind[m] = "anonymous"            \* no id or no sender
HasFile(m) == Kind[m] \in {"media", "refused"}    \* extractDocumentMetadata
Accepted(m) == Kind[m] = "media"                  \* validateDocumentFile

Proc(r) == req[r].proc
Message(r) == BatchOf[r][req[r].at]
Handling(r) == pc[r] = "Next" /\ req[r].at <= Len(BatchOf[r])
StateFor(r) == StateOf(cache[Proc(r)], Message(r))
Recorded(m) == \E row \in rows : row.message = m

InHand == {req[r].path : r \in Requests} \ {None}
Filed == {row.path : row \in rows}
\* randomUUID: a name nothing refers to.
NewPath == CHOOSE path \in Paths : path \notin objects \cup Filed \cup InHand
CanUpload == Paths \ (objects \cup Filed \cup InHand) # {}

Goto(r, call) == pc' = [pc EXCEPT ![r] = call]

\* The message is done with: the loop over the delivery goes on.
Advanced(local, handled) ==
  [local EXCEPT !.at = @ + 1, !.ok = @ /\ handled, !.late = FALSE, !.waitsFor = None, !.path = None]
Advance(r, handled) ==
  /\ Goto(r, "Next")
  /\ req' = [req EXCEPT ![r] = Advanced(@, handled)]

\* handleClaimedMessage ends, with the given cache of its process: the
\* promise in inFlight is settled and forgotten, and whoever waits for it
\* looks again.
Settle(r, handled, newCache) ==
  /\ cache' = [cache EXCEPT ![Proc(r)] = newCache]
  /\ inFlight' = [inFlight EXCEPT ![Proc(r)][Message(r)] = None]
  /\ pc' = [q \in Requests |->
              IF q = r \/ (pc[q] = "Waiting" /\ req[q].waitsFor = r) THEN "Next" ELSE pc[q]]
  /\ req' = [q \in Requests |->
               IF q = r THEN Advanced(req[q], handled)
               ELSE IF pc[q] = "Waiting" /\ req[q].waitsFor = r THEN [req[q] EXCEPT !.waitsFor = None]
               ELSE req[q]]
Complete(r) == Settle(r, TRUE, Put(cache[Proc(r)], Message(r), "PROCESSED"))
\* Variants: the claim is kept, or completed, although the handling failed.
ReleaseForgotten(r) == Settle(r, FALSE, cache[Proc(r)])
CompleteAlways(r) == Settle(r, FALSE, Put(cache[Proc(r)], Message(r), "PROCESSED"))
Release(r) == Settle(r, FALSE, Without(cache[Proc(r)], Message(r)))

-----------------------------------------------------------------------------
(* A delivery arrives and is answered.                                     *)

\* Meta sends a delivery until it is acknowledged, also while an earlier
\* request for it is still open, and possibly once more afterwards.
Send(r, p) ==
  /\ pc[r] = "Idle"
  /\ Goto(r, "Next")
  /\ req' = [req EXCEPT ![r] = Opened(p)]
  /\ UNCHANGED <<rows, objects, cache, inFlight, acked>>

Answer(r) ==
  /\ pc[r] = "Next"
  /\ req[r].at > Len(BatchOf[r])
  /\ Goto(r, "Idle")
  /\ req' = [req EXCEPT ![r] = NoRequest]
  /\ acked' = IF req[r].ok THEN acked \cup {BatchOf[r]} ELSE acked
  /\ UNCHANGED <<rows, objects, cache, inFlight>>

\* The connection breaks: Meta does not see the answer.
AnswerLost(r) ==
  /\ pc[r] = "Next"
  /\ req[r].at > Len(BatchOf[r])
  /\ Goto(r, "Idle")
  /\ req' = [req EXCEPT ![r] = NoRequest]
  /\ UNCHANGED <<rows, objects, cache, inFlight, acked>>

-----------------------------------------------------------------------------
(* handleMessage: claim, skip, wait or refuse.                             *)

\* Without an id or a sender: acknowledged, never claimed.
Ignore(r) ==
  /\ Handling(r)
  /\ Anonymous(Message(r))
  /\ Advance(r, TRUE)
  /\ UNCHANGED <<rows, objects, cache, inFlight, acked>>

MayClaim(r) == Handling(r) /\ ~Anonymous(Message(r)) /\ StateFor(r) = None
Claim(r) ==
  /\ MayClaim(r)
  /\ HasFile(Message(r))
  /\ cache' = [cache EXCEPT ![Proc(r)] = Put(@, Message(r), "IN_PROGRESS")]
  /\ inFlight' = [inFlight EXCEPT ![Proc(r)][Message(r)] = r]
  /\ Goto(r, "Download")
  /\ UNCHANGED <<rows, objects, req, acked>>

\* Nothing to download: claimed and completed without a call in between.
ClaimPlain(r) ==
  /\ MayClaim(r)
  /\ ~HasFile(Message(r))
  /\ cache' = [cache EXCEPT ![Proc(r)] =
       Put(Put(@, Message(r), "IN_PROGRESS"), Message(r), "PROCESSED")]
  /\ inFlight' = [inFlight EXCEPT ![Proc(r)][Message(r)] = None]
  /\ Advance(r, TRUE)
  /\ UNCHANGED <<rows, objects, acked>>

\* Already handled.
Skip(r) ==
  /\ Handling(r)
  /\ StateFor(r) = "PROCESSED"
  /\ Advance(r, TRUE)
  /\ UNCHANGED <<rows, objects, cache, inFlight, acked>>

\* Being handled in this process: wait for that handling, for at most
\* duplicateWaitMs.
Running(r) == inFlight[Proc(r)][Message(r)]
Wait(r) ==
  /\ Handling(r)
  /\ StateFor(r) = "IN_PROGRESS"
  /\ Running(r) # None
  /\ ~req[r].late
  /\ Goto(r, "Waiting")
  /\ req' = [req EXCEPT ![r].waitsFor = Running(r)]
  /\ UNCHANGED <<rows, objects, cache, inFlight, acked>>

TimeOut(r) ==
  /\ pc[r] = "Waiting"
  /\ Goto(r, "Next")
  /\ req' = [req EXCEPT ![r].late = TRUE, ![r].waitsFor = None]
  /\ UNCHANGED <<rows, objects, cache, inFlight, acked>>

\* Still running: this delivery is answered 500.
Refuse(r) ==
  /\ Handling(r)
  /\ StateFor(r) = "IN_PROGRESS"
  /\ Running(r) = None \/ req[r].late
  /\ Advance(r, FALSE)
  /\ UNCHANGED <<rows, objects, cache, inFlight, acked>>

-----------------------------------------------------------------------------
(* handleMediaMessage: download, upload, record.                           *)

Download(r) ==
  /\ pc[r] = "Download"
  /\ IF Accepted(Message(r))
     THEN Goto(r, "Upload") /\ UNCHANGED <<cache, inFlight, req>>
     ELSE Complete(r)
  /\ UNCHANGED <<rows, objects, acked>>

DownloadFails(r) ==
  /\ pc[r] = "Download"
  /\ Release(r)
  /\ UNCHANGED <<rows, objects, acked>>

Upload(r) ==
  /\ pc[r] = "Upload"
  /\ CanUpload
  /\ objects' = objects \cup {NewPath}
  /\ req' = [req EXCEPT ![r].path = NewPath]
  /\ Goto(r, "Insert")
  /\ UNCHANGED <<rows, cache, inFlight, acked>>

\* The upload fails or times out; the object may have landed all the same,
\* under a name nobody knows.
UploadFails(r) ==
  /\ pc[r] = "Upload"
  /\ UNCHANGED objects \/ (CanUpload /\ objects' = objects \cup {NewPath})
  /\ Release(r)
  /\ UNCHANGED <<rows, acked>>

\* createTemporaryDocumentRecord: the unique message_id refuses a second row.
Insert(r) ==
  /\ pc[r] = "Insert"
  /\ IF Recorded(Message(r))
     THEN Goto(r, "Drop") /\ UNCHANGED <<rows, cache, inFlight, req>>
     ELSE /\ rows' = rows \cup {[message |-> Message(r), path |-> req[r].path]}
          /\ Complete(r)
  /\ UNCHANGED <<objects, acked>>

\* Not committed, or committed and the answer lost.
InsertFails(r) ==
  /\ pc[r] = "Insert"
  /\ \/ UNCHANGED rows
     \/ /\ ~Recorded(Message(r))
        /\ rows' = rows \cup {[message |-> Message(r), path |-> req[r].path]}
  /\ Goto(r, "Undo")
  /\ UNCHANGED <<objects, cache, inFlight, req, acked>>

\* A second row was refused: this upload is removed, the message is handled.
Drop(r) ==
  /\ pc[r] = "Drop"
  /\ objects' = objects \ {req[r].path}
  /\ Complete(r)
  /\ UNCHANGED <<rows, acked>>

DropFails(r) ==
  /\ pc[r] = "Drop"
  /\ Complete(r)
  /\ UNCHANGED <<rows, objects, acked>>

\* Variant: the upload is left.
UndoNothing(r) ==
  /\ pc[r] = "Undo"
  /\ Release(r)
  /\ UNCHANGED <<rows, objects, acked>>

\* The insert failed: the upload is removed, the message must be retried.
Undo(r) ==
  /\ pc[r] = "Undo"
  /\ objects' = objects \ {req[r].path}
  /\ Release(r)
  /\ UNCHANGED <<rows, acked>>

UndoFails(r) ==
  /\ pc[r] = "Undo"
  /\ Release(r)
  /\ UNCHANGED <<rows, objects, acked>>

-----------------------------------------------------------------------------
(* The process dies; an entry reaches the end of its 24 hours.             *)

Crash(p) ==
  /\ cache' = [cache EXCEPT ![p] = <<>>]
  /\ inFlight' = [inFlight EXCEPT ![p] = [m \in Messages |-> None]]
  /\ pc' = [r \in Requests |-> IF Proc(r) = p THEN "Idle" ELSE pc[r]]
  /\ req' = [r \in Requests |-> IF Proc(r) = p THEN NoRequest ELSE req[r]]
  /\ UNCHANGED <<rows, objects, acked>>

\* No handling runs for 24 hours: only a finished message's entry expires.
Expire(p) ==
  /\ cache[p] # <<>>
  /\ Head(cache[p]).state = "PROCESSED"
  /\ cache' = [cache EXCEPT ![p] = Tail(@)]
  /\ UNCHANGED <<rows, objects, inFlight, pc, req, acked>>

-----------------------------------------------------------------------------

Step(r) ==
  \/ Answer(r) \/ Ignore(r) \/ Claim(r) \/ ClaimPlain(r) \/ Skip(r) \/ Wait(r)
  \/ TimeOut(r) \/ Refuse(r) \/ Download(r) \/ Upload(r) \/ Insert(r) \/ Drop(r) \/ Undo(r)

Fault(r) ==
  \/ AnswerLost(r) \/ DownloadFails(r) \/ UploadFails(r) \/ InsertFails(r)
  \/ DropFails(r) \/ UndoFails(r)

Next ==
  \/ /\ UNCHANGED faults
     /\ \E r \in Requests : Step(r) \/ \E p \in Processes : Send(r, p)
  \/ /\ faults < MaxFaults
     /\ faults' = faults + 1
     /\ (\E r \in Requests : Fault(r)) \/ (\E p \in Processes : Crash(p) \/ Expire(p))

Spec == Init /\ [][Next]_vars

\* A request that can take a step takes one, and Meta sends a delivery again
\* while it has not seen it acknowledged.
Resend(batch) ==
  /\ batch \notin acked
  /\ UNCHANGED faults
  /\ \E r \in Requests, p \in Processes : BatchOf[r] = batch /\ Send(r, p)

FairSpec ==
  /\ Spec
  /\ \A r \in Requests : WF_vars(Step(r) /\ UNCHANGED faults)
  /\ \A batch \in Batches : WF_vars(Resend(batch))

-----------------------------------------------------------------------------
(* Properties.                                                             *)

\* Every variable has its type, and the cache stays within its bound.
TypeOK ==
  /\ rows \subseteq Row
  /\ objects \subseteq Paths
  /\ cache \in [Processes -> Seq(Entry)]
  /\ \A p \in Processes : Len(cache[p]) <= MaxEntries
  /\ inFlight \in [Processes -> [Messages -> Requests \cup {None}]]
  /\ pc \in [Requests -> Call]
  /\ req \in [Requests -> Local]
  /\ acked \subseteq Batches
  /\ faults \in Nat

\* A delivery is acknowledged (200) only when each of its files is in a
\* committed row: Meta does not send it again, so anything else would be
\* lost.  The claims, the waiting, the cache and the answers serve this.
AcknowledgedIsRecorded ==
  \A batch \in acked : \A i \in DOMAIN batch : Accepted(batch[i]) => Recorded(batch[i])

\* Objects in temporary/ no row and no running request knows of.
Strays == objects \ (Filed \cup InHand)

\* Every refused, failed or repeated handling removes what it uploaded: only
\* a failed call, a lost answer or a crash leaves an unknown object behind.
NothingLeftBehind == [][UNCHANGED faults => Strays' \subseteq Strays]_vars

\* A process never handles one message twice at once (the claim before any
\* download), as long as the cache has room for the messages that arrive
\* while one is being handled.
OneAtATime ==
  \A r, q \in Requests :
    r # q /\ pc[r] \in Call \ {"Idle", "Next", "Waiting"} /\ pc[q] \in Call \ {"Idle", "Next", "Waiting"}
          /\ Proc(r) = Proc(q)
      => Message(r) # Message(q)

\* The file of a recorded submission is in temporary/: the row and the file
\* are the durable job the worker will find (comment above
\* handleMediaMessage).
RowHasFile == \A row \in rows : row.path \in objects

\* Every delivery is acknowledged in the end: no wait, claim or failure keeps
\* a message from being recorded once calls stop failing.
Delivered == \A batch \in Batches : <>(batch \in acked)
=============================================================================
