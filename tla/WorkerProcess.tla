---------------------------- MODULE WorkerProcess ----------------------------
(***************************************************************************)
(* The life of an application process: the loops of the background worker  *)
(* (startSubmissionWorker) with their waking, polling and OCR slots, and   *)
(* the shutdown (shutdown.js) with its two deadlines, which hands running  *)
(* submissions back; and the processes that follow it.                     *)
(*                                                                         *)
(* The row of a submission is reduced to who has claimed it and how often; *)
(* SubmissionWorker shows the claim and the writes of an attempt call by   *)
(* call.  Of the renewals of a claim one per attempt is kept, because what *)
(* stop() hands back depends on it.  An OCR job that is slow, or a request *)
(* that hangs, is one whose next step does not come before a deadline.     *)
(***************************************************************************)
EXTENDS ConcurrencyLimiter

CONSTANTS
  Submissions,     \* numbered in the order of created_date
  Backlog,         \* those of them that are waiting when the first process starts
  MaxAttempts,     \* maxAttempts
  MaxRuns,         \* bound of the model: processes started one after another
  MaxFaults        \* bound of the model: failed calls and crashes

Loops == Callers

VARIABLES
  row,        \* temporary_data: [Submissions -> Row]
  serving,    \* submissions whose webhook request is open
  loop,       \* per loop: what it does next
  job,        \* per loop: the submission it has claimed
  attempt,    \* per loop: processingAttempts of the row it has claimed, in memory
  claims,     \* activeClaims: loops whose claim is in it
  stop,       \* how far the shutdown is
  toRelease,  \* the claims stop() is releasing, <<loop, submission>>
  runs, faults,
  kept        \* history: submissions of this process that stop() could not hand back

worker == <<loop, job, attempt, claims>>
vars == <<limiter, row, serving, worker, stop, toRelease, runs, faults, kept>>

None == "none"
\* A row is claimable when nobody owns it; "delayed": back-dated, claimable soon.
Row == [state : {"absent", "received", "done"}, owner : Loops \cup {None, "delayed"}, attempts : Nat]
\* "Renewing": the row's lease has a new start and the attempt does not know it yet;
\* "Lost": they no longer agree on the start.
Step == {"Claim", "Claimed", "Load", "Ocr", "Finish", "Renewing", "Lost", "Record", "Sleep", "Asleep", "Ended"}
\* "waiting" and "releasing" are in worker.stop(), "stopped" after it, "down" without a process.
Stop == {"up", "waiting", "releasing", "stopped", "down"}

ASSUME WorkerAssumption ==
  /\ Submissions \subseteq Nat \ {0} /\ Backlog \subseteq Submissions
  /\ {None, "delayed"} \cap Loops = {}
  /\ MaxAttempts \in Nat /\ MaxRuns \in Nat /\ MaxFaults \in Nat

Init ==
  /\ LimiterInit
  /\ row = [s \in Submissions |-> [state |-> IF s \in Backlog THEN "received" ELSE "absent",
                                  owner |-> None, attempts |-> 0]]
  /\ serving = {}
  /\ loop = [l \in Loops |-> "Claim"]
  /\ job = [l \in Loops |-> 0]
  /\ attempt = [l \in Loops |-> 0]
  /\ claims = {}
  /\ stop = "up"
  /\ toRelease = {}
  /\ runs = 1 /\ faults = 0
  /\ kept = {}

stopped == stop # "up"
Alive == stop # "down"

\* A loop that goes on tests `stopped` before it asks for a submission.
GoesOn == IF stopped THEN "Ended" ELSE "Claim"
\* wakeAll: each sleeping loop is in `waiters`.
Woken(next) == [l \in Loops |-> IF loop[l] = "Asleep" THEN next ELSE loop[l]]
Goto(l, step) == loop' = [loop EXCEPT ![l] = step]

-----------------------------------------------------------------------------
(* The webhook's part. *)

\* server.close() accepts no more requests.
Receive(s) ==
  /\ stop = "up" /\ row[s].state = "absent"
  /\ serving' = serving \cup {s}
  /\ UNCHANGED <<limiter, row, worker, stop, toRelease, kept>>

Record(s) ==
  /\ s \in serving /\ row[s].state = "absent"
  /\ row' = [row EXCEPT ![s].state = "received"]
  /\ UNCHANGED <<limiter, serving, worker, stop, toRelease, kept>>

\* RetryableMessageError: answered with 500, so Meta sends the message again.
NotRecorded(s) ==
  /\ s \in serving /\ row[s].state = "absent"
  /\ serving' = serving \ {s}
  /\ UNCHANGED <<limiter, row, worker, stop, toRelease, kept>>

\* notifySubmissionQueued, once the insert has answered; stop() has taken the
\* listener away.
Notify(s) ==
  /\ s \in serving /\ row[s].state # "absent"
  /\ loop' = IF stopped THEN loop ELSE Woken("Claim")
  /\ serving' = serving \ {s}
  /\ UNCHANGED <<limiter, row, job, attempt, claims, stop, toRelease, kept>>

-----------------------------------------------------------------------------
(* A loop of the worker *)

Claimable == {s \in Submissions : row[s].state = "received" /\ row[s].owner = None}
Oldest == {s \in Claimable : \A t \in Claimable : s <= t}

Claimed(s, l) == [row EXCEPT ![s].owner = l, ![s].attempts = @ + 1]

\* claimNextSubmission; its answer is on the way.
Claim(l) ==
  /\ loop[l] = "Claim"
  /\ \E s \in Oldest :
       /\ row' = Claimed(s, l)
       /\ job' = [job EXCEPT ![l] = s]
       /\ attempt' = [attempt EXCEPT ![l] = row[s].attempts + 1]
  /\ Goto(l, "Claimed")
  /\ UNCHANGED <<limiter, serving, claims, stop, toRelease, kept>>

ClaimNone(l) ==
  /\ loop[l] = "Claim" /\ Claimable = {}
  /\ Goto(l, "Sleep")
  /\ UNCHANGED <<limiter, row, serving, job, attempt, claims, stop, toRelease, kept>>

\* The call fails, perhaps after the claim was made: the loop logs it and sleeps.
ClaimFails(l) ==
  /\ loop[l] = "Claim"
  /\ \/ UNCHANGED row
     \/ \E s \in Oldest : row' = Claimed(s, l)
  /\ Goto(l, "Sleep")
  /\ UNCHANGED <<limiter, serving, job, attempt, claims, stop, toRelease, kept>>

Holds(l, s) == row[s].state = "received" /\ row[s].owner = l
\* claim.where(): the start of the lease is the one this attempt has in memory.
Owns(l, s) == Holds(l, s) /\ loop[l] \notin {"Renewing", "Lost"}
Done(l) == IF Owns(l, job[l]) THEN [row EXCEPT ![job[l]].state = "done"] ELSE row
EndJob(l, step) ==
  /\ claims' = claims \ {l}
  /\ job' = [job EXCEPT ![l] = 0]
  /\ attempt' = [attempt EXCEPT ![l] = 0]
  /\ Goto(l, step)

\* processClaimedSubmission adds its claim to activeClaims and loads the file.
\* stop() may have gone through activeClaims by then.
Start(l) ==
  /\ loop[l] = "Claimed" /\ attempt[l] <= MaxAttempts
  /\ claims' = claims \cup {l}
  /\ Goto(l, "Load")
  /\ kept' = IF stop \in {"releasing", "stopped"} THEN kept \cup {job[l]} ELSE kept
  /\ UNCHANGED <<limiter, row, serving, job, attempt, stop, toRelease>>

\* giveUp: the row is recorded as FAILED, if it is still this attempt's.
GiveUp(l) ==
  /\ loop[l] = "Claimed" /\ attempt[l] > MaxAttempts
  /\ row' = Done(l)
  /\ EndJob(l, GoesOn)
  /\ UNCHANGED <<limiter, serving, stop, toRelease, kept>>

\* Loaded: an image or a scanned PDF needs OCR, another PDF does not.
NeedsOcr(l) ==
  /\ loop[l] = "Load"
  /\ Enter(l) \/ Queue(l)
  /\ Goto(l, "Ocr")
  /\ UNCHANGED <<row, serving, job, attempt, claims, stop, toRelease, kept>>

OcrBusy(l) ==
  /\ loop[l] = "Load"
  /\ Refuse(l)
  /\ Goto(l, "Finish")
  /\ UNCHANGED <<row, serving, job, attempt, claims, stop, toRelease, kept>>

NeedsNoOcr(l) ==
  /\ loop[l] = "Load"
  /\ Goto(l, "Finish")
  /\ UNCHANGED <<limiter, row, serving, job, attempt, claims, stop, toRelease, kept>>

\* The storage is out: tried again later, or given up after the last attempt.
LoadFails(l) ==
  /\ loop[l] = "Load"
  /\ \/ /\ attempt[l] >= MaxAttempts
        /\ row' = Done(l) /\ EndJob(l, GoesOn)
     \/ /\ attempt[l] < MaxAttempts /\ Owns(l, job[l])
        /\ row' = [row EXCEPT ![job[l]].owner = "delayed"]
        /\ EndJob(l, "Sleep")
     \/ /\ attempt[l] < MaxAttempts /\ ~Owns(l, job[l])
        /\ UNCHANGED row /\ EndJob(l, GoesOn)
  /\ UNCHANGED <<limiter, serving, stop, toRelease, kept>>

\* The text is read, or the attempt at it ends with an error; the pipeline goes
\* on either way.
OcrEnds(l) ==
  /\ loop[l] = "Ocr"
  /\ Leave(l)
  /\ Goto(l, "Finish")
  /\ UNCHANGED <<row, serving, job, attempt, claims, stop, toRelease, kept>>

\* WAIT_TIMEOUT: no slot came free in time, and the pipeline goes on without text.
OcrTimesOut(l) ==
  /\ TimeOut(l)
  /\ loop' = IF loop[l] = "Ocr" /\ slot[l] = "waiting" THEN [loop EXCEPT ![l] = "Finish"] ELSE loop
  /\ UNCHANGED <<row, serving, job, attempt, claims, stop, toRelease, kept>>

\* renew(): the row has its new start before the answer tells the attempt of it.
Renew(l) ==
  /\ loop[l] = "Finish" /\ Owns(l, job[l])
  /\ Goto(l, "Renewing")
  /\ UNCHANGED <<limiter, row, serving, job, attempt, claims, stop, toRelease, kept>>

Renewed(l) ==
  /\ loop[l] = "Renewing"
  /\ Goto(l, "Record")
  /\ UNCHANGED <<limiter, row, serving, job, attempt, claims, stop, toRelease, kept>>

\* Nothing was renewed; or the answer is lost, or the transaction the renewal
\* was in is rolled back after it.
RenewFails(l) ==
  /\ loop[l] = "Renewing"
  /\ Goto(l, "Record") \/ Goto(l, "Lost")
  /\ UNCHANGED <<limiter, row, serving, job, attempt, claims, stop, toRelease, kept>>

\* The rest of the pipeline, whose last write is conditional on the claim.
Finish(l) ==
  /\ loop[l] \in {"Finish", "Record", "Lost"}
  /\ row' = Done(l)
  /\ EndJob(l, GoesOn)
  /\ UNCHANGED <<limiter, serving, stop, toRelease, kept>>

Sleep(l) ==
  /\ loop[l] = "Sleep"
  /\ Goto(l, IF stopped THEN "Ended" ELSE "Asleep")
  /\ UNCHANGED <<limiter, row, serving, job, attempt, claims, stop, toRelease, kept>>

\* Variant: loops sleep until they are notified.
PollNever(l) == FALSE /\ UNCHANGED vars

\* The timer of sleep(), pollMs.
Poll(l) ==
  /\ loop[l] = "Asleep"
  /\ Goto(l, GoesOn)
  /\ UNCHANGED <<limiter, row, serving, job, attempt, claims, stop, toRelease, kept>>

\* A lease runs out, also while its attempt is still running; but not between
\* the claim and the first step after it.
LeaseOver(s) ==
  /\ row[s].state = "received" /\ row[s].owner # None
  /\ \A l \in Loops : loop[l] = "Claimed" => job[l] # s
  /\ row' = [row EXCEPT ![s].owner = None]
  /\ UNCHANGED <<limiter, serving, worker, stop, toRelease, kept>>

-----------------------------------------------------------------------------
(* Shutdown *)

\* SIGTERM or SIGINT: server.close(), and stop() of the worker, which wakes
\* its loops.
Signal ==
  /\ stop = "up"
  /\ stop' = "waiting"
  /\ loop' = Woken("Ended")
  /\ UNCHANGED <<limiter, row, serving, job, attempt, claims, toRelease, kept>>

AllEnded == \A l \in Loops : loop[l] = "Ended"
LoopsSettled ==
  /\ stop = "waiting" /\ AllEnded
  /\ stop' = "stopped"
  /\ UNCHANGED <<limiter, row, serving, worker, toRelease, kept>>

\* WORKER_STOP_MS have passed.
StopTimesOut ==
  /\ stop = "waiting" /\ ~AllEnded
  /\ stop' = "releasing"
  /\ toRelease' = {<<l, job[l]>> : l \in claims}
  /\ UNCHANGED <<limiter, row, serving, worker, kept>>

\* release() of one claim: claimable again soon, and not counted.
Released(l, s) ==
  IF job[l] = s /\ Owns(l, s) THEN [row EXCEPT ![s].owner = "delayed", ![s].attempts = @ - 1] ELSE row

\* Beside a renewal that is not answered, or after one that went wrong, it
\* matches no row.
Release(l, s) ==
  /\ stop = "releasing" /\ <<l, s>> \in toRelease
  /\ row' = Released(l, s)
  /\ toRelease' = toRelease \ {<<l, s>>}
  /\ kept' = IF job[l] = s /\ loop[l] \in {"Renewing", "Lost"} THEN kept \cup {s} ELSE kept
  /\ UNCHANGED <<limiter, serving, worker, stop>>

\* "Background job not released at shutdown (its lease runs out instead)".
ReleaseFails(l, s) ==
  /\ stop = "releasing" /\ <<l, s>> \in toRelease
  /\ toRelease' = toRelease \ {<<l, s>>}
  /\ row' \in {row, Released(l, s)}
  /\ kept' = kept \cup {s}
  /\ UNCHANGED <<limiter, serving, worker, stop>>

\* Variant: stop() does not wait for the releases it started.
NotAwaited ==
  /\ stop = "releasing"
  /\ stop' = "stopped"
  /\ UNCHANGED <<limiter, row, serving, worker, toRelease, kept>>

AllReleased ==
  /\ stop = "releasing" /\ toRelease = {}
  /\ stop' = "stopped"
  /\ UNCHANGED <<limiter, row, serving, worker, toRelease, kept>>

\* The process is gone with all it had in memory.
Gone ==
  /\ Reset
  /\ stop' = "down"
  /\ serving' = {} /\ claims' = {} /\ toRelease' = {}
  /\ loop' = [l \in Loops |-> "Ended"]
  /\ job' = [l \in Loops |-> 0]
  /\ attempt' = [l \in Loops |-> 0]
  /\ UNCHANGED row

\* The server has closed, the worker has stopped, the database is disconnected.
Exit ==
  /\ stop = "stopped" /\ serving = {}
  /\ Gone /\ UNCHANGED kept

\* Variant: the deadline no longer holds once the worker has stopped.
HardStopEarly ==
  /\ stop = "releasing"
  /\ Gone /\ UNCHANGED kept

\* SHUTDOWN_DEADLINE_MS have passed, which are more than WORKER_STOP_MS.
HardStop ==
  /\ stop \in {"releasing", "stopped"}
  /\ Gone /\ UNCHANGED kept

Crash == Alive /\ Gone /\ UNCHANGED kept

\* The next process.
Boot ==
  /\ stop = "down"
  /\ stop' = "up"
  /\ loop' = [l \in Loops |-> "Claim"]
  /\ kept' = {}
  /\ UNCHANGED <<limiter, row, serving, job, attempt, claims, toRelease>>

-----------------------------------------------------------------------------
LoopStep(l) ==
  \/ Claim(l) \/ ClaimNone(l) \/ Start(l) \/ GiveUp(l)
  \/ NeedsOcr(l) \/ OcrBusy(l) \/ NeedsNoOcr(l) \/ OcrEnds(l) \/ OcrTimesOut(l)
  \/ Renew(l) \/ Renewed(l) \/ Finish(l) \/ Sleep(l)
FaultStep(l) == ClaimFails(l) \/ LoadFails(l) \/ RenewFails(l) \/ \E s \in Submissions : ReleaseFails(l, s)
Crashes == runs < MaxRuns /\ Crash
WebhookStep(s) == Receive(s) \/ Record(s) \/ NotRecorded(s) \/ Notify(s)
Releasing == \E l \in Loops, s \in Submissions : Release(l, s)
Stopping == LoopsSettled \/ StopTimesOut \/ Releasing \/ AllReleased \/ Exit \/ HardStop

Next ==
  \/ /\ UNCHANGED <<runs, faults>>
     /\ \/ \E l \in Loops : LoopStep(l) \/ Poll(l)
        \/ \E s \in Submissions : WebhookStep(s) \/ LeaseOver(s)
        \/ Stopping
  \/ faults < MaxFaults /\ faults' = faults + 1 /\ ((\E l \in Loops : FaultStep(l)) \/ Crashes) /\ UNCHANGED runs
  \/ runs < MaxRuns /\ Signal /\ UNCHANGED <<runs, faults>>
  \/ runs < MaxRuns /\ Boot /\ runs' = runs + 1 /\ UNCHANGED faults

Spec == Init /\ [][Next]_vars

\* What surely happens: a loop whose call is answered goes on (calls to the
\* storage and OCR jobs end by their time-outs), timers fire, leases run out,
\* and a process that ended is started again.  Nothing is assumed of requests,
\* of release() and of the way out that waits for them.
FairSpec ==
  /\ Spec
  /\ \A l \in Loops :
       /\ WF_vars(LoopStep(l) /\ UNCHANGED <<runs, faults>>)
       /\ WF_vars(Poll(l) /\ UNCHANGED <<runs, faults>>)
  /\ \A s \in Submissions : WF_vars(LeaseOver(s) /\ UNCHANGED <<runs, faults>>)
  /\ WF_vars((LoopsSettled \/ StopTimesOut) /\ UNCHANGED <<runs, faults>>)
  /\ WF_vars(HardStop /\ UNCHANGED <<runs, faults>>)
  /\ WF_vars(Boot /\ runs < MaxRuns /\ runs' = runs + 1 /\ UNCHANGED faults)

-----------------------------------------------------------------------------
(* Properties *)

TypeOK ==
  /\ maxWaiting \in Nat /\ active \in Nat
  /\ waiting \in Seq(Loops)
  /\ timers \subseteq Loops
  /\ slot \in [Loops -> {"out", "waiting", "running"}]
  /\ row \in [Submissions -> Row]
  /\ serving \subseteq Submissions
  /\ loop \in [Loops -> Step]
  /\ job \in [Loops -> Submissions \cup {0}]
  /\ attempt \in [Loops -> Nat]
  /\ claims \subseteq Loops
  /\ stop \in Stop
  /\ toRelease \subseteq Loops \X Submissions
  /\ runs \in Nat /\ faults \in Nat
  /\ kept \subseteq Submissions

\* When stop() returns, each submission it found running is finished or handed
\* back (submissionQueue.js: "any still running then are released"), apart from
\* those it says it could not release, those claimed by a call that was still
\* on its way, and those whose renewal was not answered or went wrong.
HandedBack ==
  stop = "stopped" =>
    \A l \in claims : Holds(l, job[l]) => job[l] \in kept

\* Every recorded submission is processed or given up in the end, whatever is
\* not notified, is interrupted or outlives its lease (whatsapp.js: "The row is
\* committed; the worker's poll picks it up anyway").
Processed == \A s \in Submissions : row[s].state = "received" ~> row[s].state = "done"

\* A shutdown ends, whatever hangs (shutdown.js: "Everything here ends before
\* that ... it exits anyway").
Exits == stop = "waiting" ~> stop = "down"
=============================================================================
