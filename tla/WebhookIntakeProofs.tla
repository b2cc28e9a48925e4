------------------------- MODULE WebhookIntakeProofs -------------------------
(***************************************************************************)
(* Proofs about WebhookIntake, for any number of messages, requests and    *)
(* processes, any size of the cache and any number of faults: the types,   *)
(* that a delivery is acknowledged only when its files are recorded, that  *)
(* only faults leave unknown objects behind, and that a process handles a  *)
(* message once at a time while its cache has room.                        *)
(***************************************************************************)
EXTENDS WebhookIntake, TLAPS, SequenceTheorems, FiniteSetTheorems

\* What a message must have left behind when it counts as handled.
Done(m) == Accepted(m) => Recorded(m)

\* A request in a call has a process, a message of its delivery and, once it
\* has uploaded, the name of its object.
InBounds ==
  \A r \in Requests :
    /\ pc[r] # "Idle" => req[r].proc \in Processes
    /\ pc[r] \notin {"Idle", "Next"} => req[r].at \in DOMAIN BatchOf[r]
    /\ pc[r] \in {"Insert", "Drop", "Undo"} => req[r].path \in Paths

Types == TypeOK /\ InBounds

-----------------------------------------------------------------------------
(* The cache operators.                                                    *)

\* Removing the entry of a message leaves entries that were there before.
LEMMA WithoutType ==
  ASSUME NEW S, NEW c \in Seq(S), NEW m
  PROVE  Without(c, m) \in Seq(S) /\ Len(Without(c, m)) <= Len(c)
<1>1. CASE ~ \E k \in DOMAIN c : c[k].id = m
  BY <1>1, LenProperties DEF Without
<1>2. CASE \E k \in DOMAIN c : c[k].id = m
  <2> DEFINE k == CHOOSE k \in DOMAIN c : c[k].id = m
  <2>1. k \in 1..Len(c) /\ Len(c) \in Nat
    BY <1>2, LenProperties
  <2> HIDE DEF k
  <2>2. \A i \in 1..Len(c) : c[i] \in S
    BY LenProperties
  <2>3. /\ SubSeq(c, 1, k - 1) \in Seq(S)
        /\ Len(SubSeq(c, 1, k - 1)) = k - 1
    <3>1. \A i \in 1..(k - 1) : c[i] \in S
      BY <2>1, <2>2
    <3>2. Len(SubSeq(c, 1, k - 1)) = IF 1 <= k - 1 THEN (k - 1) - 1 + 1 ELSE 0
      BY <3>1, <2>1, SubSeqProperties
    <3> QED BY <3>1, <3>2, <2>1, SubSeqProperties
  <2>4. /\ SubSeq(c, k + 1, Len(c)) \in Seq(S)
        /\ Len(SubSeq(c, k + 1, Len(c))) = Len(c) - k
    <3>1. \A i \in (k + 1)..Len(c) : c[i] \in S
      BY <2>1, <2>2
    <3>2. Len(SubSeq(c, k + 1, Len(c))) = IF k + 1 <= Len(c) THEN Len(c) - (k + 1) + 1 ELSE 0
      BY <3>1, <2>1, SubSeqProperties
    <3> QED BY <3>1, <3>2, <2>1, SubSeqProperties
  <2>5. /\ RemoveAt(c, k) \in Seq(S)
        /\ Len(RemoveAt(c, k)) = (k - 1) + (Len(c) - k)
    BY <2>3, <2>4, ConcatProperties DEF RemoveAt
  <2>6. Without(c, m) = RemoveAt(c, k)
    BY <1>2 DEF Without, k
  <2> QED BY <2>1, <2>5, <2>6
<1> QED BY <1>1, <1>2

\* Putting an entry leaves the old entries and the new one, within the bound.
LEMMA PutType ==
  ASSUME NEW S, NEW c \in Seq(S), Len(c) <= MaxEntries,
         NEW m, NEW state, [id |-> m, state |-> state] \in S
  PROVE  Put(c, m, state) \in Seq(S) /\ Len(Put(c, m, state)) <= MaxEntries
<1> DEFINE e == [id |-> m, state |-> state]
           longer == Append(Without(c, m), e)
<1>1. Without(c, m) \in Seq(S) /\ Len(Without(c, m)) <= Len(c)
  BY WithoutType
<1>2. Len(c) \in Nat /\ Len(Without(c, m)) \in Nat /\ MaxEntries \in Nat \ {0}
  BY <1>1, LenProperties, CacheHoldsOne
<1>3. longer \in Seq(S) /\ longer # <<>> /\ Len(longer) = Len(Without(c, m)) + 1
  BY <1>1, AppendProperties
<1>4. Tail(longer) \in Seq(S) /\ Len(Tail(longer)) = Len(longer) - 1
  BY <1>3, HeadTailProperties
<1>5. Put(c, m, state) = IF Len(longer) > MaxEntries THEN Tail(longer) ELSE longer
  BY DEF Put
<1> HIDE DEF longer
<1> QED BY <1>1, <1>2, <1>3, <1>4, <1>5

\* What a cache says of a message is in one of its entries.
LEMMA StateOfEntry ==
  ASSUME NEW S, NEW c \in Seq(S), NEW m, StateOf(c, m) # None
  PROVE  \E e \in S : e.id = m /\ e.state = StateOf(c, m)
<1>1. \E k \in DOMAIN c : c[k].id = m
  BY DEF StateOf
<1> DEFINE k == CHOOSE k \in DOMAIN c : c[k].id = m
<1>2. k \in DOMAIN c /\ c[k].id = m
  BY <1>1
<1>3. StateOf(c, m) = c[k].state
  BY <1>1 DEF StateOf
<1> HIDE DEF k
<1>4. c[k] \in S
  BY <1>2, LenProperties
<1> QED BY <1>2, <1>3, <1>4

-----------------------------------------------------------------------------
(* Types.                                                                  *)

\* The current message of a request within its delivery is a message.
LEMMA MessageType ==
  ASSUME TypeOK, NEW r \in Requests, req[r].at <= Len(BatchOf[r])
  PROVE  req[r].at \in DOMAIN BatchOf[r] /\ Message(r) \in Messages
<1>1. BatchOf[r] \in Seq(Messages) /\ req[r].at \in Nat \ {0}
  BY BatchIsBatch DEF TypeOK, Local
<1>2. req[r].at \in 1..Len(BatchOf[r])
  BY <1>1, LenProperties
<1> QED BY <1>1, <1>2, LenProperties DEF Message

\* A request in a call has a process and a message.
LEMMA CallType ==
  ASSUME Types, NEW r \in Requests, pc[r] \notin {"Idle", "Next"}
  PROVE  /\ Proc(r) \in Processes
         /\ Message(r) \in Messages
<1>1. req[r].at \in DOMAIN BatchOf[r] /\ Proc(r) \in Processes
  BY DEF Types, InBounds, Proc
<1>2. BatchOf[r] \in Seq(Messages)
  BY BatchIsBatch
<1> QED BY <1>1, <1>2, LenProperties DEF Message

\* Going on with the next message keeps the request's state typed.
LEMMA AdvancedType ==
  ASSUME NEW local \in Local, NEW handled \in BOOLEAN
  PROVE  /\ Advanced(local, handled) \in Local
         /\ Advanced(local, handled).proc = local.proc
         /\ Advanced(local, handled).at = local.at + 1
         /\ Advanced(local, handled).ok = (local.ok /\ handled)
<1> DEFINE ok == local.ok /\ handled
<1>1. ok \in BOOLEAN
  OBVIOUS
<1>2. Advanced(local, handled) =
        [local EXCEPT !.at = @ + 1, !.ok = ok, !.late = FALSE, !.waitsFor = None, !.path = None]
  BY DEF Advanced
<1> HIDE DEF ok
<1>3. local.proc \in Processes \cup {None} /\ local.at + 1 \in Nat \ {0}
  BY DEF Local
<1>4. Advanced(local, handled) =
        [proc |-> local.proc, at |-> local.at + 1, ok |-> ok, late |-> FALSE,
         waitsFor |-> None, path |-> None]
  BY <1>2 DEF Local
<1>5. Advanced(local, handled) \in Local /\ Advanced(local, handled).ok = ok
  BY <1>1, <1>3, <1>4 DEF Local
<1> QED BY <1>4, <1>5 DEF ok

\* A new cache of one process, within the bound, keeps the caches typed.
LEMMA CacheType ==
  ASSUME TypeOK, NEW p \in Processes, NEW c \in Seq(Entry), Len(c) <= MaxEntries,
         cache' = [cache EXCEPT ![p] = c]
  PROVE  cache' \in [Processes -> Seq(Entry)] /\ \A q \in Processes : Len(cache'[q]) <= MaxEntries
BY DEF TypeOK

\* The end of a handling keeps the types.
LEMMA SettleType ==
  ASSUME Types, NEW r \in Requests, pc[r] \notin {"Idle", "Next"}, NEW handled \in BOOLEAN,
         NEW c \in Seq(Entry), Len(c) <= MaxEntries, Settle(r, handled, c),
         rows' \subseteq Row, objects' \subseteq Paths, acked' = acked, faults' \in Nat
  PROVE  Types'
<1>1. Proc(r) \in Processes /\ Message(r) \in Messages
  BY CallType
<1>2. cache' \in [Processes -> Seq(Entry)] /\ \A q \in Processes : Len(cache'[q]) <= MaxEntries
  BY <1>1, CacheType DEF Types, Settle
<1>3. inFlight' \in [Processes -> [Messages -> Requests \cup {None}]]
  BY <1>1 DEF Types, TypeOK, Settle
<1>4. pc' \in [Requests -> Call]
  BY DEF Types, TypeOK, Settle, Call
<1>5. req' \in [Requests -> Local]
  <2>1. SUFFICES ASSUME NEW q \in Requests PROVE req'[q] \in Local
    BY DEF Settle
  <2>2. req[q] \in Local
    BY DEF Types, TypeOK
  <2>3. CASE q = r
    BY <2>2, <2>3, AdvancedType DEF Settle
  <2>4. CASE q # r
    BY <2>2, <2>4 DEF Settle, Local
  <2> QED BY <2>3, <2>4
<1>6. InBounds'
  <2>1. SUFFICES ASSUME NEW q \in Requests
                 PROVE  /\ pc'[q] # "Idle" => req'[q].proc \in Processes
                        /\ pc'[q] \notin {"Idle", "Next"} => req'[q].at \in DOMAIN BatchOf[q]
                        /\ pc'[q] \in {"Insert", "Drop", "Undo"} => req'[q].path \in Paths
    BY DEF InBounds
  <2>2. req[q] \in Local /\ req[r] \in Local
    BY DEF Types, TypeOK
  <2>3. CASE q = r
    BY <1>1, <2>2, <2>3, AdvancedType DEF Settle, Proc
  <2>4. CASE q # r /\ pc[q] = "Waiting" /\ req[q].waitsFor = r
    <3>1. pc'[q] = "Next" /\ req'[q].proc = req[q].proc
      BY <2>2, <2>4 DEF Settle, Local
    <3> QED BY <2>4, <3>1 DEF Types, InBounds
  <2>5. CASE q # r /\ ~(pc[q] = "Waiting" /\ req[q].waitsFor = r)
    BY <2>5 DEF Types, InBounds, Settle
  <2> QED BY <2>3, <2>4, <2>5
<1> QED BY <1>2, <1>3, <1>4, <1>5, <1>6 DEF Types, TypeOK

\* Complete and Release end a handling with a cache of the right type.
LEMMA CompleteType ==
  ASSUME Types, NEW r \in Requests, pc[r] \notin {"Idle", "Next"}, Complete(r) \/ Release(r),
         rows' \subseteq Row, objects' \subseteq Paths, acked' = acked, faults' \in Nat
  PROVE  Types'
<1>1. Proc(r) \in Processes /\ Message(r) \in Messages
  BY CallType
<1>2. cache[Proc(r)] \in Seq(Entry) /\ Len(cache[Proc(r)]) <= MaxEntries /\ Len(cache[Proc(r)]) \in Nat
  BY <1>1, LenProperties DEF Types, TypeOK
<1>3. CASE Complete(r)
  <2>1. [id |-> Message(r), state |-> "PROCESSED"] \in Entry
    BY <1>1 DEF Entry, MESSAGE_STATE
  <2>2. Put(cache[Proc(r)], Message(r), "PROCESSED") \in Seq(Entry)
    BY <1>2, <2>1, PutType
  <2>3. Len(Put(cache[Proc(r)], Message(r), "PROCESSED")) <= MaxEntries
    BY <1>2, <2>1, PutType
  <2> QED BY <1>3, <2>2, <2>3, SettleType DEF Complete
<1>4. CASE Release(r)
  <2>1. Without(cache[Proc(r)], Message(r)) \in Seq(Entry)
    BY <1>2, WithoutType
  <2>2. Len(Without(cache[Proc(r)], Message(r))) <= MaxEntries
    BY <1>2, <2>1, WithoutType, LenProperties, CacheHoldsOne
  <2> QED BY <1>4, <2>1, <2>2, SettleType DEF Release
<1> QED BY <1>3, <1>4

\* Only this request's place and state change, and they stay typed.
LEMMA OwnStepType ==
  ASSUME Types, NEW r \in Requests, NEW call \in Call, NEW local \in Local,
         pc' = [pc EXCEPT ![r] = call], req' = [req EXCEPT ![r] = local],
         call # "Idle" => local.proc \in Processes,
         call \notin {"Idle", "Next"} => local.at \in DOMAIN BatchOf[r],
         call \in {"Insert", "Drop", "Undo"} => local.path \in Paths
  PROVE  pc' \in [Requests -> Call] /\ req' \in [Requests -> Local] /\ InBounds'
BY DEF Types, TypeOK, InBounds

\* Going on with the next message keeps place and state typed.
LEMMA AdvanceType ==
  ASSUME Types, NEW r \in Requests, pc[r] # "Idle", NEW handled \in BOOLEAN, Advance(r, handled)
  PROVE  pc' \in [Requests -> Call] /\ req' \in [Requests -> Local] /\ InBounds'
<1>1. req[r] \in Local /\ req[r].proc \in Processes
  BY DEF Types, TypeOK, InBounds
<1> DEFINE local == Advanced(req[r], handled)
<1>2. local \in Local /\ local.proc \in Processes
  BY <1>1, AdvancedType
<1>3. pc' = [pc EXCEPT ![r] = "Next"] /\ req' = [req EXCEPT ![r] = local]
  BY DEF Advance, Goto
<1> HIDE DEF local
<1> QED BY <1>2, <1>3, OwnStepType DEF Call

\* Every action keeps the types.
LEMMA TypesStep ==
  ASSUME Types, [Next]_vars
  PROVE  Types'
<1> USE DEF Call
<1>1. CASE UNCHANGED vars
  BY <1>1 DEF vars, Types, TypeOK, InBounds
<1>2. ASSUME NEW r \in Requests, Step(r) \/ Fault(r), faults' \in Nat
      PROVE  Types'
  <2>0. /\ req[r] \in Local /\ NoRequest \in Local
        /\ pc[r] # "Idle" => req[r].proc \in Processes
    BY DEF Types, TypeOK, InBounds, NoRequest, Opened, Local
  <2>1. CASE Answer(r) \/ AnswerLost(r)
    <3>1. pc' = [pc EXCEPT ![r] = "Idle"] /\ req' = [req EXCEPT ![r] = NoRequest]
      BY <2>1 DEF Answer, AnswerLost, Goto
    <3>2. acked' \subseteq Batches
      BY <2>1 DEF Answer, AnswerLost, Types, TypeOK, Batches
    <3>3. UNCHANGED <<rows, objects, cache, inFlight>>
      BY <2>1 DEF Answer, AnswerLost
    <3>4. pc' \in [Requests -> Call] /\ req' \in [Requests -> Local] /\ InBounds'
      BY <2>0, <3>1, OwnStepType
    <3> QED BY <1>2, <3>2, <3>3, <3>4 DEF Types, TypeOK
  <2>2. CASE Ignore(r) \/ Skip(r) \/ Refuse(r)
    <3>1. UNCHANGED <<rows, objects, cache, inFlight, acked>>
      BY <2>2 DEF Ignore, Skip, Refuse
    <3>2. pc' \in [Requests -> Call] /\ req' \in [Requests -> Local] /\ InBounds'
      BY <2>2, AdvanceType DEF Ignore, Skip, Refuse, Handling
    <3> QED BY <1>2, <3>1, <3>2 DEF Types, TypeOK
  <2>3. CASE Claim(r) \/ ClaimPlain(r)
    <3>1. pc[r] = "Next" /\ req[r].at <= Len(BatchOf[r])
      BY <2>3 DEF Claim, ClaimPlain, MayClaim, Handling
    <3>2. req[r].at \in DOMAIN BatchOf[r] /\ Message(r) \in Messages /\ Proc(r) \in Processes
      BY <2>0, <3>1, MessageType DEF Types, Proc
    <3>3. cache[Proc(r)] \in Seq(Entry) /\ Len(cache[Proc(r)]) <= MaxEntries
      BY <3>2 DEF Types, TypeOK
    <3>4. \A state \in MESSAGE_STATE : [id |-> Message(r), state |-> state] \in Entry
      BY <3>2 DEF Entry
    <3>5. \A state \in MESSAGE_STATE :
            /\ Put(cache[Proc(r)], Message(r), state) \in Seq(Entry)
            /\ Len(Put(cache[Proc(r)], Message(r), state)) <= MaxEntries
      BY <3>3, <3>4, PutType
    <3>6. CASE Claim(r)
      <4>1. cache' \in [Processes -> Seq(Entry)] /\ \A q \in Processes : Len(cache'[q]) <= MaxEntries
        BY <3>2, <3>5, <3>6, CacheType DEF Claim, Types, MESSAGE_STATE
      <4>2. inFlight' \in [Processes -> [Messages -> Requests \cup {None}]]
        BY <3>2, <3>6 DEF Claim, Types, TypeOK
      <4>3. pc' = [pc EXCEPT ![r] = "Download"] /\ req' = req
        BY <3>6 DEF Claim, Goto
      <4>4. pc' \in [Requests -> Call] /\ req' \in [Requests -> Local] /\ InBounds'
        BY <2>0, <3>1, <3>2, <4>3 DEF Types, TypeOK, InBounds
      <4> QED BY <1>2, <3>6, <4>1, <4>2, <4>4 DEF Types, TypeOK, Claim
    <3>7. CASE ClaimPlain(r)
      <4> DEFINE claimed == Put(cache[Proc(r)], Message(r), "IN_PROGRESS")
                 done == Put(claimed, Message(r), "PROCESSED")
      <4>1. claimed \in Seq(Entry) /\ Len(claimed) <= MaxEntries
        BY <3>5 DEF MESSAGE_STATE
      <4>2. cache' = [cache EXCEPT ![Proc(r)] = done]
        BY <3>7 DEF ClaimPlain
      <4> HIDE DEF claimed
      <4>3. done \in Seq(Entry) /\ Len(done) <= MaxEntries
        BY <3>4, <4>1, PutType DEF MESSAGE_STATE
      <4> HIDE DEF done
      <4>4. cache' \in [Processes -> Seq(Entry)] /\ \A q \in Processes : Len(cache'[q]) <= MaxEntries
        BY <3>2, <4>2, <4>3, CacheType DEF Types
      <4>5. inFlight' \in [Processes -> [Messages -> Requests \cup {None}]]
        BY <3>2, <3>7 DEF ClaimPlain, Types, TypeOK
      <4>6. pc' \in [Requests -> Call] /\ req' \in [Requests -> Local] /\ InBounds'
        BY <3>1, <3>7, AdvanceType DEF ClaimPlain
      <4> QED BY <1>2, <3>7, <4>4, <4>5, <4>6 DEF Types, TypeOK, ClaimPlain
    <3> QED BY <2>3, <3>6, <3>7
  <2>4. CASE Wait(r)
    <3>1. pc[r] = "Next" /\ req[r].at \in DOMAIN BatchOf[r] /\ Message(r) \in Messages
      BY <2>4, MessageType DEF Wait, Handling, Types
    <3>2. Running(r) \in Requests
      BY <2>0, <2>4, <3>1 DEF Wait, Running, Proc, Types, TypeOK
    <3> DEFINE local == [req[r] EXCEPT !.waitsFor = Running(r)]
    <3>3. local \in Local /\ local.proc \in Processes /\ local.at = req[r].at
      BY <2>0, <3>1, <3>2 DEF Local
    <3>4. pc' = [pc EXCEPT ![r] = "Waiting"] /\ req' = [req EXCEPT ![r] = local]
      BY <2>4 DEF Wait, Goto
    <3> HIDE DEF local
    <3>5. pc' \in [Requests -> Call] /\ req' \in [Requests -> Local] /\ InBounds'
      BY <3>1, <3>3, <3>4, OwnStepType
    <3> QED BY <1>2, <2>4, <3>5 DEF Types, TypeOK, Wait
  <2>5. CASE TimeOut(r)
    <3> DEFINE local == [req[r] EXCEPT !.late = TRUE, !.waitsFor = None]
    <3>1. local \in Local /\ local.proc \in Processes
      BY <2>0, <2>5 DEF Local, TimeOut
    <3>2. pc' = [pc EXCEPT ![r] = "Next"] /\ req' = [req EXCEPT ![r] = local]
      BY <2>5 DEF TimeOut, Goto
    <3> HIDE DEF local
    <3>3. pc' \in [Requests -> Call] /\ req' \in [Requests -> Local] /\ InBounds'
      BY <3>1, <3>2, OwnStepType
    <3> QED BY <1>2, <2>5, <3>3 DEF Types, TypeOK, TimeOut
  <2>6. CASE Download(r) /\ Accepted(Message(r))
    <3>1. pc[r] = "Download" /\ pc' = [pc EXCEPT ![r] = "Upload"] /\ UNCHANGED <<cache, inFlight, req>>
      BY <2>6 DEF Download, Goto
    <3>2. pc' \in [Requests -> Call] /\ InBounds'
      BY <3>1 DEF Types, TypeOK, InBounds
    <3> QED BY <1>2, <2>6, <3>1, <3>2 DEF Types, TypeOK, Download
  <2>7. CASE \/ (Download(r) /\ ~Accepted(Message(r)))
             \/ DownloadFails(r) \/ DropFails(r) \/ UndoFails(r)
    <3>1. /\ pc[r] \in {"Download", "Drop", "Undo"}
          /\ Complete(r) \/ Release(r)
          /\ UNCHANGED <<rows, objects, acked>>
      BY <2>7 DEF Download, DownloadFails, DropFails, UndoFails
    <3>2. rows' \subseteq Row /\ objects' \subseteq Paths
      BY <3>1 DEF Types, TypeOK
    <3> QED BY <1>2, <3>1, <3>2, CompleteType
  <2>8. CASE Drop(r) \/ Undo(r)
    <3>1. /\ pc[r] \in {"Drop", "Undo"}
          /\ Complete(r) \/ Release(r)
          /\ UNCHANGED <<rows, acked>>
          /\ objects' \subseteq objects
      BY <2>8 DEF Drop, Undo
    <3>2. rows' \subseteq Row /\ objects' \subseteq Paths
      BY <3>1 DEF Types, TypeOK
    <3> QED BY <1>2, <3>1, <3>2, CompleteType
  <2>9. ASSUME CanUpload PROVE NewPath \in Paths
    BY <2>9 DEF CanUpload, NewPath
  <2>10. CASE Upload(r)
    <3>1. CanUpload /\ pc[r] = "Upload" /\ objects' = objects \cup {NewPath}
      BY <2>10 DEF Upload
    <3> DEFINE local == [req[r] EXCEPT !.path = NewPath]
    <3>2. /\ local \in Local /\ local.proc \in Processes /\ local.at \in DOMAIN BatchOf[r]
          /\ local.path \in Paths
      BY <2>0, <2>9, <3>1 DEF Local, Types, InBounds
    <3>3. pc' = [pc EXCEPT ![r] = "Insert"] /\ req' = [req EXCEPT ![r] = local]
      BY <2>10 DEF Upload, Goto
    <3> HIDE DEF local
    <3>4. pc' \in [Requests -> Call] /\ req' \in [Requests -> Local] /\ InBounds'
      BY <3>2, <3>3, OwnStepType
    <3> QED BY <1>2, <2>9, <2>10, <3>1, <3>4 DEF Types, TypeOK, Upload
  <2>11. CASE UploadFails(r)
    <3>1. pc[r] = "Upload" /\ Release(r) /\ UNCHANGED <<rows, acked>>
      BY <2>11 DEF UploadFails
    <3>2. rows' \subseteq Row /\ objects' \subseteq Paths
      BY <2>9, <2>11, <3>1 DEF UploadFails, Types, TypeOK
    <3> QED BY <1>2, <3>1, <3>2, CompleteType
  <2>12. ASSUME pc[r] = "Insert" PROVE [message |-> Message(r), path |-> req[r].path] \in Row
    BY <2>12, CallType DEF Row, Types, InBounds
  <2>13. CASE Insert(r) /\ Recorded(Message(r))
    <3>1. pc[r] = "Insert" /\ pc' = [pc EXCEPT ![r] = "Drop"] /\ UNCHANGED <<rows, cache, inFlight, req>>
      BY <2>13 DEF Insert, Goto
    <3>2. pc' \in [Requests -> Call] /\ InBounds'
      BY <3>1 DEF Types, TypeOK, InBounds
    <3> QED BY <1>2, <2>13, <3>1, <3>2 DEF Types, TypeOK, Insert
  <2>14. CASE Insert(r) /\ ~Recorded(Message(r))
    <3>1. pc[r] = "Insert" /\ Complete(r) /\ UNCHANGED <<objects, acked>>
      BY <2>14 DEF Insert
    <3>2. rows' \subseteq Row /\ objects' \subseteq Paths
      BY <2>12, <2>14, <3>1 DEF Insert, Types, TypeOK
    <3> QED BY <1>2, <3>1, <3>2, CompleteType
  <2>15. CASE InsertFails(r)
    <3>1. pc[r] = "Insert" /\ pc' = [pc EXCEPT ![r] = "Undo"] /\ UNCHANGED <<cache, inFlight, req>>
      BY <2>15 DEF InsertFails, Goto
    <3>2. pc' \in [Requests -> Call] /\ InBounds'
      BY <3>1 DEF Types, TypeOK, InBounds
    <3>3. rows' \subseteq Row
      BY <2>12, <2>15, <3>1 DEF InsertFails, Types, TypeOK
    <3> QED BY <1>2, <2>15, <3>1, <3>2, <3>3 DEF Types, TypeOK, InsertFails
  <2> QED BY <1>2, <2>1, <2>2, <2>3, <2>4, <2>5, <2>6, <2>7, <2>8, <2>10, <2>11, <2>13, <2>14, <2>15
          DEF Step, Fault
<1>3. ASSUME NEW r \in Requests, NEW p \in Processes, Send(r, p), faults' \in Nat
      PROVE  Types'
  <2> DEFINE local == Opened(p)
  <2>1. local \in Local /\ local.proc \in Processes
    BY DEF Opened, Local
  <2>2. pc' = [pc EXCEPT ![r] = "Next"] /\ req' = [req EXCEPT ![r] = local]
    BY <1>3 DEF Send, Goto
  <2> HIDE DEF local
  <2>3. pc' \in [Requests -> Call] /\ req' \in [Requests -> Local] /\ InBounds'
    BY <2>1, <2>2, OwnStepType
  <2> QED BY <1>3, <2>3 DEF Types, TypeOK, Send
<1>4. ASSUME NEW p \in Processes, Crash(p), faults' \in Nat
      PROVE  Types'
  <2>1. <<>> \in Seq(Entry) /\ Len(<<>>) <= MaxEntries
    BY EmptySeq, CacheHoldsOne
  <2>2. cache' \in [Processes -> Seq(Entry)] /\ \A q \in Processes : Len(cache'[q]) <= MaxEntries
    BY <1>4, <2>1, CacheType DEF Crash, Types
  <2>3. inFlight' \in [Processes -> [Messages -> Requests \cup {None}]]
    BY <1>4 DEF Crash, Types, TypeOK
  <2>4. NoRequest \in Local
    BY DEF NoRequest, Opened, Local
  <2>5. pc' \in [Requests -> Call] /\ req' \in [Requests -> Local] /\ InBounds'
    BY <1>4, <2>4 DEF Crash, Types, TypeOK, InBounds
  <2> QED BY <1>4, <2>2, <2>3, <2>5 DEF Crash, Types, TypeOK
<1>5. ASSUME NEW p \in Processes, Expire(p), faults' \in Nat
      PROVE  Types'
  <2>1. cache[p] \in Seq(Entry) /\ cache[p] # <<>> /\ Len(cache[p]) <= MaxEntries /\ Len(cache[p]) \in Nat
    BY <1>5, LenProperties DEF Expire, Types, TypeOK
  <2>2. Tail(cache[p]) \in Seq(Entry) /\ Len(Tail(cache[p])) = Len(cache[p]) - 1
    BY <2>1, HeadTailProperties
  <2>3. cache' = [cache EXCEPT ![p] = Tail(cache[p])] /\ Len(Tail(cache[p])) <= MaxEntries
    BY <1>5, <2>1, <2>2, CacheHoldsOne DEF Expire
  <2>4. cache' \in [Processes -> Seq(Entry)] /\ \A q \in Processes : Len(cache'[q]) <= MaxEntries
    BY <2>2, <2>3, CacheType DEF Types
  <2> QED BY <1>5, <2>4 DEF Expire, Types, TypeOK, InBounds
<1>6. faults' \in Nat \/ UNCHANGED vars
  BY DEF Next, Types, TypeOK
<1> QED BY <1>1, <1>2, <1>3, <1>4, <1>5, <1>6 DEF Next

LEMMA TypesInvariant == Spec => []Types
<1>1. Init => Types
  <2> SUFFICES ASSUME Init PROVE Types
    OBVIOUS
  <2>1. NoRequest \in Local
    BY DEF NoRequest, Opened, Local
  <2>2. <<>> \in Seq(Entry) /\ Len(<<>>) <= MaxEntries
    BY EmptySeq, CacheHoldsOne
  <2>3. cache \in [Processes -> Seq(Entry)] /\ \A p \in Processes : Len(cache[p]) <= MaxEntries
    BY <2>2 DEF Init
  <2> QED BY <2>1, <2>3 DEF Init, Types, TypeOK, InBounds, Call
<1> QED BY <1>1, TypesStep, PTL DEF Spec

\* Every variable of the intake keeps its type, and every process's cache its
\* bound.
THEOREM IntakeTypeCorrect == Spec => []TypeOK
<1>1. Types => TypeOK
  BY DEF Types
<1> QED BY <1>1, TypesInvariant, PTL

-----------------------------------------------------------------------------
(* Acknowledged deliveries are recorded.  AcknowledgedIsRecorded is not    *)
(* inductive: an answer relies on what the request has seen handled so     *)
(* far, and a skipped message on what the cache says was handled.          *)

\* Entries that tell the truth: what they call processed is done.
TrueEntry == {e \in Entry : e.state = "PROCESSED" => Done(e.id)}

CacheTruth == \A p \in Processes : cache[p] \in Seq(TrueEntry)

\* A request that may still answer 200 has seen all its messages so far done.
ProgressTruth ==
  \A r \in Requests : pc[r] # "Idle" /\ req[r].ok =>
    \A i \in DOMAIN BatchOf[r] : i < req[r].at => Done(BatchOf[r][i])

\* Only the upload of a recorded message is dropped as a duplicate.
DropTruth == \A r \in Requests : pc[r] = "Drop" => Recorded(Message(r))

AckTruth == \A batch \in acked : \A i \in DOMAIN batch : Done(batch[i])

Truth == CacheTruth /\ ProgressTruth /\ DropTruth /\ AckTruth

\* Rows are never taken away: what is done stays done, and true entries true.
LEMMA DoneGrows ==
  ASSUME rows \subseteq rows'
  PROVE  /\ \A m : Done(m) => Done(m)'
         /\ \A m : Recorded(m) => Recorded(m)'
         /\ Seq(TrueEntry) \subseteq Seq(TrueEntry')
<1>1. \A m : Recorded(m) => Recorded(m)'
  BY DEF Recorded
<1>2. \A m : Done(m) => Done(m)'
  BY <1>1 DEF Done, Accepted
<1>3. TrueEntry \subseteq TrueEntry'
  BY <1>2 DEF TrueEntry
<1> QED BY <1>1, <1>2, <1>3, SeqMonotonic

\* When the current message m is done with, all messages seen are done.
LEMMA ProgressAdvances ==
  ASSUME Types, Truth, NEW r \in Requests, pc[r] # "Idle", req[r].at \in DOMAIN BatchOf[r],
         rows \subseteq rows', NEW m, m = Message(r),
         NEW handled \in BOOLEAN, handled => Done(m)',
         Advanced(req[r], handled).ok
  PROVE  \A i \in DOMAIN BatchOf[r] : i < Advanced(req[r], handled).at => Done(BatchOf[r][i])'
<1>1. req[r] \in Local /\ req[r].at \in Nat
  BY DEF Types, TypeOK, Local
<1>2. req[r].ok /\ handled /\ Advanced(req[r], handled).at = req[r].at + 1
  BY <1>1, AdvancedType
<1>3. SUFFICES ASSUME NEW i \in DOMAIN BatchOf[r], i < req[r].at + 1
               PROVE  Done(BatchOf[r][i])'
  BY <1>2
<1>4. i \in Nat
  BY BatchIsBatch, LenProperties
<1>5. CASE i = req[r].at
  BY <1>2, <1>5 DEF Message
<1>6. CASE i < req[r].at
  <2>1. Done(BatchOf[r][i])
    BY <1>2, <1>6 DEF Truth, ProgressTruth
  <2> QED BY <2>1, DoneGrows
<1> QED BY <1>1, <1>3, <1>4, <1>5, <1>6

\* A handling ends: with a true cache, and counted as handled only when done.
LEMMA SettleTruth ==
  ASSUME Types, Truth, NEW r \in Requests, pc[r] \notin {"Idle", "Next"},
         rows \subseteq rows', acked' = acked,
         NEW m, m = Message(r), NEW handled \in BOOLEAN, handled => Done(m)',
         NEW c \in Seq(TrueEntry'), Settle(r, handled, c)
  PROVE  Truth'
<1>1. req[r].at \in DOMAIN BatchOf[r] /\ Proc(r) \in Processes
  BY CallType DEF Types, InBounds
<1>2. CacheTruth'
  <2>1. SUFFICES ASSUME NEW p \in Processes PROVE cache'[p] \in Seq(TrueEntry')
    BY DEF CacheTruth
  <2>2. cache[p] \in Seq(TrueEntry')
    BY DoneGrows DEF Truth, CacheTruth
  <2>3. cache'[p] = IF p = Proc(r) THEN c ELSE cache[p]
    BY <1>1 DEF Settle, Types, TypeOK
  <2> QED BY <2>2, <2>3
<1>3. ProgressTruth'
  <2>1. SUFFICES ASSUME NEW q \in Requests, pc'[q] # "Idle", req'[q].ok
                 PROVE  \A i \in DOMAIN BatchOf[q] : i < req'[q].at => Done(BatchOf[q][i])'
    BY DEF ProgressTruth
  <2>2. CASE q = r
    <3>1. req'[q] = Advanced(req[r], handled)
      BY <2>2 DEF Settle
    <3> QED BY <1>1, <2>1, <2>2, <3>1, ProgressAdvances
  <2>3. CASE q # r
    <3>1. req'[q].at = req[q].at /\ req'[q].ok = req[q].ok /\ pc[q] # "Idle"
      BY <2>1, <2>3 DEF Settle, Types, TypeOK, Local
    <3>2. \A i \in DOMAIN BatchOf[q] : i < req[q].at => Done(BatchOf[q][i])
      BY <2>1, <3>1 DEF Truth, ProgressTruth
    <3> QED BY <3>1, <3>2, DoneGrows
  <2> QED BY <2>2, <2>3
<1>4. DropTruth'
  <2>1. SUFFICES ASSUME NEW q \in Requests, pc'[q] = "Drop" PROVE Recorded(Message(q))'
    BY DEF DropTruth
  <2>2. q # r /\ pc[q] = "Drop" /\ req'[q] = req[q]
    BY <2>1 DEF Settle
  <2>3. Recorded(Message(q)) /\ Message(q)' = Message(q)
    BY <2>2 DEF Truth, DropTruth, Message
  <2>4. \E row \in rows' : row.message = Message(q)
    BY <2>3 DEF Recorded
  <2> QED BY <2>3, <2>4 DEF Recorded
<1>5. AckTruth'
  BY DoneGrows DEF Truth, AckTruth
<1> QED BY <1>2, <1>3, <1>4, <1>5 DEF Truth

\* Completing what is done, or releasing, keeps the truth.
LEMMA CompleteTruth ==
  ASSUME Types, Truth, NEW r \in Requests, pc[r] \notin {"Idle", "Next"},
         rows \subseteq rows', acked' = acked, NEW m, m = Message(r),
         Release(r) \/ (Complete(r) /\ Done(m)')
  PROVE  Truth'
<1>1. Proc(r) \in Processes /\ m \in Messages
  BY CallType
<1>2. cache[Proc(r)] \in Seq(TrueEntry') /\ Len(cache[Proc(r)]) <= MaxEntries
  BY <1>1, DoneGrows DEF Truth, CacheTruth, Types, TypeOK
<1>3. CASE Release(r)
  <2>1. Without(cache[Proc(r)], m) \in Seq(TrueEntry')
    BY <1>2, WithoutType
  <2> QED BY <1>3, <2>1, SettleTruth DEF Release
<1>4. CASE Complete(r) /\ Done(m)'
  <2>1. [id |-> m, state |-> "PROCESSED"] \in TrueEntry'
    BY <1>1, <1>4 DEF TrueEntry, Entry, MESSAGE_STATE
  <2>2. Put(cache[Proc(r)], m, "PROCESSED") \in Seq(TrueEntry')
    BY <1>2, <2>1, PutType
  <2> QED BY <1>4, <2>2, SettleTruth DEF Complete
<1> QED BY <1>3, <1>4

\* A step that leaves rows, caches and deliveries alone and moves on one
\* request, as handled only when its message is done.
LEMMA AdvanceTruth ==
  ASSUME Types, Truth, NEW r \in Requests, pc[r] # "Idle", req[r].at \in DOMAIN BatchOf[r],
         NEW handled \in BOOLEAN, handled => Done(Message(r)), Advance(r, handled),
         UNCHANGED <<rows, acked>>
  PROVE  ProgressTruth' /\ DropTruth' /\ AckTruth'
<1>0. rows \subseteq rows' /\ \A m : Done(m)' <=> Done(m)
  BY DEF Done, Recorded, Accepted
<1>1. ProgressTruth'
  <2>1. SUFFICES ASSUME NEW q \in Requests, pc'[q] # "Idle", req'[q].ok
                 PROVE  \A i \in DOMAIN BatchOf[q] : i < req'[q].at => Done(BatchOf[q][i])'
    BY DEF ProgressTruth
  <2>2. CASE q = r
    <3>1. req'[q] = Advanced(req[r], handled)
      BY <2>2 DEF Advance, Types, TypeOK
    <3> QED BY <1>0, <2>1, <2>2, <3>1, ProgressAdvances
  <2>3. CASE q # r
    <3>1. req'[q] = req[q] /\ pc[q] # "Idle"
      BY <2>1, <2>3 DEF Advance, Goto, Types, TypeOK
    <3> QED BY <1>0, <2>1, <3>1 DEF Truth, ProgressTruth
  <2> QED BY <2>2, <2>3
<1>2. DropTruth'
  <2>1. SUFFICES ASSUME NEW q \in Requests, pc'[q] = "Drop" PROVE Recorded(Message(q))'
    BY DEF DropTruth
  <2>2. q # r /\ pc[q] = "Drop" /\ req'[q] = req[q]
    BY <2>1 DEF Advance, Goto, Types, TypeOK
  <2> QED BY <2>2 DEF Truth, DropTruth, Message, Recorded
<1>3. AckTruth'
  BY <1>0 DEF Truth, AckTruth
<1> QED BY <1>1, <1>2, <1>3

\* Every action keeps the truth.
LEMMA TruthStep ==
  ASSUME Types, Truth, [Next]_vars
  PROVE  Truth'
<1>1. CASE UNCHANGED vars
  BY <1>1 DEF vars, Truth, CacheTruth, TrueEntry, ProgressTruth, DropTruth, AckTruth,
              Done, Recorded, Message
<1>2. ASSUME NEW r \in Requests, Step(r) \/ Fault(r)
      PROVE  Truth'
  <2>0. /\ pc[r] = "Next" /\ req[r].at <= Len(BatchOf[r]) =>
             /\ req[r].at \in DOMAIN BatchOf[r]
             /\ Message(r) \in Messages /\ Proc(r) \in Processes
        /\ pc[r] \notin {"Idle", "Next"} => Proc(r) \in Processes
        /\ \A p \in Processes : cache[p] \in Seq(TrueEntry) /\ Len(cache[p]) <= MaxEntries
    BY MessageType, CallType DEF Types, TypeOK, InBounds, Proc, Truth, CacheTruth
  <2>1. CASE Answer(r) \/ AnswerLost(r)
    <3>1. /\ pc[r] = "Next" /\ req[r].at > Len(BatchOf[r])
          /\ pc' = [pc EXCEPT ![r] = "Idle"] /\ req' = [req EXCEPT ![r] = NoRequest]
          /\ UNCHANGED <<rows, cache>>
          /\ acked' = acked \/ (req[r].ok /\ acked' = acked \cup {BatchOf[r]})
      BY <2>1 DEF Answer, AnswerLost, Goto
    <3>2. /\ \A m : Done(m)' <=> Done(m)
          /\ TrueEntry' = TrueEntry
      BY <3>1 DEF Done, Recorded, Accepted, TrueEntry
    <3>3. CacheTruth'
      BY <3>1, <3>2 DEF Truth, CacheTruth
    <3>4. ProgressTruth' /\ DropTruth'
      BY <3>1, <3>2 DEF Truth, ProgressTruth, DropTruth, Types, TypeOK, Recorded, Message
    <3>5. ASSUME req[r].ok PROVE \A i \in DOMAIN BatchOf[r] : Done(BatchOf[r][i])
      <4>1. BatchOf[r] \in Seq(Messages) /\ req[r].at \in Nat
        BY BatchIsBatch DEF Types, TypeOK, Local
      <4>2. \A i \in DOMAIN BatchOf[r] : i < req[r].at
        BY <3>1, <4>1, LenProperties
      <4> QED BY <3>1, <3>5, <4>2 DEF Truth, ProgressTruth
    <3>6. AckTruth'
      BY <3>1, <3>2, <3>5 DEF Truth, AckTruth
    <3> QED BY <3>3, <3>4, <3>6 DEF Truth
  <2>2. CASE Ignore(r) \/ Skip(r) \/ Refuse(r)
    <3>1. Handling(r) /\ UNCHANGED <<rows, cache, acked>>
      BY <2>2 DEF Ignore, Skip, Refuse
    <3>2. CacheTruth'
      BY <3>1 DEF Truth, CacheTruth, TrueEntry, Done, Recorded
    <3>3. CASE Ignore(r)
      <4>1. Done(Message(r))
        BY <3>3 DEF Ignore, Anonymous, Done, Accepted
      <4> QED BY <2>0, <3>1, <3>2, <3>3, <4>1, AdvanceTruth DEF Truth, Ignore, Handling
    <3>4. CASE Skip(r)
      <4>1. \E e \in TrueEntry : e.id = Message(r) /\ e.state = "PROCESSED"
        BY <2>0, <3>1, <3>4, StateOfEntry DEF Skip, StateFor, Handling, None
      <4>2. Done(Message(r))
        BY <4>1 DEF TrueEntry
      <4> QED BY <2>0, <3>1, <3>2, <3>4, <4>2, AdvanceTruth DEF Truth, Skip, Handling
    <3>5. CASE Refuse(r)
      BY <2>0, <3>1, <3>2, <3>5, AdvanceTruth DEF Truth, Refuse, Handling
    <3> QED BY <2>2, <3>3, <3>4, <3>5
  <2>3. CASE Claim(r) \/ ClaimPlain(r)
    <3>1. Handling(r) /\ UNCHANGED <<rows, acked>>
      BY <2>3 DEF Claim, ClaimPlain, MayClaim
    <3>2. /\ \A m : Done(m)' <=> Done(m)
          /\ TrueEntry' = TrueEntry
      BY <3>1 DEF Done, Recorded, Accepted, TrueEntry
    <3>3. [id |-> Message(r), state |-> "IN_PROGRESS"] \in TrueEntry
      BY <2>0, <3>1 DEF TrueEntry, Entry, MESSAGE_STATE, Handling
    <3> DEFINE claimed == Put(cache[Proc(r)], Message(r), "IN_PROGRESS")
    <3>4. claimed \in Seq(TrueEntry) /\ Len(claimed) <= MaxEntries
      BY <2>0, <3>1, <3>3, PutType DEF Handling
    <3>5. CASE Claim(r)
      <4>1. cache' = [cache EXCEPT ![Proc(r)] = claimed] /\ req' = req /\ pc' = [pc EXCEPT ![r] = "Download"]
        BY <3>5 DEF Claim, Goto
      <4> HIDE DEF claimed
      <4>2. CacheTruth'
        BY <2>0, <3>2, <3>4, <4>1 DEF CacheTruth, Types, TypeOK
      <4>3. ProgressTruth' /\ DropTruth' /\ AckTruth'
        BY <3>1, <3>2, <4>1 DEF Truth, ProgressTruth, DropTruth, AckTruth, Types, TypeOK, Recorded,
                                Message, Handling
      <4> QED BY <4>2, <4>3 DEF Truth
    <3>6. CASE ClaimPlain(r)
      <4> DEFINE done == Put(claimed, Message(r), "PROCESSED")
      <4>1. Done(Message(r))
        BY <3>6 DEF ClaimPlain, HasFile, Done, Accepted
      <4>2. [id |-> Message(r), state |-> "PROCESSED"] \in TrueEntry
        BY <2>0, <3>1, <4>1 DEF TrueEntry, Entry, MESSAGE_STATE, Handling
      <4>3. cache' = [cache EXCEPT ![Proc(r)] = done]
        BY <3>6 DEF ClaimPlain
      <4> HIDE DEF claimed
      <4>4. done \in Seq(TrueEntry)
        BY <3>4, <4>2, PutType
      <4> HIDE DEF done
      <4>5. CacheTruth'
        BY <2>0, <3>2, <4>3, <4>4 DEF CacheTruth, Types, TypeOK
      <4> QED BY <2>0, <3>1, <3>6, <4>1, <4>5, AdvanceTruth DEF Truth, ClaimPlain, Handling
    <3> QED BY <2>3, <3>5, <3>6
  <2>4. CASE \/ Wait(r) \/ TimeOut(r) \/ Upload(r) \/ InsertFails(r)
             \/ (Download(r) /\ Accepted(Message(r)))
             \/ (Insert(r) /\ Recorded(Message(r)))
    <3>1. /\ rows \subseteq rows' /\ UNCHANGED <<cache, acked>>
          /\ \A q \in Requests : pc'[q] # "Idle" => pc[q] # "Idle"
      BY <2>4 DEF Wait, TimeOut, Download, Upload, Insert, InsertFails, Goto, Handling, Types, TypeOK
    <3>2. \A q \in Requests : req'[q].at = req[q].at /\ req'[q].ok = req[q].ok
      <4>1. \A q \in Requests : req[q] \in Local
        BY DEF Types, TypeOK
      <4>2. CASE req' = req
        BY <4>2
      <4>3. ASSUME NEW local, req' = [req EXCEPT ![r] = local], local.at = req[r].at, local.ok = req[r].ok
            PROVE  \A q \in Requests : req'[q].at = req[q].at /\ req'[q].ok = req[q].ok
        BY <4>3 DEF Types, TypeOK
      <4>4. CASE Wait(r)
        <5>1. req' = [req EXCEPT ![r] = [req[r] EXCEPT !.waitsFor = Running(r)]]
          BY <4>4 DEF Wait
        <5> QED BY <4>1, <4>3, <5>1 DEF Local
      <4>5. CASE TimeOut(r)
        <5>1. req' = [req EXCEPT ![r] = [req[r] EXCEPT !.late = TRUE, !.waitsFor = None]]
          BY <4>5 DEF TimeOut
        <5> QED BY <4>1, <4>3, <5>1 DEF Local
      <4>6. CASE Upload(r)
        <5>1. req' = [req EXCEPT ![r] = [req[r] EXCEPT !.path = NewPath]]
          BY <4>6 DEF Upload
        <5> QED BY <4>1, <4>3, <5>1 DEF Local
      <4> QED BY <2>4, <4>2, <4>4, <4>5, <4>6 DEF Download, Insert, InsertFails
    <3>3. \A q \in Requests : pc'[q] = "Drop" => pc[q] = "Drop" \/ (q = r /\ Recorded(Message(r)))
      BY <2>4 DEF Wait, TimeOut, Download, Upload, Insert, InsertFails, Goto, Types, TypeOK
    <3>4. CacheTruth'
      BY <3>1, DoneGrows DEF Truth, CacheTruth
    <3>5. ProgressTruth'
      BY <3>1, <3>2, DoneGrows DEF Truth, ProgressTruth
    <3>6. DropTruth'
      <4>1. SUFFICES ASSUME NEW q \in Requests, pc'[q] = "Drop" PROVE Recorded(Message(q))'
        BY DEF DropTruth
      <4>2. Recorded(Message(q)) /\ Message(q)' = Message(q)
        BY <3>2, <3>3, <4>1 DEF Truth, DropTruth, Message
      <4>3. \E row \in rows' : row.message = Message(q)
        BY <3>1, <4>2 DEF Recorded
      <4> QED BY <4>2, <4>3 DEF Recorded
    <3>7. AckTruth'
      BY <3>1, DoneGrows DEF Truth, AckTruth
    <3> QED BY <3>4, <3>5, <3>6, <3>7 DEF Truth
  <2>5. CASE DownloadFails(r) \/ UploadFails(r) \/ Undo(r) \/ UndoFails(r)
    <3>1. pc[r] \notin {"Idle", "Next"} /\ Release(r) /\ rows' = rows /\ acked' = acked
      BY <2>5 DEF DownloadFails, UploadFails, Undo, UndoFails
    <3> QED BY <3>1, CompleteTruth
  <2>6. CASE \/ (Download(r) /\ ~Accepted(Message(r)))
             \/ (Insert(r) /\ ~Recorded(Message(r)))
             \/ Drop(r) \/ DropFails(r)
    <3>1. pc[r] \notin {"Idle", "Next"} /\ Complete(r) /\ rows \subseteq rows' /\ acked' = acked
      BY <2>6 DEF Download, Insert, Drop, DropFails
    <3>2. PICK m : m = Message(r)
      OBVIOUS
    <3>3. Done(m)'
      <4>1. CASE Download(r)
        BY <2>6, <3>2, <4>1 DEF Download, Insert, Drop, DropFails, Done, Accepted
      <4>2. CASE Insert(r) /\ ~Recorded(Message(r))
        <5>1. [message |-> m, path |-> req[r].path] \in rows'
          BY <3>2, <4>2 DEF Insert
        <5>2. \E row \in rows' : row.message = m
          BY <5>1
        <5> QED BY <5>2 DEF Done, Recorded
      <4>3. CASE Drop(r) \/ DropFails(r)
        BY <3>1, <3>2, <4>3 DEF Drop, DropFails, Truth, DropTruth, Done, Recorded
      <4> QED BY <2>6, <4>1, <4>2, <4>3
    <3> QED BY <3>1, <3>2, <3>3, CompleteTruth
  <2> QED BY <1>2, <2>1, <2>2, <2>3, <2>4, <2>5, <2>6 DEF Step, Fault
<1>3. ASSUME NEW r \in Requests, NEW p \in Processes, Send(r, p)
      PROVE  Truth'
  <2>1. /\ UNCHANGED <<rows, cache, acked>>
        /\ pc' = [pc EXCEPT ![r] = "Next"] /\ req' = [req EXCEPT ![r] = Opened(p)]
    BY <1>3 DEF Send, Goto
  <2>2. /\ \A m : Done(m)' <=> Done(m)
        /\ TrueEntry' = TrueEntry
    BY <2>1 DEF Done, Recorded, Accepted, TrueEntry
  <2>3. Opened(p).at = 1 /\ \A i \in DOMAIN BatchOf[r] : ~(i < 1)
    BY BatchIsBatch, LenProperties DEF Opened
  <2>4. ProgressTruth'
    BY <2>1, <2>2, <2>3 DEF Truth, ProgressTruth, Types, TypeOK
  <2>5. DropTruth'
    BY <2>1 DEF Truth, DropTruth, Types, TypeOK, Recorded, Message
  <2> QED BY <2>1, <2>2, <2>4, <2>5 DEF Truth, CacheTruth, AckTruth
<1>4. ASSUME NEW p \in Processes, Crash(p) \/ Expire(p)
      PROVE  Truth'
  <2>1. UNCHANGED <<rows, acked>>
    BY <1>4 DEF Crash, Expire
  <2>2. /\ \A m : Done(m)' <=> Done(m)
        /\ TrueEntry' = TrueEntry
    BY <2>1 DEF Done, Recorded, Accepted, TrueEntry
  <2>3. \A r \in Requests : pc'[r] # "Idle" => pc'[r] = pc[r] /\ req'[r] = req[r]
    BY <1>4 DEF Crash, Expire
  <2>4. CacheTruth'
    <3>1. SUFFICES ASSUME NEW q \in Processes PROVE cache'[q] \in Seq(TrueEntry)
      BY <2>2 DEF CacheTruth
    <3>2. cache[q] \in Seq(TrueEntry) /\ <<>> \in Seq(TrueEntry)
      BY EmptySeq DEF Truth, CacheTruth
    <3>3. CASE Crash(p)
      BY <3>2, <3>3 DEF Crash, Types, TypeOK
    <3>4. CASE Expire(p)
      <4>1. cache[p] # <<>> /\ cache' = [cache EXCEPT ![p] = Tail(cache[p])]
        BY <3>4 DEF Expire
      <4>2. cache[p] \in Seq(TrueEntry) /\ Tail(cache[p]) \in Seq(TrueEntry)
        BY <4>1, HeadTailProperties DEF Truth, CacheTruth
      <4> QED BY <3>2, <4>1, <4>2 DEF Types, TypeOK
    <3> QED BY <1>4, <3>3, <3>4
  <2>5. ProgressTruth'
    BY <2>2, <2>3 DEF Truth, ProgressTruth
  <2>6. DropTruth'
    BY <2>1, <2>3 DEF Truth, DropTruth, Recorded, Message
  <2>7. AckTruth'
    BY <2>1, <2>2 DEF Truth, AckTruth
  <2> QED BY <2>4, <2>5, <2>6, <2>7 DEF Truth
<1> QED BY <1>1, <1>2, <1>3, <1>4 DEF Next

\* A delivery is acknowledged only when each of its files is in a committed
\* row, for any number of processes, redeliveries and faults and any bound of
\* the cache.
THEOREM AcknowledgedRecorded == Spec => []AcknowledgedIsRecorded
<1>1. Init => Truth
  <2> SUFFICES ASSUME Init PROVE Truth
    OBVIOUS
  <2>1. CacheTruth
    BY EmptySeq DEF Init, CacheTruth
  <2> QED BY <2>1 DEF Init, Truth, ProgressTruth, DropTruth, AckTruth
<1>2. Truth => AcknowledgedIsRecorded
  BY DEF Truth, AckTruth, Done, AcknowledgedIsRecorded
<1> QED BY <1>1, <1>2, TypesInvariant, TruthStep, PTL DEF Spec

-----------------------------------------------------------------------------
(* Nothing is left behind: a request has an object in hand exactly from    *)
(* its upload to the end of that message's handling.                       *)

InHandOnly == \A r \in Requests : pc[r] \notin {"Insert", "Drop", "Undo"} => req[r].path = None

\* No object becomes unknown when rows stay, new objects are in hand, and
\* what a request had in hand it still has, or a row has it, or it is gone.
LEMMA StraysShrink ==
  ASSUME rows \subseteq rows',
         \A path \in objects' \ objects : path \in InHand',
         \A q \in Requests :
           \/ req[q].path = None
           \/ req[q].path = req'[q].path
           \/ req[q].path \in Filed'
           \/ req[q].path \notin objects'
  PROVE  Strays' \subseteq Strays
<1>1. Filed \subseteq Filed'
  BY DEF Filed
<1>2. SUFFICES ASSUME NEW path \in Strays' PROVE path \in Strays
  OBVIOUS
<1>3. path \in objects' /\ path \notin Filed' /\ path \notin InHand'
  BY <1>2 DEF Strays
<1>4. path \in objects /\ path \notin Filed
  BY <1>1, <1>3
<1>5. path \notin InHand
  <2>1. SUFFICES ASSUME NEW q \in Requests, path = req[q].path, path # None PROVE FALSE
    BY DEF InHand
  <2>2. path = req'[q].path
    BY <1>3, <2>1
  <2> QED BY <1>3, <2>1, <2>2 DEF InHand
<1> QED BY <1>4, <1>5 DEF Strays

\* The end of a handling empties its own hand and no other.
LEMMA SettleHands ==
  ASSUME Types, NEW r \in Requests, Complete(r) \/ Release(r)
  PROVE  /\ pc'[r] = "Next" /\ req'[r].path = None
         /\ \A q \in Requests \ {r} :
              /\ req'[q].path = req[q].path
              /\ pc'[q] = pc[q] \/ (pc[q] = "Waiting" /\ pc'[q] = "Next")
<1>0. PICK handled \in BOOLEAN : \E c : Settle(r, handled, c)
  BY DEF Complete, Release
<1>1. PICK c : Settle(r, handled, c)
  BY <1>0
<1>2. req \in [Requests -> Local]
  BY DEF Types, TypeOK
<1>3. pc'[r] = "Next" /\ req'[r] = Advanced(req[r], handled)
  BY <1>1 DEF Settle
<1>4. req'[r].path = None
  BY <1>2, <1>3 DEF Advanced, Local
<1>5. ASSUME NEW q \in Requests \ {r}
      PROVE  /\ req'[q].path = req[q].path
             /\ pc'[q] = pc[q] \/ (pc[q] = "Waiting" /\ pc'[q] = "Next")
  BY <1>1, <1>2 DEF Settle, Local
<1> QED BY <1>3, <1>4, <1>5

\* Every action keeps InHandOnly, and one that is no fault makes no object
\* unknown.
LEMMA HandsStep ==
  ASSUME Types, InHandOnly, [Next]_vars
  PROVE  InHandOnly' /\ (UNCHANGED faults => Strays' \subseteq Strays)
<1> USE DEF Call
<1>0. /\ req \in [Requests -> Local] /\ pc \in [Requests -> Call] /\ NoRequest.path = None
      /\ \A p : Opened(p).path = None
  BY DEF Types, TypeOK, NoRequest, Opened
<1>1. CASE UNCHANGED vars
  <2>1. InHandOnly' /\ InHand' = InHand /\ Filed' = Filed /\ objects' = objects
    BY <1>1 DEF vars, InHandOnly, InHand, Filed
  <2> QED BY <2>1 DEF Strays
<1>2. ASSUME NEW r \in Requests, Step(r)
      PROVE  InHandOnly' /\ Strays' \subseteq Strays
  <2>1. CASE Answer(r)
    <3>1. /\ pc[r] = "Next" /\ UNCHANGED <<rows, objects>>
          /\ pc' = [pc EXCEPT ![r] = "Idle"] /\ req' = [req EXCEPT ![r] = NoRequest]
      BY <2>1 DEF Answer, Goto
    <3>2. InHandOnly' /\ \A q \in Requests : req'[q].path = req[q].path
      BY <1>0, <3>1 DEF InHandOnly
    <3> QED BY <3>1, <3>2, StraysShrink
  <2>2. CASE Ignore(r) \/ Skip(r) \/ Refuse(r) \/ ClaimPlain(r)
    <3>1. pc[r] = "Next" /\ UNCHANGED <<rows, objects>>
      BY <2>2 DEF Ignore, Skip, Refuse, ClaimPlain, MayClaim, Handling
    <3>2. PICK handled \in BOOLEAN : Advance(r, handled)
      BY <2>2 DEF Ignore, Skip, Refuse, ClaimPlain
    <3>3. pc' = [pc EXCEPT ![r] = "Next"] /\ req' = [req EXCEPT ![r] = Advanced(req[r], handled)]
      BY <3>2 DEF Advance, Goto
    <3>4. Advanced(req[r], handled).path = None
      BY <1>0 DEF Advanced, Local
    <3>5. InHandOnly' /\ \A q \in Requests : req'[q].path = req[q].path
      BY <1>0, <3>1, <3>3, <3>4 DEF InHandOnly
    <3> QED BY <3>1, <3>5, StraysShrink
  <2>3. CASE Claim(r)
    <3>1. pc[r] = "Next" /\ pc' = [pc EXCEPT ![r] = "Download"] /\ UNCHANGED <<rows, objects, req>>
      BY <2>3 DEF Claim, MayClaim, Handling, Goto
    <3>2. InHandOnly'
      BY <1>0, <3>1 DEF InHandOnly
    <3> QED BY <3>1, <3>2, StraysShrink
  <2>4. CASE Wait(r) \/ TimeOut(r)
    <3>1. /\ pc[r] \in {"Next", "Waiting"} /\ UNCHANGED <<rows, objects>>
          /\ pc'[r] \in {"Next", "Waiting"} /\ \A q \in Requests \ {r} : pc'[q] = pc[q]
      BY <1>0, <2>4 DEF Wait, TimeOut, Handling, Goto
    <3>2. \A q \in Requests : req'[q].path = req[q].path
      BY <1>0, <2>4 DEF Wait, TimeOut, Local
    <3>3. InHandOnly'
      BY <3>1, <3>2 DEF InHandOnly
    <3> QED BY <3>1, <3>2, <3>3, StraysShrink
  <2>5. ASSUME Complete(r) \/ Release(r), pc[r] \notin {"Idle", "Next", "Waiting"}
        PROVE  /\ InHandOnly'
               /\ \A q \in Requests \ {r} : req'[q].path = req[q].path
    BY <2>5, SettleHands DEF InHandOnly
  <2>6. CASE Download(r)
    <3>1. pc[r] = "Download" /\ UNCHANGED <<rows, objects>>
      BY <2>6 DEF Download
    <3>2. req[r].path = None
      BY <3>1 DEF InHandOnly
    <3>3. CASE Goto(r, "Upload") /\ UNCHANGED req
      <4>1. InHandOnly'
        BY <1>0, <3>1, <3>3 DEF InHandOnly, Goto
      <4> QED BY <3>1, <3>3, <4>1, StraysShrink
    <3>4. CASE Complete(r) \/ Release(r)
      <4>1. InHandOnly' /\ \A q \in Requests \ {r} : req'[q].path = req[q].path
        BY <2>5, <3>1, <3>4
      <4> QED BY <3>1, <3>2, <4>1, StraysShrink
    <3> QED BY <2>6, <3>3, <3>4 DEF Download
  <2>7. CASE Upload(r)
    <3>1. /\ CanUpload /\ pc[r] = "Upload" /\ UNCHANGED rows /\ objects' = objects \cup {NewPath}
          /\ pc' = [pc EXCEPT ![r] = "Insert"] /\ req' = [req EXCEPT ![r].path = NewPath]
      BY <2>7 DEF Upload, Goto
    <3>2. NewPath \in Paths
      BY <3>1 DEF CanUpload, NewPath
    <3>3. req'[r].path = NewPath /\ \A q \in Requests \ {r} : req'[q] = req[q]
      BY <1>0, <3>1 DEF Local
    <3>4. NewPath \in InHand'
      BY <3>2, <3>3, NoneIsNobody DEF InHand
    <3>5. InHandOnly' /\ req[r].path = None
      BY <1>0, <3>1, <3>3 DEF InHandOnly
    <3>6. \A path \in objects' \ objects : path \in InHand'
      BY <3>1, <3>4
    <3>7. \A q \in Requests : req[q].path = None \/ req[q].path = req'[q].path
      BY <3>3, <3>5
    <3> QED BY <3>1, <3>5, <3>6, <3>7, StraysShrink
  <2>8. CASE Insert(r)
    <3>1. pc[r] = "Insert" /\ UNCHANGED objects
      BY <2>8 DEF Insert
    <3>2. CASE Goto(r, "Drop") /\ UNCHANGED <<rows, req>>
      <4>1. InHandOnly'
        BY <1>0, <3>1, <3>2 DEF InHandOnly, Goto
      <4> QED BY <3>1, <3>2, <4>1, StraysShrink
    <3>3. CASE Complete(r) /\ rows' = rows \cup {[message |-> Message(r), path |-> req[r].path]}
      <4>1. InHandOnly' /\ \A q \in Requests \ {r} : req'[q].path = req[q].path
        BY <2>5, <3>1, <3>3
      <4> DEFINE row == [message |-> Message(r), path |-> req[r].path]
      <4>2. row \in rows' /\ row.path = req[r].path
        <5>1. rows' = rows \cup {row}
          BY <3>3
        <5>2. row.path = req[r].path
          OBVIOUS
        <5> HIDE DEF row
        <5> QED BY <5>1, <5>2
      <4> HIDE DEF row
      <4>3. req[r].path \in Filed'
        BY <4>2 DEF Filed
      <4> QED BY <3>1, <3>3, <4>1, <4>3, StraysShrink
    <3> QED BY <2>8, <3>2, <3>3 DEF Insert
  <2>9. CASE Drop(r) \/ Undo(r)
    <3>1. /\ pc[r] \in {"Drop", "Undo"} /\ UNCHANGED rows /\ objects' = objects \ {req[r].path}
          /\ Complete(r) \/ Release(r)
      BY <2>9 DEF Drop, Undo
    <3>2. InHandOnly' /\ \A q \in Requests \ {r} : req'[q].path = req[q].path
      BY <2>5, <3>1
    <3> QED BY <3>1, <3>2, StraysShrink
  <2> QED BY <1>2, <2>1, <2>2, <2>3, <2>4, <2>6, <2>7, <2>8, <2>9 DEF Step
<1>3. ASSUME NEW r \in Requests, Fault(r)
      PROVE  InHandOnly'
  <2>1. CASE AnswerLost(r)
    <3>1. pc' = [pc EXCEPT ![r] = "Idle"] /\ req' = [req EXCEPT ![r] = NoRequest]
      BY <2>1 DEF AnswerLost, Goto
    <3> QED BY <1>0, <3>1 DEF InHandOnly
  <2>2. CASE InsertFails(r)
    <3>1. pc' = [pc EXCEPT ![r] = "Undo"] /\ UNCHANGED req /\ pc[r] = "Insert"
      BY <2>2 DEF InsertFails, Goto
    <3> QED BY <1>0, <3>1 DEF InHandOnly
  <2>3. CASE ~AnswerLost(r) /\ ~InsertFails(r)
    <3>1. /\ pc[r] \in {"Download", "Upload", "Drop", "Undo"}
          /\ Complete(r) \/ Release(r)
      BY <1>3, <2>3 DEF Fault, DownloadFails, UploadFails, DropFails, UndoFails
    <3> QED BY <3>1, SettleHands DEF InHandOnly
  <2> QED BY <2>1, <2>2, <2>3
<1>4. ASSUME NEW r \in Requests, NEW p \in Processes, Send(r, p)
      PROVE  InHandOnly' /\ Strays' \subseteq Strays
  <2>1. /\ pc[r] = "Idle" /\ UNCHANGED <<rows, objects>>
        /\ pc' = [pc EXCEPT ![r] = "Next"] /\ req' = [req EXCEPT ![r] = Opened(p)]
    BY <1>4 DEF Send, Goto
  <2>2. InHandOnly' /\ \A q \in Requests : req'[q].path = req[q].path
    BY <1>0, <2>1 DEF InHandOnly
  <2> QED BY <2>1, <2>2, StraysShrink
<1>5. ASSUME NEW p \in Processes, Crash(p) \/ Expire(p)
      PROVE  InHandOnly'
  <2>1. CASE Crash(p)
    BY <1>0, <2>1 DEF Crash, InHandOnly
  <2>2. CASE Expire(p)
    BY <2>2 DEF Expire, InHandOnly
  <2> QED BY <1>5, <2>1, <2>2
<1>6. faults + 1 # faults
  BY DEF Types, TypeOK
<1> QED BY <1>1, <1>2, <1>3, <1>4, <1>5, <1>6 DEF Next

\* No step but a failure, a lost answer, a crash or an expiry leaves an object
\* behind that no row and no request knows of, for any number of processes and
\* redeliveries and any bound of the cache.
THEOREM UploadsAccountedFor == Spec => NothingLeftBehind
<1>1. Init => InHandOnly
  BY DEF Init, InHandOnly, NoRequest, Opened
<1>2. Types /\ InHandOnly /\ [Next]_vars => InHandOnly'
  BY HandsStep
<1>3. Types /\ InHandOnly /\ [Next]_vars => [UNCHANGED faults => Strays' \subseteq Strays]_vars
  BY HandsStep
<1> QED BY <1>1, <1>2, <1>3, TypesInvariant, PTL DEF Spec, NothingLeftBehind
-----------------------------------------------------------------------------
(* One handling at a time.  The claim of a message that is being handled   *)
(* stays in the cache of its process: a claim is only dropped by release,  *)
(* or as the oldest entry of a full cache.  While that entry is a finished *)
(* message's whenever a message is claimed, the cache has room for the     *)
(* messages in progress.                                                   *)

RoomToClaim ==
  \A r \in Requests : MayClaim(r) =>
    Len(cache[Proc(r)]) < MaxEntries \/ Head(cache[Proc(r)]).state = "PROCESSED"

Busy(r) == pc[r] \in Call \ {"Idle", "Next", "Waiting"}

\* The entries of a cache are of different messages.
Apart(c) == \A i, j \in DOMAIN c : c[i].id = c[j].id => i = j

Held(c, m) == \E k \in DOMAIN c : c[k].id = m /\ c[k].state = "IN_PROGRESS"

Claims ==
  /\ \A p \in Processes : Apart(cache[p])
  /\ \A r \in Requests : Busy(r) => Held(cache[Proc(r)], Message(r))
  /\ OneAtATime

LEMMA RemovedAt ==
  ASSUME NEW c \in Seq(Entry), NEW k \in 1..Len(c)
  PROVE  /\ RemoveAt(c, k) \in Seq(Entry) /\ Len(RemoveAt(c, k)) = Len(c) - 1
         /\ \A j \in 1..(Len(c) - 1) : RemoveAt(c, k)[j] = IF j < k THEN c[j] ELSE c[j + 1]
<1> DEFINE before == SubSeq(c, 1, k - 1)
           after == SubSeq(c, k + 1, Len(c))
<1>0. Len(c) \in Nat /\ k \in Nat /\ \A i \in 1..Len(c) : c[i] \in Entry
  BY LenProperties
<1>1. /\ before \in Seq(Entry) /\ Len(before) = k - 1
      /\ \A i \in 1..(k - 1) : before[i] = c[i]
  <2>1. \A i \in 1..(k - 1) : c[i] \in Entry
    BY <1>0
  <2>2. /\ before \in Seq(Entry)
        /\ Len(before) = IF 1 <= k - 1 THEN (k - 1) - 1 + 1 ELSE 0
        /\ \A i \in 1..((k - 1) - 1 + 1) : before[i] = c[1 + i - 1]
    BY <1>0, <2>1, SubSeqProperties
  <2>3. Len(before) = k - 1
    BY <1>0, <2>2
  <2>4. ASSUME NEW i \in 1..(k - 1) PROVE before[i] = c[i]
    <3>1. (k - 1) - 1 + 1 = k - 1 /\ 1 + i - 1 = i
      BY <1>0
    <3> QED
      BY <2>2, <3>1
  <2> QED
    BY <2>2, <2>3, <2>4
<1>2. /\ after \in Seq(Entry) /\ Len(after) = Len(c) - k
      /\ \A i \in 1..(Len(c) - k) : after[i] = c[k + i]
  <2>1. \A i \in (k + 1)..Len(c) : c[i] \in Entry
    BY <1>0
  <2>2. /\ after \in Seq(Entry)
        /\ Len(after) = IF k + 1 <= Len(c) THEN Len(c) - (k + 1) + 1 ELSE 0
        /\ \A i \in 1..(Len(c) - (k + 1) + 1) : after[i] = c[(k + 1) + i - 1]
    BY <1>0, <2>1, SubSeqProperties
  <2>3. Len(after) = Len(c) - k
    BY <1>0, <2>2
  <2>4. ASSUME NEW i \in 1..(Len(c) - k) PROVE after[i] = c[k + i]
    <3>1. Len(c) - (k + 1) + 1 = Len(c) - k /\ (k + 1) + i - 1 = k + i
      BY <1>0
    <3> QED
      BY <2>2, <3>1
  <2> QED
    BY <2>2, <2>3, <2>4
<1>3. RemoveAt(c, k) = before \o after
  BY DEF RemoveAt
<1> HIDE DEF before, after
<1>4. /\ before \o after \in Seq(Entry) /\ Len(before \o after) = Len(c) - 1
      /\ \A i \in 1..(Len(before) + Len(after)) :
           (before \o after)[i] = IF i <= Len(before) THEN before[i] ELSE after[i - Len(before)]
  <2>1. /\ before \o after \in Seq(Entry) /\ Len(before \o after) = Len(before) + Len(after)
        /\ \A i \in 1..(Len(before) + Len(after)) :
             (before \o after)[i] = IF i <= Len(before) THEN before[i] ELSE after[i - Len(before)]
    BY <1>1, <1>2, ConcatProperties
  <2>2. Len(before) + Len(after) = Len(c) - 1
    BY <1>0, <1>1, <1>2
  <2> QED
    BY <2>1, <2>2
<1>5. ASSUME NEW j \in 1..(Len(c) - 1) PROVE (before \o after)[j] = IF j < k THEN c[j] ELSE c[j + 1]
  <2>1. CASE j < k
    BY <1>0, <1>1, <1>2, <1>4, <2>1
  <2>2. CASE ~(j < k)
    <3>1. (before \o after)[j] = after[j - (k - 1)]
      BY <1>0, <1>1, <1>2, <1>4, <2>2
    <3>2. j - (k - 1) \in 1..(Len(c) - k) /\ k + (j - (k - 1)) = j + 1
      BY <1>0, <2>2
    <3> QED
      BY <1>2, <2>2, <3>1, <3>2
  <2> QED
    BY <2>1, <2>2
<1> QED
  BY <1>3, <1>4, <1>5

LEMMA WithoutEntries ==
  ASSUME NEW c \in Seq(Entry), Apart(c), NEW m
  PROVE  /\ Without(c, m) \in Seq(Entry)
         /\ Apart(Without(c, m))
         /\ \A k \in DOMAIN Without(c, m) : Without(c, m)[k].id # m
         /\ \A n : n # m /\ Held(c, n) => Held(Without(c, m), n)
         /\ Len(Without(c, m)) = IF \E k \in DOMAIN c : c[k].id = m THEN Len(c) - 1 ELSE Len(c)
         /\ ~(\E k \in DOMAIN c : c[k].id = m) => Without(c, m) = c
<1>1. CASE ~ \E k \in DOMAIN c : c[k].id = m
  BY <1>1 DEF Without
<1>2. CASE \E k \in DOMAIN c : c[k].id = m
  <2> DEFINE k == CHOOSE k \in DOMAIN c : c[k].id = m
             w == RemoveAt(c, k)
  <2>1. k \in 1..Len(c) /\ Len(c) \in Nat /\ DOMAIN c = 1..Len(c) /\ c[k].id = m
    BY <1>2, LenProperties
  <2>2. Without(c, m) = w
    BY <1>2 DEF Without
  <2> HIDE DEF k
  <2>3. /\ w \in Seq(Entry) /\ Len(w) = Len(c) - 1
        /\ \A j \in 1..(Len(c) - 1) : w[j] = IF j < k THEN c[j] ELSE c[j + 1]
    BY <2>1, RemovedAt
  <2> HIDE DEF w
  <2>4. DOMAIN w = 1..(Len(c) - 1)
    BY <2>3, LenProperties
  <2>5. Apart(w)
    <3> SUFFICES ASSUME NEW i \in 1..(Len(c) - 1), NEW j \in 1..(Len(c) - 1), w[i].id = w[j].id PROVE i = j
      BY <2>4 DEF Apart
    <3> DEFINE at(x) == IF x < k THEN x ELSE x + 1
    <3>1. at(i) \in DOMAIN c /\ at(j) \in DOMAIN c /\ w[i] = c[at(i)] /\ w[j] = c[at(j)]
      BY <2>1, <2>3
    <3>2. at(i) = at(j)
      BY <3>1 DEF Apart
    <3> QED
      BY <2>1, <3>2
  <2>6. ASSUME NEW j \in DOMAIN w PROVE w[j].id # m
    <3> DEFINE at == IF j < k THEN j ELSE j + 1
    <3>1. at \in DOMAIN c /\ w[j] = c[at] /\ at # k
      BY <2>1, <2>3, <2>4
    <3> QED
      BY <2>1, <3>1 DEF Apart
  <2>7. ASSUME NEW n, n # m, Held(c, n) PROVE Held(w, n)
    <3>1. PICK i \in DOMAIN c : c[i].id = n /\ c[i].state = "IN_PROGRESS"
      BY <2>7 DEF Held
    <3> DEFINE j == IF i < k THEN i ELSE i - 1
    <3>2. i # k
      BY <2>1, <2>7, <3>1
    <3>3. j \in 1..(Len(c) - 1) /\ (IF j < k THEN j ELSE j + 1) = i
      BY <2>1, <3>2
    <3>4. w[j] = c[i]
      BY <2>3, <3>3
    <3> QED
      BY <2>4, <3>1, <3>3, <3>4 DEF Held
  <2> QED
    BY <1>2, <2>2, <2>3, <2>5, <2>6, <2>7
<1> QED
  BY <1>1, <1>2

\* A new entry costs no message in progress its claim, when there is room.
LEMMA PutEntries ==
  ASSUME NEW c \in Seq(Entry), Apart(c), Len(c) <= MaxEntries, NEW m \in Messages, NEW state \in MESSAGE_STATE,
         \/ \E k \in DOMAIN c : c[k].id = m
         \/ Len(c) < MaxEntries
         \/ Head(c).state = "PROCESSED"
  PROVE  /\ Put(c, m, state) \in Seq(Entry) /\ Apart(Put(c, m, state)) /\ Len(Put(c, m, state)) <= MaxEntries
         /\ \E k \in DOMAIN Put(c, m, state) : Put(c, m, state)[k] = [id |-> m, state |-> state]
         /\ \A n : n # m /\ Held(c, n) => Held(Put(c, m, state), n)
<1> DEFINE w == Without(c, m)
           e == [id |-> m, state |-> state]
           longer == Append(w, e)
<1>1. /\ w \in Seq(Entry) /\ Apart(w) /\ e \in Entry /\ Len(c) \in Nat
      /\ \A k \in DOMAIN w : w[k].id # m
      /\ \A n : n # m /\ Held(c, n) => Held(w, n)
      /\ Len(w) = IF \E k \in DOMAIN c : c[k].id = m THEN Len(c) - 1 ELSE Len(c)
      /\ ~(\E k \in DOMAIN c : c[k].id = m) => w = c
  BY WithoutEntries, LenProperties DEF Entry
<1>2. e.id = m
  OBVIOUS
<1>3. Put(c, m, state) = IF Len(longer) > MaxEntries THEN Tail(longer) ELSE longer
  BY DEF Put
<1>4. Put(c, m, state) \in Seq(Entry) /\ Len(Put(c, m, state)) <= MaxEntries
  BY <1>1, PutType
<1> HIDE DEF w, e
<1>5. /\ longer \in Seq(Entry) /\ Len(longer) = Len(w) + 1 /\ Len(w) \in Nat
      /\ DOMAIN w = 1..Len(w) /\ DOMAIN longer = 1..(Len(w) + 1)
      /\ \A i \in 1..Len(w) : longer[i] = w[i]
      /\ longer[Len(w) + 1] = e
  BY <1>1, AppendProperties, LenProperties
<1> HIDE DEF longer
<1>6. Apart(longer)
  <2> SUFFICES ASSUME NEW i \in 1..(Len(w) + 1), NEW j \in 1..(Len(w) + 1), longer[i].id = longer[j].id PROVE i = j
    BY <1>5 DEF Apart
  <2>1. CASE i \in 1..Len(w) /\ j \in 1..Len(w)
    BY <1>1, <1>5, <2>1 DEF Apart
  <2>2. CASE i = Len(w) + 1 /\ j \in 1..Len(w)
    BY <1>1, <1>2, <1>5, <2>2
  <2>3. CASE j = Len(w) + 1 /\ i \in 1..Len(w)
    BY <1>1, <1>2, <1>5, <2>3
  <2> QED
    BY <1>5, <2>1, <2>2, <2>3
<1>7. ASSUME NEW n, n # m, Held(c, n)
      PROVE  \E i \in 1..Len(w) : longer[i].id = n /\ longer[i].state = "IN_PROGRESS"
  <2>1. Held(w, n)
    BY <1>1, <1>7
  <2>2. PICK k \in DOMAIN w : w[k].id = n /\ w[k].state = "IN_PROGRESS"
    BY <2>1 DEF Held
  <2> QED
    BY <1>5, <2>2
<1>8. CASE ~(Len(longer) > MaxEntries)
  <2>1. Put(c, m, state) = longer
    BY <1>3, <1>8
  <2>2. \E k \in DOMAIN longer : longer[k] = e
    BY <1>5
  <2>3. ASSUME NEW n, n # m, Held(c, n) PROVE Held(longer, n)
    <3>1. PICK i \in 1..Len(w) : longer[i].id = n /\ longer[i].state = "IN_PROGRESS"
      BY <1>7, <2>3
    <3> QED
      BY <1>5, <3>1 DEF Held
  <2> QED
    BY <1>4, <1>6, <2>1, <2>2, <2>3 DEF e
<1>9. CASE Len(longer) > MaxEntries
  <2>1. Put(c, m, state) = Tail(longer)
    BY <1>3, <1>9
  <2>2. MaxEntries \in Nat /\ MaxEntries >= 1
    BY CacheHoldsOne
  <2>3. ~(\E k \in DOMAIN c : c[k].id = m) /\ w = c /\ Len(c) = MaxEntries
    BY <1>1, <1>5, <1>9, <2>2
  <2>4. Head(c).state = "PROCESSED" /\ Head(c) = c[1] /\ longer[1] = c[1]
    <3>1. c # <<>>
      BY <2>2, <2>3, EmptySeq
    <3>2. Head(c) = c[1]
      BY <3>1
    <3> QED
      BY <1>5, <2>2, <2>3, <3>2
  <2>5. /\ Len(Tail(longer)) = Len(w) /\ DOMAIN Tail(longer) = 1..Len(w)
        /\ \A i \in 1..Len(w) : Tail(longer)[i] = longer[i + 1]
    BY <1>5, HeadTailProperties, LenProperties
  <2>6. Apart(Tail(longer))
    <3> SUFFICES ASSUME NEW i \in 1..Len(w), NEW j \in 1..Len(w), Tail(longer)[i].id = Tail(longer)[j].id PROVE i = j
      BY <2>5 DEF Apart
    <3>1. i + 1 \in DOMAIN longer /\ j + 1 \in DOMAIN longer /\ longer[i + 1].id = longer[j + 1].id
      BY <1>5, <2>5
    <3>2. i + 1 = j + 1
      BY <1>6, <3>1 DEF Apart
    <3> QED
      BY <1>5, <3>2
  <2>7. \E k \in DOMAIN Tail(longer) : Tail(longer)[k] = e
    <3>1. Len(w) \in 1..Len(w)
      BY <1>5, <2>2, <2>3
    <3> QED
      BY <1>5, <2>5, <3>1
  <2>8. ASSUME NEW n, n # m, Held(c, n) PROVE Held(Tail(longer), n)
    <3>1. PICK i \in 1..Len(w) : longer[i].id = n /\ longer[i].state = "IN_PROGRESS"
      BY <1>7, <2>8
    <3>2. i # 1
      BY <2>4, <3>1
    <3>3. i - 1 \in 1..Len(w) /\ (i - 1) + 1 = i
      BY <1>5, <3>2
    <3>4. Tail(longer)[i - 1] = longer[i]
      BY <2>5, <3>3
    <3> QED
      BY <2>5, <3>1, <3>3, <3>4 DEF Held
  <2> QED
    BY <1>4, <2>1, <2>6, <2>7, <2>8 DEF e
<1> QED
  BY <1>8, <1>9

\* A step that leaves every running handling its claim.
LEMMA KeepsClaims ==
  ASSUME Types, Claims, NEW p \in Processes, NEW c, Apart(c), cache' = [cache EXCEPT ![p] = c],
         \A q \in Requests : Busy(q)' =>
           /\ Busy(q) /\ Proc(q)' = Proc(q) /\ Message(q)' = Message(q)
           /\ Proc(q) = p => Held(c, Message(q))
  PROVE  Claims'
<1>1. \A q \in Processes : cache'[q] = IF q = p THEN c ELSE cache[q]
  BY DEF Types, TypeOK
<1>2. \A q \in Processes : Apart(cache'[q])
  BY <1>1 DEF Claims
<1>3. ASSUME NEW q \in Requests, Busy(q)' PROVE Held(cache'[Proc(q)'], Message(q)')
  <2>1. Busy(q) /\ Proc(q)' = Proc(q) /\ Message(q)' = Message(q) /\ (Proc(q) = p => Held(c, Message(q)))
    BY <1>3
  <2>2. Proc(q) \in Processes
    BY <2>1, CallType DEF Busy
  <2>3. Held(cache[Proc(q)], Message(q))
    BY <2>1 DEF Claims
  <2> QED
    BY <1>1, <2>1, <2>2, <2>3
<1>4. OneAtATime'
  <2> SUFFICES ASSUME NEW q \in Requests, NEW r \in Requests, q # r, Busy(q)', Busy(r)', Proc(q)' = Proc(r)'
               PROVE  Message(q)' # Message(r)'
    BY DEF OneAtATime, Busy
  <2> QED
    BY DEF Claims, OneAtATime, Busy
<1>5. \A q \in Requests : Busy(q)' => Held(cache[Proc(q)], Message(q))'
  BY <1>3 DEF Held
<1>6. \A q \in Processes : Apart(cache[q])'
  BY <1>2 DEF Apart
<1> QED
  BY <1>4, <1>5, <1>6 DEF Claims

LEMMA CacheStays ==
  ASSUME Types, Claims, UNCHANGED cache,
         \A q \in Requests : Busy(q)' => Busy(q) /\ Proc(q)' = Proc(q) /\ Message(q)' = Message(q)
  PROVE  Claims'
<1>1. \A q \in Processes : Apart(cache[q])'
  BY DEF Claims, Apart
<1>2. ASSUME NEW q \in Requests, Busy(q)' PROVE Held(cache[Proc(q)], Message(q))'
  <2>1. Held(cache[Proc(q)], Message(q)) /\ Proc(q)' = Proc(q) /\ Message(q)' = Message(q)
    BY <1>2 DEF Claims
  <2> QED
    BY <2>1 DEF Held
<1>3. OneAtATime'
  <2> SUFFICES ASSUME NEW q \in Requests, NEW r \in Requests, q # r, Busy(q)', Busy(r)', Proc(q)' = Proc(r)'
               PROVE  Message(q)' # Message(r)'
    BY DEF OneAtATime, Busy
  <2> QED
    BY DEF Claims, OneAtATime, Busy
<1> QED
  BY <1>1, <1>2, <1>3 DEF Claims

\* The end of a handling gives its own claim back, and no other.
LEMMA SettleClaims ==
  ASSUME Types, Claims, NEW r \in Requests, Busy(r), Complete(r) \/ Release(r)
  PROVE  Claims'
<1> DEFINE c == cache[Proc(r)]
           m == Message(r)
<1>1. Proc(r) \in Processes /\ m \in Messages
  BY CallType DEF Busy
<1>2. c \in Seq(Entry) /\ Len(c) <= MaxEntries /\ Apart(c) /\ Held(c, m)
  BY <1>1 DEF Types, TypeOK, Claims
<1>3. PICK d :
        /\ \E handled : Settle(r, handled, d)
        /\ Apart(d)
        /\ \A n : n # m /\ Held(c, n) => Held(d, n)
  <2>1. CASE Complete(r)
    <3>1. \E k \in DOMAIN c : c[k].id = m
      BY <1>2 DEF Held
    <3>2. /\ Apart(Put(c, m, "PROCESSED"))
          /\ \A n : n # m /\ Held(c, n) => Held(Put(c, m, "PROCESSED"), n)
      <4> HIDE DEF c, m
      <4> QED
        BY <1>1, <1>2, <3>1, PutEntries DEF MESSAGE_STATE
    <3> QED
      BY <2>1, <3>2 DEF Complete
  <2>2. CASE Release(r)
    <3>1. Apart(Without(c, m)) /\ \A n : n # m /\ Held(c, n) => Held(Without(c, m), n)
      BY <1>2, WithoutEntries
    <3> QED
      BY <2>2, <3>1 DEF Release
  <2> QED
    BY <2>1, <2>2
<1>4. cache' = [cache EXCEPT ![Proc(r)] = d]
  BY <1>3 DEF Settle
<1>5. ASSUME NEW q \in Requests, Busy(q)'
      PROVE  /\ Busy(q) /\ Proc(q)' = Proc(q) /\ Message(q)' = Message(q)
             /\ Proc(q) = Proc(r) => Held(d, Message(q))
  <2>1. q # r /\ pc'[q] = pc[q] /\ req'[q] = req[q]
    BY <1>3, <1>5 DEF Settle, Busy
  <2>2. Busy(q) /\ Proc(q)' = Proc(q) /\ Message(q)' = Message(q)
    BY <1>5, <2>1 DEF Busy, Proc, Message
  <2>3. Proc(q) = Proc(r) => Message(q) # m /\ Held(c, Message(q))
    BY <2>1, <2>2 DEF Claims, OneAtATime, Busy
  <2> QED
    BY <1>3, <2>2, <2>3
<1> QED
  BY <1>1, <1>3, <1>4, <1>5, KeepsClaims

LEMMA Unclaimed ==
  ASSUME NEW c \in Seq(Entry), NEW m, StateOf(c, m) = None
  PROVE  ~ \E k \in DOMAIN c : c[k].id = m
<1> SUFFICES ASSUME \E k \in DOMAIN c : c[k].id = m PROVE FALSE
  OBVIOUS
<1> DEFINE k == CHOOSE k \in DOMAIN c : c[k].id = m
<1>1. k \in DOMAIN c /\ StateOf(c, m) = c[k].state
  BY DEF StateOf
<1>2. c[k] \in Entry
  BY <1>1, LenProperties
<1> HIDE DEF k
<1> QED
  BY <1>1, <1>2 DEF Entry, MESSAGE_STATE, None

\* A claim is the only one of its message in the process.
LEMMA ClaimClaims ==
  ASSUME Types, Claims, RoomToClaim, NEW r \in Requests, Claim(r) \/ ClaimPlain(r)
  PROVE  Claims'
<1> DEFINE c == cache[Proc(r)]
           m == Message(r)
           first == Put(c, m, "IN_PROGRESS")
<1>1. MayClaim(r) /\ Handling(r) /\ pc[r] = "Next"
  BY DEF Claim, ClaimPlain, MayClaim, Handling
<1>2. Proc(r) \in Processes /\ m \in Messages
  BY <1>1, MessageType DEF Handling, Types, InBounds, Proc
<1>3. c \in Seq(Entry) /\ Len(c) <= MaxEntries /\ Apart(c)
  BY <1>2 DEF Types, TypeOK, Claims
<1>4. ~ \E k \in DOMAIN c : c[k].id = m
  BY <1>1, <1>3, Unclaimed DEF MayClaim, StateFor
<1>5. Len(c) < MaxEntries \/ Head(c).state = "PROCESSED"
  BY <1>1 DEF RoomToClaim
<1>6. /\ first \in Seq(Entry) /\ Apart(first) /\ Len(first) <= MaxEntries
      /\ \E k \in DOMAIN first : first[k] = [id |-> m, state |-> "IN_PROGRESS"]
      /\ \A n : n # m /\ Held(c, n) => Held(first, n)
  <2> HIDE DEF c, m
  <2> QED
    BY <1>2, <1>3, <1>5, PutEntries DEF MESSAGE_STATE
<1>7. ASSUME NEW q \in Requests, Busy(q), Proc(q) = Proc(r) PROVE Message(q) # m /\ Held(c, Message(q))
  BY <1>4, <1>7 DEF Claims, Held
<1>8. Held(first, m)
  BY <1>6 DEF Held
<1> HIDE DEF first
<1>9. CASE Claim(r)
  <2>1. cache' = [cache EXCEPT ![Proc(r)] = first] /\ req' = req /\ pc' = [pc EXCEPT ![r] = "Download"]
    BY <1>9 DEF Claim, Goto, first
  <2>2. \A p \in Processes : cache'[p] = IF p = Proc(r) THEN first ELSE cache[p]
    BY <2>1 DEF Types, TypeOK
  <2>3. \A q \in Requests : Proc(q)' = Proc(q) /\ Message(q)' = Message(q)
    BY <2>1 DEF Proc, Message
  <2>4. \A q \in Requests : pc'[q] = IF q = r THEN "Download" ELSE pc[q]
    BY <2>1 DEF Types, TypeOK
  <2>5. \A p \in Processes : Apart(cache[p])'
    BY <1>6, <2>2 DEF Claims, Apart
  <2>6. ASSUME NEW q \in Requests, Busy(q)' PROVE Held(cache[Proc(q)], Message(q))'
    <3>1. CASE q = r
      BY <1>2, <1>8, <2>2, <2>3, <3>1 DEF Held
    <3>2. CASE q # r
      <4>1. Busy(q)
        BY <2>4, <2>6, <3>2 DEF Busy
      <4>2. Held(cache'[Proc(q)], Message(q))
        <5>1. Proc(q) \in Processes
          BY <4>1, CallType DEF Busy
        <5>2. Held(cache[Proc(q)], Message(q))
          BY <4>1 DEF Claims
        <5> QED
          BY <1>6, <1>7, <2>2, <4>1, <5>1, <5>2
      <4> QED
        BY <2>3, <4>2 DEF Held
    <3> QED
      BY <3>1, <3>2
  <2>7. OneAtATime'
    <3> SUFFICES ASSUME NEW q \in Requests, NEW s \in Requests, q # s, Busy(q)', Busy(s)', Proc(q)' = Proc(s)'
                 PROVE  Message(q)' # Message(s)'
      BY DEF OneAtATime, Busy
    <3>1. \A x \in Requests \ {r} : Busy(x)' => Busy(x)
      BY <2>4 DEF Busy
    <3>2. Proc(q) = Proc(s)
      BY <2>3
    <3>3. CASE q # r /\ s # r
      <4>1. Message(q) # Message(s)
        BY <3>1, <3>2, <3>3 DEF Claims, OneAtATime, Busy
      <4> QED
        BY <2>3, <4>1
    <3>4. CASE q = r
      <4>1. Message(s) # m
        BY <1>7, <3>1, <3>2, <3>4
      <4> QED
        BY <2>3, <3>4, <4>1
    <3>5. CASE s = r
      <4>1. Message(q) # m
        BY <1>7, <3>1, <3>2, <3>5
      <4> QED
        BY <2>3, <3>5, <4>1
    <3> QED
      BY <3>3, <3>4, <3>5
  <2> QED
    BY <2>5, <2>6, <2>7 DEF Claims
<1>10. CASE ClaimPlain(r)
  <2> DEFINE second == Put(first, m, "PROCESSED")
  <2>1. Apart(second) /\ \A n : n # m /\ Held(first, n) => Held(second, n)
    <3>1. \E k \in DOMAIN first : first[k].id = m
      BY <1>6
    <3> HIDE DEF m
    <3> QED
      BY <1>2, <1>6, <3>1, PutEntries DEF MESSAGE_STATE
  <2>2. cache' = [cache EXCEPT ![Proc(r)] = second] /\ Advance(r, TRUE)
    BY <1>10 DEF ClaimPlain, first
  <2> HIDE DEF second
  <2>3. ASSUME NEW q \in Requests, Busy(q)'
        PROVE  /\ Busy(q) /\ Proc(q)' = Proc(q) /\ Message(q)' = Message(q)
               /\ Proc(q) = Proc(r) => Held(second, Message(q))
    <3>1. q # r /\ pc'[q] = pc[q] /\ req'[q] = req[q]
      BY <2>2, <2>3 DEF Advance, Goto, Busy, Types, TypeOK
    <3>2. Busy(q) /\ Proc(q)' = Proc(q) /\ Message(q)' = Message(q)
      BY <2>3, <3>1 DEF Busy, Proc, Message
    <3> QED
      BY <1>6, <1>7, <2>1, <3>2
  <2> QED
    BY <1>2, <2>1, <2>2, <2>3, KeepsClaims
<1> QED
  BY <1>9, <1>10

LEMMA NextClaims ==
  ASSUME Types, Claims, RoomToClaim, [Next]_vars
  PROVE  Claims'
<1>1. CASE UNCHANGED vars
  BY <1>1, CacheStays DEF vars, Busy, Proc, Message
<1>2. ASSUME NEW r \in Requests, Step(r) \/ Fault(r) \/ (\E p \in Processes : Send(r, p)) PROVE Claims'
  <2>1. CASE Claim(r) \/ ClaimPlain(r)
    BY <2>1, ClaimClaims
  <2>2. CASE pc[r] \in Call \ {"Idle", "Next", "Waiting"} /\ (Complete(r) \/ Release(r))
    BY <2>2, SettleClaims DEF Busy
  <2>3. CASE Answer(r) \/ AnswerLost(r) \/ Ignore(r) \/ Skip(r) \/ Wait(r) \/ TimeOut(r) \/ Refuse(r)
             \/ (\E p \in Processes : Send(r, p))
    <3>1. UNCHANGED cache /\ \E call \in {"Idle", "Next", "Waiting"} : \E local : Goto(r, call) /\ req' = [req EXCEPT ![r] = local]
      BY <2>3 DEF Answer, AnswerLost, Ignore, Skip, Wait, TimeOut, Refuse, Send, Advance
    <3>2. ASSUME NEW q \in Requests, Busy(q)' PROVE Busy(q) /\ Proc(q)' = Proc(q) /\ Message(q)' = Message(q)
      <4>1. q # r /\ pc'[q] = pc[q] /\ req'[q] = req[q]
        BY <3>1, <3>2 DEF Goto, Busy, Types, TypeOK
      <4> QED
        BY <3>2, <4>1 DEF Busy, Proc, Message
    <3> QED
      BY <3>1, <3>2, CacheStays
  <2>4. CASE /\ Download(r) \/ Upload(r) \/ Insert(r) \/ InsertFails(r)
             /\ ~(Complete(r) \/ Release(r))
    <3>1. Busy(r) /\ UNCHANGED cache
      BY <2>4 DEF Download, Upload, Insert, InsertFails, Busy, Call
    <3>2. \A q \in Requests : q # r => pc'[q] = pc[q] /\ req'[q] = req[q]
      BY <2>4 DEF Download, Upload, Insert, InsertFails, Goto, Types, TypeOK
    <3>3. req'[r].proc = req[r].proc /\ req'[r].at = req[r].at
      BY <2>4 DEF Download, Upload, Insert, InsertFails, Types, TypeOK, Local
    <3>4. ASSUME NEW q \in Requests, Busy(q)' PROVE Busy(q) /\ Proc(q)' = Proc(q) /\ Message(q)' = Message(q)
      BY <3>1, <3>2, <3>3, <3>4 DEF Busy, Proc, Message
    <3> QED
      BY <3>1, <3>4, CacheStays
  <2>5. Step(r) \/ Fault(r) \/ (\E p \in Processes : Send(r, p))
    BY <1>2
  <2>6. CASE Download(r) \/ DownloadFails(r) \/ Upload(r) \/ UploadFails(r) \/ Insert(r) \/ InsertFails(r)
             \/ Drop(r) \/ DropFails(r) \/ Undo(r) \/ UndoFails(r)
    <3>1. pc[r] \in Call \ {"Idle", "Next", "Waiting"}
      BY <2>6 DEF Download, DownloadFails, Upload, UploadFails, Insert, InsertFails, Drop, DropFails, Undo, UndoFails, Call
    <3>2. Complete(r) \/ Release(r) \/ Download(r) \/ Upload(r) \/ Insert(r) \/ InsertFails(r)
      BY <2>6 DEF DownloadFails, UploadFails, Drop, DropFails, Undo, UndoFails
    <3> QED
      BY <2>2, <2>4, <3>1, <3>2
  <2> QED
    BY <2>1, <2>3, <2>5, <2>6 DEF Step, Fault
<1>3. ASSUME NEW p \in Processes, Crash(p) PROVE Claims'
  <2>1. cache' = [cache EXCEPT ![p] = <<>>] /\ Apart(<<>>)
    BY <1>3 DEF Crash, Apart
  <2>2. ASSUME NEW q \in Requests, Busy(q)'
        PROVE  Busy(q) /\ Proc(q)' = Proc(q) /\ Message(q)' = Message(q) /\ Proc(q) # p
    <3>1. Proc(q) # p /\ pc'[q] = pc[q] /\ req'[q] = req[q]
      BY <1>3, <2>2 DEF Crash, Busy
    <3> QED
      BY <2>2, <3>1 DEF Busy, Proc, Message
  <2> QED
    BY <2>1, <2>2, KeepsClaims
<1>4. ASSUME NEW p \in Processes, Expire(p) PROVE Claims'
  <2> DEFINE c == cache[p]
  <2>1. c \in Seq(Entry) /\ c # <<>> /\ Apart(c) /\ Head(c).state = "PROCESSED"
    BY <1>4 DEF Expire, Types, TypeOK, Claims
  <2>2. cache' = [cache EXCEPT ![p] = Tail(c)] /\ UNCHANGED <<pc, req>>
    BY <1>4 DEF Expire
  <2> HIDE DEF c
  <2>3. /\ Len(c) \in Nat /\ Len(c) >= 1 /\ DOMAIN c = 1..Len(c) /\ Head(c) = c[1]
        /\ DOMAIN Tail(c) = 1..(Len(c) - 1) /\ \A i \in 1..(Len(c) - 1) : Tail(c)[i] = c[i + 1]
    <3>1. /\ Len(c) \in Nat /\ DOMAIN c = 1..Len(c) /\ Tail(c) \in Seq(Entry) /\ Len(Tail(c)) = Len(c) - 1
          /\ \A i \in 1..Len(Tail(c)) : Tail(c)[i] = c[i + 1]
      BY <2>1, HeadTailProperties, LenProperties
    <3>2. Len(c) # 0
      BY <2>1, EmptySeq
    <3>3. Head(c) = c[1]
      BY <2>1
    <3>4. DOMAIN Tail(c) = 1..(Len(c) - 1)
      BY <3>1, LenProperties
    <3> QED
      BY <3>1, <3>2, <3>3, <3>4
  <2>4. Apart(Tail(c))
    <3> SUFFICES ASSUME NEW i \in 1..(Len(c) - 1), NEW j \in 1..(Len(c) - 1), Tail(c)[i].id = Tail(c)[j].id PROVE i = j
      BY <2>3 DEF Apart
    <3>1. i + 1 \in DOMAIN c /\ j + 1 \in DOMAIN c /\ c[i + 1].id = c[j + 1].id
      BY <2>3
    <3>2. i + 1 = j + 1
      BY <2>1, <3>1 DEF Apart
    <3> QED
      BY <2>3, <3>2
  <2>5. ASSUME NEW n, Held(c, n) PROVE Held(Tail(c), n)
    <3>1. PICK i \in DOMAIN c : c[i].id = n /\ c[i].state = "IN_PROGRESS"
      BY <2>5 DEF Held
    <3>2. i # 1
      BY <2>1, <2>3, <3>1
    <3>3. i - 1 \in 1..(Len(c) - 1) /\ (i - 1) + 1 = i
      BY <2>3, <3>2
    <3>4. Tail(c)[i - 1] = c[i]
      BY <2>3, <3>3
    <3> QED
      BY <2>3, <3>1, <3>3, <3>4 DEF Held
  <2>6. ASSUME NEW q \in Requests, Busy(q)'
        PROVE  /\ Busy(q) /\ Proc(q)' = Proc(q) /\ Message(q)' = Message(q)
               /\ Proc(q) = p => Held(Tail(c), Message(q))
    <3>1. Busy(q) /\ Proc(q)' = Proc(q) /\ Message(q)' = Message(q)
      BY <2>2, <2>6 DEF Busy, Proc, Message
    <3>2. Proc(q) = p => Held(c, Message(q))
      BY <3>1 DEF Claims, c
    <3> QED
      BY <2>5, <3>1, <3>2
  <2> QED
    BY <2>2, <2>4, <2>6, KeepsClaims
<1> QED
  BY <1>1, <1>2, <1>3, <1>4 DEF Next

\* A process never handles one message twice at once (claim in
\* messageIdempotency.js), for every execution in which the cache has room for
\* the claims: when a message is claimed and the cache is full, its oldest entry
\* is a finished message's.
THEOREM HandledOnce == Spec /\ []RoomToClaim => []OneAtATime
<1>1. Init => Claims
  BY DEF Init, Claims, Apart, Busy, OneAtATime
<1>2. Types /\ Claims /\ RoomToClaim /\ [Next]_vars => Claims'
  BY NextClaims
<1>3. Claims => OneAtATime
  BY DEF Claims
<1> QED
  BY <1>1, <1>2, <1>3, TypesInvariant, PTL DEF Spec

\* A cache for all messages has room for every claim: the message to be claimed
\* is in none of its entries, and they are of different messages.
LEMMA RoomForAll ==
  ASSUME Types, Claims, IsFiniteSet(Messages), Cardinality(Messages) <= MaxEntries
  PROVE  RoomToClaim
<1> SUFFICES ASSUME NEW r \in Requests, MayClaim(r) PROVE Len(cache[Proc(r)]) < MaxEntries
  BY DEF RoomToClaim
<1> DEFINE c == cache[Proc(r)]
           m == Message(r)
           id == [k \in 1..Len(c) |-> c[k].id]
<1>1. Proc(r) \in Processes /\ m \in Messages
  BY MessageType DEF MayClaim, Handling, Types, InBounds, Proc
<1>2. c \in Seq(Entry) /\ Len(c) <= MaxEntries /\ Apart(c) /\ Len(c) \in Nat /\ DOMAIN c = 1..Len(c) /\ MaxEntries \in Nat
  BY <1>1, CacheHoldsOne, LenProperties DEF Types, TypeOK, Claims
<1>3. ~ \E k \in DOMAIN c : c[k].id = m
  BY <1>2, Unclaimed DEF MayClaim, StateFor
<1>4. id \in [1..Len(c) -> Messages \ {m}]
  <2>1. \A k \in 1..Len(c) : c[k] \in Entry
    BY <1>2, LenProperties
  <2>2. \A k \in 1..Len(c) : c[k].id \in Messages /\ c[k].id # m
    BY <1>2, <1>3, <2>1 DEF Entry
  <2> HIDE DEF c, m
  <2> QED
    BY <2>2
<1>5. \A i, j \in 1..Len(c) : id[i] = id[j] => i = j
  BY <1>2 DEF Apart
<1> HIDE DEF id, c, m
<1>6. IsFiniteSet(Messages \ {m}) /\ Cardinality(Messages \ {m}) = Cardinality(Messages) - 1 /\ Cardinality(Messages) \in Nat
  BY <1>1, FS_RemoveElement, FS_CardinalityType
<1>7. IsFiniteSet(1..Len(c)) /\ Cardinality(1..Len(c)) = Len(c)
  <2>1. 1 \in Int /\ Len(c) \in Int
    BY <1>2
  <2>2. /\ IsFiniteSet(1..Len(c))
        /\ Cardinality(1..Len(c)) = IF 1 > Len(c) THEN 0 ELSE Len(c) - 1 + 1
    BY <2>1, FS_Interval
  <2> QED
    BY <1>2, <2>2
<1>8. ~(Cardinality(Messages \ {m}) < Cardinality(1..Len(c)))
  BY <1>4, <1>5, <1>6, <1>7, FS_PigeonHole
<1> QED
  BY <1>2, <1>6, <1>7, <1>8 DEF c

\* So no message is handled twice at once by a process whose cache is not
\* smaller than the number of messages.
THEOREM HandledOnceWithRoom ==
  ASSUME IsFiniteSet(Messages), Cardinality(Messages) <= MaxEntries
  PROVE  Spec => []OneAtATime
<1>1. Init => Claims
  BY DEF Init, Claims, Apart, Busy, OneAtATime
<1>2. Types /\ Claims /\ [Next]_vars => Claims'
  BY NextClaims, RoomForAll
<1>3. Claims => OneAtATime
  BY DEF Claims
<1> QED
  BY <1>1, <1>2, <1>3, TypesInvariant, PTL DEF Spec
=============================================================================
