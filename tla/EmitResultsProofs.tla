-------------------------- MODULE EmitResultsProofs --------------------------
(***************************************************************************)
(* The results of emits, for any number of emits, handlers and copies:      *)
(* types, the invariants of the calls and of the entries, and that emit     *)
(* implements what it promises.                                             *)
(***************************************************************************)
EXTENDS EmitResults, SequenceTheorems, TLAPS

-----------------------------------------------------------------------------
(* The invariant.                                                           *)

\* Nothing is known of an event before it is emitted.
Unsent(e, h) ==
  /\ travelling[e][h] = 0 /\ running[e][h] = 0 /\ started[e][h] = 0
  /\ reports[e][h] = << >> /\ h \notin completed[e] /\ h \notin target[e]

\* Every call was started by a copy, and only started calls are remembered.
Called(e, h) ==
  /\ promise[e] = "idle" => Unsent(e, h)
  /\ working[h] = e => started[e][h] > 0
  /\ h \in target[e] /\ travelling[e][h] = 0 => started[e][h] > 0

\* A handler whose completion is known of, or reported, has completed.
Honest(e, h) ==
  /\ status[e][h] = "completed" => h \in completed[e]
  /\ \A i \in 1..Len(reports[e][h]) : reports[e][h][i] = "completed" => h \in completed[e]

\* Within the process the copies arrive together: while some are left, the one
\* call they cause is still remembered.  The sender knows how that call stands.
Together(e, h) ==
  /\ started[e][h] <= 1 /\ reports[e][h] = << >>
  /\ travelling[e][h] > 0 /\ started[e][h] > 0 => working[h] = e
  /\ started[e][h] = 0 => running[e][h] = 0 /\ h \notin completed[e]
  /\ running[e][h] > 0 => running[e][h] = 1 /\ h \notin completed[e]
  /\ e \in open /\ running[e][h] > 0 => status[e][h] = "pending"
  /\ e \in open /\ h \in completed[e] => status[e][h] = "completed"

\* Only one event at a time travels within the process.
OneAtATime ==
  \A e, f \in Emits \ remote, h, k \in Handlers :
    travelling[e][h] > 0 /\ travelling[f][k] > 0 => e = f

Entry(e) ==
  /\ promise[e] = "idle" => e \notin remote
  /\ promise[e] # "resolved" => returned[e] = {}
  /\ promise[e] = "waiting" => e \in open
  /\ promise[e] = "resolved" /\ e \in open => returned[e] = {} /\ e \notin timeoutPassed
  /\ e \notin open => status[e] = [h \in Handlers |-> "none"]

Calls == \A e \in Emits, h \in Handlers : Called(e, h) /\ Honest(e, h)
LocalCalls == \A e \in Emits \ remote, h \in Handlers : Together(e, h)
Entries == \A e \in Emits : Entry(e)

IInv == TypeOK /\ Calls /\ LocalCalls /\ OneAtATime /\ Entries

LEMMA InitIInv == Init => IInv
<1> SUFFICES ASSUME Init PROVE IInv
  OBVIOUS
<1> USE EmitAssumptions DEF Init, None
<1>1. TypeOK
  BY DEF TypeOK, Pairs, Statuses
<1>2. Calls
  BY DEF Calls, Called, Unsent, Honest
<1>3. LocalCalls /\ OneAtATime /\ Entries
  BY DEF LocalCalls, Together, OneAtATime, Entries, Entry
<1> QED
  BY <1>1, <1>2, <1>3 DEF IInv

-----------------------------------------------------------------------------
(* Types.                                                                   *)

\* Filing a result and sending one keep the types of what they change.
LEMMA ReportTypes ==
  ASSUME TypeOK, NEW e \in Emits, NEW h \in Handlers, NEW result \in Statuses,
         Report(e, h, result)
  PROVE  status' \in Pairs(Statuses \cup {"none"}) /\ reports' \in Pairs(Seq(Statuses))
<1>1. CASE e \in remote
  <2>1. Append(reports[e][h], result) \in Seq(Statuses)
    BY DEF TypeOK, Pairs
  <2> QED
    <3>1. reports' = [reports EXCEPT ![e][h] = Append(reports[e][h], result)] /\ status' = status
      BY <1>1 DEF Report
    <3>2. reports \in Pairs(Seq(Statuses)) /\ status \in Pairs(Statuses \cup {"none"})
      BY DEF TypeOK
    <3> QED
      BY <2>1, <3>1, <3>2 DEF Pairs
<1>2. CASE e \notin remote
  <2>1. status' \in Pairs(Statuses \cup {"none"})
    <3>1. status' = status \/ status' = [status EXCEPT ![e][h] = result]
      BY <1>2 DEF Report, Filed
    <3>2. result \in Statuses \cup {"none"}
      OBVIOUS
    <3>3. status \in Pairs(Statuses \cup {"none"})
      BY DEF TypeOK
    <3> QED
      BY <3>1, <3>2, <3>3 DEF Pairs
  <2> QED
    BY <1>2, <2>1 DEF Report, TypeOK
<1> QED
  BY <1>1, <1>2

LEMMA EmitTypes == ASSUME TypeOK, NEW e \in Emits, Emit(e) PROVE TypeOK'
<1>1. PICK copies \in Reach :
        /\ travelling' = [travelling EXCEPT ![e] = copies]
        /\ target' = [target EXCEPT ![e] = {h \in Handlers : copies[h] > 0}]
  BY DEF Emit
<1>2. travelling' \in Pairs(Nat) /\ target' \in [Emits -> SUBSET Handlers]
  BY <1>1, EmitAssumptions DEF TypeOK, Pairs
<1> QED
  BY <1>2 DEF Emit, TypeOK

LEMMA DeliverTypes ==
  ASSUME TypeOK, NEW e \in Emits, NEW h \in Handlers, Deliver(e, h) PROVE TypeOK'
<1>1. travelling' \in Pairs(Nat)
  BY DEF TypeOK, Deliver, Pairs
<1>2. CASE IsWorkingOn(h, e)
  BY <1>1, <1>2 DEF TypeOK, Deliver
<1>3. CASE ~IsWorkingOn(h, e)
  <2>1. Report(e, h, "pending") /\ "pending" \in Statuses
    BY <1>3 DEF Deliver, Statuses
  <2>2. status' \in Pairs(Statuses \cup {"none"}) /\ reports' \in Pairs(Seq(Statuses))
    BY <2>1, ReportTypes
  <2>3. running' \in Pairs(Nat) /\ started' \in Pairs(Nat)
    <3>1. /\ running' = [running EXCEPT ![e][h] = @ + 1]
          /\ started' = [started EXCEPT ![e][h] = @ + 1]
      BY <1>3 DEF Deliver
    <3>2. running \in Pairs(Nat) /\ started \in Pairs(Nat)
      BY DEF TypeOK
    <3>3. running' \in Pairs(Nat)
      BY <3>1, <3>2 DEF Pairs
    <3>4. started' \in Pairs(Nat)
      BY <3>1, <3>2 DEF Pairs
    <3> QED
      BY <3>3, <3>4
  <2>4. working' \in [Handlers -> Emits \cup {NoEmit}]
    BY <1>3 DEF TypeOK, Deliver
  <2> QED
    BY <1>1, <2>2, <2>3, <2>4 DEF TypeOK, Deliver
<1> QED
  BY <1>2, <1>3

LEMMA CompleteTypes ==
  ASSUME TypeOK, NEW e \in Emits, NEW h \in Handlers, Complete(e, h) PROVE TypeOK'
<1>1. status' \in Pairs(Statuses \cup {"none"}) /\ reports' \in Pairs(Seq(Statuses))
  BY ReportTypes DEF Complete, Statuses
<1>2. running' \in Pairs(Nat)
  BY DEF TypeOK, Complete, Pairs
<1>3. working' \in [Handlers -> Emits \cup {NoEmit}] /\ completed' \in [Emits -> SUBSET Handlers]
  BY DEF TypeOK, Complete
<1> QED
  BY <1>1, <1>2, <1>3 DEF TypeOK, Complete

LEMMA FailTypes ==
  ASSUME TypeOK, NEW e \in Emits, NEW h \in Handlers, Fail(e, h) PROVE TypeOK'
<1>1. status' \in Pairs(Statuses \cup {"none"}) /\ reports' \in Pairs(Seq(Statuses))
  BY ReportTypes DEF Fail, Statuses
<1>2. running' \in Pairs(Nat)
  BY DEF TypeOK, Fail, Pairs
<1> QED
  BY <1>1, <1>2 DEF TypeOK, Fail, history

LEMMA ResultArrivesTypes ==
  ASSUME TypeOK, NEW e \in Emits, NEW h \in Handlers, ResultArrives(e, h) PROVE TypeOK'
<1>1. reports[e][h] \in Seq(Statuses) /\ reports[e][h] # << >>
  BY DEF TypeOK, ResultArrives, Pairs
<1>2. Head(reports[e][h]) \in Statuses /\ Tail(reports[e][h]) \in Seq(Statuses)
  BY <1>1
<1>3. reports' \in Pairs(Seq(Statuses))
  BY <1>2 DEF TypeOK, ResultArrives, Pairs
<1>4. status' \in Pairs(Statuses \cup {"none"})
  BY <1>2 DEF TypeOK, ResultArrives, Pairs, Filed
<1> QED
  BY <1>3, <1>4 DEF TypeOK, ResultArrives, history

LEMMA PollTypes == ASSUME TypeOK, NEW e \in Emits, Poll(e) PROVE TypeOK'
<1>1. promise' \in [Emits -> {"idle", "waiting", "resolved"}] /\ open' \subseteq Emits
  BY DEF TypeOK, Poll
<1>2. returned' \in [Emits -> SUBSET Handlers]
  BY DEF TypeOK, Poll, Results
<1>3. status' \in Pairs(Statuses \cup {"none"})
  <2>1. [k \in Handlers |-> "none"] \in [Handlers -> Statuses \cup {"none"}]
    OBVIOUS
  <2>2. status' = status \/ status' = [status EXCEPT ![e] = [k \in Handlers |-> "none"]]
    BY DEF Poll
  <2> QED
    BY <2>1, <2>2 DEF TypeOK, Pairs
<1> QED
  BY <1>1, <1>2, <1>3 DEF TypeOK, Poll, handlerVars, history

LEMMA NextTypes == TypeOK /\ [Next]_vars => TypeOK'
<1> SUFFICES ASSUME TypeOK, [Next]_vars PROVE TypeOK'
  OBVIOUS
<1>1. ASSUME NEW e \in Emits, PingPasses(e) \/ TimeoutPasses(e) PROVE TypeOK'
  BY <1>1 DEF TypeOK, PingPasses, TimeoutPasses, handlerVars, history
<1>2. CASE UNCHANGED vars
  BY <1>2 DEF TypeOK, vars, senderVars, handlerVars, history
<1> QED
  BY <1>1, <1>2, EmitTypes, DeliverTypes, CompleteTypes, FailTypes, ResultArrivesTypes, PollTypes
  DEF Next

-----------------------------------------------------------------------------
(* Calls and entries.                                                       *)

\* What a report changes: the status, of an entry that is open, or the queue.
LEMMA ReportEffect ==
  ASSUME TypeOK, NEW e \in Emits, NEW h \in Handlers, NEW result \in Statuses,
         Report(e, h, result), NEW d \in Emits, NEW k \in Handlers
  PROVE  /\ status'[d][k] = IF d = e /\ k = h /\ e \notin remote /\ e \in open
                             THEN result ELSE status[d][k]
         /\ reports'[d][k] = IF d = e /\ k = h /\ e \in remote
                              THEN Append(reports[d][k], result) ELSE reports[d][k]
<1>1. status \in Pairs(Statuses \cup {"none"}) /\ reports \in Pairs(Seq(Statuses))
  BY DEF TypeOK
<1>2. CASE e \in remote
  <2>1. PICK sent : sent = Append(reports[e][h], result)
    OBVIOUS
  <2>2. reports' = [reports EXCEPT ![e][h] = sent] /\ status' = status
    BY <1>2, <2>1 DEF Report
  <2>3. reports'[d][k] = IF d = e /\ k = h THEN sent ELSE reports[d][k]
    BY <1>1, <2>2 DEF Pairs
  <2> QED
    BY <1>2, <2>1, <2>2, <2>3
<1>3. CASE e \notin remote
  BY <1>1, <1>3 DEF Report, Filed, Pairs
<1> QED
  BY <1>2, <1>3

\* What a delivery changes: one copy less, and one call more unless the
\* handler is working on the event.
LEMMA DeliverEffect ==
  ASSUME TypeOK, NEW e \in Emits, NEW h \in Handlers, Deliver(e, h),
         NEW d \in Emits, NEW k \in Handlers
  PROVE  /\ travelling'[d][k] = IF d = e /\ k = h THEN travelling[d][k] - 1 ELSE travelling[d][k]
         /\ running'[d][k] = IF d = e /\ k = h /\ working[h] # e
                              THEN running[d][k] + 1 ELSE running[d][k]
         /\ started'[d][k] = IF d = e /\ k = h /\ working[h] # e
                              THEN started[d][k] + 1 ELSE started[d][k]
         /\ working'[k] = IF k = h THEN e ELSE working[k]
<1>1. travelling \in Pairs(Nat) /\ running \in Pairs(Nat) /\ started \in Pairs(Nat)
  BY DEF TypeOK
<1>2. working \in [Handlers -> Emits \cup {NoEmit}]
  BY DEF TypeOK
<1>3. travelling'[d][k] = IF d = e /\ k = h THEN travelling[d][k] - 1 ELSE travelling[d][k]
  BY <1>1 DEF Deliver, Pairs
<1>4. CASE IsWorkingOn(h, e)
  BY <1>2, <1>3, <1>4 DEF Deliver, IsWorkingOn
<1>5. CASE ~IsWorkingOn(h, e)
  <2>1. running'[d][k] = IF d = e /\ k = h THEN running[d][k] + 1 ELSE running[d][k]
    BY <1>1, <1>5 DEF Deliver, Pairs
  <2>2. started'[d][k] = IF d = e /\ k = h THEN started[d][k] + 1 ELSE started[d][k]
    BY <1>1, <1>5 DEF Deliver, Pairs
  <2>3. working'[k] = IF k = h THEN e ELSE working[k]
    BY <1>2, <1>5 DEF Deliver
  <2> QED
    BY <1>3, <1>5, <2>1, <2>2, <2>3 DEF IsWorkingOn
<1> QED
  BY <1>4, <1>5

LEMMA EmitKeeps == ASSUME IInv, NEW e \in Emits, Emit(e) PROVE IInv'
<1>1. PICK copies \in Reach :
        /\ travelling' = [travelling EXCEPT ![e] = copies]
        /\ target' = [target EXCEPT ![e] = {h \in Handlers : copies[h] > 0}]
  BY DEF Emit
<1>2. /\ promise' = [promise EXCEPT ![e] = "waiting"] /\ promise[e] = "idle"
      /\ open' = open \cup {e} /\ remote \subseteq remote' /\ remote' \subseteq remote \cup {e}
      /\ UNCHANGED <<returned, pingPassed, timeoutPassed, status, working, running,
                     reports, started, completed>>
      /\ LoopIsFree
  BY DEF Emit
<1>3. copies \in [Handlers -> Nat]
  BY EmitAssumptions
<1>41. \A d \in Emits, h \in Handlers :
         travelling'[d][h] = IF d = e THEN copies[h] ELSE travelling[d][h]
  <2>1. travelling \in Pairs(Nat)
    BY DEF IInv, TypeOK
  <2> QED
    BY <1>1, <2>1 DEF Pairs
<1>42. \A d \in Emits : target'[d] = IF d = e THEN {h \in Handlers : copies[h] > 0} ELSE target[d]
  BY <1>1 DEF IInv, TypeOK
<1>43. \A d \in Emits : promise'[d] = IF d = e THEN "waiting" ELSE promise[d]
  BY <1>2 DEF IInv, TypeOK
<1>5. \A h \in Handlers : Unsent(e, h)
  BY <1>2 DEF IInv, Calls, Called
<1>6. Calls'
  <2> SUFFICES ASSUME NEW d \in Emits, NEW h \in Handlers PROVE (Called(d, h) /\ Honest(d, h))'
    BY DEF Calls
  <2>1. Called(d, h) /\ Honest(d, h)
    BY DEF IInv, Calls
  <2>2. Honest(d, h)'
    BY <1>2, <2>1 DEF Honest
  <2>3. Called(d, h)'
    <3>1. CASE d = e
      <4>1. promise'[e] = "waiting" /\ working'[h] # e
        <5>1. started[e][h] = 0 /\ (working[h] = e => started[e][h] > 0)
          BY <1>5, <2>1, <3>1 DEF Called, Unsent
        <5> QED
          BY <1>2, <1>41, <1>42, <1>43, <5>1
      <4>2. h \in target'[e] => copies[h] > 0 /\ travelling'[e][h] = copies[h]
        BY <1>41, <1>42
      <4> QED
        BY <3>1, <4>1, <4>2, <1>3 DEF Called
    <3>2. CASE d # e
      <4>1. /\ travelling'[d][h] = travelling[d][h] /\ target'[d] = target[d]
            /\ promise'[d] = promise[d]
        BY <1>41, <1>42, <1>43, <3>2
      <4> QED
        BY <1>2, <2>1, <4>1, Zenon DEF Called, Unsent
    <3> QED
      BY <3>1, <3>2
  <2> QED
    BY <2>2, <2>3
<1>7. LocalCalls'
  <2> SUFFICES ASSUME NEW d \in Emits \ remote', NEW h \in Handlers PROVE Together(d, h)'
    BY DEF LocalCalls
  <2>1. Together(d, h)
    BY <1>2 DEF IInv, LocalCalls
  <2>2. CASE d # e
    BY <1>2, <1>41, <1>42, <1>43, <2>1, <2>2 DEF Together
  <2>3. CASE d = e
    BY <1>2, <1>5, <2>1, <2>3 DEF Together, Unsent
  <2> QED
    BY <2>2, <2>3
<1>8. OneAtATime'
  <2>1. \A d \in Emits \ remote', h \in Handlers : travelling'[d][h] > 0 => d = e
    BY <1>2, <1>41 DEF LoopIsFree
  <2> QED
    BY <2>1 DEF OneAtATime
<1>9. Entries'
  <2> SUFFICES ASSUME NEW d \in Emits PROVE Entry(d)'
    BY DEF Entries
  <2>1. Entry(d)
    BY DEF IInv, Entries
  <2>2. CASE d = e
    <3>1. promise'[d] = "waiting" /\ d \in open'
      BY <1>2, <1>41, <1>42, <1>43, <2>2
    <3>2. promise[d] = "idle" /\ returned'[d] = returned[d]
      BY <1>2, <2>2
    <3> QED
      BY <2>1, <3>1, <3>2 DEF Entry
  <2>3. CASE d # e
    <3>1. promise'[d] = promise[d]
      BY <1>41, <1>42, <1>43, <2>3
    <3> QED
      BY <1>2, <2>1, <2>3, <3>1 DEF Entry
  <2> QED
    BY <2>2, <2>3
<1> QED
  BY <1>6, <1>7, <1>8, <1>9, EmitTypes DEF IInv

\* A queue that grew by a result holds what it held, and that result.
LEMMA Appended ==
  ASSUME NEW q \in Seq(Statuses), NEW result \in Statuses,
         NEW i \in 1..Len(Append(q, result))
  PROVE  \/ i \in 1..Len(q) /\ Append(q, result)[i] = q[i]
         \/ Append(q, result)[i] = result
OBVIOUS

LEMMA DeliverKeeps ==
  ASSUME IInv, NEW e \in Emits, NEW h \in Handlers, Deliver(e, h) PROVE IInv'
<1>1. /\ travelling[e][h] > 0 /\ (e \in remote => LoopIsFree)
      /\ UNCHANGED <<remote, promise, returned, pingPassed, timeoutPassed, open, target, completed>>
  BY DEF Deliver
<1>2. TypeOK /\ promise[e] # "idle" /\ "pending" \in Statuses /\ Together(e, h)' \in BOOLEAN
  BY <1>1 DEF IInv, Calls, Called, Unsent, Statuses, Together
<1>3. \A d \in Emits, k \in Handlers :
        /\ status'[d][k] = IF d = e /\ k = h /\ working[h] # e /\ e \notin remote /\ e \in open
                            THEN "pending" ELSE status[d][k]
        /\ reports'[d][k] = IF d = e /\ k = h /\ working[h] # e /\ e \in remote
                             THEN Append(reports[d][k], "pending") ELSE reports[d][k]
  <2>1. CASE IsWorkingOn(h, e)
    BY <2>1 DEF Deliver, IsWorkingOn
  <2>2. CASE ~IsWorkingOn(h, e)
    BY <1>2, <2>2, ReportEffect DEF Deliver, IsWorkingOn
  <2> QED
    BY <2>1, <2>2
<1>4. \A d \in Emits, k \in Handlers :
        /\ travelling[d][k] \in Nat /\ running[d][k] \in Nat /\ started[d][k] \in Nat
        /\ reports[d][k] \in Seq(Statuses)
  BY <1>2 DEF TypeOK, Pairs
<1>5. Calls'
  <2> SUFFICES ASSUME NEW d \in Emits, NEW k \in Handlers PROVE (Called(d, k) /\ Honest(d, k))'
    BY DEF Calls
  <2>1. Called(d, k) /\ Honest(d, k)
    BY DEF IInv, Calls
  <2>2. Honest(d, k)'
    <3>1. CASE reports'[d][k] = reports[d][k]
      BY <1>1, <1>3, <2>1, <3>1 DEF Honest
    <3>2. CASE reports'[d][k] = Append(reports[d][k], "pending")
      BY <1>1, <1>3, <1>4, <2>1, <3>2, Appended DEF Honest
    <3> QED
      BY <1>3, <3>1, <3>2
  <2>3. Called(d, k)'
    BY <1>1, <1>2, <1>3, <1>4, <2>1, DeliverEffect DEF Called, Unsent
  <2> QED
    BY <2>2, <2>3
<1>6. LocalCalls'
  <2> SUFFICES ASSUME NEW d \in Emits \ remote', NEW k \in Handlers PROVE Together(d, k)'
    BY DEF LocalCalls
  <2>1. Together(d, k) /\ d \notin remote
    BY <1>1 DEF IInv, LocalCalls
  <2>2. travelling[d][k] > 0 => d = e
    BY <1>1, <2>1 DEF IInv, OneAtATime, LoopIsFree
  <2> QED
    BY <1>1, <1>2, <1>3, <1>4, <2>1, <2>2, DeliverEffect DEF Together
<1>7. OneAtATime'
  <2>1. \A d \in Emits, k \in Handlers : travelling'[d][k] > 0 => travelling[d][k] > 0
    BY <1>2, <1>4, DeliverEffect
  <2> QED
    BY <1>1, <2>1 DEF IInv, OneAtATime
<1>8. Entries'
  <2> SUFFICES ASSUME NEW d \in Emits PROVE Entry(d)'
    BY DEF Entries
  <2>1. Entry(d)
    BY DEF IInv, Entries
  <2>2. d \notin open => status'[d] = status[d]
    BY <1>2 DEF Deliver, Report, Filed, TypeOK, Pairs
  <2> QED
    BY <1>1, <2>1, <2>2 DEF Entry
<1> QED
  BY <1>2, <1>5, <1>6, <1>7, <1>8, DeliverTypes DEF IInv

\* A call that ends, with either result, keeps what is known of the calls and
\* of the entries.
LEMMA EndOfCallKeeps ==
  ASSUME IInv, NEW e \in Emits, NEW h \in Handlers, Complete(e, h) \/ Fail(e, h)
  PROVE  IInv'
<1>0. PICK result \in {"completed", "failed"} :
        /\ LoopIsFree /\ running[e][h] > 0 /\ Report(e, h, result)
        /\ running' = [running EXCEPT ![e][h] = @ - 1]
        /\ \/ /\ working' = [working EXCEPT ![h] = NoEmit] /\ result = "completed"
              /\ completed' = [completed EXCEPT ![e] = @ \cup {h}]
           \/ UNCHANGED <<working, completed>> /\ result = "failed"
        /\ UNCHANGED <<remote, promise, returned, pingPassed, timeoutPassed, open, travelling,
                       target, started>>
  BY DEF Complete, Fail, history
<1>1. TypeOK /\ result \in Statuses /\ promise[e] # "idle"
  BY <1>0 DEF IInv, Statuses, Calls, Called, Unsent
<1>2. \A d \in Emits, k \in Handlers :
        /\ status'[d][k] = IF d = e /\ k = h /\ e \notin remote /\ e \in open
                            THEN result ELSE status[d][k]
        /\ reports'[d][k] = IF d = e /\ k = h /\ e \in remote
                             THEN Append(reports[d][k], result) ELSE reports[d][k]
  BY <1>0, <1>1, ReportEffect
<1>3. \A d \in Emits, k \in Handlers :
        running'[d][k] = IF d = e /\ k = h THEN running[d][k] - 1 ELSE running[d][k]
  <2>1. running \in Pairs(Nat)
    BY <1>1 DEF TypeOK
  <2> QED
    BY <1>0, <2>1 DEF Pairs
<1>4. /\ \A d \in Emits, k \in Handlers : working'[k] = d => working[k] = d
      /\ \A d \in Emits : completed[d] \subseteq completed'[d]
      /\ \A d \in Emits, k \in Handlers :
           k \in completed'[d] => k \in completed[d] \/ (d = e /\ k = h /\ result = "completed")
      /\ result = "completed" => h \in completed'[e]
  BY <1>0, <1>1, EmitAssumptions DEF TypeOK
<1>5. \A d \in Emits, k \in Handlers :
        /\ travelling[d][k] \in Nat /\ running[d][k] \in Nat /\ started[d][k] \in Nat
        /\ reports[d][k] \in Seq(Statuses)
  BY <1>1 DEF TypeOK, Pairs
<1>6. Calls'
  <2> SUFFICES ASSUME NEW d \in Emits, NEW k \in Handlers PROVE (Called(d, k) /\ Honest(d, k))'
    BY DEF Calls
  <2>1. Called(d, k) /\ Honest(d, k)
    BY DEF IInv, Calls
  <2>2. Honest(d, k)'
    <3>1. status'[d][k] = "completed" => k \in completed'[d]
      BY <1>0, <1>2, <1>4, <2>1 DEF Honest
    <3>2. CASE reports'[d][k] = reports[d][k]
      BY <1>4, <2>1, <3>1, <3>2 DEF Honest
    <3>3. CASE reports'[d][k] = Append(reports[d][k], result) /\ d = e /\ k = h
      BY <1>1, <1>4, <1>5, <2>1, <3>1, <3>3, Appended DEF Honest
    <3> QED
      BY <1>2, <3>2, <3>3
  <2>3. Called(d, k)'
    BY <1>0, <1>1, <1>2, <1>3, <1>4, <2>1 DEF Called, Unsent
  <2> QED
    BY <2>2, <2>3
<1>7. LocalCalls'
  <2> SUFFICES ASSUME NEW d \in Emits \ remote, NEW k \in Handlers PROVE Together(d, k)'
    BY <1>0 DEF LocalCalls
  <2>1. Together(d, k)
    BY DEF IInv, LocalCalls
  <2>2. ~(travelling[d][k] > 0)
    BY <1>0, <1>5 DEF LoopIsFree
  <2>3. CASE d = e /\ k = h
    BY <1>0, <1>2, <1>3, <1>4, <1>5, <2>1, <2>2, <2>3 DEF Together
  <2>4. CASE ~(d = e /\ k = h)
    BY <1>0, <1>2, <1>3, <1>4, <1>5, <2>1, <2>2, <2>4 DEF Together
  <2> QED
    BY <2>3, <2>4
<1>8. OneAtATime'
  BY <1>0 DEF IInv, OneAtATime
<1>9. Entries'
  <2> SUFFICES ASSUME NEW d \in Emits PROVE Entry(d)'
    BY DEF Entries
  <2>1. Entry(d)
    BY DEF IInv, Entries
  <2>2. d \notin open => status'[d] = status[d]
    BY <1>0, <1>1 DEF Report, Filed, TypeOK, Pairs
  <2> QED
    BY <1>0, <2>1, <2>2 DEF Entry
<1> QED
  BY <1>6, <1>7, <1>8, <1>9, CompleteTypes, FailTypes DEF IInv

LEMMA ResultArrivesKeeps ==
  ASSUME IInv, NEW e \in Emits, NEW h \in Handlers, ResultArrives(e, h) PROVE IInv'
<1>1. /\ reports[e][h] # << >> /\ reports' = [reports EXCEPT ![e][h] = Tail(@)]
      /\ status' = Filed(e, h, Head(reports[e][h]))
      /\ UNCHANGED <<remote, promise, returned, pingPassed, timeoutPassed, open, working,
                     travelling, running, target, started, completed>>
  BY DEF ResultArrives, history
<1>2. TypeOK /\ \A d \in Emits, k \in Handlers : reports[d][k] \in Seq(Statuses)
  BY DEF IInv, TypeOK, Pairs
<1>3. PICK first, rest : first = Head(reports[e][h]) /\ rest = Tail(reports[e][h])
  OBVIOUS
<1>4. \A d \in Emits, k \in Handlers :
        status'[d][k] = IF d = e /\ k = h /\ e \in open THEN first ELSE status[d][k]
  <2>1. status \in Pairs(Statuses \cup {"none"})
    BY <1>2 DEF TypeOK
  <2> QED
    BY <1>1, <1>3, <2>1 DEF Filed, Pairs
<1>5. \A d \in Emits, k \in Handlers :
        reports'[d][k] = IF d = e /\ k = h THEN rest ELSE reports[d][k]
  <2>1. reports \in Pairs(Seq(Statuses))
    BY <1>2 DEF TypeOK
  <2> QED
    BY <1>1, <1>3, <2>1 DEF Pairs
<1>6. first = "completed" => h \in completed[e]
  BY <1>1, <1>2, <1>3 DEF IInv, Calls, Honest
<1>7. Calls'
  <2> SUFFICES ASSUME NEW d \in Emits, NEW k \in Handlers PROVE (Called(d, k) /\ Honest(d, k))'
    BY DEF Calls
  <2>1. Called(d, k) /\ Honest(d, k)
    BY DEF IInv, Calls
  <2>2. Honest(d, k)'
    <3>1. CASE d = e /\ k = h
      <4>1. Len(rest) = Len(reports[e][h]) - 1 /\ \A i \in 1..Len(rest) : rest[i] = reports[e][h][i + 1]
        BY <1>1, <1>2, <1>3, HeadTailProperties
      <4>2. \A i \in 1..Len(rest) : rest[i] = "completed" => h \in completed[e]
        BY <1>2, <2>1, <3>1, <4>1 DEF Honest
      <4> QED
        BY <1>1, <1>4, <1>5, <1>6, <2>1, <3>1, <4>2 DEF Honest
    <3>2. CASE ~(d = e /\ k = h)
      BY <1>1, <1>4, <1>5, <2>1, <3>2 DEF Honest
    <3> QED
      BY <3>1, <3>2
  <2>3. Called(d, k)'
    BY <1>1, <1>5, <2>1 DEF Called, Unsent
  <2> QED
    BY <2>2, <2>3
<1>8. LocalCalls'
  <2>1. e \in remote
    BY <1>1 DEF IInv, LocalCalls, Together
  <2> QED
    BY <1>1, <1>4, <1>5, <2>1 DEF IInv, LocalCalls, Together
<1>9. OneAtATime'
  BY <1>1 DEF IInv, OneAtATime
<1>10. Entries'
  <2> SUFFICES ASSUME NEW d \in Emits PROVE Entry(d)'
    BY DEF Entries
  <2>1. Entry(d)
    BY DEF IInv, Entries
  <2>2. d \notin open => status'[d] = status[d]
    BY <1>1, <1>2 DEF Filed, TypeOK, Pairs
  <2> QED
    BY <1>1, <2>1, <2>2 DEF Entry
<1> QED
  BY <1>2, <1>7, <1>8, <1>9, <1>10, ResultArrivesTypes DEF IInv

LEMMA PollKeeps == ASSUME IInv, NEW e \in Emits, Poll(e) PROVE IInv'
<1>1. /\ promise[e] = "waiting" /\ promise' = [promise EXCEPT ![e] = "resolved"]
      /\ UNCHANGED <<remote, pingPassed, timeoutPassed, working, travelling, running, reports,
                     target, started, completed>>
  BY DEF Poll, handlerVars, history
<1>2. \/ open' = open \ {e} /\ status' = [status EXCEPT ![e] = [h \in Handlers |-> "none"]]
         /\ returned' = [returned EXCEPT ![e] = Results(e)]
      \/ UNCHANGED <<returned, open, status>> /\ e \notin timeoutPassed
  BY DEF Poll, HasReachedTimeout
<1>3. TypeOK /\ (\A d \in Emits : promise'[d] = IF d = e THEN "resolved" ELSE promise[d])
  BY <1>1 DEF IInv, TypeOK
<1>4. \A d \in Emits, k \in Handlers : status'[d][k] = status[d][k] \/ (status'[d][k] = "none" /\ d = e /\ e \notin open')
  <2>1. status \in Pairs(Statuses \cup {"none"})
    BY <1>3 DEF TypeOK
  <2>2. CASE UNCHANGED <<returned, open, status>>
    BY <2>2
  <2>3. CASE open' = open \ {e} /\ status' = [status EXCEPT ![e] = [h \in Handlers |-> "none"]]
    BY <2>1, <2>3 DEF Pairs
  <2> QED
    BY <1>2, <2>2, <2>3
<1>5. Calls'
  BY <1>1, <1>3, <1>4 DEF IInv, Calls, Called, Unsent, Honest
<1>6. LocalCalls'
  <2> SUFFICES ASSUME NEW d \in Emits \ remote, NEW k \in Handlers PROVE Together(d, k)'
    BY <1>1 DEF LocalCalls
  <2>1. Together(d, k) /\ (d \in open' => d \in open)
    BY <1>2 DEF IInv, LocalCalls
  <2> QED
    BY <1>1, <1>4, <2>1 DEF Together
<1>7. OneAtATime'
  BY <1>1 DEF IInv, OneAtATime
<1>8. Entries'
  <2> SUFFICES ASSUME NEW d \in Emits PROVE Entry(d)'
    BY DEF Entries
  <2>1. Entry(d) /\ Entry(e)
    BY DEF IInv, Entries
  <2>2. CASE d # e
    <3>1. promise'[d] = promise[d] /\ returned'[d] = returned[d] /\ (d \in open' <=> d \in open)
          /\ status'[d] = status[d]
      BY <1>2, <1>3, <2>2 DEF TypeOK, Pairs
    <3> QED
      BY <1>1, <2>1, <3>1 DEF Entry
  <2>3. CASE d = e
    <3>1. promise'[e] = "resolved"
      BY <1>3
    <3>2. CASE UNCHANGED <<returned, open, status>> /\ e \notin timeoutPassed
      BY <1>1, <2>1, <2>3, <3>1, <3>2 DEF Entry
    <3>3. CASE /\ open' = open \ {e} /\ status' = [status EXCEPT ![e] = [h \in Handlers |-> "none"]]
      BY <1>1, <1>3, <2>1, <2>3, <3>1, <3>3 DEF Entry, TypeOK, Pairs
    <3> QED
      BY <1>2, <3>2, <3>3
  <2> QED
    BY <2>2, <2>3
<1> QED
  BY <1>3, <1>5, <1>6, <1>7, <1>8, PollTypes DEF IInv

\* A timer only adds its emit to those it passed for, while it waits.
LEMMA TimersKeep ==
  ASSUME IInv, NEW e \in Emits, PingPasses(e) \/ TimeoutPasses(e) PROVE IInv'
<1>1. /\ promise[e] = "waiting" /\ timeoutPassed' \subseteq timeoutPassed \cup {e}
      /\ UNCHANGED <<remote, promise, returned, open, status, working, travelling, running,
                     reports, target, started, completed>>
  BY DEF PingPasses, TimeoutPasses, handlerVars, history
<1>2. TypeOK'
  BY DEF IInv, TypeOK, PingPasses, TimeoutPasses, handlerVars, history
<1>3. Calls' /\ LocalCalls' /\ OneAtATime'
  BY <1>1 DEF IInv, Calls, Called, Unsent, Honest, LocalCalls, Together, OneAtATime
<1>4. Entries'
  BY <1>1 DEF IInv, Entries, Entry
<1> QED
  BY <1>2, <1>3, <1>4 DEF IInv

LEMMA NextIInv == IInv /\ [Next]_vars => IInv'
<1> SUFFICES ASSUME IInv, [Next]_vars PROVE IInv'
  OBVIOUS
<1>1. CASE UNCHANGED vars
  BY <1>1 DEF vars, senderVars, handlerVars, history, IInv, TypeOK, Calls, Called, Unsent, Honest,
              LocalCalls, Together, OneAtATime, Entries, Entry
<1> QED
  BY <1>1, EmitKeeps, DeliverKeeps, EndOfCallKeeps, ResultArrivesKeeps, PollKeeps,
     TimersKeep DEF Next

LEMMA Invariance == Spec => []IInv
BY InitIInv, NextIInv, PTL DEF Spec

-----------------------------------------------------------------------------
\* The variables keep their types.
THEOREM TypesAreKept == Spec => []TypeOK
BY Invariance, PTL DEF IInv

\* A handler that got several copies of an event, over several channels of a
\* layer, ran once, if the event did not leave the process.
THEOREM CopiesCallOnce == Spec => []CalledOnce
<1>1. IInv => CalledOnce
  BY DEF IInv, LocalCalls, Together, CalledOnce
<1> QED
  BY <1>1, Invariance, PTL

\* A handler that ignores a copy has run for that event: no event is missed.
THEOREM CopiesNeverMiss == Spec => []NeverMissed
<1>1. IInv => NeverMissed
  BY DEF IInv, Calls, Called, NeverMissed, TypeOK
<1> QED
  BY <1>1, Invariance, PTL

\* An emit that ended with results, or by its timeout, leaves nothing in #pendingResults.
THEOREM EntriesAreRemoved == Spec => []NoEntryAfterResults
<1>1. IInv => NoEntryAfterResults
  BY DEF IInv, Entries, Entry, NoEntryAfterResults
<1> QED
  BY <1>1, Invariance, PTL

\* Before its timeout an emit within the process resolves to all that its calls gave.
THEOREM LocalAnswersAreWhole == Spec => AnswersAreWhole
<1> DEFINE Whole == \A e \in Emits :
             promise[e] = "waiting" /\ promise'[e] = "resolved" /\ e \notin timeoutPassed \cup remote
               => /\ \A h \in Handlers : running[e][h] = 0
                  /\ returned'[e] = completed[e]
<1>1. IInv /\ [Next]_vars => Whole
  <2> SUFFICES ASSUME IInv, [Next]_vars, NEW e \in Emits, promise[e] = "waiting",
                      promise'[e] = "resolved", e \notin timeoutPassed \cup remote
               PROVE  (\A h \in Handlers : running[e][h] = 0) /\ returned'[e] = completed[e]
    OBVIOUS
  <2>1. Poll(e)
    <3>1. ASSUME NEW d \in Emits, Emit(d) PROVE promise'[e] # "resolved"
      BY <3>1 DEF Emit, IInv, TypeOK
    <3>2. ASSUME NEW d \in Emits, Poll(d), d # e PROVE FALSE
      BY <3>2 DEF Poll, IInv, TypeOK
    <3> QED
      BY <3>1, <3>2 DEF Next, vars, senderVars, PingPasses, TimeoutPasses, Deliver, Complete, Fail,
         ResultArrives
  <2>2. /\ e \in open /\ returned[e] = {} /\ completed[e] \subseteq Handlers
        /\ \A h \in Handlers : running[e][h] \in Nat /\ Together(e, h) /\ Honest(e, h)
    <3>1. e \in open /\ returned[e] = {}
      BY DEF IInv, Entries, Entry
    <3>2. completed[e] \subseteq Handlers /\ \A h \in Handlers : running[e][h] \in Nat
      BY DEF IInv, TypeOK, Pairs
    <3>3. \A h \in Handlers : Together(e, h) /\ Honest(e, h)
      BY DEF IInv, Calls, LocalCalls
    <3> QED
      BY <3>1, <3>2, <3>3
  <2>3. CASE AllConcluded(e) /\ returned' = [returned EXCEPT ![e] = Results(e)]
    <3>1. returned'[e] = Results(e)
      BY <2>3 DEF IInv, TypeOK
    <3>2. Results(e) = completed[e]
      BY <2>2 DEF Results, Together, Honest
    <3>3. \A h \in Handlers : running[e][h] = 0
      BY <2>2, <2>3 DEF AllConcluded, Together
    <3> QED
      BY <3>1, <3>2, <3>3
  <2>4. CASE ~HasResult(e) /\ returned' = returned
    <3>1. \A h \in Handlers : status[e][h] = "none"
      BY <2>4 DEF HasResult
    <3>2. completed[e] = {} /\ \A h \in Handlers : running[e][h] = 0
      BY <2>2, <3>1 DEF Together
    <3> QED
      BY <2>2, <2>4, <3>2
  <2> QED
    BY <2>1, <2>3, <2>4 DEF Poll, HasReachedTimeout
<1> QED
  BY <1>1, Invariance, PTL DEF Spec, AnswersAreWhole

\* Whatever travels and times out, an emit does what it promises: it resolves
\* once, and to results of handlers that completed for that very event.
THEOREM EmitImplementsContract == Spec => Contract!Init /\ [][Contract!Next]_(Contract!vars)
<1>1. Init => Contract!Init
  BY DEF Init, Contract!Init
<1>2. IInv /\ [Next]_vars => [Contract!Next]_(Contract!vars)
  <2> SUFFICES ASSUME IInv, [Next]_vars PROVE [Contract!Next]_(Contract!vars)
    OBVIOUS
  <2> USE DEF Contract!vars, Contract!Next
  <2>1. ASSUME NEW e \in Emits, Emit(e) PROVE Contract!Call(e)
    BY <2>1 DEF Emit, Contract!Call
  <2>2. ASSUME NEW e \in Emits, Poll(e) PROVE Contract!Resolve(e)
    <3>1. returned' = [returned EXCEPT ![e] = Results(e)] \/ returned' = [returned EXCEPT ![e] = {}]
      BY <2>2 DEF Poll, IInv, TypeOK, Entries, Entry
    <3>2. Results(e) \in SUBSET completed[e] /\ {} \in SUBSET completed[e]
      BY DEF Results, IInv, Calls, Honest
    <3> QED
      BY <2>2, <3>1, <3>2 DEF Poll, Contract!Resolve, history
  <2>3. ASSUME NEW e \in Emits, NEW h \in Handlers, Complete(e, h) PROVE Contract!Complete(e, h)
    BY <2>3 DEF Complete, Contract!Complete, IInv, Calls, Called, Unsent
  <2>4. ASSUME NEW e \in Emits, PingPasses(e) \/ TimeoutPasses(e) PROVE UNCHANGED Contract!vars
    BY <2>4 DEF PingPasses, TimeoutPasses, history
  <2>5. ASSUME NEW e \in Emits, NEW h \in Handlers, Deliver(e, h) \/ Fail(e, h) \/ ResultArrives(e, h)
        PROVE  UNCHANGED Contract!vars
    BY <2>5 DEF Deliver, Fail, ResultArrives, history
  <2>6. CASE UNCHANGED vars
    BY <2>6 DEF vars, senderVars, history
  <2> QED
    BY <2>1, <2>2, <2>3, <2>4, <2>5, <2>6 DEF Next
<1> QED
  BY <1>1, <1>2, Invariance, PTL DEF Spec
=============================================================================
