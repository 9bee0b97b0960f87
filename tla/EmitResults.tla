----------------------------- MODULE EmitResults -----------------------------
(***************************************************************************)
(* How an emit of packages/events collects the results of its handlers:     *)
(* the wrapped listeners report pending, completed or failed to the results *)
(* listener of the sender, and the sender polls #pendingResults until they  *)
(* have all concluded or a timeout ends the wait.  An event may reach one   *)
(* handler more than once, over several channels of a layer; the handler    *)
(* ignores an event it is already working on.                              *)
(*                                                                         *)
(* An event travels over the network, where every message of it is delivered *)
(* later, or over EventEmitter2, which runs all the listeners before emit    *)
(* returns.                                                                 *)
(***************************************************************************)
EXTENDS Naturals, Sequences, FiniteSets

CONSTANTS
  Emits,      \* result keys, one per call of emit or emitToChannel
  Handlers,   \* handler ids
  Reach,      \* how many copies of an event each handler may get: one per channel
  Networked,  \* the emits that may travel over the network
  NoEmit

ASSUME EmitAssumptions ==
  /\ Reach \subseteq [Handlers -> Nat] /\ Networked \subseteq Emits
  /\ NoEmit \notin Emits

VARIABLES
  remote,                      \* the emits that travel over the network
  promise, returned,           \* the promise of each emit and what it resolved to
  pingPassed, timeoutPassed,   \* the emits older than pingTimeout, than resultsTimeout
  open, status,                \* #pendingResults: its keys, and each handler's status
  working,                     \* #pendingHandlerIdForResultKey
  travelling,                  \* copies of an event on their way to a handler
  running,                     \* calls of the user's callback in progress
  reports,                     \* results on their way back to the sender
  target, started, completed   \* history: deliveries, starts and completions

senderVars == <<remote, promise, returned, pingPassed, timeoutPassed, open, status>>
handlerVars == <<working, travelling, running, reports>>
history == <<target, started, completed>>
vars == <<senderVars, handlerVars, history>>

Statuses == {"pending", "completed", "failed"}
Pairs(S) == [Emits -> [Handlers -> S]]

TypeOK ==
  /\ remote \subseteq Networked
  /\ promise \in [Emits -> {"idle", "waiting", "resolved"}]
  /\ returned \in [Emits -> SUBSET Handlers]
  /\ pingPassed \subseteq Emits /\ timeoutPassed \subseteq Emits /\ open \subseteq Emits
  /\ status \in Pairs(Statuses \cup {"none"})
  /\ working \in [Handlers -> Emits \cup {NoEmit}]
  /\ travelling \in Pairs(Nat) /\ running \in Pairs(Nat) /\ started \in Pairs(Nat)
  /\ reports \in Pairs(Seq(Statuses))
  /\ target \in [Emits -> SUBSET Handlers]
  /\ completed \in [Emits -> SUBSET Handlers]

None(v) == [e \in Emits |-> [h \in Handlers |-> v]]

Init ==
  /\ remote = {}
  /\ promise = [e \in Emits |-> "idle"]
  /\ returned = [e \in Emits |-> {}]
  /\ pingPassed = {} /\ timeoutPassed = {} /\ open = {}
  /\ status = None("none")
  /\ working = [h \in Handlers |-> NoEmit]
  /\ travelling = None(0) /\ running = None(0) /\ started = None(0)
  /\ reports = None(<< >>)
  /\ target = [e \in Emits |-> {}]
  /\ completed = [e \in Emits |-> {}]

\* EventEmitter2 delivers within the call of emit: until it has, nothing else
\* gets its turn on the event loop.
LoopIsFree == \A e \in Emits \ remote, h \in Handlers : travelling[e][h] = 0

-----------------------------------------------------------------------------
Emit(e) ==
  /\ LoopIsFree /\ promise[e] = "idle"
  /\ promise' = [promise EXCEPT ![e] = "waiting"]
  /\ open' = open \cup {e}
  /\ remote' \in {remote, remote \cup ({e} \cap Networked)}
  /\ \E copies \in Reach :
       /\ travelling' = [travelling EXCEPT ![e] = copies]
       /\ target' = [target EXCEPT ![e] = {h \in Handlers : copies[h] > 0}]
  /\ UNCHANGED <<returned, pingPassed, timeoutPassed, status, working, running,
                 reports, started, completed>>

\* resultsListener: a result counts only while its emit has an entry.
FiledAlways(e, h, result) == [status EXCEPT ![e][h] = result] \* mutant
Filed(e, h, result) ==
  IF e \in open THEN [status EXCEPT ![e][h] = result] ELSE status

\* emitResult
Report(e, h, result) ==
  IF e \in remote
    THEN /\ reports' = [reports EXCEPT ![e][h] = Append(@, result)]
         /\ UNCHANGED status
    ELSE /\ status' = Filed(e, h, result)
         /\ UNCHANGED reports

ResultArrives(e, h) ==
  /\ LoopIsFree /\ reports[e][h] # << >>
  /\ status' = Filed(e, h, Head(reports[e][h]))
  /\ reports' = [reports EXCEPT ![e][h] = Tail(@)]
  /\ UNCHANGED <<remote, promise, returned, pingPassed, timeoutPassed, open, working,
                 travelling, running, history>>

-----------------------------------------------------------------------------
IsNeverWorking(h, e) == FALSE                     \* mutant
IsWorkingOnAnything(h, e) == working[h] # NoEmit  \* mutant
IsWorkingOn(h, e) == working[h] = e

\* The event reaches the wrapped listener, which calls the user's callback
\* unless it is already working on it.
Deliver(e, h) ==
  /\ travelling[e][h] > 0 /\ (e \in remote => LoopIsFree)
  /\ travelling' = [travelling EXCEPT ![e][h] = @ - 1]
  /\ \/ /\ IsWorkingOn(h, e)
        /\ UNCHANGED <<status, working, running, reports, started>>
     \/ /\ ~IsWorkingOn(h, e)
        /\ working' = [working EXCEPT ![h] = e]
        /\ running' = [running EXCEPT ![e][h] = @ + 1]
        /\ started' = [started EXCEPT ![e][h] = @ + 1]
        /\ Report(e, h, "pending")
  /\ UNCHANGED <<remote, promise, returned, pingPassed, timeoutPassed, open, target, completed>>

\* The callback returned: report, then forget what the handler works on,
\* whichever event that is by now.
Complete(e, h) ==
  /\ LoopIsFree /\ running[e][h] > 0
  /\ running' = [running EXCEPT ![e][h] = @ - 1]
  /\ working' = [working EXCEPT ![h] = NoEmit]
  /\ completed' = [completed EXCEPT ![e] = @ \cup {h}]
  /\ Report(e, h, "completed")
  /\ UNCHANGED <<remote, promise, returned, pingPassed, timeoutPassed, open, travelling,
                 target, started>>

\* The callback threw: the rethrow skips the line that clears the handler.
Fail(e, h) ==
  /\ LoopIsFree /\ running[e][h] > 0
  /\ running' = [running EXCEPT ![e][h] = @ - 1]
  /\ Report(e, h, "failed")
  /\ UNCHANGED <<remote, promise, returned, pingPassed, timeoutPassed, open, working,
                 travelling, history>>

-----------------------------------------------------------------------------
PingPasses(e) ==
  /\ LoopIsFree /\ promise[e] = "waiting" /\ e \notin pingPassed
  /\ pingPassed' = pingPassed \cup {e}
  /\ UNCHANGED <<remote, promise, returned, timeoutPassed, open, status, handlerVars, history>>

TimeoutPasses(e) ==
  /\ LoopIsFree /\ promise[e] = "waiting" /\ e \notin timeoutPassed
  /\ timeoutPassed' = timeoutPassed \cup {e}
  /\ UNCHANGED <<remote, promise, returned, pingPassed, open, status, handlerVars, history>>

HasResult(e) == \E h \in Handlers : status[e][h] # "none"
SomeConcluded(e) == \E h \in Handlers : status[e][h] \in {"completed", "failed"} \* mutant
AllConcluded(e) == HasResult(e) /\ \A h \in Handlers : status[e][h] # "pending"

HasReachedTimeout(e) == e \in timeoutPassed

AnyResults(e) == {h \in Handlers : status[e][h] # "none"}  \* mutant
Results(e) == {h \in Handlers : status[e][h] = "completed"}

\* keepAlive of #fetchResultForEmit, when it resolves; otherwise it only
\* schedules itself again.
Poll(e) ==
  /\ LoopIsFree /\ promise[e] = "waiting"
  /\ \/ /\ (AllConcluded(e) /\ e \in pingPassed) \/ HasReachedTimeout(e)
        /\ returned' = [returned EXCEPT ![e] = Results(e)]
        /\ open' = open \ {e}
        /\ status' = [status EXCEPT ![e] = [h \in Handlers |-> "none"]]
     \/ /\ ~HasResult(e) /\ e \in pingPassed /\ ~HasReachedTimeout(e)
        /\ UNCHANGED <<returned, open, status>>
  /\ promise' = [promise EXCEPT ![e] = "resolved"]
  /\ UNCHANGED <<remote, pingPassed, timeoutPassed, handlerVars, history>>

Next ==
  \/ \E e \in Emits : Emit(e) \/ PingPasses(e) \/ TimeoutPasses(e) \/ Poll(e)
  \/ \E e \in Emits, h \in Handlers :
       Deliver(e, h) \/ Complete(e, h) \/ Fail(e, h) \/ ResultArrives(e, h)

Spec == Init /\ [][Next]_vars

\* Timers fire and messages are delivered; a user's callback may hang forever.
Fairness ==
  \A e \in Emits :
    /\ WF_vars(TimeoutPasses(e)) /\ WF_vars(Poll(e))
    /\ \A h \in Handlers : WF_vars(Deliver(e, h)) /\ WF_vars(ResultArrives(e, h))

FairSpec == Spec /\ Fairness

-----------------------------------------------------------------------------
\* Every emit resolves, once, to results its own handlers completed with, even
\* when a handler hangs or throws (events/index.ts 742-768, 807-814).
Contract == INSTANCE EmitContract
KeepsContract == Contract!Spec

\* "So now we will wait until all pending results have finished or until we
\* reach the resultsTimeout" (events/index.ts 110-111): before the timeout an emit
\* that did not leave the process resolves only when no call it caused is still
\* running, and then to all that completed.
AnswersAreWhole ==
  [][\A e \in Emits :
       promise[e] = "waiting" /\ promise'[e] = "resolved" /\ e \notin timeoutPassed \cup remote
         => /\ \A h \in Handlers : running[e][h] = 0
            /\ returned'[e] = completed[e]]_vars

\* "Guarantee that we will only call the handler once, this is useful for
\* layers we might send multiple times" (events/index.ts 386-387): so it is where the
\* copies arrive together; over the network a copy may come after the handler ended.
CalledOnce ==
  \A e \in Emits \ remote, h \in Handlers : started[e][h] <= 1

\* Ignoring a copy never loses the event, whatever else the handler is working
\* on or has thrown at: once the copies of an event have arrived the handler
\* has been called (events/index.ts 386-400).
NeverMissed ==
  \A e \in Emits : \A h \in target[e] : travelling[e][h] = 0 => started[e][h] > 0

\* An emit that returned results leaves no entry behind, and a result that
\* arrives late does not bring one back (events/index.ts 246-251, 755-760).
NoEntryAfterResults ==
  \A e \in Emits :
    /\ promise[e] = "waiting" => e \in open
    /\ promise[e] = "resolved" /\ e \in open => returned[e] = {} /\ e \notin timeoutPassed
    /\ e \notin open => status[e] = [h \in Handlers |-> "none"]
=============================================================================
