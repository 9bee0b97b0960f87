-------------------------- MODULE RequestLifecycle --------------------------
(***************************************************************************)
(* One request on its way through the middlewares, the handler and back    *)
(* (server/src/app/utils.ts): wrapHandlerAndMiddlewares for a route that   *)
(* was found, wrap404HandlerAndRootMiddlewares for one that was not.       *)
(*                                                                         *)
(* Middlewares, handlers and error handlers are the user's: each awaited   *)
(* call is one step, and what it gives back or throws is any of what the   *)
(* code tells apart.                                                       *)
(***************************************************************************)
EXTENDS Integers, FiniteSets

CONSTANT N  \* the number of middlewares of the route

ASSUME NAssumption == N \in Nat

Middlewares == 1..N

VARIABLES
  found,      \* whether the route was found
  shape,      \* which of "request" and "response" each middleware defines
  has500,     \* whether the settings have a handler500
  phase,      \* what is awaited
  at,         \* the middleware that is next
  onion,      \* middlewareOnionIndex: the last one whose request gave something back
  response,   \* whether the variable response is set
  handled,    \* wasErrorAlreadyHandledInRequestLifecycle
  outcome,    \* what the server adapter sees of the call
  asked,      \* the middlewares whose request was called
  answered,   \* those whose request gave a response back
  responded,  \* the middlewares whose response was called, last first
  calls500,   \* the calls of handler500
  misbehaved  \* a response function failed, or gave back no response

middle == <<asked, answered, responded>>
vars == <<found, shape, has500, phase, at, onion, response, handled, outcome,
          asked, answered, responded, calls500, misbehaved>>

Phases == {"request", "handler", "handler404", "handler500", "response",
           "late500", "notFound500", "send", "done"}

Init ==
  /\ shape \in [Middlewares -> SUBSET {"request", "response"}]
  /\ has500 \in BOOLEAN
  /\ \/ found = TRUE /\ phase = "request" /\ at = 1 /\ response = FALSE
     \/ found = FALSE /\ phase = "handler404" /\ at = N /\ response = TRUE
  /\ onion = 0 /\ handled = FALSE /\ outcome = "pending"
  /\ asked = {} /\ answered = {} /\ responded = {}
  /\ calls500 = 0 /\ misbehaved = FALSE

-----------------------------------------------------------------------------
(* Ends of the call.                                                        *)

End(how) ==
  /\ phase' = "done" /\ outcome' = how
  /\ UNCHANGED <<found, shape, has500, at, onion, response, handled, calls500, misbehaved>>

\* The responses begin one middleware further in than the last that was passed:
\* the index counts from 1, the list from 0.
LastPassed(passed) == passed - 1  \* mutant
Innermost(passed) == passed + 1

Respond(passed) ==
  /\ phase' = "response" /\ at' = Innermost(passed) /\ response' = TRUE

-----------------------------------------------------------------------------
(* On the way in.                                                           *)

\* Middleware j is the next one with a request function, from "at" on.
IsNextAsked(j) ==
  j >= at /\ "request" \in shape[j] /\ \A k \in at..j - 1 : "request" \notin shape[k]

\* An error of the way in.  A thrown response is the response; anything else
\* goes to handler500, and out of the call if there is none.
FailOnTheWayIn(thrown) ==
  /\ handled' = TRUE
  /\ \/ /\ thrown = "response"
        /\ Respond(onion)
        /\ UNCHANGED outcome
     \/ /\ thrown = "error" /\ has500
        /\ phase' = "handler500"
        /\ UNCHANGED <<at, response, outcome>>
     \/ /\ thrown = "error" /\ ~has500
        /\ phase' = "done" /\ outcome' = "rejected"
        /\ UNCHANGED <<at, response>>
  /\ UNCHANGED <<found, shape, has500, calls500, misbehaved>>

\* A middleware that gives a response back does not end the loop: those after
\* it are asked too.  One that throws was not passed; one that gives back
\* neither a request nor a response was, when appendTranslatorToRequest throws.
AskMiddleware(j) ==
  /\ phase = "request" /\ IsNextAsked(j)
  /\ asked' = asked \cup {j}
  /\ UNCHANGED responded
  /\ \/ /\ \/ UNCHANGED <<response, answered>>
           \/ response' = TRUE /\ answered' = answered \cup {j}
        /\ onion' = j /\ at' = j + 1
        /\ UNCHANGED <<found, shape, has500, phase, handled, outcome, calls500, misbehaved>>
     \/ /\ UNCHANGED <<onion, answered>>
        /\ \E thrown \in {"response", "error"} : FailOnTheWayIn(thrown)
     \/ /\ onion' = j /\ UNCHANGED answered
        /\ FailOnTheWayIn("error")

EndOfRequests ==
  /\ phase = "request" /\ \A j \in at..N : "request" \notin shape[j]
  /\ \/ response /\ Respond(onion)
     \/ ~response /\ phase' = "handler" /\ UNCHANGED <<at, response>>
  /\ UNCHANGED <<found, shape, has500, onion, handled, outcome, middle, calls500, misbehaved>>

CallHandler ==
  /\ phase = "handler"
  /\ UNCHANGED middle
  /\ \/ /\ Respond(onion)
        /\ UNCHANGED <<found, shape, has500, onion, handled, outcome, calls500, misbehaved>>
     \/ End("nothing")
     \/ UNCHANGED onion /\ \E thrown \in {"response", "error"} : FailOnTheWayIn(thrown)

\* handler500 has to give a response back: otherwise the error leaves the call.
CallHandler500 ==
  /\ phase = "handler500"
  /\ calls500' = calls500 + 1
  /\ \/ Respond(onion) /\ UNCHANGED outcome
     \/ phase' = "done" /\ outcome' = "rejected" /\ UNCHANGED <<at, response>>
  /\ UNCHANGED <<found, shape, has500, onion, handled, middle, misbehaved>>

\* handler404: the responses of all the middlewares follow.
CallHandler404 ==
  /\ phase = "handler404"
  /\ UNCHANGED middle
  /\ \/ /\ phase' = "response"
        /\ UNCHANGED <<found, shape, has500, at, onion, response, handled, outcome, calls500, misbehaved>>
     \/ End("nothing")
     \/ /\ phase' = IF has500 THEN "notFound500" ELSE "send"
        /\ UNCHANGED <<found, shape, has500, at, onion, response, handled, outcome, calls500, misbehaved>>

-----------------------------------------------------------------------------
(* On the way out.                                                          *)

\* Middleware j is the next one with a response function, from "at" outwards.
IsNextResponding(j) ==
  /\ j <= at /\ "response" \in shape[j]
  /\ \A k \in Middlewares : j < k /\ k <= at => "response" \notin shape[k]

\* An error of the way out.  Of a route that was found it is handled only if no
\* error was handled before: otherwise the response at hand is sent.
HandlesEveryError(thrown) ==  \* mutant
  /\ misbehaved' = TRUE /\ phase' = "late500"
  /\ UNCHANGED <<found, shape, has500, at, onion, response, handled, outcome, calls500>>
FailOnTheWayOut(thrown) ==
  /\ misbehaved' = TRUE
  /\ \/ /\ ~found
        /\ phase' = IF has500 THEN "notFound500" ELSE "send"
        /\ UNCHANGED outcome
     \/ /\ found /\ (handled \/ thrown = "response")
        /\ phase' = "send"
        /\ UNCHANGED outcome
     \/ /\ found /\ ~handled /\ thrown = "error" /\ has500
        /\ phase' = "late500"
        /\ UNCHANGED outcome
     \/ /\ found /\ ~handled /\ thrown = "error" /\ ~has500
        /\ phase' = "done" /\ outcome' = "rejected"
  /\ UNCHANGED <<found, shape, has500, at, onion, response, handled, calls500>>

CallResponse(j) ==
  /\ phase = "response" /\ IsNextResponding(j)
  /\ responded' = responded \cup {j}
  /\ UNCHANGED <<asked, answered>>
  /\ \/ /\ at' = j - 1
        /\ UNCHANGED <<found, shape, has500, phase, onion, response, handled, outcome,
                       calls500, misbehaved>>
     \/ \E thrown \in {"response", "error"} : FailOnTheWayOut(thrown)

EndOfResponses ==
  /\ phase = "response" /\ \A j \in Middlewares : j <= at => "response" \notin shape[j]
  /\ phase' = "send"
  /\ UNCHANGED <<found, shape, has500, at, onion, response, handled, outcome, middle,
                 calls500, misbehaved>>

\* handler500 after an error of the way out: what it gives back is sent as it is.
CallLateHandler500 ==
  /\ phase \in {"late500", "notFound500"}
  /\ calls500' = calls500 + 1
  /\ \/ phase' = "send" /\ UNCHANGED outcome
     \/ phase' = "done" /\ outcome' = "rejected"
  /\ UNCHANGED <<found, shape, has500, at, onion, response, handled, middle, misbehaved>>

\* A redirection without a location throws, after the last catch.
TranslateResponse ==
  /\ phase = "send"
  /\ UNCHANGED middle
  /\ End("sent") \/ End("rejected")

Next ==
  \/ \E j \in Middlewares : AskMiddleware(j) \/ CallResponse(j)
  \/ EndOfRequests \/ CallHandler \/ CallHandler500
  \/ CallHandler404 \/ EndOfResponses \/ CallLateHandler500
  \/ TranslateResponse

Spec == Init /\ [][Next]_vars
-----------------------------------------------------------------------------
\* Types.
TypeOK ==
  /\ shape \in [Middlewares -> SUBSET {"request", "response"}]
  /\ found \in BOOLEAN /\ has500 \in BOOLEAN /\ phase \in Phases
  /\ at \in 0..N + 1 /\ onion \in 0..N
  /\ response \in BOOLEAN /\ handled \in BOOLEAN /\ misbehaved \in BOOLEAN
  /\ outcome \in {"pending", "sent", "rejected", "nothing"}
  /\ asked \subseteq Middlewares /\ answered \subseteq asked
  /\ responded \subseteq Middlewares
  /\ calls500 \in Nat

\* An error is given to handler500 once at most, on the way in or on the way out.
ErrorsAreHandledOnce == calls500 <= 1

\* Whatever the middlewares, the handler or the error handler did on the way
\* in, when a response is sent every middleware whose request was passed, and
\* that is not further in than one that answered, has had its response called,
\* unless a response function failed.
ThePassedRespond ==
  phase = "send" /\ ~misbehaved =>
    \A i \in 1..onion :
      (\A a \in answered : i <= a) /\ "response" \in shape[i] => i \in responded

\* The handler runs only when no middleware has answered, and every one that
\* wants to see the request has seen it.
HandlerComesLast ==
  phase = "handler" =>
    answered = {} /\ asked = {i \in Middlewares : "request" \in shape[i]}

\* The way out goes outwards: a middleware is never called after one outside of it.
OutwardsOnly ==
  [][\A i \in responded' \ responded, k \in responded : i < k]_vars

\* What the comment on Middleware says (middleware/index.ts 39-42): if
\* middleware1.request returns a response, "`middleware2.response` will never be
\* executed, just `middleware1.response`".  The code asks those further in, and
\* calls the response of the last that was passed first.
AnswersTurnBack ==
  \A i \in answered, k \in responded : k <= i
=============================================================================
