----------------------------- MODULE ServerProofs -----------------------------
(***************************************************************************)
(* The server, for every number of middlewares and every project.          *)
(*                                                                         *)
(* A request: errors are handled once, the handler comes after every       *)
(* middleware, the way out is in order and complete.                       *)
(*                                                                         *)
(* Routers that are nested when they are finished (BottomUp): what one      *)
(* keeps of those below it is what the tree says, and the handler of a      *)
(* request is behind all the middlewares of the way to it.                  *)
(***************************************************************************)
EXTENDS Server, FiniteSetTheorems, SequenceTheorems, WellFoundedInduction, TLAPS

-----------------------------------------------------------------------------
(* One request.                                                            *)

\* The two halves of TypeOK: truth values, and what is counted.
Flags ==
  /\ found \in BOOLEAN /\ has500 \in BOOLEAN /\ response \in BOOLEAN
  /\ handled \in BOOLEAN /\ misbehaved \in BOOLEAN
Counts ==
  /\ shape \in [Middlewares -> SUBSET {"request", "response"}]
  /\ phase \in Phases /\ outcome \in {"pending", "sent", "rejected", "nothing"}
  /\ at \in 0..N + 1 /\ onion \in 0..N
  /\ asked \subseteq Middlewares /\ answered \subseteq asked
  /\ responded \subseteq Middlewares
  /\ calls500 \in Nat

LEMMA TypeParts == TypeOK <=> Flags /\ Counts
BY Zenon DEF TypeOK, Flags, Counts

\* What is known on the way in: who was asked, and that a response is set only
\* by a middleware that answered.
WayIn ==
  /\ phase = "request" => /\ found /\ ~handled /\ onion < at
                          /\ asked = {i \in Middlewares : i < at /\ "request" \in shape[i]}
                          /\ answered # {} => response
  /\ phase = "handler" => /\ found /\ ~handled /\ answered = {}
                          /\ asked = {i \in Middlewares : "request" \in shape[i]}
  /\ phase = "handler404" => ~found /\ at = N
  /\ phase = "handler500" => found /\ handled
  /\ ~found => onion = 0 /\ ~handled
  /\ phase \in {"request", "handler", "handler404", "handler500"} => responded = {}

\* What is known of the errors: as long as one may still reach handler500, none has.
Errors ==
  /\ calls500 <= 1
  /\ phase \notin {"response", "send", "done"} => calls500 = 0
  /\ phase = "response" /\ ~handled => calls500 = 0
  /\ phase = "late500" => found /\ misbehaved
  /\ phase = "notFound500" => ~found

\* What the code does and its comments do not promise: also the middlewares
\* further in than one that answered have their responses called.
AllPassedRespond ==
  phase = "send" /\ ~misbehaved =>
    \A i \in 1..onion : "response" \in shape[i] => i \in responded

\* What is known on the way out: all responses outside of "at" are called, none inside.
WayOut ==
  /\ phase = "response" =>
       /\ \A k \in responded : k > at
       /\ \A i \in 1..onion : i > at /\ "response" \in shape[i] => i \in responded
  /\ AllPassedRespond

IInv == TypeOK /\ WayIn /\ Errors /\ WayOut

LEMMA InitIInv == Init => IInv
<1> SUFFICES ASSUME Init PROVE IInv
  OBVIOUS
<1> USE NAssumption DEF Init, Middlewares
<1>1. TypeOK
  <2>1. Flags
    BY Zenon DEF Flags
  <2>2. Counts
    BY DEF Counts, Phases
  <2> QED
    BY <2>1, <2>2, TypeParts
<1>2. WayIn
  BY DEF WayIn
<1>3. Errors /\ WayOut
  BY DEF Errors, WayOut, AllPassedRespond
<1> QED
  BY <1>1, <1>2, <1>3 DEF IInv

\* A step on the way in that fails keeps the invariant, if nothing responded yet.
LEMMA FailingOnTheWayIn ==
  ASSUME IInv, NEW thrown \in {"response", "error"}, FailOnTheWayIn(thrown),
         phase \in {"request", "handler"}, responded' = responded,
         onion' = onion \/ (thrown = "error" /\ onion' \in Middlewares), asked' \subseteq Middlewares, answered' = answered, asked \subseteq asked'
  PROVE  IInv'
<1> USE NAssumption DEF IInv, FailOnTheWayIn, Respond, Innermost, Middlewares
<1>1. TypeOK'
  <2>1. Flags'
    BY TypeParts, Zenon DEF Flags
  <2>2. at' \in 0..N + 1
    BY TypeParts DEF Counts
  <2>3. asked' \subseteq Middlewares /\ answered' \subseteq asked' /\ responded' \subseteq Middlewares
    BY TypeParts, Zenon DEF Counts
  <2>4. onion' \in 0..N
    BY TypeParts DEF Counts
  <2>5. Counts'
    BY <2>2, <2>3, <2>4, TypeParts, Zenon DEF Counts, Phases
  <2> QED
    BY <2>1, <2>5, Zenon DEF TypeOK, Flags, Counts
<1>2. WayIn'
  BY DEF TypeOK, WayIn
<1>3. Errors'
  BY DEF TypeOK, WayIn, Errors
<1>4. WayOut'
  BY DEF TypeOK, WayIn, WayOut, AllPassedRespond
<1> QED
  BY <1>1, <1>2, <1>3, <1>4

LEMMA AskingKeepsIInv ==
  ASSUME IInv, NEW j \in Middlewares, AskMiddleware(j)
  PROVE  IInv'
<1> USE NAssumption DEF AskMiddleware, Middlewares
<1> DEFINE Throws == UNCHANGED <<onion, answered>>
                     /\ \E thrown \in {"response", "error"} : FailOnTheWayIn(thrown)
           GivesNothing == onion' = j /\ UNCHANGED answered /\ FailOnTheWayIn("error")
<1>1. CASE Throws
  BY <1>1, FailingOnTheWayIn DEF IInv, TypeOK
<1>2. CASE GivesNothing
  <2>1. onion' \in Middlewares /\ asked' = asked \cup {j} /\ phase = "request" /\ responded' = responded
    BY <1>2
  <2> QED
    BY <1>2, <2>1, FailingOnTheWayIn DEF IInv, TypeOK
<1>3. CASE ~Throws /\ ~GivesNothing
  <2>1. /\ UNCHANGED <<found, shape, has500, phase, handled, outcome, calls500, misbehaved, responded>>
        /\ onion' = j /\ at' = j + 1 /\ phase = "request"
        /\ UNCHANGED <<response, answered>>
             \/ (response' = TRUE /\ answered' = answered \cup {j})
    BY <1>3
  <2>2. TypeOK'
    <3>1. Flags'
      BY <2>1, TypeParts, Zenon DEF IInv, Flags
    <3>2. Counts'
      BY <2>1, TypeParts DEF IInv, Counts, Phases
    <3> QED
      BY <3>1, <3>2, Zenon DEF TypeOK, Flags, Counts
  <2>3. asked' = {i \in Middlewares : i < at' /\ "request" \in shape'[i]}
    BY <2>1 DEF IInv, TypeOK, WayIn, IsNextAsked
  <2>4. WayIn'
    BY <2>1, <2>3 DEF IInv, TypeOK, WayIn
  <2>5. Errors' /\ WayOut'
    BY <2>1 DEF IInv, TypeOK, Errors, WayOut, AllPassedRespond
  <2> QED
    BY <2>2, <2>4, <2>5 DEF IInv
<1> QED
  BY <1>1, <1>2, <1>3

LEMMA RespondingKeepsIInv ==
  ASSUME IInv, NEW j \in Middlewares, CallResponse(j)
  PROVE  IInv'
<1> USE NAssumption DEF CallResponse, FailOnTheWayOut, Middlewares, IInv
<1>1. TypeOK'
  <2>1. Flags'
    BY TypeParts, Zenon DEF Flags
  <2>2. Counts'
    BY TypeParts DEF Counts, Phases
  <2> QED
    BY <2>1, <2>2, Zenon DEF TypeOK, Flags, Counts
<1>2. WayIn'
  BY DEF TypeOK, WayIn
<1>3. Errors'
  BY DEF TypeOK, WayIn, Errors
<1>4. WayOut'
  BY DEF TypeOK, WayOut, AllPassedRespond, IsNextResponding
<1> QED
  BY <1>1, <1>2, <1>3, <1>4

\* Turning back, with a response at hand, keeps the invariant, if nothing responded yet.
LEMMA TurningBackKeepsIInv ==
  ASSUME IInv, Respond(onion), phase \in {"request", "handler", "handler500"},
         calls500' = calls500 \/ (phase = "handler500" /\ calls500' = calls500 + 1),
         UNCHANGED <<found, shape, has500, onion, handled, outcome, asked, answered, responded,
                     misbehaved>>
  PROVE  IInv'
<1> USE NAssumption DEF IInv, Respond, Innermost, Middlewares
<1>1. TypeOK'
  <2>1. Flags'
    BY TypeParts, Zenon DEF Flags
  <2>2. at' \in 0..N + 1 /\ calls500' \in Nat
    BY TypeParts DEF Counts
  <2>3. Counts'
    BY <2>2, TypeParts, Zenon DEF Counts, Phases
  <2> QED
    BY <2>1, <2>3, Zenon DEF TypeOK, Flags, Counts
<1>2. WayIn'
  BY DEF TypeOK, WayIn
<1>3. Errors'
  BY DEF TypeOK, WayIn, Errors
<1>4. WayOut'
  BY DEF TypeOK, WayIn, WayOut, AllPassedRespond
<1> QED
  BY <1>1, <1>2, <1>3, <1>4

\* So does leaving the call, whatever the adapter sees of it.
LEMMA EndingKeepsIInv ==
  ASSUME IInv, phase' = "done", outcome' \in {"sent", "rejected", "nothing"},
         calls500' = calls500 \/ (phase \in {"handler500", "late500", "notFound500"} /\ calls500' = calls500 + 1),
         UNCHANGED <<found, shape, has500, at, onion, response, handled, asked, answered, responded,
                     misbehaved>>
  PROVE  IInv'
<1> USE NAssumption DEF IInv, Middlewares
<1>1. TypeOK'
  <2>1. Flags'
    BY TypeParts, Zenon DEF Flags
  <2>2. calls500' \in Nat /\ outcome' \in {"pending", "sent", "rejected", "nothing"}
    BY TypeParts DEF Counts
  <2>3. Counts'
    BY <2>2, TypeParts, Zenon DEF Counts, Phases
  <2> QED
    BY <2>1, <2>3, Zenon DEF TypeOK, Flags, Counts
<1>2. WayIn' /\ Errors' /\ WayOut'
  BY DEF TypeOK, WayIn, Errors, WayOut, AllPassedRespond
<1> QED
  BY <1>1, <1>2

LEMMA HandlerKeepsIInv == IInv /\ CallHandler => IInv'
<1> SUFFICES ASSUME IInv, CallHandler PROVE IInv'
  OBVIOUS
<1> USE NAssumption DEF CallHandler, middle, Middlewares
<1>1. CASE UNCHANGED onion /\ \E thrown \in {"response", "error"} : FailOnTheWayIn(thrown)
  BY <1>1, FailingOnTheWayIn DEF IInv, TypeOK
<1>2. CASE /\ Respond(onion)
           /\ UNCHANGED <<found, shape, has500, onion, handled, outcome, calls500, misbehaved>>
  BY <1>2, TurningBackKeepsIInv
<1>3. CASE End("nothing")
  BY <1>3, EndingKeepsIInv DEF End
<1> QED
  BY <1>1, <1>2, <1>3

LEMMA EndOfRequestsKeepsIInv == IInv /\ EndOfRequests => IInv'
<1> SUFFICES ASSUME IInv, EndOfRequests PROVE IInv'
  OBVIOUS
<1> USE NAssumption DEF EndOfRequests, middle, Middlewares
<1>1. CASE response /\ Respond(onion)
  BY <1>1, TurningBackKeepsIInv
<1>2. CASE ~response /\ phase' = "handler" /\ UNCHANGED <<at, response>>
  <2>1. TypeOK'
    <3>1. Flags'
      BY <1>2, TypeParts, Zenon DEF IInv, Flags
    <3>2. Counts'
      BY <1>2, TypeParts, Zenon DEF IInv, Counts, Phases
    <3> QED
      BY <3>1, <3>2, Zenon DEF TypeOK, Flags, Counts
  <2>2. asked = {i \in Middlewares : "request" \in shape[i]}
    BY DEF IInv, TypeOK, WayIn
  <2>3. answered = {}
    BY <1>2 DEF IInv, WayIn
  <2>4. WayIn'
    BY <1>2, <2>2, <2>3, Zenon DEF IInv, WayIn
  <2>5. Errors' /\ WayOut'
    BY <1>2 DEF IInv, Errors, WayOut, AllPassedRespond
  <2> QED
    BY <2>1, <2>4, <2>5 DEF IInv
<1> QED
  BY <1>1, <1>2

LEMMA Handler500KeepsIInv == IInv /\ CallHandler500 => IInv'
<1> SUFFICES ASSUME IInv, CallHandler500 PROVE IInv'
  OBVIOUS
<1> USE DEF CallHandler500, middle
<1>1. CASE Respond(onion) /\ UNCHANGED outcome
  BY <1>1, TurningBackKeepsIInv
<1>2. CASE phase' = "done" /\ outcome' = "rejected" /\ UNCHANGED <<at, response>>
  BY <1>2, EndingKeepsIInv
<1> QED
  BY <1>1, <1>2

\* Every step keeps the invariant.
LEMMA NextIInv == IInv /\ [Next]_vars => IInv'
<1> SUFFICES ASSUME IInv, [Next]_vars PROVE IInv'
  OBVIOUS
<1> USE NAssumption DEF Middlewares
<1>1. CASE \E j \in Middlewares : AskMiddleware(j) \/ CallResponse(j)
  BY <1>1, AskingKeepsIInv, RespondingKeepsIInv
<1>2. CASE EndOfRequests
  BY <1>2, EndOfRequestsKeepsIInv
<1>3. CASE CallHandler
  BY <1>3, HandlerKeepsIInv
<1>4. CASE CallHandler500
  BY <1>4, Handler500KeepsIInv
<1>5. CASE CallHandler404
  BY <1>5 DEF CallHandler404, IInv, TypeOK, Phases, WayIn, Errors, WayOut, AllPassedRespond,
              End, middle
<1>6. CASE EndOfResponses
  BY <1>6 DEF EndOfResponses, IInv, TypeOK, Phases, WayIn, Errors, WayOut, AllPassedRespond, middle
<1>7. CASE CallLateHandler500
  BY <1>7 DEF CallLateHandler500, IInv, TypeOK, Phases, WayIn, Errors, WayOut, AllPassedRespond, middle
<1>8. CASE TranslateResponse
  BY <1>8 DEF TranslateResponse, IInv, TypeOK, Phases, WayIn, Errors, WayOut, AllPassedRespond,
              End, middle
<1>9. CASE UNCHANGED vars
  BY <1>9 DEF vars, middle, IInv, TypeOK, WayIn, Errors, WayOut, AllPassedRespond
<1> QED
  BY <1>1, <1>2, <1>3, <1>4, <1>5, <1>6, <1>7, <1>8, <1>9 DEF Next

LEMMA Invariance == Spec => []IInv
BY InitIInv, NextIInv, PTL DEF Spec

\* The variables keep their types.
THEOREM TypesAreKept == Spec => []TypeOK
BY Invariance, PTL DEF IInv

\* handler500 is called once at most for a request: an error of a response
\* function never reaches it after an error of the way in did.
THEOREM ErrorsReachOneHandler == Spec => []ErrorsAreHandledOnce
<1>1. IInv => ErrorsAreHandledOnce
  BY DEF IInv, Errors, ErrorsAreHandledOnce
<1> QED
  BY <1>1, Invariance, PTL

\* A response is only sent once every middleware that was passed, and is not
\* further in than one that answered, has seen it, unless a response function failed.
THEOREM PassedMiddlewaresRespond == Spec => []ThePassedRespond
<1>1. IInv => ThePassedRespond
  BY DEF IInv, WayOut, AllPassedRespond, ThePassedRespond
<1> QED
  BY <1>1, Invariance, PTL

\* The handler runs after every middleware that wants the request, and only if
\* none of them answered it.
THEOREM HandlerIsInnermost == Spec => []HandlerComesLast
<1>1. IInv => HandlerComesLast
  BY DEF IInv, WayIn, HandlerComesLast
<1> QED
  BY <1>1, Invariance, PTL

\* The response functions are called from the inside to the outside.
THEOREM WayOutIsOutwards == Spec => OutwardsOnly
<1>1. IInv /\ [Next]_vars => [\A i \in responded' \ responded, k \in responded : i < k]_vars
  <2> SUFFICES ASSUME IInv, [Next]_vars,
                      NEW i \in responded' \ responded, NEW k \in responded
               PROVE  i < k
    BY DEF vars, middle
  <2>1. PICK j \in Middlewares : CallResponse(j)
    BY DEF Next, vars, middle, AskMiddleware, EndOfRequests, CallHandler, CallHandler500,
           CallHandler404, EndOfResponses, CallLateHandler500, TranslateResponse
  <2>2. i = j /\ j <= at /\ k > at
    BY <2>1 DEF CallResponse, IsNextResponding, IInv, WayOut
  <2> QED
    BY <2>2 DEF IInv, TypeOK, Middlewares
<1> QED
  BY <1>1, Invariance, PTL DEF Spec, OutwardsOnly

-----------------------------------------------------------------------------
(* Induction over numbers and sequences, as a property of sets.             *)

\* Every set of numbers that is not empty has a least one.
LEMMA LeastNumber ==
  ASSUME NEW T \in SUBSET Nat, T # {}
  PROVE  \E n \in T : \A m \in T : n <= m
<1> DEFINE Less == OpToRel(<, Nat)
<1>1. IsWellFoundedOn(Less, Nat)
  BY NatLessThanWellFounded
<1>2. \A x, y \in Nat : x < y => <<x, y>> \in Less
  BY DEF OpToRel
<1> HIDE DEF Less
<1>3. PICK x \in T : \A y \in T : <<y, x>> \notin Less
  BY <1>1, WFMin
<1>4. \A y \in T : ~(y < x)
  BY <1>2, <1>3
<1>5. \A y \in T : y \in Nat /\ x \in Nat
  OBVIOUS
<1> QED
  BY <1>4, <1>5

LEMMA SetInduction ==
  ASSUME NEW S \in SUBSET Nat, 0 \in S, \A n \in S : n + 1 \in S
  PROVE  S = Nat
<1> SUFFICES ASSUME S # Nat PROVE FALSE
  OBVIOUS
<1>1. PICK n \in Nat \ S : \A m \in Nat \ S : n <= m
  BY LeastNumber
<1>2. n # 0 /\ n - 1 \in Nat /\ n - 1 \in S
  BY <1>1
<1>3. n - 1 + 1 \in S
  BY <1>2
<1> QED
  BY <1>1, <1>2, <1>3

LEMMA FrontAndLast ==
  ASSUME NEW S, NEW n \in Nat, NEW s \in Seq(S), Len(s) = n + 1
  PROVE  \E front \in Seq(S) : Len(front) = n /\ s[n + 1] \in S /\ s = Append(front, s[n + 1])
<1> DEFINE front == SubSeq(s, 1, n)
           t == Append(front, s[n + 1])
<1>1. s[n + 1] \in S /\ front \in Seq(S) /\ Len(front) = n /\ \A i \in 1..n : front[i] = s[i]
  OBVIOUS
<1> HIDE DEF front
<1>2. t \in Seq(S) /\ Len(t) = n + 1 /\ t[n + 1] = s[n + 1] /\ \A i \in 1..n : t[i] = front[i]
  BY <1>1
<1> HIDE DEF t
<1>3. \A i \in 1..n + 1 : t[i] = s[i]
  BY <1>1, <1>2
<1>4. t = s
  BY <1>2, <1>3
<1> QED
  BY <1>1, <1>4 DEF t

LEMMA SequenceInduction ==
  ASSUME NEW S, NEW P \in SUBSET Seq(S), << >> \in P,
         \A s \in P, e \in S : Append(s, e) \in P
  PROVE  P = Seq(S)
<1> DEFINE Lengths == {n \in Nat : \A s \in Seq(S) : Len(s) = n => s \in P}
<1>1. 0 \in Lengths
  <2>1. \A s \in Seq(S) : Len(s) = 0 => s = << >>
    OBVIOUS
  <2> QED
    BY <2>1
<1>2. ASSUME NEW n \in Lengths PROVE n + 1 \in Lengths
  <2> SUFFICES ASSUME NEW s \in Seq(S), Len(s) = n + 1 PROVE s \in P
    OBVIOUS
  <2>1. n \in Nat
    OBVIOUS
  <2>2. PICK front \in Seq(S) : Len(front) = n /\ s[n + 1] \in S /\ s = Append(front, s[n + 1])
    BY <2>1, FrontAndLast
  <2> QED
    BY <2>2
<1> HIDE DEF Lengths
<1>3. Lengths = Nat
  <2>1. Lengths \in SUBSET Nat
    BY DEF Lengths
  <2> QED
    BY <1>1, <1>2, <2>1, SetInduction
<1>4. \A s \in Seq(S) : Len(s) \in Nat
  OBVIOUS
<1> QED
  BY <1>3, <1>4 DEF Lengths

-----------------------------------------------------------------------------
(* FlattenSeq puts sequences one after the other.                           *)

\* The function that FlattenSeq defines by recursion.
Flattens(f, seqs) ==
  f = [i \in 1..Len(seqs) |-> IF i = 1 THEN seqs[i] ELSE f[i - 1] \o seqs[i]]

LEMMA FlatteningOfOneMore ==
  ASSUME NEW S, NEW seqs \in Seq(Seq(S)), NEW s \in Seq(S), seqs # << >>, NEW f, Flattens(f, seqs)
  PROVE  LET g == [i \in 1..Len(seqs) + 1 |-> IF i <= Len(seqs) THEN f[i] ELSE f[Len(seqs)] \o s]
         IN Flattens(g, Append(seqs, s))
<1> DEFINE g == [i \in 1..Len(seqs) + 1 |-> IF i <= Len(seqs) THEN f[i] ELSE f[Len(seqs)] \o s]
           more == Append(seqs, s)
<1>1. /\ Len(seqs) \in Nat \ {0} /\ Len(more) = Len(seqs) + 1 /\ more[Len(seqs) + 1] = s
      /\ \A i \in 1..Len(seqs) : more[i] = seqs[i]
  OBVIOUS
<1> HIDE DEF more
<1>2. ASSUME NEW i \in 1..Len(seqs) + 1
      PROVE  g[i] = IF i = 1 THEN more[i] ELSE g[i - 1] \o more[i]
  <2>1. CASE i = Len(seqs) + 1
    BY <1>1, <2>1
  <2>2. CASE i <= Len(seqs)
    <3>1. i \in 1..Len(seqs) /\ (i # 1 => i - 1 \in 1..Len(seqs))
      BY <1>1, <2>2
    <3>2. f[i] = IF i = 1 THEN seqs[i] ELSE f[i - 1] \o seqs[i]
      BY <3>1 DEF Flattens
    <3> QED
      BY <1>1, <3>1, <3>2
  <2> QED
    BY <1>1, <2>1, <2>2
<1>3. g = [i \in 1..Len(more) |-> IF i = 1 THEN more[i] ELSE g[i - 1] \o more[i]]
  BY <1>1, <1>2
<1> QED
  BY <1>3 DEF Flattens, more

LEMMA FlatteningExists ==
  ASSUME NEW S, NEW seqs \in Seq(Seq(S))
  PROVE  \E f : Flattens(f, seqs)
<1> DEFINE P == {ss \in Seq(Seq(S)) : \E f : Flattens(f, ss)}
<1>1. << >> \in P
  <2>1. Flattens([i \in 1..0 |-> << >>], << >>)
    BY DEF Flattens
  <2> QED
    BY <2>1
<1>2. ASSUME NEW ss \in P, NEW s \in Seq(S) PROVE Append(ss, s) \in P
  <2>1. CASE ss = << >>
    <3>1. Flattens([i \in 1..1 |-> s], <<s>>)
      BY DEF Flattens
    <3>2. Append(ss, s) = <<s>>
      BY <2>1
    <3> QED
      BY <3>1, <3>2
  <2>2. CASE ss # << >>
    <3> PICK f : Flattens(f, ss)
      OBVIOUS
    <3> DEFINE g == [i \in 1..Len(ss) + 1 |-> IF i <= Len(ss) THEN f[i] ELSE f[Len(ss)] \o s]
    <3>1. Flattens(g, Append(ss, s))
      BY <2>2, FlatteningOfOneMore
    <3> HIDE DEF g
    <3> QED
      BY <3>1
  <2> QED
    BY <2>1, <2>2
<1> HIDE DEF P
<1>3. P \in SUBSET Seq(Seq(S))
  BY DEF P
<1>4. P = Seq(Seq(S))
  BY <1>1, <1>2, <1>3, SequenceInduction
<1> QED
  BY <1>4 DEF P

LEMMA FlatteningIsUnique ==
  ASSUME NEW seqs, Len(seqs) \in Nat, NEW f, NEW g, Flattens(f, seqs), Flattens(g, seqs)
  PROVE  f = g
<1> DEFINE Same == {n \in Nat : n \in 1..Len(seqs) => f[n] = g[n]}
<1>1. 0 \in Same
  OBVIOUS
<1>2. ASSUME NEW n \in Same PROVE n + 1 \in Same
  <2> SUFFICES ASSUME n + 1 \in 1..Len(seqs) PROVE f[n + 1] = g[n + 1]
    OBVIOUS
  <2>1. n + 1 # 1 => n \in 1..Len(seqs) /\ f[n] = g[n]
    OBVIOUS
  <2>2. n + 1 - 1 = n
    OBVIOUS
  <2>3. \A i \in 1..Len(seqs) : /\ f[i] = IF i = 1 THEN seqs[i] ELSE f[i - 1] \o seqs[i]
                                /\ g[i] = IF i = 1 THEN seqs[i] ELSE g[i - 1] \o seqs[i]
    BY Zenon DEF Flattens
  <2> QED
    BY <2>1, <2>2, <2>3
<1> HIDE DEF Same
<1>3. Same = Nat
  <2>1. Same \in SUBSET Nat
    BY DEF Same
  <2> QED
    BY <1>1, <1>2, <2>1, SetInduction
<1>4. \A n \in 1..Len(seqs) : f[n] = g[n]
  BY <1>3 DEF Same
<1> QED
  BY <1>4 DEF Flattens

LEMMA FlattenIsTheLast ==
  ASSUME NEW S, NEW seqs \in Seq(Seq(S)), seqs # << >>, NEW f, Flattens(f, seqs)
  PROVE  FlattenSeq(seqs) = f[Len(seqs)]
<1> DEFINE h == CHOOSE g : Flattens(g, seqs)
<1>1. Flattens(h, seqs)
  OBVIOUS
<1>2. h = f
  BY <1>1, FlatteningIsUnique
<1>3. FlattenSeq(seqs) = h[Len(seqs)]
  BY DEF FlattenSeq, Flattens
<1> QED
  BY <1>2, <1>3

LEMMA FlattenAppend ==
  ASSUME NEW S, NEW seqs \in Seq(Seq(S)), NEW s \in Seq(S)
  PROVE  FlattenSeq(Append(seqs, s)) = FlattenSeq(seqs) \o s
<1>1. Append(seqs, s) \in Seq(Seq(S)) /\ Len(Append(seqs, s)) = Len(seqs) + 1 /\ Len(seqs) \in Nat
  OBVIOUS
<1>4. Append(seqs, s) # << >>
  BY <1>1
<1>2. CASE seqs = << >>
  <2>1. Flattens([i \in 1..1 |-> s], <<s>>)
    BY DEF Flattens
  <2>2. FlattenSeq(<<s>>) = s
    <3>1. <<s>> \in Seq(Seq(S)) /\ <<s>> # << >> /\ Len(<<s>>) = 1
      OBVIOUS
    <3>2. FlattenSeq(<<s>>) = [i \in 1..1 |-> s][Len(<<s>>)]
      BY <2>1, <3>1, FlattenIsTheLast
    <3> QED
      BY <3>1, <3>2
  <2>3. FlattenSeq(seqs) = << >>
    BY <1>2 DEF FlattenSeq
  <2> QED
    BY <1>2, <2>2, <2>3
<1>3. CASE seqs # << >>
  <2> PICK f : Flattens(f, seqs)
    BY FlatteningExists
  <2> DEFINE g == [i \in 1..Len(seqs) + 1 |-> IF i <= Len(seqs) THEN f[i] ELSE f[Len(seqs)] \o s]
  <2>1. Flattens(g, Append(seqs, s))
    BY <1>3, FlatteningOfOneMore
  <2>2. g[Len(seqs) + 1] = f[Len(seqs)] \o s
    OBVIOUS
  <2> HIDE DEF g
  <2>3. FlattenSeq(Append(seqs, s)) = g[Len(seqs) + 1]
    BY <1>1, <1>4, <2>1, FlattenIsTheLast
  <2>4. FlattenSeq(seqs) = f[Len(seqs)]
    BY <1>3, FlattenIsTheLast
  <2> QED
    BY <2>2, <2>3, <2>4
<1> QED
  BY <1>2, <1>3

-----------------------------------------------------------------------------
(* What comes along a way: the sequences of its members, one after the other. *)

Along(f, b) == FlattenSeq([i \in DOMAIN b |-> f[b[i]]])

GivesSeqs(f, R, S) == \A r \in R : f[r] \in Seq(S)

LEMMA AlongOneMore ==
  ASSUME NEW R, NEW S, NEW f, GivesSeqs(f, R, S), NEW b \in Seq(R), NEW r \in R
  PROVE  Along(f, Append(b, r)) = Along(f, b) \o f[r]
<1> DEFINE seqs == [i \in DOMAIN b |-> f[b[i]]]
           more == [i \in DOMAIN Append(b, r) |-> f[Append(b, r)[i]]]
<1>1. seqs \in Seq(Seq(S)) /\ Len(seqs) = Len(b)
  BY DEF GivesSeqs
<1>2. /\ Append(b, r) \in Seq(R) /\ Len(Append(b, r)) = Len(b) + 1 /\ Append(b, r)[Len(b) + 1] = r
      /\ \A i \in 1..Len(b) : Append(b, r)[i] = b[i]
  OBVIOUS
<1>3. more \in Seq(Seq(S)) /\ Len(more) = Len(b) + 1 /\ more[Len(b) + 1] = f[r]
      /\ \A i \in 1..Len(b) : more[i] = seqs[i]
  BY <1>2 DEF GivesSeqs
<1>4. more = Append(seqs, f[r])
  <2> DEFINE other == Append(seqs, f[r])
  <2> HIDE DEF more, seqs
  <2>1. /\ other \in Seq(Seq(S)) /\ Len(other) = Len(b) + 1 /\ other[Len(b) + 1] = f[r]
        /\ \A i \in 1..Len(b) : other[i] = seqs[i]
    BY <1>1 DEF GivesSeqs
  <2> HIDE DEF other
  <2>2. \A i \in 1..Len(more) : more[i] = other[i]
    <3>1. Len(b) \in Nat /\ \A i \in 1..Len(b) + 1 : i \in 1..Len(b) \/ i = Len(b) + 1
      OBVIOUS
    <3> QED
      BY <1>3, <2>1, <3>1
  <2>3. more = other
    BY <1>3, <2>1, <2>2, SeqEqual
  <2> QED
    BY <2>3 DEF other
<1>5. FlattenSeq(more) = FlattenSeq(seqs) \o f[r]
  <2> HIDE DEF more, seqs
  <2> QED
    BY <1>1, <1>4, FlattenAppend DEF GivesSeqs
<1> QED
  BY <1>5 DEF Along

LEMMA AlongNoWay ==
  ASSUME NEW f
  PROVE  Along(f, << >>) = << >>
BY DEF Along, FlattenSeq

LEMMA AlongIsSeq ==
  ASSUME NEW R, NEW S, NEW f, GivesSeqs(f, R, S), NEW b \in Seq(R)
  PROVE  Along(f, b) \in Seq(S)
<1> DEFINE P == {d \in Seq(R) : Along(f, d) \in Seq(S)}
<1> HIDE DEF P
<1>1. << >> \in P
  <2>1. << >> \in Seq(R) /\ << >> \in Seq(S)
    OBVIOUS
  <2> QED
    BY <2>1, AlongNoWay DEF P
<1>2. ASSUME NEW d \in P, NEW r \in R PROVE Append(d, r) \in P
  <2>1. d \in Seq(R) /\ Along(f, d) \in Seq(S) /\ f[r] \in Seq(S) /\ Append(d, r) \in Seq(R)
    BY DEF P, GivesSeqs
  <2>2. Along(f, Append(d, r)) = Along(f, d) \o f[r]
    BY <2>1, AlongOneMore
  <2>3. Along(f, d) \o f[r] \in Seq(S)
    BY <2>1
  <2> QED
    BY <2>1, <2>2, <2>3 DEF P
<1>3. P \in SUBSET Seq(R)
  BY DEF P
<1>4. P = Seq(R)
  BY <1>1, <1>2, <1>3, SequenceInduction
<1> QED
  BY <1>4 DEF P

LEMMA AlongOneStep ==
  ASSUME NEW R, NEW S, NEW f, GivesSeqs(f, R, S), NEW r \in R
  PROVE  Along(f, <<r>>) = f[r]
<1>1. << >> \in Seq(R) /\ Append(<< >>, r) = <<r>>
  OBVIOUS
<1>2. Along(f, Append(<< >>, r)) = Along(f, << >>) \o f[r]
  BY <1>1, AlongOneMore
<1> QED
  BY <1>1, <1>2, AlongNoWay, ConcatEmptySeq DEF GivesSeqs

LEMMA AlongBoth ==
  ASSUME NEW R, NEW S, NEW f, GivesSeqs(f, R, S), NEW b \in Seq(R), NEW d \in Seq(R)
  PROVE  Along(f, b \o d) = Along(f, b) \o Along(f, d)
<1> DEFINE P == {e \in Seq(R) : Along(f, b \o e) = Along(f, b) \o Along(f, e)}
<1> HIDE DEF P
<1>1. << >> \in P
  <2>1. b \o << >> = b /\ << >> \in Seq(R)
    BY ConcatEmptySeq
  <2>2. Along(f, b) \in Seq(S)
    BY AlongIsSeq
  <2> QED
    BY <2>1, <2>2, AlongNoWay, ConcatEmptySeq DEF P
<1>2. ASSUME NEW e \in P, NEW r \in R PROVE Append(e, r) \in P
  <2>1. e \in Seq(R) /\ Along(f, b \o e) = Along(f, b) \o Along(f, e) /\ b \o e \in Seq(R)
    BY DEF P
  <2>2. b \o Append(e, r) = Append(b \o e, r) /\ Append(e, r) \in Seq(R)
    BY <2>1
  <2>3. Along(f, Append(b \o e, r)) = Along(f, b \o e) \o f[r]
    <3> DEFINE be == b \o e
    <3>1. be \in Seq(R)
      BY <2>1
    <3> HIDE DEF be
    <3>2. Along(f, Append(be, r)) = Along(f, be) \o f[r]
      BY <3>1, AlongOneMore
    <3> QED
      BY <3>2 DEF be
  <2>4. Along(f, Append(e, r)) = Along(f, e) \o f[r]
    BY <2>1, AlongOneMore
  <2>5. Along(f, b) \in Seq(S) /\ Along(f, e) \in Seq(S) /\ f[r] \in Seq(S)
    BY <2>1, AlongIsSeq DEF GivesSeqs
  <2>6. (Along(f, b) \o Along(f, e)) \o f[r] = Along(f, b) \o (Along(f, e) \o f[r])
    <3>1. \A s, t, u \in Seq(S) : (s \o t) \o u = s \o (t \o u)
      BY ConcatAssociative
    <3> QED
      BY <2>5, <3>1
  <2> QED
    BY <2>1, <2>2, <2>3, <2>4, <2>6 DEF P
<1>3. P \in SUBSET Seq(R)
  BY DEF P
<1>4. P = Seq(R)
  BY <1>1, <1>2, <1>3, SequenceInduction
<1> QED
  BY <1>4 DEF P

LEMMA AlongNothing ==
  ASSUME NEW R, NEW S, NEW f, GivesSeqs(f, R, S), NEW b \in Seq(R),
         \A i \in 1..Len(b) : f[b[i]] = << >>
  PROVE  Along(f, b) = << >>
<1> DEFINE Silent(d) == \A i \in 1..Len(d) : f[d[i]] = << >>
           P == {d \in Seq(R) : Silent(d) => Along(f, d) = << >>}
<1> HIDE DEF P
<1>1. << >> \in P
  <2>1. << >> \in Seq(R)
    OBVIOUS
  <2> QED
    BY <2>1, AlongNoWay DEF P
<1>2. ASSUME NEW d \in P, NEW r \in R PROVE Append(d, r) \in P
  <2> DEFINE e == Append(d, r)
  <2>1. d \in Seq(R) /\ (Silent(d) => Along(f, d) = << >>)
    BY DEF P
  <2>2. /\ e \in Seq(R) /\ Len(e) = Len(d) + 1 /\ e[Len(d) + 1] = r /\ Len(d) \in Nat
        /\ \A i \in 1..Len(d) : e[i] = d[i]
    BY <2>1
  <2>3. Along(f, e) = Along(f, d) \o f[r]
    BY <2>1, AlongOneMore
  <2> HIDE DEF e
  <2>4. Silent(e) => Silent(d) /\ f[r] = << >>
    BY <2>2
  <2>5. << >> \o << >> = << >>
    BY ConcatEmptySeq
  <2> QED
    BY <2>1, <2>2, <2>3, <2>4, <2>5 DEF P, e
<1>3. P \in SUBSET Seq(R)
  BY DEF P
<1>4. P = Seq(R)
  BY <1>1, <1>2, <1>3, SequenceInduction
<1> QED
  BY <1>4 DEF P

LEMMA AlongFirstAndRest ==
  ASSUME NEW R, NEW S, NEW f, GivesSeqs(f, R, S), NEW b \in Seq(R), b # << >>
  PROVE  /\ Along(f, b) = f[b[1]] \o Along(f, Tail(b)) /\ f[b[1]] \in Seq(S)
         /\ Tail(b) \in Seq(R) /\ Along(f, Tail(b)) \in Seq(S)
<1>1. b = <<b[1]>> \o Tail(b) /\ b[1] \in R /\ Tail(b) \in Seq(R)
  OBVIOUS
<1> DEFINE first == <<b[1]>>
           rest == Tail(b)
<1>2. first \in Seq(R) /\ rest \in Seq(R)
  BY <1>1
<1>3. Along(f, first) = f[b[1]] /\ f[b[1]] \in Seq(S)
  BY <1>1, AlongOneStep DEF GivesSeqs
<1> HIDE DEF first, rest
<1>4. Along(f, first \o rest) = Along(f, first) \o Along(f, rest)
  BY <1>2, AlongBoth
<1>5. Along(f, rest) \in Seq(S)
  BY <1>2, AlongIsSeq
<1> QED
  BY <1>1, <1>3, <1>4, <1>5 DEF first, rest

LEMMA FunctionAlongFirstAndRest ==
  ASSUME NEW R, NEW S, NEW f \in [R -> Seq(S)], NEW b \in Seq(R), b # << >>
  PROVE  Along(f, b) = f[b[1]] \o Along(f, Tail(b)) /\ Along(f, Tail(b)) \in Seq(S)
<1>1. GivesSeqs(f, R, S)
  BY DEF GivesSeqs
<1> QED
  BY <1>1, AlongFirstAndRest

\* Only what the first of a way adds counts, if the others add nothing.
LEMMA AlongTheFirst ==
  ASSUME NEW R, NEW S, NEW f, GivesSeqs(f, R, S), NEW b \in Seq(R), b # << >>,
         \A i \in 2..Len(b) : f[b[i]] = << >>
  PROVE  Along(f, b) = f[b[1]]
<1>1. Along(f, b) = f[b[1]] \o Along(f, Tail(b)) /\ f[b[1]] \in Seq(S) /\ Tail(b) \in Seq(R)
  BY AlongFirstAndRest
<1>2. Along(f, Tail(b)) = << >>
  <2> DEFINE rest == Tail(b)
  <2>1. /\ Len(b) \in Nat /\ \A i \in 1..Len(b) - 1 : i + 1 \in 2..Len(b)
        /\ Len(rest) = Len(b) - 1 /\ \A i \in 1..Len(b) - 1 : rest[i] = b[i + 1]
    OBVIOUS
  <2> HIDE DEF rest
  <2>2. rest \in Seq(R) /\ \A i \in 1..Len(rest) : f[rest[i]] = << >>
    BY <1>1, <2>1 DEF rest
  <2>3. Along(f, rest) = << >>
    BY <2>2, AlongNothing
  <2> QED
    BY <2>3 DEF rest
<1> QED
  BY <1>1, <1>2, ConcatEmptySeq

LEMMA AlongSame ==
  ASSUME NEW f, NEW g, NEW b, \A i \in DOMAIN b : f[b[i]] = g[b[i]]
  PROVE  Along(f, b) = Along(g, b)
<1>1. [i \in DOMAIN b |-> f[b[i]]] = [i \in DOMAIN b |-> g[b[i]]]
  OBVIOUS
<1> QED
  BY <1>1 DEF Along

-----------------------------------------------------------------------------
(* Ways down a tree, each router with the children it has in ch.            *)

Leads(ch, b) == b # << >> /\ \A i \in 1..Len(b) - 1 : b[i + 1] \in ch[b[i]]
Descends(ch, rank) ==
  /\ rank \in [Routers -> Nat] /\ ch \in [Routers -> SUBSET Routers]
  /\ \A r \in Routers : \A c \in ch[r] : rank[c] < rank[r]

LEMMA LeadsDown ==
  ASSUME NEW ch, NEW rank, Descends(ch, rank), NEW b \in Seq(Routers), Leads(ch, b),
         NEW i \in 1..Len(b), NEW j \in 1..Len(b), i < j
  PROVE  rank[b[j]] < rank[b[i]]
<1> DEFINE Down == {n \in Nat : i + n + 1 <= Len(b) => rank[b[i + n + 1]] < rank[b[i]]}
<1> HIDE DEF Down
<1>1. Len(b) \in Nat /\ \A n \in 1..Len(b) : b[n] \in Routers
  OBVIOUS
<1>2. \A n \in 1..Len(b) - 1 : rank[b[n + 1]] < rank[b[n]]
  BY <1>1 DEF Leads, Descends
<1>3. \A n \in 1..Len(b) : rank[b[n]] \in Nat
  BY <1>1 DEF Descends
<1>4. 0 \in Down
  BY <1>1, <1>2 DEF Down
<1>5. ASSUME NEW n \in Down PROVE n + 1 \in Down
  <2>1. n \in Nat
    BY DEF Down
  <2> SUFFICES ASSUME i + (n + 1) + 1 <= Len(b) PROVE rank[b[i + (n + 1) + 1]] < rank[b[i]]
    BY <2>1 DEF Down
  <2> DEFINE k == i + n + 1
  <2>2. k \in 1..Len(b) - 1 /\ k + 1 \in 1..Len(b) /\ i + (n + 1) + 1 = k + 1 /\ k \in 1..Len(b)
    BY <1>1, <2>1
  <2>3. rank[b[k]] < rank[b[i]]
    BY <2>2 DEF Down
  <2> HIDE DEF k
  <2>4. rank[b[k + 1]] < rank[b[k]]
    BY <1>2, <2>2
  <2>5. rank[b[k + 1]] \in Nat /\ rank[b[k]] \in Nat /\ rank[b[i]] \in Nat
    BY <1>3, <2>2
  <2> QED
    BY <2>2, <2>3, <2>4, <2>5
<1>6. Down = Nat
  <2>1. Down \in SUBSET Nat
    BY DEF Down
  <2> QED
    BY <1>4, <1>5, <2>1, SetInduction
<1>7. j - i - 1 \in Down /\ i + (j - i - 1) + 1 = j
  BY <1>1, <1>6
<1> QED
  BY <1>1, <1>7 DEF Down

LEMMA LeadsAreShort ==
  ASSUME NEW ch, NEW rank, Descends(ch, rank), NEW b \in Seq(Routers), Leads(ch, b)
  PROVE  /\ \A i, j \in 1..Len(b) : b[i] = b[j] => i = j
         /\ Len(b) \in 1..Cardinality(Routers)
<1>1. \A i \in 1..Len(b) : rank[b[i]] \in Nat
  BY DEF Descends
<1>2. \A i, j \in 1..Len(b) : i < j => rank[b[j]] < rank[b[i]]
  BY LeadsDown
<1>3. \A i, j \in 1..Len(b) : b[i] = b[j] => i = j
  BY <1>1, <1>2
<1>4. Len(b) \in Nat \ {0} /\ b \in [1..Len(b) -> Routers]
  BY DEF Leads
<1>5. b \in Injection(1..Len(b), Routers)
  BY <1>3, <1>4 DEF Injection, IsInjective
<1>6. Cardinality(1..Len(b)) = Len(b)
  BY <1>4, FS_Interval
<1>7. Cardinality(1..Len(b)) <= Cardinality(Routers) /\ Cardinality(Routers) \in Nat
  BY <1>5, RouterAssumptions, FS_Injection, FS_CardinalityType
<1> QED
  BY <1>3, <1>4, <1>6, <1>7

\* No way is longer than those Branches looks at.
LEMMA BranchesAreAllWays ==
  ASSUME NEW ch, NEW rank, Descends(ch, rank), NEW b, NEW a
  PROVE  b \in {d \in BoundedSeq(Routers, Cardinality(Routers)) : Leads(ch, d) /\ d[1] = a}
         <=> b \in Seq(Routers) /\ Leads(ch, b) /\ b[1] = a
<1>1. Cardinality(Routers) \in Nat
  BY RouterAssumptions, FS_CardinalityType
<1>2. \A d \in BoundedSeq(Routers, Cardinality(Routers)) : d \in Seq(Routers)
  BY <1>1 DEF BoundedSeq, SeqOf
<1>3. ASSUME b \in Seq(Routers), Leads(ch, b) PROVE b \in BoundedSeq(Routers, Cardinality(Routers))
  <2>1. Len(b) \in 0..Cardinality(Routers)
    BY <1>1, <1>3, LeadsAreShort
  <2>2. b \in [1..Len(b) -> Routers]
    BY <1>3
  <2> QED
    BY <2>1, <2>2 DEF BoundedSeq, SeqOf
<1> QED
  BY <1>2, <1>3

LEMMA LeadsBoth ==
  ASSUME NEW ch, NEW b \in Seq(Routers), Leads(ch, b), NEW d \in Seq(Routers), Leads(ch, d),
         d[1] \in ch[b[Len(b)]]
  PROVE  /\ b \o d \in Seq(Routers) /\ Leads(ch, b \o d)
         /\ (b \o d)[1] = b[1] /\ Len(b \o d) = Len(b) + Len(d) /\ Len(b) > 0 /\ Len(d) > 0
         /\ (b \o d)[Len(b \o d)] = d[Len(d)]
<1> DEFINE e == b \o d
<1>1. /\ e \in Seq(Routers) /\ Len(e) = Len(b) + Len(d)
      /\ \A i \in 1..Len(b) + Len(d) : e[i] = IF i <= Len(b) THEN b[i] ELSE d[i - Len(b)]
  BY ConcatProperties
<1>2. Len(b) \in Nat \ {0} /\ Len(d) \in Nat \ {0}
  BY DEF Leads
<1> HIDE DEF e
<1>3. ASSUME NEW i \in 1..Len(e) - 1 PROVE e[i + 1] \in ch[e[i]]
  <2>1. CASE i < Len(b)
    <3>1. e[i] = b[i] /\ e[i + 1] = b[i + 1] /\ i \in 1..Len(b) - 1
      BY <1>1, <1>2, <2>1
    <3> QED
      BY <3>1 DEF Leads
  <2>2. CASE i = Len(b)
    <3>0. /\ i \in 1..Len(b) + Len(d) /\ i + 1 \in 1..Len(b) + Len(d)
          /\ ~(i + 1 <= Len(b)) /\ i + 1 - Len(b) = 1
      BY <1>1, <1>2, <2>2
    <3>1. e[i] = b[Len(b)] /\ e[i + 1] = d[1]
      BY <1>1, <2>2, <3>0
    <3> QED
      BY <3>1
  <2>3. CASE i > Len(b)
    <3>1. /\ e[i] = d[i - Len(b)] /\ e[i + 1] = d[i - Len(b) + 1]
          /\ i - Len(b) \in 1..Len(d) - 1
      BY <1>1, <1>2, <2>3
    <3> QED
      BY <3>1 DEF Leads
  <2> QED
    BY <1>1, <1>2, <2>1, <2>2, <2>3
<1>4. e[1] = b[1] /\ e[Len(e)] = d[Len(d)] /\ e # << >>
  BY <1>1, <1>2
<1>5. Leads(ch, e)
  BY <1>3, <1>4 DEF Leads
<1> QED
  BY <1>1, <1>2, <1>4, <1>5 DEF e

LeadsBut(ch, b, i) == \A j \in 1..Len(b) - 1 : j # i => b[j + 1] \in ch[b[j]]

\* A way that goes from x to its child y, and otherwise only where ch leads.
Crosses(ch, b, x, y) ==
  \E w \in Seq(Routers), d \in Seq(Routers) :
    /\ b = w \o d /\ Leads(ch, w) /\ Leads(ch, d)
    /\ w[1] = b[1] /\ w[Len(w)] = x /\ d[1] = y

LEMMA LeadsParts ==
  ASSUME NEW ch, NEW b \in Seq(Routers), NEW i \in 1..Len(b) - 1, LeadsBut(ch, b, i)
  PROVE  Crosses(ch, b, b[i], b[i + 1])
<1> DEFINE w == SubSeq(b, 1, i)
           d == SubSeq(b, i + 1, Len(b))
<1>1. Len(b) \in Nat /\ i \in Nat
  OBVIOUS
<1>2. w \in Seq(Routers) /\ Len(w) = i /\ \A j \in 1..i : w[j] = b[j]
  BY <1>1
<1>3. d \in Seq(Routers) /\ Len(d) = Len(b) - i /\ \A j \in 1..Len(b) - i : d[j] = b[i + j]
  BY <1>1
<1> HIDE DEF w, d
<1>4. b = w \o d
  <2> DEFINE e == w \o d
  <2>1. /\ e \in Seq(Routers) /\ Len(e) = Len(w) + Len(d)
        /\ \A j \in 1..Len(w) + Len(d) : e[j] = IF j <= Len(w) THEN w[j] ELSE d[j - Len(w)]
    BY <1>2, <1>3, ConcatProperties
  <2> HIDE DEF e
  <2>2. Len(e) = Len(b)
    BY <1>1, <1>2, <1>3, <2>1
  <2>3. ASSUME NEW j \in 1..Len(b) PROVE e[j] = b[j]
    <3>1. CASE j <= i
      BY <1>1, <1>2, <1>3, <2>1, <3>1
    <3>2. CASE j > i
      <4>1. e[j] = d[j - i] /\ j - i \in 1..Len(b) - i /\ i + (j - i) = j
        BY <1>1, <1>2, <1>3, <2>1, <3>2
      <4> QED
        BY <1>3, <4>1
    <3> QED
      BY <1>1, <3>1, <3>2
  <2>4. e = b
    BY <2>1, <2>2, <2>3, SeqEqual
  <2> QED
    BY <2>4 DEF e
<1>5. Leads(ch, w)
  <2>1. \A j \in 1..i - 1 : j \in 1..Len(b) - 1 /\ j # i /\ w[j] = b[j] /\ w[j + 1] = b[j + 1]
    BY <1>1, <1>2
  <2> QED
    BY <1>2, <2>1 DEF Leads, LeadsBut
<1>6. Leads(ch, d)
  <2>1. ASSUME NEW j \in 1..Len(d) - 1 PROVE d[j + 1] \in ch[d[j]]
    <3>1. /\ i + j \in 1..Len(b) - 1 /\ i + j # i /\ i + (j + 1) = (i + j) + 1
          /\ j \in 1..Len(b) - i /\ j + 1 \in 1..Len(b) - i
      BY <1>1, <1>3
    <3>2. d[j] = b[i + j] /\ d[j + 1] = b[(i + j) + 1]
      BY <1>3, <3>1
    <3> QED
      BY <3>1, <3>2 DEF LeadsBut
  <2> QED
    BY <1>1, <1>3, <2>1 DEF Leads
<1>7. w[1] = b[1] /\ w[Len(w)] = b[i] /\ d[1] = b[i + 1]
  BY <1>1, <1>2, <1>3
<1> QED
  BY <1>2, <1>3, <1>4, <1>5, <1>6, <1>7 DEF Crosses

\* With one child more there are the ways of before, and those that take it.
LEMMA WaysWithOneMore ==
  ASSUME NEW ch, NEW r \in Routers, NEW c \in Routers, NEW rank,
         Descends([ch EXCEPT ![r] = @ \cup {c}], rank), ch \in [Routers -> SUBSET Routers],
         NEW b \in Seq(Routers), Leads([ch EXCEPT ![r] = @ \cup {c}], b)
  PROVE  Leads(ch, b) \/ Crosses(ch, b, r, c)
<1> DEFINE more == [ch EXCEPT ![r] = @ \cup {c}]
<1>1. \A a \in Routers : more[a] = IF a = r THEN ch[r] \cup {c} ELSE ch[a]
  OBVIOUS
<1>2. Leads(more, b) /\ \A i, j \in 1..Len(b) : b[i] = b[j] => i = j
  BY LeadsAreShort
<1> HIDE DEF more
<1>3. Len(b) \in Nat /\ \A i \in 1..Len(b) - 1 : b[i] \in Routers /\ b[i + 1] \in Routers
  OBVIOUS
<1>4. ASSUME NEW i \in 1..Len(b) - 1 PROVE b[i + 1] \in ch[b[i]] \/ (b[i] = r /\ b[i + 1] = c)
  BY <1>1, <1>2, <1>3 DEF Leads
<1>5. CASE \A i \in 1..Len(b) - 1 : b[i + 1] \in ch[b[i]]
  BY <1>2, <1>5 DEF Leads
<1>6. ASSUME NEW i \in 1..Len(b) - 1, b[i + 1] \notin ch[b[i]]
      PROVE  Crosses(ch, b, r, c)
  <2>1. b[i] = r /\ b[i + 1] = c
    BY <1>4, <1>6
  <2>2. \A j \in 1..Len(b) - 1 : j # i => b[j] # r
    BY <1>2, <1>3, <2>1
  <2>3. LeadsBut(ch, b, i)
    BY <1>4, <2>2 DEF LeadsBut
  <2>4. Crosses(ch, b, b[i], b[i + 1])
    BY <2>3, LeadsParts
  <2> QED
    BY <2>1, <2>4
<1> QED
  BY <1>5, <1>6

-----------------------------------------------------------------------------
(* Routers that are nested bottom up.                                       *)

RouterTypes ==
  /\ parentRouter \in [Routers -> Routers \cup {NoRouter}]
  /\ children \in [Routers -> SUBSET Routers]
  /\ middlewares \in [Routers -> Seq(Routers \X Nat)]
  /\ handlers \in [Routers -> Seq(SUBSET (Methods \cup {"all"}))]
  /\ DOMAIN completePaths = Routers

\* The router one was last nested in has it as a child, and who has a router as
\* a child is known to it.
ParentsUse ==
  \A q \in Routers :
    /\ parentRouter[q] # NoRouter => q \in children[parentRouter[q]]
    /\ Users(q) # {} => parentRouter[q] # NoRouter

HandlersAreSome == \A r \in Routers : handlers[r] # << >> => Last(handlers[r]) # {}

MiddlewaresAreNamed ==
  \A r \in Routers : \A k \in 1..Len(middlewares[r]) : middlewares[r][k] = <<r, k>>

\* No router is below itself.
NoCycles == \E rank : Descends(children, rank)

Entry(b) == [middlewares |-> MiddlewaresAlong(b), router |-> Last(b), object |-> Len(handlers[Last(b)])]

\* A router keeps an entry for the path of every route below it, and every entry
\* is that of a route.
PathsAreRoutes ==
  \A a \in Routers :
    /\ \A b \in Routes(a) : PathAlong(b) \in DOMAIN completePaths[a]
    /\ \A p \in DOMAIN completePaths[a] :
         \E b \in Routes(a) : p = PathAlong(b) /\ completePaths[a][p] = Entry(b)

MiddlewaresAreFew == IsFiniteSet(AllMiddlewares) /\ Cardinality(AllMiddlewares) <= MaxMiddlewares

RouterInv ==
  /\ RouterTypes /\ ParentsUse /\ HandlersAreSome /\ MiddlewaresAreNamed
  /\ MiddlewaresAreFew /\ NoCycles /\ PathsAreRoutes

LEMMA BranchesAreWays ==
  ASSUME NoCycles, NEW b, NEW a
  PROVE  b \in Branches(a) <=> b \in Seq(Routers) /\ Leads(children, b) /\ b[1] = a
<1> PICK rank : Descends(children, rank)
  BY DEF NoCycles
<1>1. Branches(a) = {d \in BoundedSeq(Routers, Cardinality(Routers)) : Leads(children, d) /\ d[1] = a}
  BY DEF Branches, IsWay, Leads
<1> QED
  BY <1>1, BranchesAreAllWays

LEMMA BranchesAreWaysNext ==
  ASSUME NoCycles', NEW b, NEW a
  PROVE  b \in Branches(a)' <=> b \in Seq(Routers) /\ Leads(children', b) /\ b[1] = a
<1> PICK rank : Descends(children', rank)
  BY DEF NoCycles
<1>1. Branches(a)' = {d \in BoundedSeq(Routers, Cardinality(Routers)) : Leads(children', d) /\ d[1] = a}
  BY DEF Branches, IsWay, Leads
<1> QED
  BY <1>1, BranchesAreAllWays

LEMMA AboveIsClosed ==
  ASSUME RouterTypes, NEW r \in Routers
  PROVE  /\ r \in Above(r) /\ Above(r) \subseteq Routers
         /\ \A q \in Above(r) : parentRouter[q] # NoRouter => parentRouter[q] \in Above(r)
BY DEF Above, RouterTypes

LEMMA AboveIsLeast ==
  ASSUME NEW r \in Routers, NEW S \in SUBSET Routers, r \in S,
         \A q \in S : parentRouter[q] # NoRouter => parentRouter[q] \in S
  PROVE  Above(r) \subseteq S
BY DEF Above

\* Only parents are above, and they add nothing, where a router may be nested.
LEMMA AboveAddsNothing ==
  ASSUME RouterTypes, ParentsUse, BottomUp, NEW r \in Routers, MayNestIn(r),
         NEW q \in Above(r), NEW u \in Users(q)
  PROVE  PathOf[q] = << >> /\ middlewares[q] = << >> /\ u \in Above(r)
<1>1. q \in Routers
  BY AboveIsClosed
<1>2. PathOf[q] = << >> /\ middlewares[q] = << >> /\ Cardinality(Users(q)) = 1
  BY DEF MayNestIn, IsFinished, AddsNothing
<1>3. IsFiniteSet(Users(q))
  BY RouterAssumptions, FS_Subset DEF Users
<1>4. PICK x : Users(q) = {x}
  BY <1>2, <1>3, FS_Singleton
<1>5. parentRouter[q] # NoRouter /\ parentRouter[q] \in Users(q)
  BY <1>1 DEF ParentsUse, Users, RouterTypes
<1>6. u = parentRouter[q]
  BY <1>4, <1>5
<1> QED
  BY <1>2, <1>5, <1>6, AboveIsClosed

LEMMA WaysAreAbove ==
  ASSUME RouterTypes, ParentsUse, BottomUp, NEW r \in Routers, MayNestIn(r),
         NEW w \in Seq(Routers), Leads(children, w), w[Len(w)] = r
  PROVE  /\ \A i \in 1..Len(w) : w[i] \in Above(r)
         /\ \A i \in 2..Len(w) : PathOf[w[i]] = << >> /\ middlewares[w[i]] = << >>
<1> DEFINE Up == {n \in Nat : n < Len(w) => w[Len(w) - n] \in Above(r)}
<1> HIDE DEF Up
<1>1. Len(w) \in Nat \ {0} /\ \A i \in 1..Len(w) : w[i] \in Routers
  BY DEF Leads
<1>2. \A i \in 2..Len(w) : w[i - 1] \in Users(w[i])
  <2> SUFFICES ASSUME NEW i \in 2..Len(w) PROVE w[i - 1] \in Users(w[i])
    OBVIOUS
  <2>1. i - 1 \in 1..Len(w) - 1 /\ (i - 1) + 1 = i /\ i - 1 \in 1..Len(w)
    BY <1>1
  <2>2. w[i] \in children[w[i - 1]]
    BY <2>1 DEF Leads
  <2> QED
    BY <1>1, <2>1, <2>2 DEF Users
<1>3. 0 \in Up
  BY <1>1, AboveIsClosed DEF Up
<1>4. ASSUME NEW n \in Up PROVE n + 1 \in Up
  <2>1. n \in Nat
    BY DEF Up
  <2> SUFFICES ASSUME n + 1 < Len(w) PROVE w[Len(w) - (n + 1)] \in Above(r)
    BY <2>1 DEF Up
  <2>2. Len(w) - n \in 2..Len(w) /\ Len(w) - (n + 1) = (Len(w) - n) - 1
    BY <1>1, <2>1
  <2>3. w[Len(w) - n] \in Above(r)
    BY <1>1, <2>1 DEF Up
  <2>4. w[(Len(w) - n) - 1] \in Users(w[Len(w) - n])
    BY <1>2, <2>2
  <2> QED
    BY <2>2, <2>3, <2>4, AboveAddsNothing
<1>5. Up = Nat
  <2>1. Up \in SUBSET Nat
    BY DEF Up
  <2> QED
    BY <1>3, <1>4, <2>1, SetInduction
<1>6. \A i \in 1..Len(w) : w[i] \in Above(r)
  <2> SUFFICES ASSUME NEW i \in 1..Len(w) PROVE w[i] \in Above(r)
    OBVIOUS
  <2>1. Len(w) - i \in Nat /\ Len(w) - i < Len(w) /\ Len(w) - (Len(w) - i) = i
    BY <1>1
  <2>2. Len(w) - i \in Up
    BY <1>5, <2>1
  <2> QED
    BY <2>1, <2>2 DEF Up
<1>7. \A i \in 2..Len(w) : i \in 1..Len(w)
  OBVIOUS
<1> QED
  BY <1>2, <1>6, <1>7, AboveAddsNothing

LEMMA AboveHasAWay ==
  ASSUME RouterTypes, ParentsUse, NEW r \in Routers, NEW a \in Above(r)
  PROVE  \E w \in Seq(Routers) : Leads(children, w) /\ w[1] = a /\ w[Len(w)] = r
<1> DEFINE Reaches(x) == \E w \in Seq(Routers) : Leads(children, w) /\ w[1] = x /\ w[Len(w)] = r
           S == {x \in Routers : Reaches(x)}
<1>1. r \in S
  <2>1. <<r>> \in Seq(Routers) /\ Leads(children, <<r>>) /\ <<r>>[1] = r /\ <<r>>[Len(<<r>>)] = r
    BY DEF Leads
  <2> QED
    BY <2>1
<1>2. ASSUME NEW q \in S, parentRouter[q] # NoRouter PROVE parentRouter[q] \in S
  <2> DEFINE p == parentRouter[q]
  <2>1. p \in Routers /\ q \in children[p]
    BY <1>2 DEF RouterTypes, ParentsUse
  <2> HIDE DEF p
  <2>2. PICK w \in Seq(Routers) : Leads(children, w) /\ w[1] = q /\ w[Len(w)] = r
    OBVIOUS
  <2> DEFINE first == <<p>>
  <2>3. first \in Seq(Routers) /\ Leads(children, first) /\ first[1] = p /\ first[Len(first)] = p
    BY <2>1 DEF Leads
  <2> HIDE DEF first
  <2>4. w[1] \in children[first[Len(first)]]
    BY <2>1, <2>2, <2>3
  <2>5. /\ first \o w \in Seq(Routers) /\ Leads(children, first \o w) /\ (first \o w)[1] = p
        /\ (first \o w)[Len(first \o w)] = r
    BY <2>2, <2>3, <2>4, LeadsBoth
  <2>6. p \in S
    BY <2>1, <2>5
  <2> QED
    BY <2>6 DEF p
<1> HIDE DEF S
<1>3. S \in SUBSET Routers
  BY DEF S
<1>4. a \in S
  BY <1>1, <1>2, <1>3, AboveIsLeast
<1> QED
  BY <1>4 DEF S

-----------------------------------------------------------------------------
(* A router is nested.                                                      *)

LEMMA NestKeepsTree ==
  ASSUME RouterInv, BottomUp, NEW r \in Routers, NEW c \in Routers, Nest(r, c)
  PROVE  /\ RouterTypes' /\ ParentsUse' /\ HandlersAreSome' /\ MiddlewaresAreNamed'
         /\ MiddlewaresAreFew' /\ NoCycles'
         /\ children' = [children EXCEPT ![r] = @ \cup {c}]
<1> USE DEF RouterInv
<1>1. /\ MayNestIn(r) /\ ~IsBelow(r, c) /\ UNCHANGED <<middlewares, handlers>>
      /\ parentRouter' = [parentRouter EXCEPT ![c] = r]
      /\ children' = [children EXCEPT ![r] = @ \cup {c}]
      /\ DOMAIN completePaths' = Routers
  BY DEF Nest
<1>2. RouterTypes'
  BY <1>1 DEF RouterTypes
<1>3. /\ \A q \in Routers : parentRouter'[q] = IF q = c THEN r ELSE parentRouter[q]
      /\ \A q \in Routers : children'[q] = IF q = r THEN children[r] \cup {c} ELSE children[q]
  BY <1>1 DEF RouterTypes
<1>4. ParentsUse'
  <2> SUFFICES ASSUME NEW q \in Routers
               PROVE  /\ parentRouter'[q] # NoRouter => q \in children'[parentRouter'[q]]
                      /\ Users(q)' # {} => parentRouter'[q] # NoRouter
    BY DEF ParentsUse
  <2>1. CASE q = c
    BY <1>3, <2>1, RouterAssumptions
  <2>2. CASE q # c
    <3>1. Users(q)' = Users(q)
      BY <1>3, <2>2 DEF Users
    <3>2. parentRouter'[q] = parentRouter[q]
      BY <1>3, <2>2
    <3>3. \A p \in Routers : q \in children[p] => q \in children'[p]
      BY <1>3
    <3>4. parentRouter[q] # NoRouter => parentRouter[q] \in Routers
      BY DEF RouterTypes
    <3>5. /\ parentRouter[q] # NoRouter => q \in children[parentRouter[q]]
          /\ Users(q) # {} => parentRouter[q] # NoRouter
      BY DEF ParentsUse
    <3> HIDE DEF RouterInv
    <3> QED
      BY <3>1, <3>2, <3>3, <3>4, <3>5
  <2> QED
    BY <2>1, <2>2
<1>5. HandlersAreSome' /\ MiddlewaresAreNamed' /\ MiddlewaresAreFew'
  BY <1>1 DEF HandlersAreSome, MiddlewaresAreNamed, MiddlewaresAreFew, AllMiddlewares
<1>6. NoCycles'
  <2> PICK rank : Descends(children, rank)
    BY DEF NoCycles
  <2> DEFINE new == [x \in Routers |-> IF x \in Above(r) THEN rank[x] + rank[c] + 1 ELSE rank[x]]
  <2>1. c \notin Above(r)
    <3> SUFFICES ASSUME c \in Above(r) PROVE FALSE
      OBVIOUS
    <3>1. PICK w \in Seq(Routers) : Leads(children, w) /\ w[1] = c /\ w[Len(w)] = r
      BY AboveHasAWay
    <3>2. w \in Branches(c)
      BY <3>1, BranchesAreWays
    <3> QED
      BY <1>1, <3>1, <3>2 DEF IsBelow, Last
  <2>2. r \in Above(r) /\ Above(r) \subseteq Routers
    BY AboveIsClosed
  <2>3. \A x \in Routers : \A y \in children[x] : y \in Above(r) => x \in Above(r)
    <3> SUFFICES ASSUME NEW x \in Routers, NEW y \in children[x], y \in Above(r) PROVE x \in Above(r)
      OBVIOUS
    <3>1. x \in Users(y)
      BY DEF Users
    <3> QED
      BY <1>1, <3>1, AboveAddsNothing
  <2>4. rank \in [Routers -> Nat] /\ \A x \in Routers : \A y \in children[x] : y \in Routers /\ rank[y] < rank[x]
    BY DEF Descends
  <2>5. new \in [Routers -> Nat]
    BY <2>4
  <2>6. ASSUME NEW x \in Routers, NEW y \in children'[x] PROVE new[y] < new[x]
    <3>1. CASE y \in children[x]
      <4>1. y \in Routers /\ rank[y] < rank[x] /\ rank[y] \in Nat /\ rank[x] \in Nat /\ rank[c] \in Nat
        BY <2>4, <3>1
      <4>2. y \in Above(r) => x \in Above(r)
        BY <2>3, <3>1
      <4> QED
        BY <4>1, <4>2
    <3>2. CASE y \notin children[x]
      <4>1. x = r /\ y = c
        BY <1>3, <3>2
      <4>2. rank[c] \in Nat /\ rank[r] \in Nat
        BY <2>4
      <4> QED
        BY <2>1, <2>2, <4>1, <4>2
    <3> QED
      BY <3>1, <3>2
  <2> HIDE DEF new
  <2>7. Descends(children', new)
    BY <1>2, <2>5, <2>6 DEF Descends, RouterTypes
  <2> QED
    BY <2>7 DEF NoCycles
<1> QED
  BY <1>1, <1>2, <1>4, <1>5, <1>6

\* The ways of before, and those down to r, from there to c, and on.
LEMMA NestedWays ==
  ASSUME RouterInv, BottomUp, NEW r \in Routers, NEW c \in Routers, Nest(r, c), NEW a \in Routers, NEW b
  PROVE  b \in Branches(a)' <=>
           \/ b \in Branches(a)
           \/ \E w \in Seq(Routers), d \in Branches(c) :
                /\ b = w \o d /\ Leads(children, w) /\ w[1] = a /\ w[Len(w)] = r
<1> USE DEF RouterInv
<1>1. NoCycles' /\ children' = [children EXCEPT ![r] = @ \cup {c}] /\ children \in [Routers -> SUBSET Routers]
  BY NestKeepsTree DEF RouterTypes
<1>2. \A q \in Routers : children[q] \subseteq children'[q]
  BY <1>1
<1>3. \A w : Leads(children, w) /\ w \in Seq(Routers) => Leads(children', w)
  BY <1>2 DEF Leads
<1>4. ASSUME b \in Branches(a)'
      PROVE  \/ b \in Branches(a)
             \/ \E w \in Seq(Routers), d \in Branches(c) :
                  /\ b = w \o d /\ Leads(children, w) /\ w[1] = a /\ w[Len(w)] = r
  <2>1. b \in Seq(Routers) /\ Leads(children', b) /\ b[1] = a
    BY <1>1, <1>4, BranchesAreWaysNext
  <2>2. PICK rank : Descends(children', rank)
    BY <1>1 DEF NoCycles
  <2>3. Leads(children, b) \/ Crosses(children, b, r, c)
    BY <1>1, <2>1, <2>2, WaysWithOneMore
  <2>4. CASE Leads(children, b)
    BY <2>1, <2>4, BranchesAreWays
  <2>5. CASE Crosses(children, b, r, c)
    <3> PICK w \in Seq(Routers), d \in Seq(Routers) :
           /\ b = w \o d /\ Leads(children, w) /\ Leads(children, d)
           /\ w[1] = b[1] /\ w[Len(w)] = r /\ d[1] = c
      BY <2>5 DEF Crosses
    <3>1. d \in Branches(c)
      BY BranchesAreWays
    <3> QED
      BY <2>1, <3>1
  <2> QED
    BY <2>3, <2>4, <2>5
<1>5. ASSUME b \in Branches(a) PROVE b \in Branches(a)'
  BY <1>1, <1>3, <1>5, BranchesAreWays, BranchesAreWaysNext
<1>6. ASSUME NEW w \in Seq(Routers), NEW d \in Branches(c), b = w \o d, Leads(children, w), w[1] = a,
             w[Len(w)] = r
      PROVE  b \in Branches(a)'
  <2>1. d \in Seq(Routers) /\ Leads(children, d) /\ d[1] = c
    BY BranchesAreWays
  <2>2. Leads(children', w) /\ Leads(children', d) /\ d[1] \in children'[w[Len(w)]]
    BY <1>1, <1>3, <1>6, <2>1
  <2>3. b \in Seq(Routers) /\ Leads(children', b) /\ b[1] = a
    BY <1>6, <2>1, <2>2, LeadsBoth
  <2> QED
    BY <1>1, <2>3, BranchesAreWaysNext
<1> QED
  BY <1>4, <1>5, <1>6

LEMMA WhatIsAlong ==
  ASSUME RouterTypes, NEW b \in Seq(Routers)
  PROVE  /\ PathAlong(b) = Along(PathOf, b) /\ MiddlewaresAlong(b) = Along(middlewares, b)
         /\ GivesSeqs(PathOf, Routers, STRING) /\ GivesSeqs(middlewares, Routers, Routers \X Nat)
         /\ PathAlong(b) \in Seq(STRING) /\ MiddlewaresAlong(b) \in Seq(Routers \X Nat)
<1>1. PathAlong(b) = Along(PathOf, b) /\ MiddlewaresAlong(b) = Along(middlewares, b)
  BY DEF PathAlong, MiddlewaresAlong, Along
<1>2. GivesSeqs(PathOf, Routers, STRING) /\ GivesSeqs(middlewares, Routers, Routers \X Nat)
  BY RouterAssumptions DEF GivesSeqs, RouterTypes
<1>3. Along(PathOf, b) \in Seq(STRING)
  BY <1>2, AlongIsSeq
<1>4. Along(middlewares, b) \in Seq(Routers \X Nat)
  BY <1>2, AlongIsSeq
<1> QED
  BY <1>1, <1>2, <1>3, <1>4

LEMMA AlongTwoWays ==
  ASSUME RouterTypes, NEW w \in Seq(Routers), NEW d \in Seq(Routers), w # << >>, d # << >>
  PROVE  /\ PathAlong(w \o d) = PathAlong(w) \o PathAlong(d)
         /\ MiddlewaresAlong(w \o d) = MiddlewaresAlong(w) \o MiddlewaresAlong(d)
         /\ w \o d \in Seq(Routers) /\ Last(w \o d) = Last(d) /\ Len(w \o d) > 1
<1> DEFINE b == w \o d
<1>1. /\ b \in Seq(Routers) /\ Len(b) = Len(w) + Len(d) /\ b[Len(w) + Len(d)] = d[Len(d)]
      /\ Len(w) \in Nat \ {0} /\ Len(d) \in Nat \ {0}
  OBVIOUS
<1>2. Along(PathOf, b) = Along(PathOf, w) \o Along(PathOf, d)
  BY WhatIsAlong, AlongBoth
<1>3. Along(middlewares, b) = Along(middlewares, w) \o Along(middlewares, d)
  BY WhatIsAlong, AlongBoth
<1> HIDE DEF b
<1>4. PathAlong(b) = PathAlong(w) \o PathAlong(d) /\ MiddlewaresAlong(b) = MiddlewaresAlong(w) \o MiddlewaresAlong(d)
  BY <1>1, <1>2, <1>3, WhatIsAlong
<1>5. Last(b) = Last(d) /\ Len(b) > 1
  BY <1>1 DEF Last
<1> QED
  BY <1>1, <1>4, <1>5 DEF b

LEMMA AlongOneRouter ==
  ASSUME RouterTypes, NEW c \in Routers
  PROVE  /\ PathAlong(<<c>>) = PathOf[c] /\ MiddlewaresAlong(<<c>>) = middlewares[c]
         /\ <<c>> \in Seq(Routers) /\ Last(<<c>>) = c
<1> DEFINE d == <<c>>
<1>1. d \in Seq(Routers) /\ Last(d) = c
  BY DEF Last
<1>2. GivesSeqs(PathOf, Routers, STRING) /\ GivesSeqs(middlewares, Routers, Routers \X Nat)
  BY <1>1, WhatIsAlong
<1>3. Along(PathOf, d) = PathOf[c]
  BY <1>2, AlongOneStep
<1>4. Along(middlewares, d) = middlewares[c]
  BY <1>2, AlongOneStep
<1> HIDE DEF d
<1>5. PathAlong(d) = PathOf[c] /\ MiddlewaresAlong(d) = middlewares[c]
  BY <1>1, <1>3, <1>4, WhatIsAlong
<1> QED
  BY <1>1, <1>5 DEF d

\* What the way down to r and on from c comes to: those above r add nothing but
\* the first of them.
LEMMA RoutesThrough ==
  ASSUME RouterInv, BottomUp, NEW r \in Routers, NEW c \in Routers, Nest(r, c), NEW a \in Routers,
         NEW w \in Seq(Routers), Leads(children, w), w[1] = a, w[Len(w)] = r, NEW d \in Branches(c)
  PROVE  /\ a \in Above(r) /\ w \o d \in Branches(a)' /\ d \in Seq(Routers) /\ d # << >>
         /\ PathAlong(w \o d) = PathOf[a] \o PathAlong(d)
         /\ MiddlewaresAlong(w \o d) = middlewares[a] \o MiddlewaresAlong(d)
         /\ Last(w \o d) = Last(d) /\ Len(w \o d) > 1
<1> USE DEF RouterInv
<1>1. d \in Seq(Routers) /\ d # << >> /\ w # << >>
  BY BranchesAreWays DEF Leads
<1>2. /\ \A i \in 1..Len(w) : w[i] \in Above(r)
      /\ \A i \in 2..Len(w) : PathOf[w[i]] = << >> /\ middlewares[w[i]] = << >>
  <2>1. MayNestIn(r)
    BY DEF Nest
  <2> QED
    BY <2>1, WaysAreAbove
<1>3. a \in Above(r)
  BY <1>1, <1>2
<1>4. PathAlong(w) = PathOf[a] /\ MiddlewaresAlong(w) = middlewares[a]
  <2>3. GivesSeqs(PathOf, Routers, STRING) /\ GivesSeqs(middlewares, Routers, Routers \X Nat)
    BY WhatIsAlong
  <2>4. /\ \A i \in 2..Len(w) : PathOf[w[i]] = << >>
        /\ \A i \in 2..Len(w) : middlewares[w[i]] = << >>
    BY <1>2
  <2>1. Along(PathOf, w) = PathOf[w[1]]
    BY <1>1, <2>3, <2>4, AlongTheFirst
  <2>2. Along(middlewares, w) = middlewares[w[1]]
    BY <1>1, <2>3, <2>4, AlongTheFirst
  <2> QED
    BY <2>1, <2>2, WhatIsAlong
<1>5. w \o d \in Branches(a)'
  BY NestedWays
<1> QED
  BY <1>1, <1>3, <1>4, <1>5, AlongTwoWays

\* Nothing but the ways changes.
LEMMA NestKeepsEntries ==
  ASSUME NEW r \in Routers, NEW c \in Routers, Nest(r, c)
  PROVE  /\ \A b : Entry(b)' = Entry(b) /\ PathAlong(b)' = PathAlong(b)
         /\ \A a, b : b \in Routes(a)' <=> b \in Branches(a)' /\ Len(b) > 1 /\ Defined(Last(b)) # {}
<1>1. UNCHANGED <<middlewares, handlers>>
  BY DEF Nest
<1> QED
  BY <1>1 DEF Entry, PathAlong, MiddlewaresAlong, Routes, Defined, Last

LEMMA RestOfPath ==
  ASSUME NEW S, NEW path \in Seq(S), NEW q \in Seq(S)
  PROVE  SubSeq(path \o q, Len(path) + 1, Len(path \o q)) = q
<1> DEFINE p == path \o q
           m == Len(path)
           u == SubSeq(p, m + 1, Len(p))
<1>1. /\ p \in Seq(S) /\ Len(p) = m + Len(q)
      /\ \A j \in 1..m + Len(q) : p[j] = IF j <= m THEN path[j] ELSE q[j - m]
  BY ConcatProperties
<1>2. m \in Nat /\ Len(q) \in Nat
  OBVIOUS
<1>3. u \in Seq(S) /\ Len(u) = Len(q) /\ \A j \in 1..Len(q) : u[j] = p[m + j]
  <2> HIDE DEF m, p
  <2> DEFINE a == m + 1
             z == Len(p)
  <2>1. a \in Int /\ z \in Int /\ z - a + 1 = Len(q) /\ (a > z => Len(q) = 0)
    BY <1>1, <1>2
  <2>2. \A i \in a..z : p[i] \in S
    <3>1. \A i \in a..z : i \in 1..Len(p)
      BY <1>1, <1>2
    <3> QED
      BY <1>1, <3>1
  <2>3. \A j \in 1..Len(q) : a + j - 1 = m + j
    BY <1>2
  <2> HIDE DEF a, z
  <2>4. /\ SubSeq(p, a, z) \in Seq(S)
        /\ Len(SubSeq(p, a, z)) = IF a <= z THEN z - a + 1 ELSE 0
        /\ \A j \in 1..z - a + 1 : SubSeq(p, a, z)[j] = p[a + j - 1]
    BY <2>1, <2>2, SubSeqProperties
  <2>5. Len(SubSeq(p, a, z)) = Len(q)
    BY <2>1, <2>4
  <2>6. \A j \in 1..Len(q) : SubSeq(p, a, z)[j] = p[m + j]
    BY <2>1, <2>3, <2>4
  <2> QED
    BY <2>4, <2>5, <2>6 DEF a, z
<1>4. ASSUME NEW j \in 1..Len(q) PROVE p[m + j] = q[j]
  <2> HIDE DEF u, m, p
  <2>1. m + j \in 1..m + Len(q) /\ ~(m + j <= m) /\ (m + j) - m = j
    BY <1>2
  <2> QED
    BY <1>1, <2>1
<1> HIDE DEF u, m, p
<1>5. u = q
  BY <1>3, <1>4, SeqEqual
<1> QED
  BY <1>5 DEF u, m, p

\* Nested in another, a child gives it an entry for every way down from the child
\* that ends at handlers, with what the other adds; the others stay.
WithRoutesOf(new, paths, path, outer, c) ==
  /\ DOMAIN paths \subseteq DOMAIN new
  /\ \A d \in Branches(c) : Defined(Last(d)) # {} => path \o PathAlong(d) \in DOMAIN new
  /\ \A p \in DOMAIN new :
       \/ p \in DOMAIN paths /\ new[p] = paths[p]
       \/ \E d \in Branches(c) : /\ Defined(Last(d)) # {} /\ p = path \o PathAlong(d)
                                /\ new[p] = Behind(outer, Entry(d))

LEMMA EntriesOfChild ==
  ASSUME RouterInv, NEW c \in Routers, NEW path \in Seq(STRING), NEW outer, NEW paths
  PROVE  WithRoutesOf(WithEntriesOf(paths, path, outer, c), paths, path, outer, c)
<1> USE DEF RouterInv
<1> DEFINE nested == NestedEntries(path, outer, c)
           own == OwnEntries(path, outer, c)
           new == WithEntriesOf(paths, path, outer, c)
<1>1. /\ DOMAIN new = DOMAIN nested \cup DOMAIN own \cup DOMAIN paths
      /\ \A p \in DOMAIN new :
           new[p] = IF p \in DOMAIN nested THEN nested[p] ELSE IF p \in DOMAIN own THEN own[p] ELSE paths[p]
  BY DEF WithEntriesOf
<1>2. \A d \in Branches(c) : d \in Seq(Routers) /\ d[1] = c /\ d # << >>
  BY BranchesAreWays DEF Leads
<1>3. ASSUME NEW p \in DOMAIN nested
      PROVE  \E d \in Branches(c) : /\ Defined(Last(d)) # {} /\ p = path \o PathAlong(d)
                                    /\ nested[p] = Behind(outer, Entry(d))
  <2>1. PICK q \in DOMAIN completePaths[c] : p = path \o q
    BY DEF NestedEntries
  <2>2. PICK d \in Routes(c) : q = PathAlong(d) /\ completePaths[c][q] = Entry(d)
    BY DEF PathsAreRoutes
  <2>3. d \in Branches(c) /\ Defined(Last(d)) # {}
    BY DEF Routes
  <2>4. q \in Seq(STRING)
    BY <1>2, <2>2, <2>3, WhatIsAlong
  <2>5. SubSeq(p, Len(path) + 1, Len(p)) = q
    BY <2>1, <2>4, RestOfPath
  <2>6. nested[p] = Behind(outer, Entry(d))
    BY <2>2, <2>5 DEF NestedEntries
  <2> QED
    BY <2>1, <2>2, <2>3, <2>6
<1>4. /\ <<c>> \in Branches(c) /\ Last(<<c>>) = c
      /\ PathAlong(<<c>>) = PathOf[c] /\ MiddlewaresAlong(<<c>>) = middlewares[c]
  <2>1. <<c>> \in Seq(Routers) /\ Leads(children, <<c>>) /\ <<c>>[1] = c
    BY DEF Leads
  <2> QED
    BY <2>1, BranchesAreWays, AlongOneRouter
<1>5. ASSUME NEW p \in DOMAIN own
      PROVE  \E d \in Branches(c) : /\ Defined(Last(d)) # {} /\ p = path \o PathAlong(d)
                                    /\ own[p] = Behind(outer, Entry(d))
  <2>1. /\ handlers[c] # << >> /\ p = path \o PathOf[c]
        /\ own[p] = [middlewares |-> outer \o middlewares[c], router |-> c, object |-> Len(handlers[c])]
    BY DEF OwnEntries
  <2> DEFINE d == <<c>>
  <2> HIDE DEF d
  <2>2. own[p] = Behind(outer, Entry(d))
    BY <1>4, <2>1 DEF Entry, Behind, d
  <2>3. Defined(c) # {}
    BY <2>1 DEF HandlersAreSome, Defined
  <2> QED
    BY <1>4, <2>1, <2>2, <2>3 DEF d
<1>6. ASSUME NEW d \in Branches(c), Defined(Last(d)) # {}
      PROVE  path \o PathAlong(d) \in DOMAIN nested \cup DOMAIN own
  <2>1. CASE Len(d) > 1
    <3>1. d \in Routes(c)
      BY <1>6, <2>1 DEF Routes
    <3>2. PathAlong(d) \in DOMAIN completePaths[c]
      BY <3>1 DEF PathsAreRoutes
    <3> QED
      BY <3>2 DEF NestedEntries
  <2>2. CASE d = <<c>>
    BY <1>4, <1>6, <2>2 DEF OwnEntries, Defined
  <2>3. Len(d) > 1 \/ d = <<c>>
    <3>1. d \in Seq(Routers) /\ d # << >> /\ d[1] = c
      BY <1>2
    <3>2. ASSUME ~(Len(d) > 1) PROVE d = <<c>>
      <4> DEFINE n == Len(d)
      <4>1. n \in Nat \ {0}
        BY <3>1, EmptySeq
      <4> HIDE DEF n
      <4>5. ~(n > 1)
        BY Zenon, <3>2 DEF n
      <4>2. n = 1
        BY <4>1, <4>5
      <4>3. Len(d) = 1
        BY <4>2 DEF n
      <4>4. d \in Seq(Routers) /\ d[1] = c /\ <<c>> \in Seq(Routers) /\ Len(<<c>>) = 1 /\ <<c>>[1] = c
        BY <3>1
      <4> DEFINE e == <<c>>
      <4> HIDE DEF e
      <4>6. d = e
        BY <4>3, <4>4, SeqEqual DEF e
      <4> QED
        BY <4>6 DEF e
    <3> QED
      BY <3>2
  <2> QED
    BY Zenon, <2>1, <2>2, <2>3
<1> HIDE DEF nested, own, new
<1>7. DOMAIN paths \subseteq DOMAIN new
  BY <1>1
<1>8. \A d \in Branches(c) : Defined(Last(d)) # {} => path \o PathAlong(d) \in DOMAIN new
  BY <1>1, <1>6
<1>9. ASSUME NEW p \in DOMAIN new
      PROVE  \/ p \in DOMAIN paths /\ new[p] = paths[p]
             \/ \E d \in Branches(c) : /\ Defined(Last(d)) # {} /\ p = path \o PathAlong(d)
                                      /\ new[p] = Behind(outer, Entry(d))
  <2>1. CASE p \in DOMAIN nested
    BY <1>1, <1>3, <2>1
  <2>2. CASE p \notin DOMAIN nested /\ p \in DOMAIN own
    BY <1>1, <1>5, <2>2
  <2>3. CASE p \notin DOMAIN nested /\ p \notin DOMAIN own
    BY <1>1, <2>3
  <2> QED
    BY <2>1, <2>2, <2>3
<1> QED
  BY Zenon, <1>7, <1>8, <1>9 DEF new, WithRoutesOf

LEMMA NestKeepsPaths ==
  ASSUME RouterInv, BottomUp, NEW r \in Routers, NEW c \in Routers, Nest(r, c)
  PROVE  PathsAreRoutes'
<1> USE DEF RouterInv
<1> SUFFICES ASSUME NEW a \in Routers
             PROVE  /\ \A b \in Routes(a)' : PathAlong(b) \in DOMAIN completePaths'[a]
                    /\ \A p \in DOMAIN completePaths'[a] :
                         \E b \in Routes(a)' : p = PathAlong(b) /\ completePaths'[a][p] = Entry(b)
  BY NestKeepsEntries DEF PathsAreRoutes
<1>1. /\ \A b \in Routes(a) : PathAlong(b) \in DOMAIN completePaths[a]
      /\ \A p \in DOMAIN completePaths[a] :
           \E b \in Routes(a) : p = PathAlong(b) /\ completePaths[a][p] = Entry(b)
  BY DEF PathsAreRoutes
<1>2. Routes(a) \subseteq Routes(a)'
  BY NestKeepsEntries, NestedWays DEF Routes
<1>3. ASSUME NEW b \in Routes(a)', b \notin Routes(a)
      PROVE  /\ a \in Above(r)
             /\ \E d \in Branches(c) : PathAlong(b) = PathOf[a] \o PathAlong(d) /\ Defined(Last(d)) # {}
  <2>1. b \in Branches(a)' /\ Len(b) > 1 /\ Defined(Last(b)) # {}
    BY NestKeepsEntries
  <2>2. b \notin Branches(a)
    BY <1>3, <2>1 DEF Routes
  <2>3. PICK w \in Seq(Routers), d \in Branches(c) :
          b = w \o d /\ Leads(children, w) /\ w[1] = a /\ w[Len(w)] = r
    BY <2>1, <2>2, NestedWays
  <2>4. a \in Above(r) /\ PathAlong(b) = PathOf[a] \o PathAlong(d) /\ Last(b) = Last(d)
    BY <2>3, RoutesThrough
  <2> QED
    BY <2>1, <2>4
<1>4. CASE a \notin Above(r)
  <2>1. completePaths'[a] = completePaths[a]
    BY <1>4 DEF Nest
  <2> QED
    BY <1>1, <1>2, <1>3, <1>4, <2>1
<1>5. CASE a \in Above(r)
  <2> DEFINE old == completePaths[a]
             path == PathOf[a]
             new == WithEntriesOf(old, path, middlewares[a], c)
  <2>1. completePaths'[a] = new
    BY <1>5 DEF Nest
  <2>2. WithRoutesOf(new, old, path, middlewares[a], c)
    <3> DEFINE outer == middlewares[a]
    <3>1. path \in Seq(STRING)
      BY RouterAssumptions
    <3> HIDE DEF old, path, outer
    <3> QED
      BY <3>1, EntriesOfChild
  <2>3. ASSUME NEW d \in Branches(c), Defined(Last(d)) # {}
        PROVE  \E b \in Routes(a)' : path \o PathAlong(d) = PathAlong(b) /\ Behind(middlewares[a], Entry(d)) = Entry(b)
    <3>1. PICK w \in Seq(Routers) : Leads(children, w) /\ w[1] = a /\ w[Len(w)] = r
      BY <1>5, AboveHasAWay
    <3> DEFINE b == w \o d
    <3>2. /\ b \in Branches(a)' /\ PathAlong(b) = PathOf[a] \o PathAlong(d)
          /\ MiddlewaresAlong(b) = middlewares[a] \o MiddlewaresAlong(d)
          /\ Last(b) = Last(d) /\ Len(b) > 1
      BY <3>1, RoutesThrough
    <3> HIDE DEF b
    <3>3. Behind(middlewares[a], Entry(d)) = Entry(b)
      BY <3>2 DEF Entry, Behind
    <3>4. b \in Routes(a)'
      BY <2>3, <3>2, NestKeepsEntries
    <3> QED
      BY <3>2, <3>3, <3>4
  <2> HIDE DEF new, old, path
  <2>4. \A b \in Routes(a)' : PathAlong(b) \in DOMAIN new
    BY <1>1, <1>3, <2>2 DEF old, path, WithRoutesOf
  <2>5. ASSUME NEW p \in DOMAIN new PROVE \E b \in Routes(a)' : p = PathAlong(b) /\ new[p] = Entry(b)
    <3>1. CASE p \in DOMAIN old /\ new[p] = old[p]
      BY <1>1, <1>2, <3>1 DEF old
    <3>2. CASE \E d \in Branches(c) : /\ Defined(Last(d)) # {} /\ p = path \o PathAlong(d)
                                      /\ new[p] = Behind(middlewares[a], Entry(d))
      BY <2>3, <3>2
    <3> QED
      BY <2>2, <3>1, <3>2 DEF WithRoutesOf
  <2> QED
    BY <2>1, <2>4, <2>5
<1> QED
  BY <1>4, <1>5

-----------------------------------------------------------------------------
(* A router that nobody uses gets handlers and middlewares.                 *)

LEMMA UnusedIsFirst ==
  ASSUME NEW r \in Routers, Users(r) = {}, NEW b \in Seq(Routers), Leads(children, b)
  PROVE  \A i \in 2..Len(b) : b[i] # r
<1> SUFFICES ASSUME NEW i \in 2..Len(b), b[i] = r PROVE FALSE
  OBVIOUS
<1>1. i - 1 \in 1..Len(b) - 1 /\ (i - 1) + 1 = i /\ b[i - 1] \in Routers
  OBVIOUS
<1>2. b[i] \in children[b[i - 1]]
  BY <1>1 DEF Leads
<1> QED
  BY <1>1, <1>2 DEF Users

\* What it gets changes no route, and of the entries only its own, by the
\* middlewares that are its own.
LEMMA GrownEntries ==
  ASSUME RouterInv, NEW r \in Routers, Users(r) = {}, UNCHANGED children,
         middlewares' \in [Routers -> Seq(Routers \X Nat)],
         \A q \in Routers : q # r => handlers'[q] = handlers[q] /\ middlewares'[q] = middlewares[q],
         NEW a \in Routers
  PROVE  /\ Routes(a)' = Routes(a)
         /\ \A b \in Routes(a) :
              /\ PathAlong(b)' = PathAlong(b)
              /\ middlewares'[a] = middlewares[a] => Entry(b)' = Entry(b)
              /\ middlewares[a] = << >> => Entry(b)' = Behind(middlewares'[a], Entry(b))
<1> USE DEF RouterInv
<1>1. Branches(a)' = Branches(a)
  BY DEF Branches, IsWay
<1>2. ASSUME NEW b \in Branches(a), Len(b) > 1
      PROVE  handlers'[Last(b)] = handlers[Last(b)]
  <2>1. b \in Seq(Routers) /\ Leads(children, b)
    BY BranchesAreWays
  <2>2. Len(b) \in 2..Len(b) /\ b[Len(b)] \in Routers
    BY <1>2, <2>1
  <2>3. b[Len(b)] # r
    BY <2>1, <2>2, UnusedIsFirst
  <2> QED
    BY <2>2, <2>3 DEF Last
<1>3. Routes(a)' = Routes(a)
  <2>1. \A b \in Branches(a) : Len(b) > 1 => Defined(Last(b))' = Defined(Last(b))
    BY <1>2 DEF Defined, Last
  <2> QED
    BY <1>1, <2>1 DEF Routes
<1>4. ASSUME NEW b \in Routes(a)
      PROVE  /\ PathAlong(b)' = PathAlong(b)
             /\ middlewares'[a] = middlewares[a] => Entry(b)' = Entry(b)
             /\ middlewares[a] = << >> => Entry(b)' = Behind(middlewares'[a], Entry(b))
  <2>1. b \in Branches(a) /\ Len(b) > 1
    BY DEF Routes
  <2>2. b \in Seq(Routers) /\ Leads(children, b) /\ b[1] = a /\ b # << >>
    BY <2>1, BranchesAreWays DEF Leads
  <2>3. \A f \in [Routers -> Seq(Routers \X Nat)] :
          /\ Along(f, b) = f[a] \o Along(f, Tail(b))
          /\ Along(f, Tail(b)) \in Seq(Routers \X Nat)
    <3> DEFINE S == Routers \X Nat
    <3> HIDE DEF S
    <3>1. \A f \in [Routers -> Seq(S)] :
            Along(f, b) = f[b[1]] \o Along(f, Tail(b)) /\ Along(f, Tail(b)) \in Seq(S)
      BY <2>2, FunctionAlongFirstAndRest
    <3> QED
      BY <2>2, <3>1 DEF S
  <2> DEFINE rest == Along(middlewares, Tail(b))
  <2>4. Along(middlewares, b) = middlewares[a] \o rest /\ rest \in Seq(Routers \X Nat)
    BY <2>3 DEF RouterTypes
  <2>5. Along(middlewares', b) = middlewares'[a] \o Along(middlewares', Tail(b))
    BY <2>3
  <2>6. Along(middlewares', Tail(b)) = rest
    <3> DEFINE tail == Tail(b)
    <3>1. \A i \in DOMAIN tail : i + 1 \in 2..Len(b) /\ tail[i] = b[i + 1] /\ tail[i] \in Routers
      BY <2>2
    <3>2. \A i \in DOMAIN tail : tail[i] # r
      BY <2>2, <3>1, UnusedIsFirst
    <3> HIDE DEF tail
    <3>3. \A i \in DOMAIN tail : middlewares'[tail[i]] = middlewares[tail[i]]
      BY <3>1, <3>2
    <3>4. Along(middlewares', tail) = Along(middlewares, tail)
      BY <3>3, AlongSame
    <3> QED
      BY <3>4 DEF tail
  <2> HIDE DEF rest
  <2>7. MiddlewaresAlong(b)' = middlewares'[a] \o rest /\ MiddlewaresAlong(b) = middlewares[a] \o rest
    <3>1. MiddlewaresAlong(b)' = Along(middlewares', b) /\ MiddlewaresAlong(b) = Along(middlewares, b)
      BY DEF MiddlewaresAlong, Along
    <3> QED
      BY <2>4, <2>5, <2>6, <3>1
  <2>8. Entry(b) = [middlewares |-> MiddlewaresAlong(b), router |-> Last(b), object |-> Len(handlers[Last(b)])]
    BY DEF Entry
  <2>9. Entry(b)' = [middlewares |-> MiddlewaresAlong(b)', router |-> Last(b), object |-> Len(handlers[Last(b)])]
    BY <1>2, <2>1 DEF Entry, Last
  <2>10. middlewares'[a] = middlewares[a] => Entry(b)' = Entry(b)
    BY <2>7, <2>8, <2>9
  <2>11. middlewares[a] = << >> => Entry(b)' = Behind(middlewares'[a], Entry(b))
    <3> SUFFICES ASSUME middlewares[a] = << >> PROVE Entry(b)' = Behind(middlewares'[a], Entry(b))
      OBVIOUS
    <3>1. MiddlewaresAlong(b) = rest
      BY <2>4, <2>7, ConcatEmptySeq
    <3> QED
      BY <2>7, <2>8, <2>9, <3>1 DEF Behind
  <2>12. PathAlong(b)' = PathAlong(b)
    BY DEF PathAlong
  <2> QED
    BY <2>10, <2>11, <2>12
<1> QED
  BY <1>3, <1>4

LEMMA HandlersKeepPaths ==
  ASSUME RouterInv, NEW r \in Routers, Users(r) = {}, UNCHANGED <<children, middlewares, completePaths>>,
         \A q \in Routers : q # r => handlers'[q] = handlers[q]
  PROVE  PathsAreRoutes'
<1>1. middlewares' \in [Routers -> Seq(Routers \X Nat)]
  BY DEF RouterInv, RouterTypes
<1>2. ASSUME NEW a \in Routers
      PROVE  /\ Routes(a)' = Routes(a)
             /\ \A b \in Routes(a) : PathAlong(b)' = PathAlong(b) /\ Entry(b)' = Entry(b)
  BY <1>1, GrownEntries
<1> QED
  BY <1>2 DEF RouterInv, PathsAreRoutes

LEMMA PrependKeepsPaths ==
  ASSUME RouterInv, NEW r \in Routers, Users(r) = {}, UNCHANGED children, NEW added \in Seq(Routers \X Nat),
         Prepend(r, added), middlewares[r] = << >> \/ completePaths[r] = NoPaths,
         \A q \in Routers : q # r => handlers'[q] = handlers[q]
  PROVE  PathsAreRoutes'
<1> USE DEF RouterInv
<1>1. /\ middlewares' \in [Routers -> Seq(Routers \X Nat)] /\ middlewares'[r] = middlewares[r] \o added
      /\ \A q \in Routers : q # r => middlewares'[q] = middlewares[q] /\ completePaths'[q] = completePaths[q]
      /\ completePaths'[r] = [path \in DOMAIN completePaths[r] |-> Behind(added, completePaths[r][path])]
  BY DEF Prepend, RouterTypes
<1>2. ASSUME NEW a \in Routers
      PROVE  /\ Routes(a)' = Routes(a)
             /\ \A b \in Routes(a) :
                  /\ PathAlong(b)' = PathAlong(b)
                  /\ middlewares'[a] = middlewares[a] => Entry(b)' = Entry(b)
                  /\ middlewares[a] = << >> => Entry(b)' = Behind(middlewares'[a], Entry(b))
  BY <1>1, GrownEntries
<1> SUFFICES ASSUME NEW a \in Routers
             PROVE  /\ \A b \in Routes(a) : PathAlong(b) \in DOMAIN completePaths'[a]
                    /\ \A p \in DOMAIN completePaths'[a] :
                         \E b \in Routes(a) : p = PathAlong(b) /\ completePaths'[a][p] = Entry(b)'
  BY <1>2 DEF PathsAreRoutes
<1>3. /\ \A b \in Routes(a) : PathAlong(b) \in DOMAIN completePaths[a]
      /\ \A p \in DOMAIN completePaths[a] :
           \E b \in Routes(a) : p = PathAlong(b) /\ completePaths[a][p] = Entry(b)
  BY DEF PathsAreRoutes
<1>4. CASE a # r
  BY <1>1, <1>2, <1>3, <1>4
<1>5. CASE a = r /\ middlewares[r] = << >>
  <2>1. middlewares'[r] = added
    BY <1>1, <1>5, ConcatEmptySeq
  <2>2. \A b \in Routes(a) : Entry(b)' = Behind(added, Entry(b))
    BY <1>2, <1>5, <2>1
  <2> QED
    BY <1>1, <1>3, <1>5, <2>2
<1>6. CASE a = r /\ completePaths[r] = NoPaths
  BY <1>1, <1>3, <1>6 DEF NoPaths
<1> QED
  BY <1>4, <1>5, <1>6

LEMMA AddedAreNamed ==
  ASSUME RouterInv, NEW r \in Routers, NEW n \in Nat, MayAdd(n), Prepend(r, Added(r, n)),
         UNCHANGED <<parentRouter, children>>, handlers' \in [Routers -> Seq(SUBSET (Methods \cup {"all"}))]
  PROVE  /\ Added(r, n) \in Seq(Routers \X Nat)
         /\ RouterTypes' /\ MiddlewaresAreNamed' /\ MiddlewaresAreFew'
<1> USE DEF RouterInv
<1> DEFINE added == Added(r, n)
           old == middlewares[r]
           more == old \o added
<1>1. old \in Seq(Routers \X Nat) /\ Len(old) \in Nat
  BY DEF RouterTypes
<1>2. added \in Seq(Routers \X Nat) /\ Len(added) = n /\ \A i \in 1..n : added[i] = <<r, Len(old) + i>>
  BY <1>1 DEF Added
<1> HIDE DEF old, added
<1>3. /\ more \in Seq(Routers \X Nat) /\ Len(more) = Len(old) + n
      /\ \A k \in 1..Len(more) : more[k] = IF k <= Len(old) THEN old[k] ELSE added[k - Len(old)]
  <2> DEFINE S == Routers \X Nat
  <2>1. old \in Seq(S) /\ added \in Seq(S)
    BY <1>1, <1>2
  <2> HIDE DEF S
  <2>2. /\ more \in Seq(S) /\ Len(more) = Len(old) + Len(added)
        /\ \A k \in 1..Len(old) + Len(added) :
             more[k] = IF k <= Len(old) THEN old[k] ELSE added[k - Len(old)]
    BY <2>1, ConcatProperties
  <2> HIDE DEF more
  <2> QED
    BY <1>2, <2>2 DEF S
<1> HIDE DEF more
<1>4. /\ middlewares' \in [Routers -> Seq(Routers \X Nat)] /\ middlewares'[r] = more
      /\ \A q \in Routers : q # r => middlewares'[q] = middlewares[q]
      /\ DOMAIN completePaths' = Routers
  BY <1>3 DEF Prepend, RouterTypes, more, added, old
<1>5. RouterTypes'
  BY <1>4 DEF RouterTypes
<1>6. MiddlewaresAreNamed'
  <2> SUFFICES ASSUME NEW q \in Routers, NEW k \in 1..Len(middlewares'[q])
               PROVE  middlewares'[q][k] = <<q, k>>
    BY DEF MiddlewaresAreNamed
  <2>1. CASE q # r
    BY <1>4, <2>1 DEF MiddlewaresAreNamed
  <2>2. CASE q = r /\ k <= Len(old)
    <3>2. k \in 1..Len(more)
      BY <1>4, <2>2
    <3>1. more[k] = old[k]
      BY <1>3, <2>2, <3>2
    <3>3. k \in 1..Len(old)
      BY <1>1, <2>2, <3>2
    <3> QED
      BY <1>4, <2>2, <3>1, <3>3 DEF MiddlewaresAreNamed, old
  <2>3. CASE q = r /\ k > Len(old)
    <3>2. k \in 1..Len(more)
      BY <1>4, <2>3
    <3>1. more[k] = added[k - Len(old)]
      BY <1>1, <1>3, <2>3, <3>2
    <3>3. k - Len(old) \in 1..n /\ Len(old) + (k - Len(old)) = k
      BY <1>1, <1>3, <2>3, <3>2
    <3> QED
      BY <1>2, <1>4, <2>3, <3>1, <3>3
  <2> QED
    BY <1>1, <2>1, <2>2, <2>3
<1>7. MiddlewaresAreFew'
  <2> DEFINE new == ToSet(added)
             before == AllMiddlewares
             after == AllMiddlewares'
  <2>1. IsFiniteSet(new) /\ Cardinality(new) <= n
    <3>1. added \in Surjection(1..n, new)
      <4>1. added \in [1..n -> new] /\ \A t \in new : \E s \in 1..n : added[s] = t
        BY <1>2 DEF ToSet
      <4> QED
        BY <4>1 DEF Surjection
    <3>2. IsFiniteSet(1..n) /\ Cardinality(1..n) = n
      <4>1. IsFiniteSet(1..n) /\ Cardinality(1..n) = IF 1 > n THEN 0 ELSE n - 1 + 1
        BY FS_Interval
      <4> QED
        BY <4>1
    <3> HIDE DEF new
    <3> QED
      BY <3>1, <3>2, FS_Surjection
  <2>2. \A s : DOMAIN s = 1..Len(s) => ToSet(s) = {s[k] : k \in 1..Len(s)}
    BY DEF ToSet
  <2>3. after \subseteq before \cup new
    <3> SUFFICES ASSUME NEW q \in Routers, NEW k \in DOMAIN middlewares'[q]
                 PROVE  middlewares'[q][k] \in before \cup new
      BY DEF AllMiddlewares, ToSet
    <3>1. CASE q # r
      <4>1. middlewares'[q] = middlewares[q]
        BY <1>4, <3>1
      <4> QED
        BY <4>1 DEF AllMiddlewares, ToSet
    <3>2. CASE q = r /\ k <= Len(old)
      <4>1. k \in 1..Len(more)
        BY <1>3, <1>4, <3>2
      <4>2. more[k] = old[k]
        BY <1>3, <3>2, <4>1
      <4>3. k \in 1..Len(old)
        BY <1>1, <3>2, <4>1
      <4>4. DOMAIN old = 1..Len(old)
        BY <1>1
      <4> QED
        BY <1>4, <3>2, <4>2, <4>3, <4>4 DEF AllMiddlewares, ToSet, old
    <3>3. CASE q = r /\ k > Len(old)
      <4>1. k \in 1..Len(more)
        BY <1>3, <1>4, <3>3
      <4>2. more[k] = added[k - Len(old)] /\ k - Len(old) \in 1..n /\ DOMAIN added = 1..n
        BY <1>1, <1>2, <1>3, <3>3, <4>1
      <4> QED
        BY <1>4, <3>3, <4>2 DEF ToSet
    <3>4. k <= Len(old) \/ k > Len(old)
      <4>1. middlewares'[q] \in Seq(Routers \X Nat)
        BY <1>4
      <4>2. k \in Nat
        BY <4>1
      <4> QED
        BY <1>1, <4>2
    <3> QED
      BY <3>1, <3>2, <3>3, <3>4
  <2>4. IsFiniteSet(before) /\ Cardinality(before) + n <= MaxMiddlewares
    BY DEF MiddlewaresAreFew, MayAdd
  <2> HIDE DEF before, after, new
  <2>5. /\ IsFiniteSet(before \cup new)
        /\ Cardinality(before \cup new) = Cardinality(before) + Cardinality(new) - Cardinality(before \cap new)
        /\ IsFiniteSet(before \cap new)
    BY <2>1, <2>4, FS_Union, FS_Intersection
  <2>6. IsFiniteSet(after) /\ Cardinality(after) <= Cardinality(before \cup new)
    BY <2>3, <2>5, FS_Subset
  <2>7. Cardinality(before \cap new) \in Nat /\ Cardinality(before) \in Nat /\ Cardinality(new) \in Nat
        /\ Cardinality(after) \in Nat
    BY <2>1, <2>4, <2>5, <2>6, FS_CardinalityType
  <2>8. Cardinality(after) <= MaxMiddlewares
    BY <2>1, <2>4, <2>5, <2>6, <2>7, RouterAssumptions
  <2> QED
    BY <2>6, <2>8 DEF MiddlewaresAreFew, after
<1> QED
  BY <1>2, <1>5, <1>6, <1>7 DEF added

LEMMA ReplacedHandlers ==
  ASSUME RouterInv, NEW r \in Routers, NEW kept \in SUBSET (Methods \cup {"all"}),
         NEW new \in SUBSET (Methods \cup {"all"}), new # {}, handlers' = Replaced(r, kept, new)
  PROVE  /\ handlers' \in [Routers -> Seq(SUBSET (Methods \cup {"all"}))] /\ HandlersAreSome'
         /\ \A q \in Routers : q # r => handlers'[q] = handlers[q]
<1> USE DEF RouterInv
<1> DEFINE All == SUBSET (Methods \cup {"all"})
           objects == handlers[r]
           stripped == IF objects = << >> THEN objects
                       ELSE [objects EXCEPT ![Len(objects)] = objects[Len(objects)] \cap kept]
           last == (Defined(r) \cap kept) \cup new
           all == Append(stripped, last)
<1>1. objects \in Seq(All) /\ handlers \in [Routers -> Seq(All)]
  BY DEF RouterTypes
<1>2. handlers' = [handlers EXCEPT ![r] = all]
  BY DEF Replaced
<1>3. last \in All /\ last # {}
  OBVIOUS
<1>4. stripped \in Seq(All)
  <2>1. CASE objects = << >>
    BY <1>1, <2>1
  <2>2. CASE objects # << >>
    <3> HIDE DEF objects
    <3>1. Len(objects) \in 1..Len(objects) /\ objects[Len(objects)] \in All
      BY <1>1, <2>2
    <3>2. objects[Len(objects)] \cap kept \in All
      OBVIOUS
    <3> QED
      BY <1>1, <2>2, <3>1, <3>2
  <2> QED
    BY <2>1, <2>2
<1> HIDE DEF All, objects, stripped, last
<1>5. all \in Seq(All) /\ all[Len(all)] = last
  BY <1>3, <1>4
<1> HIDE DEF all
<1>6. handlers' \in [Routers -> Seq(All)] /\ handlers'[r] = all
      /\ \A q \in Routers : q # r => handlers'[q] = handlers[q]
  BY <1>1, <1>2, <1>5
<1>7. HandlersAreSome'
  BY <1>3, <1>5, <1>6 DEF HandlersAreSome, Last
<1> QED
  BY <1>6, <1>7 DEF All

LEMMA AddMiddlewaresKeepsInv ==
  ASSUME RouterInv, BottomUp, NEW r \in Routers, NEW n \in Nat, AddMiddlewares(r, n)
  PROVE  RouterInv'
<1>1. /\ Users(r) = {} /\ (middlewares[r] = << >> \/ completePaths[r] = NoPaths) /\ MayAdd(n)
      /\ Prepend(r, Added(r, n)) /\ UNCHANGED <<parentRouter, children, handlers>>
  BY DEF AddMiddlewares, MayAddMiddlewares, IsFinished
<1>2. handlers' \in [Routers -> Seq(SUBSET (Methods \cup {"all"}))]
  BY <1>1 DEF RouterInv, RouterTypes
<1>3. Added(r, n) \in Seq(Routers \X Nat) /\ RouterTypes' /\ MiddlewaresAreNamed' /\ MiddlewaresAreFew'
  BY <1>1, <1>2, AddedAreNamed
<1> DEFINE added == Added(r, n)
<1> HIDE DEF added
<1>4. PathsAreRoutes'
  <2>1. added \in Seq(Routers \X Nat) /\ Prepend(r, added)
    BY <1>1, <1>3 DEF added
  <2> QED
    BY <1>1, <2>1, PrependKeepsPaths
<1>5. ParentsUse' /\ HandlersAreSome' /\ NoCycles'
  BY <1>1 DEF RouterInv, ParentsUse, HandlersAreSome, NoCycles, Users
<1> QED
  BY <1>3, <1>4, <1>5 DEF RouterInv

LEMMA AddHandlerKeepsInv ==
  ASSUME RouterInv, BottomUp, NEW r \in Routers, NEW method \in Methods, NEW n \in Nat,
         AddHandler(r, method, n)
  PROVE  RouterInv'
<1>1. /\ Users(r) = {} /\ handlers' = Replaced(r, Methods, {method})
      /\ UNCHANGED <<parentRouter, children>>
  BY DEF AddHandler, MayAddHandlers, IsFinished
<1>2. /\ handlers' \in [Routers -> Seq(SUBSET (Methods \cup {"all"}))] /\ HandlersAreSome'
      /\ \A q \in Routers : q # r => handlers'[q] = handlers[q]
  BY <1>1, ReplacedHandlers
<1>3. ParentsUse' /\ NoCycles'
  BY <1>1 DEF RouterInv, ParentsUse, NoCycles, Users
<1>4. CASE UNCHANGED <<middlewares, completePaths>>
  <2>1. RouterTypes' /\ MiddlewaresAreNamed' /\ MiddlewaresAreFew'
    BY <1>1, <1>2, <1>4 DEF RouterInv, RouterTypes, MiddlewaresAreNamed, MiddlewaresAreFew, AllMiddlewares
  <2>2. PathsAreRoutes'
    BY <1>1, <1>2, <1>4, HandlersKeepPaths
  <2> QED
    BY <1>2, <1>3, <2>1, <2>2 DEF RouterInv
<1>5. CASE /\ MayAddMiddlewares(r) /\ MayAdd(n)
           /\ Prepend(r, Added(r, n))
  <2>1. middlewares[r] = << >> \/ completePaths[r] = NoPaths
    BY <1>5 DEF MayAddMiddlewares
  <2>2. Added(r, n) \in Seq(Routers \X Nat) /\ RouterTypes' /\ MiddlewaresAreNamed' /\ MiddlewaresAreFew'
    BY <1>1, <1>2, <1>5, AddedAreNamed
  <2> DEFINE added == Added(r, n)
  <2> HIDE DEF added
  <2>3. PathsAreRoutes'
    <3>1. added \in Seq(Routers \X Nat) /\ Prepend(r, added)
      BY <1>5, <2>2 DEF added
    <3> QED
      BY <1>1, <1>2, <2>1, <3>1, PrependKeepsPaths
  <2> QED
    BY <1>2, <1>3, <2>2, <2>3 DEF RouterInv
<1> QED
  BY <1>4, <1>5 DEF AddHandler

LEMMA AddHandlerOfAllKeepsInv ==
  ASSUME RouterInv, BottomUp, NEW r \in Routers, AddHandlerOfAll(r)
  PROVE  RouterInv'
<1>1. /\ Users(r) = {} /\ handlers' = Replaced(r, {"all"}, {"all"})
      /\ UNCHANGED <<parentRouter, children, middlewares, completePaths>>
  BY DEF AddHandlerOfAll, MayAddHandlers, IsFinished
<1>2. /\ handlers' \in [Routers -> Seq(SUBSET (Methods \cup {"all"}))] /\ HandlersAreSome'
      /\ \A q \in Routers : q # r => handlers'[q] = handlers[q]
  BY <1>1, ReplacedHandlers
<1>3. ParentsUse' /\ NoCycles'
  BY <1>1 DEF RouterInv, ParentsUse, NoCycles, Users
<1>4. RouterTypes' /\ MiddlewaresAreNamed' /\ MiddlewaresAreFew'
  BY <1>1, <1>2 DEF RouterInv, RouterTypes, MiddlewaresAreNamed, MiddlewaresAreFew, AllMiddlewares
<1>5. PathsAreRoutes'
  BY <1>1, <1>2, HandlersKeepPaths
<1> QED
  BY <1>2, <1>3, <1>4, <1>5 DEF RouterInv

LEMMA RouterInitInv ==
  ASSUME RouterInit
  PROVE  RouterInv
<1>1. RouterTypes /\ ParentsUse /\ HandlersAreSome /\ MiddlewaresAreNamed
  BY RouterAssumptions DEF RouterInit, RouterTypes, ParentsUse, Users, HandlersAreSome, MiddlewaresAreNamed
<1>2. MiddlewaresAreFew
  <2>1. AllMiddlewares = {}
    BY DEF RouterInit, AllMiddlewares, ToSet
  <2> QED
    BY <2>1, FS_EmptySet, RouterAssumptions DEF MiddlewaresAreFew
<1>3. NoCycles
  <2>1. Descends(children, [r \in Routers |-> 0])
    BY DEF Descends, RouterInit
  <2> QED
    BY <2>1 DEF NoCycles
<1>4. PathsAreRoutes
  <2> SUFFICES ASSUME NEW a \in Routers PROVE DOMAIN completePaths[a] = {} /\ Routes(a) = {}
    BY DEF PathsAreRoutes
  <2>1. ASSUME NEW b \in Branches(a) PROVE ~(Len(b) > 1)
    <3>1. b \in Seq(Routers) /\ Leads(children, b)
      BY <1>3, BranchesAreWays
    <3>2. \A i \in 1..Len(b) - 1 : FALSE
      <4>1. \A i \in 1..Len(b) - 1 : b[i] \in Routers
        BY <3>1
      <4> QED
        BY <3>1, <4>1 DEF Leads, RouterInit
    <3>3. Len(b) \in Nat
      BY <3>1
    <3> QED
      BY <3>2, <3>3
  <2> QED
    BY <2>1 DEF RouterInit, NoPaths, Routes
<1> QED
  BY <1>1, <1>2, <1>3, <1>4 DEF RouterInv

LEMMA RouterNextKeepsInv ==
  ASSUME RouterInv, BottomUp, RouterNext
  PROVE  RouterInv'
<1> PICK r \in Routers :
      \/ \E c \in Routers : Nest(r, c)
      \/ \E n \in 1..MaxMiddlewares : AddMiddlewares(r, n)
      \/ \E method \in Methods, n \in 0..MaxMiddlewares : AddHandler(r, method, n)
      \/ AddHandlerOfAll(r)
  BY DEF RouterNext
<1>1. CASE \E c \in Routers : Nest(r, c)
  BY <1>1, NestKeepsTree, NestKeepsPaths DEF RouterInv
<1>2. CASE \E n \in 1..MaxMiddlewares : AddMiddlewares(r, n)
  <2>1. \A n \in 1..MaxMiddlewares : n \in Nat
    BY RouterAssumptions
  <2> QED
    BY <1>2, <2>1, AddMiddlewaresKeepsInv
<1>3. CASE \E method \in Methods, n \in 0..MaxMiddlewares : AddHandler(r, method, n)
  <2>1. \A n \in 0..MaxMiddlewares : n \in Nat
    BY RouterAssumptions
  <2> QED
    BY <1>3, <2>1, AddHandlerKeepsInv
<1>4. CASE AddHandlerOfAll(r)
  BY <1>4, AddHandlerOfAllKeepsInv
<1> QED
  BY <1>1, <1>2, <1>3, <1>4

LEMMA RouterStutterKeepsInv ==
  ASSUME RouterInv, UNCHANGED routerVars
  PROVE  RouterInv'
<1>1. UNCHANGED <<parentRouter, children, middlewares, handlers, completePaths>>
  BY DEF routerVars
<1>2. RouterTypes' /\ ParentsUse' /\ HandlersAreSome' /\ MiddlewaresAreNamed' /\ MiddlewaresAreFew' /\ NoCycles'
  BY <1>1 DEF RouterInv, RouterTypes, ParentsUse, Users, HandlersAreSome, MiddlewaresAreNamed,
              MiddlewaresAreFew, AllMiddlewares, NoCycles
<1>3. \A a : Routes(a)' = Routes(a)
  BY <1>1 DEF Routes, Branches, IsWay, Defined
<1>4. \A b : PathAlong(b)' = PathAlong(b) /\ Entry(b)' = Entry(b)
  BY <1>1 DEF PathAlong, Entry, MiddlewaresAlong
<1>5. PathsAreRoutes'
  BY <1>1, <1>3, <1>4 DEF RouterInv, PathsAreRoutes
<1> QED
  BY <1>2, <1>5 DEF RouterInv

LEMMA RouterInvGivesRoutes ==
  ASSUME RouterInv
  PROVE  RoutesAreTheTree
<1> USE DEF RouterInv
<1> SUFFICES ASSUME NEW r \in Routers
             PROVE  /\ DOMAIN completePaths[r] = {PathAlong(b) : b \in Routes(r)}
                    /\ \A b \in Routes(r) :
                         IsAlone(b, Routes(r)) =>
                           LET entry == completePaths[r][PathAlong(b)]
                           IN /\ entry.middlewares = MiddlewaresAlong(b)
                              /\ handlers[entry.router][entry.object] = Defined(Last(b))
  BY DEF RoutesAreTheTree
<1>1. /\ \A b \in Routes(r) : PathAlong(b) \in DOMAIN completePaths[r]
      /\ \A p \in DOMAIN completePaths[r] :
           \E b \in Routes(r) : p = PathAlong(b) /\ completePaths[r][p] = Entry(b)
  BY DEF PathsAreRoutes
<1>2. ASSUME NEW b \in Routes(r), IsAlone(b, Routes(r))
      PROVE  completePaths[r][PathAlong(b)] = Entry(b)
  BY <1>1, <1>2 DEF IsAlone
<1>3. ASSUME NEW b \in Routes(r)
      PROVE  /\ Entry(b).middlewares = MiddlewaresAlong(b)
             /\ handlers[Entry(b).router][Entry(b).object] = Defined(Last(b))
  <2>1. Defined(Last(b)) # {}
    BY DEF Routes
  <2> QED
    BY <2>1 DEF Entry, Defined, Last
<1> QED
  BY <1>1, <1>2, <1>3

\* RoutesAreTheTree for every project whose routers are nested when they are
\* finished: what a router keeps of those below it is what the tree says
\* (server/src/router/routers.ts).
THEOREM RoutersKeepTheTree ==
  ASSUME BottomUp
  PROVE  RouterSpec => []RoutesAreTheTree
<1>1. RouterInit => RouterInv
  BY RouterInitInv
<1>2. RouterInv /\ [RouterNext]_routerVars => RouterInv'
  BY RouterNextKeepsInv, RouterStutterKeepsInv
<1>3. RouterInv => RoutesAreTheTree
  BY RouterInvGivesRoutes
<1> QED
  BY <1>1, <1>2, <1>3, PTL DEF RouterSpec

-----------------------------------------------------------------------------
(* The root router keeps the routes of all the domains.                     *)

\* The function that RootRouterCompletePaths defines by recursion, up to a domain.
Nests(f, n) ==
  f = [k \in 0..n |->
        IF k = 0 THEN NoPaths ELSE WithEntriesOf(f[k - 1], Prefix, << >>, DomainRouters[k])]

LEMMA NestingExists ==
  ASSUME NEW n \in Nat
  PROVE  \E f : Nests(f, n)
<1> DEFINE S == {k \in Nat : \E f : Nests(f, k)}
<1>1. 0 \in S
  <2>1. Nests([k \in 0..0 |-> NoPaths], 0)
    BY DEF Nests
  <2> QED
    BY <2>1
<1>2. ASSUME NEW k \in S PROVE k + 1 \in S
  <2> PICK f : Nests(f, k)
    OBVIOUS
  <2>1. k \in Nat
    OBVIOUS
  <2> DEFINE W(paths, j) == WithEntriesOf(paths, Prefix, << >>, DomainRouters[j])
             g == [j \in 0..k + 1 |-> IF j <= k THEN f[j] ELSE W(f[k], j)]
  <2> HIDE DEF S
  <2>2. \A j \in 0..k : f[j] = IF j = 0 THEN NoPaths ELSE W(f[j - 1], j)
    BY DEF Nests
  <2> HIDE DEF W
  <2>3. ASSUME NEW j \in 0..k + 1
        PROVE  g[j] = IF j = 0 THEN NoPaths ELSE W(g[j - 1], j)
    <3>1. CASE j = k + 1
      BY <2>1, <3>1
    <3>2. CASE j <= k
      <4>1. j \in 0..k /\ (j # 0 => j - 1 \in 0..k /\ j - 1 <= k)
        BY <2>1, <3>2
      <4> QED
        BY <2>1, <2>2, <3>2, <4>1
    <3> QED
      BY <2>1, <3>1, <3>2
  <2>4. g = [j \in 0..k + 1 |-> IF j = 0 THEN NoPaths ELSE W(g[j - 1], j)]
    BY <2>3
  <2> HIDE DEF g
  <2>5. Nests(g, k + 1)
    BY <2>4 DEF Nests, W
  <2> QED
    BY <2>1, <2>5 DEF S
<1> HIDE DEF S
<1>3. S = Nat
  <2>1. S \in SUBSET Nat
    BY DEF S
  <2> QED
    BY <1>1, <1>2, <2>1, SetInduction
<1> QED
  BY <1>3 DEF S

\* The routes of the first domains.
RoutesOfFirst(n) ==
  {b \in UNION {Branches(DomainRouters[m]) : m \in 1..n} : Defined(Last(b)) # {}}

KeepsThose(paths, routes) ==
  /\ \A b \in routes : Prefix \o PathAlong(b) \in DOMAIN paths
  /\ \A p \in DOMAIN paths : \E b \in routes : p = Prefix \o PathAlong(b) /\ paths[p] = Entry(b)

LEMMA FirstRoutesAreNested ==
  ASSUME RouterInv, NEW f, Nests(f, Len(DomainRouters))
  PROVE  KeepsThose(f[Len(DomainRouters)], RoutesOfFirst(Len(DomainRouters)))
<1> DEFINE Kept(k) == KeepsThose(f[k], RoutesOfFirst(k))
           S == {k \in Nat : k <= Len(DomainRouters) => Kept(k)}
<1>1. Len(DomainRouters) \in Nat /\ \A k \in 1..Len(DomainRouters) : DomainRouters[k] \in Routers
  BY ServerAssumptions
<1>2. \A k \in 0..Len(DomainRouters) :
        f[k] = IF k = 0 THEN NoPaths ELSE WithEntriesOf(f[k - 1], Prefix, << >>, DomainRouters[k])
  BY Zenon DEF Nests
<1>3. 0 \in S
  <2>1. RoutesOfFirst(0) = {}
    BY DEF RoutesOfFirst
  <2>2. f[0] = NoPaths
    BY <1>1, <1>2
  <2> QED
    BY <2>1, <2>2 DEF NoPaths, KeepsThose
<1>4. ASSUME NEW k \in S PROVE k + 1 \in S
  <2>1. k \in Nat
    OBVIOUS
  <2> SUFFICES ASSUME k + 1 <= Len(DomainRouters) PROVE Kept(k + 1)
    BY <2>1
  <2>2. Kept(k)
    <3>1. k <= Len(DomainRouters)
      BY <1>1, <2>1
    <3> HIDE DEF Kept
    <3> QED
      BY <3>1
  <2> HIDE DEF S
  <2> DEFINE c == DomainRouters[k + 1]
             outer == << >>
             old == f[k]
             new == f[k + 1]
  <2>3. k + 1 \in 1..Len(DomainRouters) /\ k + 1 # 0 /\ (k + 1) - 1 = k /\ c \in Routers
    BY <1>1, <2>1
  <2>4. new = WithEntriesOf(old, Prefix, outer, c)
    <3>1. f[k + 1] = WithEntriesOf(f[(k + 1) - 1], Prefix, << >>, DomainRouters[k + 1])
      BY <1>2, <2>1, <2>3
    <3> QED
      BY <2>3, <3>1
  <2>5. RoutesOfFirst(k + 1) = RoutesOfFirst(k) \cup {b \in Branches(c) : Defined(Last(b)) # {}}
    <3>1. 1..k + 1 = 1..k \cup {k + 1}
      BY <2>1
    <3> QED
      BY <3>1 DEF RoutesOfFirst
  <2> HIDE DEF c, old, new
  <2>6. WithRoutesOf(new, old, Prefix, outer, c)
    <3> HIDE DEF outer
    <3>1. Prefix \in Seq(STRING)
      BY ServerAssumptions
    <3> QED
      BY <2>3, <2>4, <3>1, EntriesOfChild
  <2>7. ASSUME NEW d \in Branches(c) PROVE Behind(outer, Entry(d)) = Entry(d)
    <3>1. MiddlewaresAlong(d) \in Seq(Routers \X Nat)
      BY BranchesAreWays, WhatIsAlong DEF RouterInv
    <3>2. << >> \o MiddlewaresAlong(d) = MiddlewaresAlong(d)
      BY <3>1, ConcatEmptySeq
    <3> QED
      BY <3>2 DEF Behind, Entry
  <2> HIDE DEF outer
  <2>8. \A b \in RoutesOfFirst(k + 1) : Prefix \o PathAlong(b) \in DOMAIN new
    BY <2>2, <2>5, <2>6 DEF old, KeepsThose, WithRoutesOf
  <2>9. \A p \in DOMAIN new : \E b \in RoutesOfFirst(k + 1) : p = Prefix \o PathAlong(b) /\ new[p] = Entry(b)
    BY <2>2, <2>5, <2>6, <2>7 DEF old, KeepsThose, WithRoutesOf
  <2> QED
    BY <2>8, <2>9 DEF new, KeepsThose
<1> HIDE DEF S
<1>5. S = Nat
  <2>1. S \in SUBSET Nat
    BY DEF S
  <2> QED
    BY <1>3, <1>4, <2>1, SetInduction
<1> QED
  BY <1>1, <1>5 DEF S

LEMMA RoutesOfDomainsAreNested ==
  ASSUME RouterInv
  PROVE  KeepsThose(RootRouterCompletePaths, RoutesOfDomains)
<1> DEFINE n == Len(DomainRouters)
           f == CHOOSE g : Nests(g, n)
<1>1. n \in Nat
  BY ServerAssumptions
<1>2. Nests(f, n)
  BY <1>1, NestingExists
<1>3. RootRouterCompletePaths = f[n]
  BY DEF RootRouterCompletePaths, Nests
<1>4. RoutesOfDomains = RoutesOfFirst(n)
  <2>1. ToSet(DomainRouters) = {DomainRouters[m] : m \in 1..n}
    BY ServerAssumptions DEF ToSet
  <2> QED
    BY <2>1 DEF RoutesOfDomains, RoutesOfFirst
<1> HIDE DEF f
<1> QED
  BY <1>2, <1>3, <1>4, FirstRoutesAreNested

LEMMA WhatIsServed ==
  ASSUME RouterInv, NEW b \in RoutesOfDomains, IsAlone(b, RoutesOfDomains)
  PROVE  /\ Prefix \o PathAlong(b) \in DOMAIN RootRouterCompletePaths
         /\ RootRouterCompletePaths[Prefix \o PathAlong(b)] = Entry(b)
<1> DEFINE p == Prefix \o PathAlong(b)
<1>1. PICK d \in RoutesOfDomains : p = Prefix \o PathAlong(d) /\ RootRouterCompletePaths[p] = Entry(d)
  BY RoutesOfDomainsAreNested DEF KeepsThose
<1>2. PathAlong(b) \in Seq(STRING) /\ PathAlong(d) \in Seq(STRING) /\ Prefix \in Seq(STRING)
  <2>1. b \in Seq(Routers) /\ d \in Seq(Routers)
    BY BranchesAreWays DEF RoutesOfDomains, RouterInv
  <2> QED
    BY <2>1, WhatIsAlong, ServerAssumptions DEF RouterInv
<1> DEFINE s == PathAlong(b)
           t == PathAlong(d)
<1>3. s = t
  <2>1. s \in Seq(STRING) /\ t \in Seq(STRING) /\ Prefix \o s = Prefix \o t
    BY <1>1, <1>2
  <2> HIDE DEF s, t
  <2>2. SubSeq(Prefix \o s, Len(Prefix) + 1, Len(Prefix \o s)) = s
    BY <1>2, <2>1, RestOfPath
  <2>3. SubSeq(Prefix \o t, Len(Prefix) + 1, Len(Prefix \o t)) = t
    BY <1>2, <2>1, RestOfPath
  <2> QED
    BY <2>1, <2>2, <2>3
<1>4. d = b
  BY <1>3 DEF IsAlone
<1> QED
  BY <1>1, <1>4, RoutesOfDomainsAreNested DEF KeepsThose

ServedAreRoutes ==
  \A b \in RoutesOfDomains :
    IsAlone(b, RoutesOfDomains) =>
      /\ Prefix \o PathAlong(b) \in DOMAIN served
      /\ served[Prefix \o PathAlong(b)].middlewares = RootMiddlewares \o MiddlewaresAlong(b)
      /\ served[Prefix \o PathAlong(b)].methods = Defined(Last(b))

LEMMA ServeServesRoutes ==
  ASSUME RouterInv, Serve
  PROVE  ServedAreRoutes'
<1>1. UNCHANGED <<parentRouter, children, middlewares, handlers, completePaths>>
  BY DEF Serve, routerVars
<1>2. /\ RoutesOfDomains' = RoutesOfDomains
      /\ \A b : /\ PathAlong(b)' = PathAlong(b) /\ MiddlewaresAlong(b)' = MiddlewaresAlong(b)
                /\ Defined(Last(b))' = Defined(Last(b))
                /\ IsAlone(b, RoutesOfDomains)' <=> IsAlone(b, RoutesOfDomains)
  BY <1>1 DEF RoutesOfDomains, Branches, IsWay, Defined, Last, PathAlong, MiddlewaresAlong, IsAlone
<1> SUFFICES ASSUME NEW b \in RoutesOfDomains, IsAlone(b, RoutesOfDomains)
             PROVE  LET p == Prefix \o PathAlong(b)
                    IN /\ p \in DOMAIN served'
                       /\ served'[p].middlewares = RootMiddlewares \o MiddlewaresAlong(b)
                       /\ served'[p].methods = Defined(Last(b))
  BY <1>2 DEF ServedAreRoutes
<1> DEFINE paths == RootRouterCompletePaths
           MethodsAt(path) == handlers[paths[path].router][paths[path].object]
           p == Prefix \o PathAlong(b)
<1>3. served' = [path \in {q \in DOMAIN paths : MethodsAt(q) # {}} |->
                  [middlewares |-> MiddlewaresOf(paths[path]), methods |-> MethodsAt(path)]]
  BY DEF Serve
<1> HIDE DEF paths, p
<1>4. p \in DOMAIN paths /\ paths[p] = Entry(b)
  BY WhatIsServed DEF paths, p
<1>5. Entry(b).middlewares = MiddlewaresAlong(b) /\ Entry(b).router = Last(b)
      /\ Entry(b).object = Len(handlers[Last(b)])
  BY DEF Entry
<1>6. Defined(Last(b)) # {}
  BY DEF RoutesOfDomains
<1>7. MethodsAt(p) = Defined(Last(b))
  BY <1>4, <1>5, <1>6 DEF Defined, Last
<1> HIDE DEF MethodsAt
<1>8. p \in DOMAIN served' /\ served'[p] = [middlewares |-> MiddlewaresOf(paths[p]), methods |-> MethodsAt(p)]
  BY <1>3, <1>4, <1>6, <1>7
<1>9. MiddlewaresOf(paths[p]) = RootMiddlewares \o MiddlewaresAlong(b)
  BY <1>4, <1>5 DEF MiddlewaresOf
<1>10. /\ p \in DOMAIN served'
       /\ served'[p].middlewares = RootMiddlewares \o MiddlewaresAlong(b)
       /\ served'[p].methods = Defined(Last(b))
  BY <1>7, <1>8, <1>9
<1> QED
  BY <1>10 DEF p

-----------------------------------------------------------------------------
(* A way does not meet a middleware twice, so chains fit N.                 *)

Injects(s) == \A i, j \in 1..Len(s) : s[i] = s[j] => i = j

LEMMA InjectsBoth ==
  ASSUME NEW S, NEW s \in Seq(S), NEW t \in Seq(S), Injects(s), Injects(t),
         \A i \in 1..Len(s), j \in 1..Len(t) : s[i] # t[j]
  PROVE  Injects(s \o t)
<1> DEFINE u == s \o t
<1>1. /\ Len(u) = Len(s) + Len(t) /\ Len(s) \in Nat /\ Len(t) \in Nat
      /\ \A k \in 1..Len(s) + Len(t) : u[k] = IF k <= Len(s) THEN s[k] ELSE t[k - Len(s)]
  BY ConcatProperties
<1> HIDE DEF u
<1>2. ASSUME NEW i \in 1..Len(u), NEW j \in 1..Len(u), u[i] = u[j] PROVE i = j
  <2>1. CASE i <= Len(s) /\ j <= Len(s)
    <3>1. i \in 1..Len(s) /\ j \in 1..Len(s) /\ s[i] = s[j]
      BY <1>1, <1>2, <2>1
    <3> QED
      BY <3>1 DEF Injects
  <2>2. CASE i > Len(s) /\ j > Len(s)
    <3>1. i - Len(s) \in 1..Len(t) /\ j - Len(s) \in 1..Len(t) /\ t[i - Len(s)] = t[j - Len(s)]
      BY <1>1, <1>2, <2>2
    <3>2. i - Len(s) = j - Len(s)
      BY <3>1 DEF Injects
    <3> QED
      BY <1>1, <3>2
  <2>3. CASE i <= Len(s) /\ j > Len(s)
    <3>1. i \in 1..Len(s) /\ j - Len(s) \in 1..Len(t) /\ s[i] = t[j - Len(s)]
      BY <1>1, <1>2, <2>3
    <3> QED
      BY <3>1
  <2>4. CASE i > Len(s) /\ j <= Len(s)
    <3>1. i - Len(s) \in 1..Len(t) /\ j \in 1..Len(s) /\ s[j] = t[i - Len(s)]
      BY <1>1, <1>2, <2>4
    <3> QED
      BY <3>1
  <2>5. i \in Int /\ j \in Int
    OBVIOUS
  <2> QED
    BY <1>1, <2>1, <2>2, <2>3, <2>4, <2>5
<1> QED
  BY <1>2 DEF Injects, u

\* The middlewares of a way: known ones, each of a router of the way.
BelongTo(s, d) ==
  \A k \in 1..Len(s) : s[k] \in AllMiddlewares /\ \E i \in 1..Len(d) : s[k][1] = d[i]

LEMMA MiddlewaresOfWays ==
  ASSUME RouterInv, NEW b \in Seq(Routers), Injects(b)
  PROVE  BelongTo(Along(middlewares, b), b) /\ Injects(Along(middlewares, b))
<1> DEFINE P == {d \in Seq(Routers) :
                  Injects(d) => BelongTo(Along(middlewares, d), d) /\ Injects(Along(middlewares, d))}
<1>1. << >> \in P
  <2>1. << >> \in Seq(Routers) /\ Len(<< >>) = 0
    OBVIOUS
  <2>2. Along(middlewares, << >>) = << >>
    BY AlongNoWay
  <2> QED
    BY <2>1, <2>2 DEF BelongTo, Injects
<1>2. ASSUME NEW d \in P, NEW r \in Routers PROVE Append(d, r) \in P
  <2> DEFINE S == Routers \X Nat
             e == Append(d, r)
             s == Along(middlewares, d)
             t == middlewares[r]
  <2>1. d \in Seq(Routers) /\ (Injects(d) => BelongTo(s, d) /\ Injects(s))
    OBVIOUS
  <2>2. /\ e \in Seq(Routers) /\ Len(e) = Len(d) + 1 /\ e[Len(d) + 1] = r /\ Len(d) \in Nat
        /\ \A i \in 1..Len(d) : e[i] = d[i]
    BY <2>1
  <2>3. GivesSeqs(middlewares, Routers, S)
    BY <2>1, WhatIsAlong DEF RouterInv
  <2> HIDE DEF S
  <2>4. s \in Seq(S) /\ t \in Seq(S) /\ Along(middlewares, e) = s \o t
    <3>1. s \in Seq(S)
      BY <2>1, <2>3, AlongIsSeq
    <3>2. t \in Seq(S)
      BY <2>3 DEF GivesSeqs
    <3>3. Along(middlewares, Append(d, r)) = Along(middlewares, d) \o middlewares[r]
      BY <2>1, <2>3, AlongOneMore
    <3> QED
      BY <3>1, <3>2, <3>3
  <2> HIDE DEF e, s
  <2> SUFFICES ASSUME Injects(e)
               PROVE  BelongTo(Along(middlewares, e), e) /\ Injects(Along(middlewares, e))
    BY <2>2 DEF e
  <2>5. Injects(d) /\ \A i \in 1..Len(d) : d[i] # r
    <3>1. ASSUME NEW i \in 1..Len(d), NEW j \in 1..Len(d), d[i] = d[j] PROVE i = j
      <4>1. i \in 1..Len(e) /\ j \in 1..Len(e) /\ e[i] = e[j]
        BY <2>2, <3>1
      <4> QED
        BY <4>1 DEF Injects
    <3>2. ASSUME NEW i \in 1..Len(d), d[i] = r PROVE FALSE
      <4>1. i \in 1..Len(e) /\ Len(d) + 1 \in 1..Len(e) /\ e[i] = e[Len(d) + 1]
        BY <2>2, <3>2
      <4>2. i = Len(d) + 1
        BY <4>1 DEF Injects
      <4> QED
        BY <2>2, <4>2
    <3> QED
      BY <3>1, <3>2 DEF Injects
  <2>6. BelongTo(s, d) /\ Injects(s)
    BY <2>1, <2>5
  <2>7. \A k \in 1..Len(t) : t[k] = <<r, k>> /\ t[k] \in AllMiddlewares
    <3>1. \A k \in 1..Len(t) : t[k] = <<r, k>>
      BY DEF RouterInv, MiddlewaresAreNamed
    <3>2. DOMAIN t = 1..Len(t)
      BY <2>4
    <3> QED
      BY <3>1, <3>2 DEF AllMiddlewares, ToSet
  <2> HIDE DEF t
  <2>8. Injects(t)
    BY <2>7 DEF Injects
  <2>9. \A i \in 1..Len(s), j \in 1..Len(t) : s[i] # t[j]
    <3> SUFFICES ASSUME NEW i \in 1..Len(s), NEW j \in 1..Len(t), s[i] = t[j] PROVE FALSE
      OBVIOUS
    <3>1. PICK k \in 1..Len(d) : s[i][1] = d[k]
      BY <2>6 DEF BelongTo
    <3>2. t[j][1] = r
      BY <2>7
    <3> QED
      BY <2>5, <3>1, <3>2
  <2>10. Injects(s \o t)
    BY <2>4, <2>6, <2>8, <2>9, InjectsBoth
  <2>11. BelongTo(s \o t, e)
    <3> DEFINE u == s \o t
    <3>1. /\ Len(u) = Len(s) + Len(t) /\ Len(s) \in Nat /\ Len(t) \in Nat
          /\ \A k \in 1..Len(s) + Len(t) : u[k] = IF k <= Len(s) THEN s[k] ELSE t[k - Len(s)]
      BY <2>4, ConcatProperties
    <3> HIDE DEF u
    <3>2. ASSUME NEW k \in 1..Len(u)
          PROVE  u[k] \in AllMiddlewares /\ \E i \in 1..Len(e) : u[k][1] = e[i]
      <4>1. CASE k <= Len(s)
        <5>1. k \in 1..Len(s) /\ u[k] = s[k]
          BY <3>1, <4>1
        <5>2. PICK i \in 1..Len(d) : s[k][1] = d[i]
          BY <2>6, <5>1 DEF BelongTo
        <5>3. i \in 1..Len(e) /\ e[i] = d[i]
          BY <2>2
        <5> QED
          BY <2>6, <5>1, <5>2, <5>3 DEF BelongTo
      <4>2. CASE k > Len(s)
        <5>1. k - Len(s) \in 1..Len(t) /\ u[k] = t[k - Len(s)]
          BY <3>1, <4>2
        <5>2. Len(d) + 1 \in 1..Len(e)
          BY <2>2
        <5>3. u[k] \in AllMiddlewares /\ u[k][1] = r
          BY <2>7, <5>1
        <5> QED
          BY <2>2, <5>2, <5>3
      <4> QED
        BY <3>1, <4>1, <4>2
    <3> QED
      BY <3>2 DEF BelongTo, u
  <2> QED
    BY <2>4, <2>10, <2>11
<1> HIDE DEF P
<1>3. P \in SUBSET Seq(Routers)
  BY DEF P
<1>4. P = Seq(Routers)
  BY <1>1, <1>2, <1>3, SequenceInduction
<1> QED
  BY <1>4 DEF P

LEMMA WaysHaveFewMiddlewares ==
  ASSUME RouterInv, NEW a \in Routers, NEW b \in Branches(a)
  PROVE  /\ MiddlewaresAlong(b) \in Seq(Routers \X Nat)
         /\ Len(MiddlewaresAlong(b)) \in Nat /\ Len(MiddlewaresAlong(b)) <= MaxMiddlewares
<1> USE DEF RouterInv
<1>1. b \in Seq(Routers) /\ Leads(children, b)
  BY BranchesAreWays
<1> PICK rank : Descends(children, rank)
  BY DEF NoCycles
<1>2. Injects(b)
  BY <1>1, LeadsAreShort DEF Injects
<1> DEFINE s == MiddlewaresAlong(b)
           n == Len(s)
<1>3. s \in Seq(Routers \X Nat) /\ s = Along(middlewares, b) /\ n \in Nat
  BY <1>1, WhatIsAlong
<1> HIDE DEF s
<1>4. BelongTo(s, b) /\ Injects(s)
  BY <1>1, <1>2, <1>3, MiddlewaresOfWays
<1>5. s \in Injection(1..n, AllMiddlewares)
  <2>1. s \in [1..n -> AllMiddlewares]
    BY <1>3, <1>4 DEF BelongTo
  <2>2. \A i, j \in 1..n : s[i] = s[j] => i = j
    BY <1>4 DEF Injects
  <2> QED
    BY <2>1, <2>2 DEF Injection, IsInjective
<1>6. IsFiniteSet(AllMiddlewares) /\ Cardinality(AllMiddlewares) <= MaxMiddlewares
  BY DEF MiddlewaresAreFew
<1> HIDE DEF n
<1>7. Cardinality(1..n) <= Cardinality(AllMiddlewares)
  BY <1>5, <1>6, FS_Injection
<1>8. Cardinality(1..n) = n
  <2>1. Cardinality(1..n) = IF 1 > n THEN 0 ELSE n - 1 + 1
    BY <1>3, FS_Interval DEF n
  <2> QED
    BY <1>3, <2>1 DEF n
<1>9. Cardinality(AllMiddlewares) \in Nat
  BY <1>6, FS_CardinalityType
<1> QED
  BY <1>3, <1>6, <1>7, <1>8, <1>9, RouterAssumptions DEF s, n

-----------------------------------------------------------------------------
(* The server: its request, and what is due for it.                         *)

ServerLife == IInv /\ (stage # "requested" => NoRequest)

LEMMA NoRequestKeepsIInv == NoRequest => IInv
<1> SUFFICES ASSUME NoRequest PROVE IInv
  OBVIOUS
<1> USE NAssumption DEF NoRequest, Middlewares
<1>1. TypeOK
  <2>1. Flags
    BY Zenon DEF Flags
  <2>2. Counts
    BY DEF Counts, Phases
  <2> QED
    BY <2>1, <2>2, TypeParts
<1>2. WayIn /\ Errors /\ WayOut
  BY DEF WayIn, Errors, WayOut, AllPassedRespond
<1> QED
  BY <1>1, <1>2 DEF IInv

LEMMA ReceivedRequestsBegin ==
  ASSUME NoRequest, NEW path, NEW method, Receive(path, method)
  PROVE  Init'
<1> DEFINE chain == IF IsFound(path, method) THEN served[path].middlewares ELSE RootMiddlewares
<1> HIDE DEF chain
<1>1. PICK defined \in [DOMAIN chain -> SUBSET {"request", "response"}] :
        shape' = [i \in Middlewares |-> IF i \in DOMAIN chain THEN defined[i] ELSE {}]
  BY DEF Receive, chain
<1>2. shape' \in [Middlewares -> SUBSET {"request", "response"}]
  BY <1>1
<1>3. /\ has500' \in BOOLEAN
      /\ \/ found' = TRUE /\ phase' = "request" /\ at' = 1 /\ response' = FALSE
         \/ found' = FALSE /\ phase' = "handler404" /\ at' = N /\ response' = TRUE
  BY Zenon DEF Receive, IsFound
<1>4. /\ onion' = 0 /\ handled' = FALSE /\ outcome' = "pending"
      /\ asked' = {} /\ answered' = {} /\ responded' = {}
      /\ calls500' = 0 /\ misbehaved' = FALSE
  BY DEF Receive, NoRequest
<1> QED
  BY <1>2, <1>3, <1>4 DEF Init

LEMMA ServerLifeIsKept == ServerSpec => []ServerLife
<1>1. ServerInit => ServerLife
  BY NoRequestKeepsIInv DEF ServerInit, ServerLife
<1>2. Init' => IInv'
  BY InitIInv, PTL
<1>3. ServerLife /\ [ServerNext]_serverVars => ServerLife'
  <2> SUFFICES ASSUME ServerLife, [ServerNext]_serverVars PROVE ServerLife'
    OBVIOUS
  <2> USE DEF ServerLife
  <2>1. CASE UNCHANGED vars /\ (stage' = stage \/ (stage # "requested" /\ stage' # "requested"))
    <3>1. IInv'
      BY <2>1, NextIInv
    <3>2. NoRequest' <=> NoRequest
      BY <2>1 DEF NoRequest, vars
    <3> QED
      BY <2>1, <3>1, <3>2
  <2>2. CASE \E path, method : Receive(path, method)
    <3>1. stage' = "requested" /\ NoRequest
      BY <2>2 DEF Receive
    <3>2. Init'
      BY <2>2, <3>1, ReceivedRequestsBegin
    <3> QED
      BY <1>2, <3>1, <3>2
  <2>3. CASE Request
    <3>1. stage = "requested" /\ stage' = stage /\ Next
      BY <2>3 DEF Request
    <3> QED
      BY <3>1, NextIInv
  <2>4. CASE Declare \/ Serve \/ UNCHANGED serverVars
    BY <2>1, <2>4 DEF Declare, Serve, serverVars
  <2> QED
    BY <2>2, <2>3, <2>4 DEF ServerNext
<1> QED
  BY <1>1, <1>3, PTL DEF ServerSpec

\* ErrorsAreHandledOnce for every server, whatever its routers: an error reaches
\* handler500 once at most for a request (server/src/app/utils.ts).
THEOREM ServerHandlesErrorsOnce == ServerSpec => []ErrorsAreHandledOnce
<1>1. ServerLife => ErrorsAreHandledOnce
  BY DEF ServerLife, IInv, Errors, ErrorsAreHandledOnce
<1> QED
  BY <1>1, ServerLifeIsKept, PTL

\* ThePassedRespond for every server, whatever its routers: a response is only sent
\* once every middleware that was passed, and is not further in than one that
\* answered, has seen it, unless a response function failed.
THEOREM ServerSendsWhatPassed == ServerSpec => []ThePassedRespond
<1>1. ServerLife => ThePassedRespond
  BY DEF ServerLife, IInv, WayOut, AllPassedRespond, ThePassedRespond
<1> QED
  BY <1>1, ServerLifeIsKept, PTL

-----------------------------------------------------------------------------
ServerTree ==
  RouterInv /\ (stage = "serving" => ServedAreRoutes) /\ due \subseteq Middlewares

\* What a request is due is in the chain of its route, which is not longer than N.
LEMMA DueIsInTheChain ==
  ASSUME RouterInv, ServedAreRoutes, NEW path, NEW method, Receive(path, method)
  PROVE  due' \subseteq Middlewares
<1> DEFINE chain == IF IsFound(path, method) THEN served[path].middlewares ELSE RootMiddlewares
           routes == RoutesTo(path, method)
<1>1. found' = IsFound(path, method)
      /\ due' = {PositionIn(chain, m) : m \in UNION {WantedAt(b) : b \in routes}} \cup
                  IF found' \/ routes = {} THEN {} ELSE {0}
  BY DEF Receive
<1>2. ASSUME NEW b \in routes
      PROVE  found' /\ chain = RootMiddlewares \o MiddlewaresAlong(b)
  <2>1. /\ b \in RoutesOfDomains /\ path = Prefix \o PathAlong(b) /\ IsAlone(b, RoutesOfDomains)
        /\ Defined(Last(b)) \cap {method, "all"} # {}
    BY DEF RoutesTo
  <2>2. /\ path \in DOMAIN served
        /\ served[path].middlewares = RootMiddlewares \o MiddlewaresAlong(b)
        /\ served[path].methods = Defined(Last(b))
    BY <2>1 DEF ServedAreRoutes
  <2> QED
    BY <1>1, <2>1, <2>2 DEF IsFound
<1>3. ASSUME NEW b \in routes
      PROVE  /\ RootMiddlewares \o MiddlewaresAlong(b) \in Seq((Routers \cup {NoRouter}) \X Nat)
             /\ Len(RootMiddlewares \o MiddlewaresAlong(b)) <= N
  <2> DEFINE S == (Routers \cup {NoRouter}) \X Nat
             root == RootMiddlewares
             own == MiddlewaresAlong(b)
  <2>1. PICK a \in Routers : b \in Branches(a)
    <3>1. ToSet(DomainRouters) \subseteq Routers
      BY ServerAssumptions DEF ToSet
    <3> QED
      BY <3>1 DEF RoutesTo, RoutesOfDomains
  <2>2. own \in Seq(Routers \X Nat) /\ Len(own) \in Nat /\ Len(own) <= MaxMiddlewares
    BY <2>1, WaysHaveFewMiddlewares
  <2>3. own \in Seq(S)
    BY <2>2
  <2>4. root \in Seq(S) /\ Len(root) = NumRootMiddlewares
    BY ServerAssumptions DEF RootMiddlewares
  <2> HIDE DEF S, root, own
  <2>5. root \o own \in Seq(S) /\ Len(root \o own) = Len(root) + Len(own)
    BY <2>3, <2>4, ConcatProperties
  <2>6. Len(root \o own) <= N
    BY <2>2, <2>4, <2>5, ServerAssumptions, NAssumption, RouterAssumptions
  <2> QED
    BY <2>5, <2>6 DEF S, root, own
<1>4. ASSUME NEW b \in routes, NEW m \in WantedAt(b)
      PROVE  PositionIn(chain, m) \in Middlewares
  <2>1. chain = RootMiddlewares \o MiddlewaresAlong(b)
    BY <1>2
  <2>2. chain \in Seq((Routers \cup {NoRouter}) \X Nat) /\ Len(chain) <= N
    BY <1>3, <2>1
  <2>3. m \in ToSet(chain)
    BY <2>1 DEF WantedAt
  <2> HIDE DEF chain
  <2>4. PositionIn(chain, m) \in DOMAIN chain
    BY <2>3 DEF PositionIn, ToSet
  <2> QED
    BY <2>2, <2>4, NAssumption DEF Middlewares
<1>5. found' \/ routes = {}
  BY <1>2
<1> HIDE DEF chain, routes
<1> QED
  BY <1>1, <1>4, <1>5

LEMMA ServerTreeIsKept ==
  ASSUME BottomUp
  PROVE  ServerSpec => []ServerTree
<1>1. ServerInit => ServerTree
  BY RouterInitInv DEF ServerInit, ServerTree
<1>2. RouterInit' => RouterInv'
  <2>1. RouterInit => RouterInv
    BY RouterInitInv
  <2> QED
    BY <2>1, PTL
<1>3. ServerTree /\ [ServerNext]_serverVars => ServerTree'
  <2> SUFFICES ASSUME ServerTree, [ServerNext]_serverVars PROVE ServerTree'
    OBVIOUS
  <2> USE DEF ServerTree
  <2>1. CASE Declare
    <3>1. RouterInv'
      BY <2>1, RouterNextKeepsInv DEF Declare
    <3> QED
      BY <2>1, <3>1 DEF Declare
  <2>2. CASE Serve
    <3>1. RouterInv' /\ ServedAreRoutes'
      BY <2>2, RouterStutterKeepsInv, ServeServesRoutes DEF Serve
    <3> QED
      BY <2>2, <3>1 DEF Serve
  <2>3. CASE \E path, method : Receive(path, method)
    <3>1. PICK path, method : Receive(path, method)
      BY <2>3
    <3>2. stage = "serving" /\ stage' = "requested" /\ RouterInit'
      BY <3>1 DEF Receive, RouterInit
    <3>3. due' \subseteq Middlewares
      BY <3>1, <3>2, DueIsInTheChain
    <3> QED
      BY <1>2, <3>2, <3>3
  <2>4. CASE Request
    <3>1. RouterInv'
      BY <2>4, RouterStutterKeepsInv DEF Request
    <3> QED
      BY <2>4, <3>1 DEF Request
  <2>5. CASE UNCHANGED serverVars
    <3>1. UNCHANGED <<parentRouter, children, middlewares, handlers, completePaths, stage, served, due>>
      BY <2>5 DEF serverVars, routerVars
    <3>2. RouterInv'
      BY <3>1, RouterStutterKeepsInv DEF routerVars
    <3>3. ServedAreRoutes' <=> ServedAreRoutes
      BY <3>1 DEF ServedAreRoutes, RoutesOfDomains, Branches, IsWay, Defined, Last, PathAlong,
                  MiddlewaresAlong, IsAlone
    <3> QED
      BY <3>1, <3>2, <3>3
  <2> QED
    BY <2>1, <2>2, <2>3, <2>4, <2>5 DEF ServerNext
<1> QED
  BY <1>1, <1>3, PTL DEF ServerSpec

\* RoutesAreTheTree for every server whose routers are nested when they are finished.
THEOREM ServerKeepsTheTree ==
  ASSUME BottomUp
  PROVE  ServerSpec => []RoutesAreTheTree
<1>1. ServerTree => RoutesAreTheTree
  BY RouterInvGivesRoutes DEF ServerTree
<1> QED
  BY <1>1, ServerTreeIsKept, PTL

\* HandlerIsBehindItsRouters for every server whose routers are nested when they
\* are finished: a request that the tree has one route for is found, and its handler
\* runs only once every middleware of the settings and of the routers on the way to
\* it has passed it on (server/src/app/server.ts, app/utils.ts).
THEOREM MiddlewaresGuardHandlers ==
  ASSUME BottomUp
  PROVE  ServerSpec => []HandlerIsBehindItsRouters
<1>1. ServerTree /\ ServerLife => HandlerIsBehindItsRouters
  <2> SUFFICES ASSUME ServerTree, ServerLife PROVE HandlerIsBehindItsRouters
    OBVIOUS
  <2>1. due \subseteq Middlewares /\ WayIn
    BY DEF ServerTree, ServerLife, IInv
  <2>2. 0 \notin due
    BY <2>1, NAssumption DEF Middlewares
  <2>3. phase = "handler" => answered = {} /\ asked = {i \in Middlewares : "request" \in shape[i]}
    BY <2>1 DEF WayIn
  <2> QED
    BY <2>1, <2>2, <2>3 DEF HandlerIsBehindItsRouters
<1> QED
  BY <1>1, ServerTreeIsKept, ServerLifeIsKept, PTL
=============================================================================
