-------------------------- MODULE EventRegistryProofs --------------------------
(***************************************************************************)
(* The registry of listeners, for any handlers, keys and groups: what the   *)
(* keys of a group stand for, that emits call those who asked for the key,  *)
(* and that the registry implements the subscriptions its users see.        *)
(***************************************************************************)
EXTENDS EventRegistry, TLAPS

-----------------------------------------------------------------------------
(* ExpandKey, which lists the keys a group is filed under, against Denotes,  *)
(* which says what those keys stand for.                                    *)

\* The two marks are segments, and differ.
LEMMA MarksAreSegments == One \in Segments /\ Deep \in Segments /\ One # Deep
BY DEF Segments, One, Deep

\* A key made of a stem and one more segment: its length and its last,
LEMMA LastOfAppend ==
  ASSUME NEW S, NEW s \in Seq(S), NEW e \in S
  PROVE  /\ Append(s, e) \in Seq(S)
         /\ Len(Append(s, e)) = Len(s) + 1
         /\ Append(s, e)[Len(s) + 1] = e
  OBVIOUS

\* and its stem.
LEMMA FrontOfAppend ==
  ASSUME NEW S, NEW s \in Seq(S), NEW e \in S
  PROVE  SubSeq(Append(s, e), 1, Len(Append(s, e)) - 1) = s
<1>1. Append(s, e) \in Seq(S) /\ Len(Append(s, e)) = Len(s) + 1
  OBVIOUS
<1>2. \A i \in 1..Len(s) : Append(s, e)[i] = s[i]
  OBVIOUS
<1>. QED BY <1>1, <1>2

\* The first segments of a key are a key.
LEMMA Prefix ==
  ASSUME NEW S, NEW s \in Seq(S), NEW i \in 0..Len(s)
  PROVE  SubSeq(s, 1, i) \in Seq(S) /\ Len(SubSeq(s, 1, i)) = i
OBVIOUS

\* What a key that ends in ** or in * denotes, seen from a plain key.
LEMMA DenotesDeep ==
  ASSUME NEW j \in Seq(Segments), Plain(j), NEW s \in Seq(Segments)
  PROVE  Denotes(Append(s, Deep), j) <=> Len(s) < Len(j) /\ SubSeq(j, 1, Len(s)) = s
<1>. DEFINE p == Append(s, Deep)
<1>1. /\ Len(p) = Len(s) + 1 /\ p[Len(p)] = Deep /\ Len(s) \in Nat /\ p \in Seq(Segments)
  BY MarksAreSegments, LastOfAppend
<1>2. SubSeq(p, 1, Len(p) - 1) = s
  BY MarksAreSegments, FrontOfAppend
<1>3. p # j
  BY <1>1 DEF Plain
<1>5. Denotes(p, j) <=> Len(s) < Len(j) /\ SubSeq(j, 1, Len(s)) = s
  <2>. HIDE DEF p
  <2>. QED BY <1>1, <1>2, <1>3, MarksAreSegments DEF Denotes
<1>. QED BY <1>5

\* The same for *: exactly one more segment.
LEMMA DenotesOne ==
  ASSUME NEW j \in Seq(Segments), Plain(j), NEW s \in Seq(Segments)
  PROVE  Denotes(Append(s, One), j) <=> Len(s) + 1 = Len(j) /\ SubSeq(j, 1, Len(s)) = s
<1>. DEFINE p == Append(s, One)
<1>1. /\ Len(p) = Len(s) + 1 /\ p[Len(p)] = One /\ Len(s) \in Nat /\ p \in Seq(Segments)
      /\ Len(j) \in Nat
  BY MarksAreSegments, LastOfAppend
<1>2. SubSeq(p, 1, Len(p) - 1) = s
  BY MarksAreSegments, FrontOfAppend
<1>3. p # j
  BY <1>1 DEF Plain
<1>5. Denotes(p, j) <=> Len(s) + 1 = Len(j) /\ SubSeq(j, 1, Len(s)) = s
  <2>. HIDE DEF p
  <2>. QED BY <1>1, <1>2, <1>3, MarksAreSegments DEF Denotes
<1>. QED BY <1>5

\* ExpandKey(j), when j is plain, by what its members end in.
LEMMA Expansions ==
  ASSUME NEW j \in Seq(Segments), Plain(j), NEW k \in ExpandKey(j)
  PROVE  \/ k = j
         \/ \E s \in Seq(Segments) : /\ k = Append(s, Deep)
                                   /\ Len(s) < Len(j) /\ SubSeq(j, 1, Len(s)) = s
         \/ \E s \in Seq(Segments) : /\ k = Append(s, One)
                                   /\ Len(s) + 1 = Len(j) /\ SubSeq(j, 1, Len(s)) = s
<1>1. Len(j) \in Nat \ {0}
  BY DEF Plain
<1>2. ASSUME NEW i \in 0..(Len(j) - 1), NEW d \in {One, Deep},
             k = Append(SubSeq(j, 1, i), d), d = One => i + 1 = Len(j)
      PROVE  \E s \in Seq(Segments) : /\ k = Append(s, d)
                                      /\ Len(s) < Len(j) /\ SubSeq(j, 1, Len(s)) = s
                                      /\ d = One => Len(s) + 1 = Len(j)
  <2>. DEFINE s == SubSeq(j, 1, i)
  <2>1. i \in 0..Len(j) /\ i < Len(j)
    BY <1>1
  <2>2. s \in Seq(Segments) /\ Len(s) = i
    BY <2>1, Prefix
  <2>3. SubSeq(j, 1, Len(s)) = s
    BY <2>2
  <2>. WITNESS s \in Seq(Segments)
  <2>. QED BY <1>2, <2>1, <2>2, <2>3
<1>3. ASSUME k = <<Deep>>
      PROVE  \E i \in 0..(Len(j) - 1) : k = Append(SubSeq(j, 1, i), Deep)
  <2>1. SubSeq(j, 1, 0) = << >> /\ 0 \in 0..(Len(j) - 1)
    BY <1>1
  <2>2. <<Deep>> = Append(<< >>, Deep)
    OBVIOUS
  <2>. QED BY <1>3, <2>1, <2>2
<1>4. 1..(Len(j) - 1) \subseteq 0..(Len(j) - 1) /\ Len(j) - 1 \in 0..(Len(j) - 1)
  BY <1>1
<1>5. \/ k = j
      \/ \E i \in 0..(Len(j) - 1) : k = Append(SubSeq(j, 1, i), Deep)
      \/ k = Append(SubSeq(j, 1, Len(j) - 1), One)
  BY <1>3, <1>4 DEF ExpandKey
<1>6. ASSUME NEW i \in 0..(Len(j) - 1), k = Append(SubSeq(j, 1, i), Deep)
      PROVE  \E s \in Seq(Segments) : /\ k = Append(s, Deep)
                                      /\ Len(s) < Len(j) /\ SubSeq(j, 1, Len(s)) = s
  BY <1>2, <1>6, MarksAreSegments
<1>7. ASSUME k = Append(SubSeq(j, 1, Len(j) - 1), One)
      PROVE  \E s \in Seq(Segments) : /\ k = Append(s, One)
                                      /\ Len(s) + 1 = Len(j) /\ SubSeq(j, 1, Len(s)) = s
  <2>1. Len(j) - 1 + 1 = Len(j)
    BY <1>1
  <2>. QED BY <1>2, <1>4, <1>7, <2>1
<1>. QED BY <1>5, <1>6, <1>7

\* The keys in use that denote a plain key j are those j is filed under: the
\* loop that builds the keys of a group misses none and invents none
\* (events/index.ts 304-357).
THEOREM ExpansionIsDenotation ==
  ASSUME NEW j \in Seq(Segments), Plain(j), NEW l \in Seq(Segments), Plain(l),
         NEW k \in ExpandKey(l)
  PROVE  Denotes(k, j) <=> k \in ExpandKey(j)
<1>1. Len(j) \in Nat \ {0}
  BY DEF Plain
<1>2. j \in ExpandKey(j)
  BY DEF ExpandKey
<1>3. ASSUME k \in ExpandKey(j), k # j
      PROVE  Denotes(k, j)
  <2>1. \/ \E s \in Seq(Segments) : /\ k = Append(s, Deep)
                                    /\ Len(s) < Len(j) /\ SubSeq(j, 1, Len(s)) = s
        \/ \E s \in Seq(Segments) : /\ k = Append(s, One)
                                    /\ Len(s) + 1 = Len(j) /\ SubSeq(j, 1, Len(s)) = s
    BY <1>1, <1>3, Expansions
  <2>2. ASSUME NEW s \in Seq(Segments), k = Append(s, Deep),
               Len(s) < Len(j) /\ SubSeq(j, 1, Len(s)) = s
        PROVE  Denotes(k, j)
    BY <1>1, <2>2, DenotesDeep
  <2>3. ASSUME NEW s \in Seq(Segments), k = Append(s, One),
               Len(s) + 1 = Len(j) /\ SubSeq(j, 1, Len(s)) = s
        PROVE  Denotes(k, j)
    BY <1>1, <2>3, DenotesOne
  <2>. QED BY <2>1, <2>2, <2>3
<1>4. ASSUME NEW s \in Seq(Segments), k = Append(s, Deep), Denotes(k, j)
      PROVE  k \in ExpandKey(j)
  <2>1. Len(s) < Len(j) /\ SubSeq(j, 1, Len(s)) = s /\ Len(s) \in Nat
    BY <1>1, <1>4, DenotesDeep
  <2>2. CASE Len(s) = 0
    <3>1. s = << >>
      BY <2>2
    <3>. QED BY <1>4, <3>1 DEF ExpandKey
  <2>3. CASE Len(s) # 0
    <3>1. Len(s) \in 1..(Len(j) - 1)
      BY <1>1, <2>1, <2>3
    <3>. QED BY <1>4, <2>1, <3>1 DEF ExpandKey
  <2>. QED BY <2>2, <2>3
<1>5. ASSUME NEW s \in Seq(Segments), k = Append(s, One), Denotes(k, j)
      PROVE  k \in ExpandKey(j)
  <2>1. Len(s) = Len(j) - 1 /\ SubSeq(j, 1, Len(s)) = s
    BY <1>1, <1>5, DenotesOne
  <2>. QED BY <1>5, <2>1 DEF ExpandKey
<1>6. ASSUME k = l, Denotes(k, j)
      PROVE  k = j
  <2>1. k[Len(k)] # One /\ k[Len(k)] # Deep
    BY <1>1, <1>6 DEF Plain
  <2>. QED BY <1>6, <2>1 DEF Denotes
<1>7. Denotes(k, j) => k \in ExpandKey(j)
  BY <1>1, <1>2, <1>4, <1>5, <1>6, Expansions
<1>8. k = j => Denotes(k, j)
  BY DEF Denotes
<1>. QED BY <1>3, <1>7, <1>8

-----------------------------------------------------------------------------
(* What the registry keeps.                                                 *)

\* A listen key is filed under no other listen key.
LEMMA PlainKeyFiledOnce ==
  ASSUME NEW j \in ListenKeys, NEW k \in ListenKeys, k \in Expand(j)
  PROVE  k = j
<1>1. /\ j \in Seq(Segments) /\ k \in Seq(Segments)
      /\ j # << >> /\ k # << >>
      /\ \A i \in 1..Len(k) : k[i] # One /\ k[i] # Deep
  BY ListenKeysArePlain DEF Plain
<1>2. CASE ~Wildcards
  BY <1>2 DEF Expand
<1>3. CASE Wildcards
  <2>1. ASSUME NEW s \in Seq(Segments), NEW e \in {One, Deep}, k = Append(s, e)
        PROVE  FALSE
    <3>1. Len(k) = Len(s) + 1 /\ k[Len(s) + 1] = e /\ Len(s) \in Nat
      BY <2>1, MarksAreSegments, LastOfAppend
    <3>. QED BY <3>1, <1>1
  <2>2. k # <<Deep>>
    <3>1. <<Deep>> = Append(<< >>, Deep) /\ << >> \in Seq(Segments)
      OBVIOUS
    <3>. QED BY <3>1, <2>1
  <2>3. \A i \in 0..Len(j) : SubSeq(j, 1, i) \in Seq(Segments)
    BY <1>1
  <2>4. Len(j) \in Nat /\ Len(j) >= 1
    BY <1>1
  <2>5. k \in ExpandKey(j)
    BY <1>3 DEF Expand
  <2>6. ASSUME NEW i \in 1..(Len(j) - 1), k = Append(SubSeq(j, 1, i), Deep)
        PROVE  FALSE
    <3>1. i \in 0..Len(j)
      BY <2>4
    <3>2. SubSeq(j, 1, i) \in Seq(Segments)
      BY <2>3, <3>1
    <3>. QED BY <2>1, <2>6, <3>2
  <2>7. ASSUME k = Append(SubSeq(j, 1, Len(j) - 1), One)
        PROVE  FALSE
    <3>1. Len(j) - 1 \in 0..Len(j)
      BY <2>4
    <3>2. SubSeq(j, 1, Len(j) - 1) \in Seq(Segments)
      BY <2>3, <3>1
    <3>. QED BY <2>1, <2>7, <3>2
  <2>. QED BY <2>2, <2>5, <2>6, <2>7 DEF ExpandKey
<1>. QED BY <1>2, <1>3, WildcardsIsBoolean

\* A key is filed under keys of the registry, itself among them.
LEMMA ExpandFacts ==
  ASSUME NEW k \in ListenKeys
  PROVE  k \in Expand(k) /\ Expand(k) \subseteq Keys
BY DEF Expand, ExpandKey, Keys

-----------------------------------------------------------------------------
(* Type correctness.  The types need one fact about the calls: a call that   *)
(* has begun knows its group and its key.                                    *)

TypeInv == TypeOK /\ CallsHaveGroups

\* The typing holds at first ...
LEMMA InitTypeInv == Init => TypeInv
BY DEF Init, TypeInv, TypeOK, CallsHaveGroups, Phases

\* ... and each action preserves it: the call that chooses a group,
LEMMA AddBeginTypeInv ==
  ASSUME TypeInv, NEW h \in Handlers, NEW k \in ListenKeys, AddBegin(h, k)
  PROVE  TypeInv'
<1>1. TypeOK'
  BY DEF TypeInv, TypeOK, AddBegin, Phases
<1>2. CallsHaveGroups'
  BY DEF TypeInv, TypeOK, CallsHaveGroups, AddBegin, Phases
<1>. QED BY <1>1, <1>2 DEF TypeInv

\* the one that files it,
LEMMA AddFinishTypeInv ==
  ASSUME TypeInv, NEW h \in Handlers, AddFinish(h)
  PROVE  TypeInv'
<1>1. gid[h] \in Groups /\ key[h] \in ListenKeys
  BY DEF TypeInv, CallsHaveGroups, AddFinish
<1>2. groupByKeys' \in [Keys -> SUBSET Groups]
  BY <1>1 DEF TypeInv, TypeOK, AddFinish, FiledUnder
<1>3. Expand(key[h]) \in SUBSET Keys
  BY <1>1, ExpandFacts
<1>4. keysOf' \in [Groups -> SUBSET Keys]
  BY <1>1, <1>3 DEF TypeInv, TypeOK, AddFinish
<1>5. TypeOK'
  BY <1>1, <1>2, <1>4 DEF TypeInv, TypeOK, AddFinish, Phases
<1>6. CallsHaveGroups'
  BY DEF TypeInv, TypeOK, CallsHaveGroups, AddFinish
<1>. QED BY <1>5, <1>6 DEF TypeInv

\* the removal of a listener from the emitter,
LEMMA UnsubscribeBeginTypeInv ==
  ASSUME TypeInv, NEW h \in Handlers, UnsubscribeBegin(h)
  PROVE  TypeInv'
<1>1. gid[h] \in Groups
  BY DEF TypeInv, CallsHaveGroups, UnsubscribeBegin
<1>2. emitterListeners' \in [Groups -> SUBSET Handlers]
  BY <1>1 DEF TypeInv, TypeOK, UnsubscribeBegin
<1>3. isLast' \in [Handlers -> BOOLEAN]
  <2>1. isLast \in [Handlers -> BOOLEAN]
    BY DEF TypeInv, TypeOK
  <2>2. \E b \in BOOLEAN : isLast' = [isLast EXCEPT ![h] = b] \/ isLast' = isLast
    BY Zenon DEF UnsubscribeBegin
  <2>. QED BY <2>1, <2>2
<1>4. phase' \in [Handlers -> Phases]
  BY DEF TypeInv, TypeOK, UnsubscribeBegin, Phases
<1>5. TypeOK'
  BY <1>2, <1>3, <1>4 DEF TypeInv, TypeOK, UnsubscribeBegin
<1>6. CallsHaveGroups'
  BY DEF TypeInv, TypeOK, CallsHaveGroups, UnsubscribeBegin
<1>. QED BY <1>5, <1>6 DEF TypeInv

\* and of its group from the keys,
LEMMA UnsubscribeFinishTypeInv ==
  ASSUME TypeInv, NEW h \in Handlers, UnsubscribeFinish(h)
  PROVE  TypeInv'
<1>1. gid[h] \in Groups
  BY DEF TypeInv, CallsHaveGroups, UnsubscribeFinish
<1>2. /\ groupByKeys' \in [Keys -> SUBSET Groups]
      /\ groups' \in SUBSET Groups
      /\ keysOf' \in [Groups -> SUBSET Keys]
      /\ listeners' \in [Groups -> SUBSET Handlers]
  BY <1>1 DEF TypeInv, TypeOK, UnsubscribeFinish, DropGroup
<1>3. phase' \in [Handlers -> Phases] /\ isLast' \in [Handlers -> BOOLEAN]
  BY DEF TypeInv, TypeOK, UnsubscribeFinish, Phases
<1>4. TypeOK'
  BY <1>2, <1>3 DEF TypeInv, TypeOK, UnsubscribeFinish
<1>5. \A x \in Handlers : phase'[x] = "none" <=> phase[x] = "none"
  BY DEF TypeInv, TypeOK, UnsubscribeFinish, Phases
<1>6. CallsHaveGroups'
  BY <1>5 DEF TypeInv, TypeOK, CallsHaveGroups, UnsubscribeFinish
<1>. QED BY <1>4, <1>6 DEF TypeInv

\* the removal of all listeners of some keys,
LEMMA ClearTypeInv ==
  ASSUME TypeInv, NEW ks \in SUBSET Keys, Clear(ks)
  PROVE  TypeInv'
<1>1. TypeOK'
  BY DEF TypeInv, TypeOK, Clear, callVars
<1>2. CallsHaveGroups'
  BY DEF TypeInv, CallsHaveGroups, Clear, callVars
<1>. QED BY <1>1, <1>2 DEF TypeInv

\* the deletion of one of their groups (a Nat stays one: it was positive),
LEMMA UnsubscribeAllFinishTypeInv ==
  ASSUME TypeInv, NEW g \in Groups, UnsubscribeAllFinish(g)
  PROVE  TypeInv'
<1>1. TypeOK'
  BY DEF TypeInv, TypeOK, UnsubscribeAllFinish, callVars
<1>2. CallsHaveGroups'
  BY DEF TypeInv, CallsHaveGroups, UnsubscribeAllFinish, callVars
<1>. QED BY <1>1, <1>2 DEF TypeInv

\* and an emit.
LEMMA EmitTypeInv ==
  ASSUME TypeInv, NEW k \in Keys, Emit(k)
  PROVE  TypeInv'
<1>1. \A gs \in SUBSET Groups : Served(gs) \in SUBSET Handlers
  BY DEF TypeInv, TypeOK, Served
<1>2. called' \in [key : Keys, to : SUBSET Handlers, ok : BOOLEAN]
  BY <1>1 DEF TypeInv, TypeOK, Emit
<1>3. TypeOK'
  BY <1>2 DEF TypeInv, TypeOK, Emit, callVars
<1>4. CallsHaveGroups'
  BY DEF TypeInv, CallsHaveGroups, Emit, callVars
<1>. QED BY <1>3, <1>4 DEF TypeInv

\* The steps of Next, with both forms of unsubscribeAll as a Clear.
LEMMA NextCases ==
  ASSUME Next
  PROVE  \/ \E h \in Handlers, k \in ListenKeys : AddBegin(h, k)
         \/ \E h \in Handlers : AddFinish(h)
         \/ \E h \in Handlers : UnsubscribeBegin(h)
         \/ \E h \in Handlers : UnsubscribeFinish(h)
         \/ \E ks \in SUBSET Keys : Clear(ks)
         \/ \E g \in Groups : UnsubscribeAllFinish(g)
         \/ \E k \in Keys : Emit(k)
<1>1. ASSUME NEW k \in Keys, UnsubscribeAllOfKey(k)
      PROVE  \E ks \in SUBSET Keys : Clear(ks)
  BY <1>1 DEF UnsubscribeAllOfKey
<1>2. ASSUME UnsubscribeAll
      PROVE  \E ks \in SUBSET Keys : Clear(ks)
  BY <1>2 DEF UnsubscribeAll
<1>. QED BY <1>1, <1>2 DEF Next

\* Every variable keeps its type, whatever calls overlap.
THEOREM TypeCorrect == Spec => []TypeOK
<1>1. TypeInv /\ [Next]_vars => TypeInv'
  <2>. SUFFICES ASSUME TypeInv, [Next]_vars
                PROVE  TypeInv'
    OBVIOUS
  <2>1. CASE Next
    BY <2>1, NextCases, AddBeginTypeInv, AddFinishTypeInv, UnsubscribeBeginTypeInv,
       UnsubscribeFinishTypeInv, ClearTypeInv, UnsubscribeAllFinishTypeInv, EmitTypeInv
  <2>2. CASE UNCHANGED vars
    BY <2>2 DEF vars, callVars, TypeInv, TypeOK, CallsHaveGroups
  <2>. QED BY <2>1, <2>2
<1>2. TypeInv => TypeOK
  BY DEF TypeInv
<1>. QED BY InitTypeInv, <1>1, <1>2, PTL DEF Spec
-----------------------------------------------------------------------------
(* Filing, under any overlap: what the keys say of a group agrees with the   *)
(* calls that chose it, and they name it under all of its keys or none.      *)

\* A group that is alive or filed was chosen by a call, ...
GroupsAreChosen ==
  /\ \A g \in groups : ~Fresh(g)
  /\ \A j \in Keys : \A g \in groupByKeys[j] : ~Fresh(g)

\* ... only keys that such a call files under name it, ...
FiledWhereChosen ==
  \A h \in Handlers : \A j \in Keys : gid[h] \in groupByKeys[j] => j \in Expand(key[h])

\* ... and all of them do, or none.
FiledWhole ==
  \A h \in Handlers : \/ \A j \in Expand(key[h]) : gid[h] \in groupByKeys[j]
                      \/ \A j \in Keys : gid[h] \notin groupByKeys[j]

FilingInv ==
  /\ TypeInv /\ GroupsServeOneKey /\ GroupsKeepTheirKeys
  /\ GroupsAreChosen /\ FiledWhereChosen /\ FiledWhole

\* A call that has a group has a key.
LEMMA CallsWithGroups ==
  ASSUME TypeInv, NEW h \in Handlers, gid[h] \in Groups
  PROVE  key[h] \in ListenKeys /\ phase[h] # "none"
BY NothingsAreNothing DEF TypeInv, CallsHaveGroups

\* An add takes the group of its own key, or one that is filed nowhere.
LEMMA AddBeginFiling ==
  ASSUME FilingInv, NEW h \in Handlers, NEW k \in ListenKeys, AddBegin(h, k)
  PROVE  FilingInv'
<1>1. TypeInv'
  BY AddBeginTypeInv DEF FilingInv
<1>2. PICK g \in Groups : /\ IF groupByKeys[k] # {} THEN g \in groupByKeys[k] ELSE Fresh(g)
                          /\ gid' = [gid EXCEPT ![h] = g]
  BY DEF AddBegin
<1>3. gid[h] = NoGroup
  BY DEF AddBegin, FilingInv, TypeInv, CallsHaveGroups
<1>4. /\ \A x \in Handlers : gid'[x] = IF x = h THEN g ELSE gid[x]
      /\ \A x \in Handlers : key'[x] = IF x = h THEN k ELSE key[x]
      /\ UNCHANGED <<groupByKeys, groups, keysOf>>
  BY <1>2 DEF AddBegin, FilingInv, TypeInv, TypeOK
<1>5. \A x \in Handlers : gid[x] = g => key[x] = k
  <2>1. SUFFICES ASSUME NEW x \in Handlers, gid[x] = g
                 PROVE  key[x] = k
    OBVIOUS
  <2>2. g \in groupByKeys[k] /\ k \in Keys
    BY <1>2, <2>1, ExpandFacts DEF Fresh
  <2>3. k \in Expand(key[x])
    BY <2>1, <2>2 DEF FilingInv, FiledWhereChosen
  <2>. QED BY <2>1, <2>3, CallsWithGroups, PlainKeyFiledOnce DEF FilingInv
<1>6. (\E x \in Handlers : gid[x] = g) \/ (g \notin groups /\ \A j \in Keys : g \notin groupByKeys[j])
  BY DEF FilingInv, GroupsAreChosen, Fresh
<1>7. GroupsServeOneKey'
  BY <1>4, <1>5 DEF FilingInv, GroupsServeOneKey
<1>8. GroupsKeepTheirKeys'
  BY <1>4, <1>5, <1>6 DEF FilingInv, GroupsKeepTheirKeys
<1>9. GroupsAreChosen'
  <2>1. \A x \in Groups : ~Fresh(x) => ~Fresh(x)'
    BY <1>3, <1>4, NothingsAreNothing DEF Fresh
  <2>2. groups \subseteq Groups /\ \A j \in Keys : groupByKeys[j] \subseteq Groups
    BY DEF FilingInv, TypeInv, TypeOK
  <2>. QED BY <1>4, <2>1, <2>2 DEF FilingInv, GroupsAreChosen
<1>10. FiledWhereChosen'
  BY <1>4, <1>5, <1>6 DEF FilingInv, FiledWhereChosen
<1>11. FiledWhole'
  BY <1>4, <1>5, <1>6 DEF FilingInv, FiledWhole
<1>. QED BY <1>1, <1>7, <1>8, <1>9, <1>10, <1>11 DEF FilingInv

\* What an add files, it files under all the keys of its group.
LEMMA AddFinishFiling ==
  ASSUME FilingInv, NEW h \in Handlers, AddFinish(h)
  PROVE  FilingInv'
<1>1. TypeInv'
  BY AddFinishTypeInv DEF FilingInv
<1>2. gid[h] \in Groups /\ key[h] \in ListenKeys
  BY DEF AddFinish, FilingInv, TypeInv, CallsHaveGroups
<1>3. key[h] \in Expand(key[h]) /\ Expand(key[h]) \subseteq Keys
  BY <1>2, ExpandFacts
<1>4. UNCHANGED <<gid, key>> /\ groups' = groups \cup {gid[h]}
  BY DEF AddFinish
<1>5. \A x \in Handlers : gid[x] = gid[h] => key[x] = key[h]
  BY <1>2, NothingsAreNothing DEF FilingInv, GroupsServeOneKey
<1>6. /\ \A j \in Keys : \/ groupByKeys'[j] = groupByKeys[j]
                         \/ groupByKeys'[j] = groupByKeys[j] \cup {gid[h]} /\ j \in Expand(key[h])
      /\ \/ \A j \in Expand(key[h]) : gid[h] \in groupByKeys'[j]
         \/ \A j \in Keys : groupByKeys'[j] = groupByKeys[j]
  <2>1. groupByKeys' = FiledUnder(key[h], gid[h]) /\ groupByKeys \in [Keys -> SUBSET Groups]
    BY DEF AddFinish, FilingInv, TypeInv, TypeOK
  <2>2. CASE Wildcards
    <3>1. \A j \in Keys : groupByKeys'[j] = IF j \in Expand(key[h]) THEN groupByKeys[j] \cup {gid[h]}
                                                                   ELSE groupByKeys[j]
      BY <2>1, <2>2 DEF FiledUnder
    <3>2. \A j \in Expand(key[h]) : gid[h] \in groupByKeys'[j]
      BY <1>3, <3>1
    <3>. QED BY <3>1, <3>2
  <2>3. CASE ~Wildcards /\ groupByKeys[key[h]] = {}
    <3>1. Expand(key[h]) = {key[h]}
      BY <2>3 DEF Expand
    <3>2. \A j \in Keys : groupByKeys'[j] = IF j = key[h] THEN {gid[h]} ELSE groupByKeys[j]
      BY <2>1, <2>3 DEF FiledUnder
    <3>. QED BY <1>3, <2>3, <3>1, <3>2
  <2>4. CASE ~Wildcards /\ groupByKeys[key[h]] # {}
    BY <2>1, <2>4 DEF FiledUnder
  <2>. QED BY <2>2, <2>3, <2>4, WildcardsIsBoolean
<1>7. GroupsServeOneKey'
  BY <1>4 DEF FilingInv, GroupsServeOneKey
<1>8. GroupsKeepTheirKeys'
  <2>1. \A x \in Groups : keysOf'[x] = IF x = gid[h] /\ gid[h] \notin groups THEN Expand(key[h])
                                                                         ELSE keysOf[x]
    BY <1>2 DEF AddFinish, FilingInv, TypeInv, TypeOK
  <2>2. groups' \subseteq Groups
    BY <1>1 DEF TypeInv, TypeOK
  <2>3. SUFFICES ASSUME NEW x \in Handlers, gid[x] \in groups'
                 PROVE  keysOf'[gid[x]] = Expand(key[x])
    BY <1>4 DEF GroupsKeepTheirKeys
  <2>4. CASE gid[x] = gid[h] /\ gid[h] \notin groups
    BY <1>2, <1>5, <2>1, <2>4
  <2>5. CASE gid[x] \in groups
    BY <2>1, <2>2, <2>3, <2>5 DEF FilingInv, GroupsKeepTheirKeys
  <2>. QED BY <1>4, <2>3, <2>4, <2>5
<1>9. GroupsAreChosen'
  BY <1>4, <1>6 DEF FilingInv, GroupsAreChosen, Fresh
<1>10. FiledWhereChosen'
  BY <1>4, <1>5, <1>6 DEF FilingInv, FiledWhereChosen
<1>11. FiledWhole'
  <2>1. SUFFICES ASSUME NEW x \in Handlers
                 PROVE  \/ \A j \in Expand(key[x]) : gid[x] \in groupByKeys'[j]
                        \/ \A j \in Keys : gid[x] \notin groupByKeys'[j]
    BY <1>4 DEF FiledWhole
  <2>2. \/ \A j \in Expand(key[x]) : gid[x] \in groupByKeys[j]
        \/ \A j \in Keys : gid[x] \notin groupByKeys[j]
    BY DEF FilingInv, FiledWhole
  <2>3. CASE gid[x] = gid[h]
    BY <1>5, <1>6, <2>2, <2>3, <1>3
  <2>4. CASE gid[x] # gid[h]
    <3>1. \A j \in Keys : gid[x] \in groupByKeys'[j] <=> gid[x] \in groupByKeys[j]
      BY <1>6, <2>4
    <3>2. CASE \A j \in Keys : gid[x] \notin groupByKeys[j]
      BY <3>1, <3>2
    <3>3. CASE \E j \in Keys : gid[x] \in groupByKeys[j]
      <4>1. gid[x] \in Groups
        BY <3>3 DEF FilingInv, TypeInv, TypeOK
      <4>2. Expand(key[x]) \subseteq Keys
        BY <4>1, CallsWithGroups, ExpandFacts DEF FilingInv
      <4>. QED BY <2>2, <3>1, <3>3, <4>2
    <3>. QED BY <3>2, <3>3
  <2>. QED BY <2>3, <2>4
<1>. QED BY <1>1, <1>7, <1>8, <1>9, <1>10, <1>11 DEF FilingInv

\* Some groups leave all of their keys; the others stay filed as they are.
LEMMA UnfilingKeepsFiling ==
  ASSUME FilingInv, TypeInv', NEW gs \in SUBSET groups, UNCHANGED <<gid, key>>,
         \A j \in Keys : groupByKeys'[j] = groupByKeys[j] \ {g \in gs : j \in keysOf[g]},
         groups' \subseteq groups, \A g \in groups' : keysOf'[g] = keysOf[g]
  PROVE  FilingInv'
<1>1. \A x \in Handlers : \A j \in Keys :
        gid[x] \in groupByKeys'[j] <=> gid[x] \in groupByKeys[j] /\ gid[x] \notin gs
  BY DEF FilingInv, GroupsKeepTheirKeys, FiledWhereChosen
<1>2. GroupsServeOneKey' /\ GroupsKeepTheirKeys'
  BY DEF FilingInv, GroupsServeOneKey, GroupsKeepTheirKeys
<1>3. GroupsAreChosen'
  BY DEF FilingInv, GroupsAreChosen, Fresh
<1>4. FiledWhereChosen'
  BY <1>1 DEF FilingInv, FiledWhereChosen
<1>5. FiledWhole'
  <2>1. SUFFICES ASSUME NEW x \in Handlers, NEW i \in Keys, gid[x] \in groupByKeys'[i]
                 PROVE  \A j \in Expand(key[x]) : gid[x] \in groupByKeys'[j]
    BY DEF FiledWhole
  <2>2. gid[x] \in groupByKeys[i] /\ gid[x] \notin gs
    BY <1>1, <2>1
  <2>3. gid[x] \in Groups
    BY <2>2 DEF FilingInv, TypeInv, TypeOK
  <2>4. Expand(key[x]) \subseteq Keys
    BY <2>3, CallsWithGroups, ExpandFacts DEF FilingInv
  <2>. QED BY <1>1, <2>2, <2>4 DEF FilingInv, FiledWhole
<1>. QED BY <1>2, <1>3, <1>4, <1>5 DEF FilingInv

\* The last of unsubscribe unfiles its group or nothing.
LEMMA UnsubscribeFinishFiling ==
  ASSUME FilingInv, NEW h \in Handlers, UnsubscribeFinish(h)
  PROVE  FilingInv'
<1>1. TypeInv' /\ UNCHANGED <<gid, key>>
  BY UnsubscribeFinishTypeInv DEF FilingInv, UnsubscribeFinish
<1>2. CASE gid[h] \in groups /\ DropGroup(gid[h])
  <2>1. \A j \in Keys : groupByKeys'[j] = groupByKeys[j] \ {g \in {gid[h]} : j \in keysOf[g]}
    BY <1>2 DEF DropGroup
  <2>2. groups' \subseteq groups /\ \A g \in groups' : keysOf'[g] = keysOf[g]
    BY <1>2 DEF DropGroup, FilingInv, TypeInv, TypeOK
  <2>3. {gid[h]} \in SUBSET groups
    BY <1>2
  <2>. QED BY <1>1, <2>1, <2>2, <2>3, UnfilingKeepsFiling
<1>3. CASE UNCHANGED <<groupByKeys, groups, keysOf>>
  BY <1>1, <1>3 DEF FilingInv, GroupsServeOneKey, GroupsKeepTheirKeys, GroupsAreChosen,
                    FiledWhereChosen, FiledWhole, Fresh
<1>. QED BY <1>2, <1>3 DEF UnsubscribeFinish

\* unsubscribeAll unfiles the groups of the keys it is given, ...
LEMMA ClearFiling ==
  ASSUME FilingInv, NEW ks \in SUBSET Keys, Clear(ks)
  PROVE  FilingInv'
<1>1. TypeInv' /\ UNCHANGED <<gid, key, groups, keysOf>>
  BY ClearTypeInv DEF FilingInv, Clear, callVars
<1>2. PICK gs \in SUBSET groups :
        \A j \in Keys : groupByKeys'[j] = groupByKeys[j] \ {g \in gs : j \in keysOf[g]}
  BY DEF Clear
<1>. QED BY <1>1, <1>2, UnfilingKeepsFiling

\* ... and forgets what they were filed under when it deletes them.
LEMMA UnsubscribeAllFinishFiling ==
  ASSUME FilingInv, NEW g \in Groups, UnsubscribeAllFinish(g)
  PROVE  FilingInv'
<1>1. TypeInv' /\ UNCHANGED <<gid, key, groupByKeys>>
  BY UnsubscribeAllFinishTypeInv DEF FilingInv, UnsubscribeAllFinish, callVars
<1>2. \A j \in Keys : groupByKeys'[j] = groupByKeys[j] \ {x \in {} : j \in keysOf[x]}
  BY <1>1
<1>3. groups' \subseteq groups /\ \A x \in groups' : keysOf'[x] = keysOf[x]
  BY DEF UnsubscribeAllFinish, FilingInv, TypeInv, TypeOK
<1>4. {} \in SUBSET groups
  OBVIOUS
<1>. QED BY <1>1, <1>2, <1>3, <1>4, UnfilingKeepsFiling

\* Whatever calls overlap, no group is ever filed under some of its keys only.
THEOREM FiledTogether == Spec => []FiledUnderAllOrNone
<1>1. Init => FilingInv
  <2>. SUFFICES ASSUME Init PROVE FilingInv
    OBVIOUS
  <2>1. /\ \A h \in Handlers : gid[h] = NoGroup
        /\ \A j \in Keys : groupByKeys[j] = {}
        /\ groups = {}
    BY DEF Init
  <2>. QED BY <2>1, InitTypeInv, NothingsAreNothing
           DEF FilingInv, GroupsServeOneKey, GroupsKeepTheirKeys, GroupsAreChosen,
               FiledWhereChosen, FiledWhole
<1>2. FilingInv /\ [Next]_vars => FilingInv'
  <2>. SUFFICES ASSUME FilingInv, [Next]_vars PROVE FilingInv'
    OBVIOUS
  <2>1. ASSUME TypeInv', UNCHANGED <<gid, key, groupByKeys, groups, keysOf>> PROVE FilingInv'
    BY <2>1 DEF FilingInv, GroupsServeOneKey, GroupsKeepTheirKeys, GroupsAreChosen,
                FiledWhereChosen, FiledWhole, Fresh
  <2>2. ASSUME NEW h \in Handlers, UnsubscribeBegin(h) PROVE FilingInv'
    BY <2>1, <2>2, UnsubscribeBeginTypeInv DEF FilingInv, UnsubscribeBegin
  <2>3. ASSUME NEW k \in Keys, Emit(k) PROVE FilingInv'
    BY <2>1, <2>3, EmitTypeInv DEF FilingInv, Emit, callVars
  <2>4. CASE Next
    BY <2>2, <2>3, <2>4, NextCases, AddBeginFiling, AddFinishFiling, UnsubscribeFinishFiling,
       ClearFiling, UnsubscribeAllFinishFiling
  <2>5. CASE UNCHANGED vars
    <3>1. TypeInv'
      BY <2>5 DEF vars, callVars, FilingInv, TypeInv, TypeOK, CallsHaveGroups
    <3>. QED BY <2>1, <2>5, <3>1 DEF vars, callVars
  <2>. QED BY <2>4, <2>5
<1>3. FilingInv => FiledUnderAllOrNone
  BY DEF FilingInv, GroupsKeepTheirKeys, GroupsAreChosen, FiledWhole, FiledUnderAllOrNone, Fresh
<1>. QED BY <1>1, <1>2, <1>3, PTL DEF Spec
-----------------------------------------------------------------------------
(* The registry, under overlaps that are safe: each action preserves each    *)
(* part of RegistryInv.                                                      *)

\* What the caller's discipline gives a call that may start.
LEMMA MayStartFacts ==
  ASSUME SafeOverlap, NEW k
  PROVE  /\ MayStart("add", k) =>
              \A x \in Handlers : key[x] = k =>
                /\ phase[x] # "removing" /\ ~(pendingDeletes[gid[x]] > 0)
                /\ ~Wildcards => phase[x] # "wrapping"
         /\ MayStart("unsubscribe", k) =>
              \A x \in Handlers : key[x] = k => phase[x] # "wrapping"
         /\ MayStart("unsubscribeAll", k) =>
              \A x \in Handlers : key[x] = k => phase[x] # "wrapping"
<1>1. {"unsubscribe", "add"} = {"add", "unsubscribe"} /\ {"unsubscribeAll", "add"} = {"add", "unsubscribeAll"}
  OBVIOUS
<1>2. {"add", "add"} = {"add"}
  OBVIOUS
<1>. QED BY <1>1, <1>2 DEF SafeOverlap, MayStart, Running, Kinds

\* The one group a listen key is filed under serves listeners of that key only.
LEMMA FiledUnderItsKey ==
  ASSUME TypeOK, CallsHaveGroups, FiledGroupsLive, GroupsKeepTheirKeys,
         NEW k \in ListenKeys, NEW x \in Handlers, gid[x] \in groupByKeys[k]
  PROVE  key[x] = k
<1>1. k \in Keys
  BY ExpandFacts
<1>2. gid[x] \in groups /\ k \in keysOf[gid[x]]
  BY <1>1 DEF FiledGroupsLive
<1>3. key[x] \in ListenKeys
  BY <1>2, NothingsAreNothing DEF CallsHaveGroups, TypeOK
<1>. QED BY <1>2, <1>3, PlainKeyFiledOnce DEF GroupsKeepTheirKeys

\* An add that begins takes a group nobody uses, or the one its key is filed under.
LEMMA AddBeginInv ==
  ASSUME SafeOverlap, TypeOK, RegistryInv, NEW h \in Handlers, NEW k \in ListenKeys, AddBegin(h, k)
  PROVE  RegistryInv'
<1>. USE DEF TypeOK, RegistryInv
<1>1. CallsHaveGroups'
  BY DEF AddBegin, CallsHaveGroups
<1>2. GroupsServeOneKey'
  <2>1. PICK g \in Groups : /\ IF groupByKeys[k] # {} THEN g \in groupByKeys[k] ELSE Fresh(g)
                            /\ gid' = [gid EXCEPT ![h] = g]
    BY DEF AddBegin
  <2>2. \A x \in Handlers : gid[x] = g => key[x] = k
    BY <2>1, FiledUnderItsKey DEF Fresh
  <2>. QED BY <2>1, <2>2 DEF TypeOK, AddBegin, GroupsServeOneKey
<1>3. GroupsHaveCalls'
  BY NothingsAreNothing DEF AddBegin, CallsHaveGroups, GroupsHaveCalls, Fresh
<1>4. GroupsKeepTheirKeys'
  <2>1. PICK g \in Groups : /\ IF groupByKeys[k] # {} THEN g \in groupByKeys[k] ELSE Fresh(g)
                            /\ gid' = [gid EXCEPT ![h] = g]
    BY DEF AddBegin
  <2>2. ASSUME g \in groups PROVE keysOf[g] = Expand(k)
    <3>1. PICK x \in Handlers : gid[x] = g
      BY <2>2 DEF GroupsHaveCalls, Fresh
    <3>2. key[x] = k
      BY <2>1, <3>1, FiledUnderItsKey DEF Fresh
    <3>. QED BY <2>2, <3>1, <3>2 DEF GroupsKeepTheirKeys
  <2>. QED BY <2>1, <2>2 DEF TypeOK, AddBegin, GroupsKeepTheirKeys
<1>5. FiledGroupsLive'
  BY DEF AddBegin, FiledGroupsLive
<1>6. LiveGroupsFiled'
  BY DEF AddBegin, LiveGroupsFiled
<1>7. ListenersBelong'
  BY DEF AddBegin, ListenersBelong
<1>8. EmitterHoldsTheWanted'
  BY DEF AddBegin, EmitterHoldsTheWanted, WantedAreListed
<1>9. WantedAreListed'
  BY DEF AddBegin, WantedAreListed
<1>10. AddsExcludeRemovals'
  BY MayStartFacts, ExpandFacts, NothingsAreNothing DEF AddBegin, CallsHaveGroups,
     GroupsHaveCalls, FiledGroupsLive, AddsExcludeRemovals
<1>11. ChosenGroupsFit'
  <2>1. PICK g \in Groups : /\ IF groupByKeys[k] # {} THEN g \in groupByKeys[k] ELSE Fresh(g)
                            /\ gid' = [gid EXCEPT ![h] = g]
    BY DEF AddBegin
  <2>2. g \notin groups => Fresh(g) /\ groupByKeys[k] = {}
    BY <2>1, ExpandFacts DEF FiledGroupsLive
  <2>3. ASSUME NEW x \in Handlers, x # h, phase[x] = "wrapping", gid[x] \notin groups
        PROVE  gid[x] # g
    BY <2>1, <2>3, ExpandFacts DEF FiledGroupsLive, Fresh
  <2>. QED BY <2>1, <2>2, <2>3 DEF TypeOK, AddBegin, ChosenGroupsFit, Fresh
<1>12. PlainAddsAreAlone'
  BY MayStartFacts DEF AddBegin, PlainAddsAreAlone
<1>13. LastIsLast'
  BY DEF AddBegin, LastIsLast
<1>14. EmitReachedTheWanted'
  BY DEF AddBegin, EmitReachedTheWanted
<1>. QED BY <1>1, <1>2, <1>3, <1>4, <1>5, <1>6, <1>7, <1>8, <1>9, <1>10, <1>11, <1>12, <1>13, <1>14

\* It files that group under its keys, which no removal can have touched meanwhile.
LEMMA AddFinishInv ==
  ASSUME SafeOverlap, TypeOK, RegistryInv, NEW h \in Handlers, AddFinish(h)
  PROVE  RegistryInv'
<1>. USE DEF TypeOK, RegistryInv
<1>1. CallsHaveGroups'
  BY DEF AddFinish, FiledUnder, CallsHaveGroups
<1>2. GroupsServeOneKey'
  BY DEF AddFinish, FiledUnder, GroupsServeOneKey
<1>3. GroupsHaveCalls'
  BY DEF AddFinish, FiledUnder, GroupsHaveCalls, Fresh
<1>4. GroupsKeepTheirKeys'
  BY DEF AddFinish, FiledUnder, CallsHaveGroups, GroupsKeepTheirKeys, ChosenGroupsFit
<1>5. FiledGroupsLive'
  BY ExpandFacts DEF AddFinish, FiledUnder, CallsHaveGroups, GroupsKeepTheirKeys,
     FiledGroupsLive, AddsExcludeRemovals
<1>6. LiveGroupsFiled'
  <2>1. gid[h] \in Groups /\ key[h] \in ListenKeys
    BY DEF CallsHaveGroups, AddFinish
  <2>2. keysOf'[gid[h]] = Expand(key[h])
    BY <2>1 DEF AddFinish, GroupsKeepTheirKeys
  <2>3. \A j \in Expand(key[h]) : gid[h] \in groupByKeys'[j]
    <3>1. CASE Wildcards
      BY <3>1, <2>1, ExpandFacts DEF AddFinish, FiledUnder
    <3>2. CASE ~Wildcards
      <4>1. gid[h] \in groups => gid[h] \in groupByKeys[key[h]]
        BY <2>1, ExpandFacts DEF AddFinish, GroupsKeepTheirKeys, LiveGroupsFiled, AddsExcludeRemovals
      <4>2. gid[h] \notin groups => groupByKeys[key[h]] = {}
        BY <3>2 DEF AddFinish, ChosenGroupsFit
      <4>. QED BY <3>2, <4>1, <4>2, <2>1, ExpandFacts DEF AddFinish, FiledUnder, Expand
    <3>. QED BY <3>1, <3>2, WildcardsIsBoolean
  <2>4. \A j \in Keys : groupByKeys[j] \subseteq groupByKeys'[j]
    BY <2>1, ExpandFacts DEF AddFinish, FiledUnder
  <2>. QED BY <2>2, <2>3, <2>4 DEF AddFinish, LiveGroupsFiled
<1>7. ListenersBelong'
  BY DEF AddFinish, FiledUnder, ListenersBelong
<1>8. EmitterHoldsTheWanted'
  BY DEF AddFinish, FiledUnder, EmitterHoldsTheWanted
<1>9. WantedAreListed'
  BY DEF AddFinish, FiledUnder, CallsHaveGroups, WantedAreListed, AddsExcludeRemovals
<1>10. AddsExcludeRemovals'
  BY DEF AddFinish, FiledUnder, AddsExcludeRemovals
<1>11. ChosenGroupsFit'
  BY DEF AddFinish, FiledUnder, ChosenGroupsFit, PlainAddsAreAlone
<1>12. PlainAddsAreAlone'
  BY DEF AddFinish, FiledUnder, PlainAddsAreAlone
<1>13. LastIsLast'
  BY NothingsAreNothing DEF AddFinish, FiledUnder, GroupsServeOneKey,
     AddsExcludeRemovals, ChosenGroupsFit, LastIsLast
<1>14. EmitReachedTheWanted'
  BY DEF AddFinish, FiledUnder, EmitReachedTheWanted
<1>. QED BY <1>1, <1>2, <1>3, <1>4, <1>5, <1>6, <1>7, <1>8, <1>9, <1>10, <1>11, <1>12, <1>13, <1>14

\* unsubscribe reads whether it takes the last listener of the group ...
LEMMA UnsubscribeBeginInv ==
  ASSUME SafeOverlap, TypeOK, RegistryInv, NEW h \in Handlers, UnsubscribeBegin(h)
  PROVE  RegistryInv'
<1>. USE DEF TypeOK, RegistryInv
<1>1. CallsHaveGroups'
  BY DEF UnsubscribeBegin, CallsHaveGroups
<1>2. GroupsServeOneKey'
  BY DEF UnsubscribeBegin, GroupsServeOneKey
<1>3. GroupsHaveCalls'
  BY DEF UnsubscribeBegin, GroupsHaveCalls, Fresh
<1>4. GroupsKeepTheirKeys'
  BY DEF UnsubscribeBegin, GroupsKeepTheirKeys
<1>5. FiledGroupsLive'
  BY DEF UnsubscribeBegin, FiledGroupsLive
<1>6. LiveGroupsFiled'
  BY DEF UnsubscribeBegin, LiveGroupsFiled
<1>7. ListenersBelong'
  BY DEF UnsubscribeBegin, GroupsHaveCalls, ListenersBelong
<1>8. EmitterHoldsTheWanted'
  BY DEF UnsubscribeBegin, EmitterHoldsTheWanted, WantedAreListed
<1>9. WantedAreListed'
  BY DEF UnsubscribeBegin, WantedAreListed
<1>10. AddsExcludeRemovals'
  BY MayStartFacts DEF UnsubscribeBegin, AddsExcludeRemovals
<1>11. ChosenGroupsFit'
  BY DEF UnsubscribeBegin, ChosenGroupsFit
<1>12. PlainAddsAreAlone'
  BY DEF UnsubscribeBegin, PlainAddsAreAlone
<1>13. LastIsLast'
  <2>1. gid[h] \in Groups
    BY DEF CallsHaveGroups, UnsubscribeBegin
  <2>2. phase'[h] = "removing" => isLast'[h] = (listeners[gid[h]] = {h})
    BY Zenon DEF UnsubscribeBegin
  <2>3. \A x \in Handlers : x # h => phase'[x] = phase[x] /\ isLast'[x] = isLast[x]
    BY DEF UnsubscribeBegin
  <2>. QED BY <2>2, <2>3 DEF UnsubscribeBegin, LastIsLast
<1>14. EmitReachedTheWanted'
  BY DEF UnsubscribeBegin, EmitReachedTheWanted
<1>. QED BY <1>1, <1>2, <1>3, <1>4, <1>5, <1>6, <1>7, <1>8, <1>9, <1>10, <1>11, <1>12, <1>13, <1>14

\* ... and acts on it after its await: no listener can have joined the group.
LEMMA UnsubscribeFinishInv ==
  ASSUME SafeOverlap, TypeOK, RegistryInv, NEW h \in Handlers, UnsubscribeFinish(h)
  PROVE  RegistryInv'
<1>. USE DEF TypeOK, RegistryInv
<1>1. CallsHaveGroups'
  BY DEF UnsubscribeFinish, DropGroup, CallsHaveGroups
<1>2. GroupsServeOneKey'
  BY DEF UnsubscribeFinish, DropGroup, GroupsServeOneKey
<1>3. GroupsHaveCalls'
  BY DEF UnsubscribeFinish, DropGroup, GroupsHaveCalls, Fresh
<1>4. GroupsKeepTheirKeys'
  BY DEF UnsubscribeFinish, DropGroup, GroupsKeepTheirKeys
<1>5. FiledGroupsLive'
  BY DEF UnsubscribeFinish, DropGroup, FiledGroupsLive
<1>6. LiveGroupsFiled'
  BY DEF UnsubscribeFinish, DropGroup, LiveGroupsFiled
<1>7. ListenersBelong'
  BY DEF UnsubscribeFinish, DropGroup, GroupsHaveCalls, ListenersBelong
<1>8. EmitterHoldsTheWanted'
  BY DEF UnsubscribeFinish, DropGroup, EmitterHoldsTheWanted
<1>9. WantedAreListed'
  BY DEF UnsubscribeFinish, DropGroup, WantedAreListed, LastIsLast
<1>10. AddsExcludeRemovals'
  BY DEF UnsubscribeFinish, DropGroup, AddsExcludeRemovals
<1>11. ChosenGroupsFit'
  BY ExpandFacts, NothingsAreNothing DEF UnsubscribeFinish, DropGroup, CallsHaveGroups,
     GroupsServeOneKey, ListenersBelong, AddsExcludeRemovals, ChosenGroupsFit
<1>12. PlainAddsAreAlone'
  BY DEF UnsubscribeFinish, DropGroup, PlainAddsAreAlone
<1>13. LastIsLast'
  BY DEF UnsubscribeFinish, DropGroup, LastIsLast
<1>14. EmitReachedTheWanted'
  BY DEF UnsubscribeFinish, DropGroup, EmitReachedTheWanted
<1>. QED BY <1>1, <1>2, <1>3, <1>4, <1>5, <1>6, <1>7, <1>8, <1>9, <1>10, <1>11, <1>12, <1>13, <1>14

\* unsubscribeAll takes the groups of a key out of the emitter and the keys at once.
LEMMA ClearInv ==
  ASSUME SafeOverlap, TypeOK, RegistryInv, NEW ks \in SUBSET Keys, Clear(ks)
  PROVE  RegistryInv'
<1>. USE DEF TypeOK, RegistryInv
<1>. DEFINE GS == groups \cap UNION {groupByKeys[k] : k \in ks}
<1>1. CallsHaveGroups'
  BY DEF Clear, callVars, CallsHaveGroups
<1>2. GroupsServeOneKey'
  BY DEF Clear, callVars, GroupsServeOneKey
<1>3. GroupsHaveCalls'
  BY DEF Clear, callVars, GroupsHaveCalls, Fresh
<1>4. GroupsKeepTheirKeys'
  BY DEF Clear, callVars, GroupsKeepTheirKeys
<1>5. FiledGroupsLive'
  BY DEF Clear, callVars, FiledGroupsLive
<1>6. LiveGroupsFiled'
  BY DEF Clear, callVars, LiveGroupsFiled
<1>7. ListenersBelong'
  BY DEF Clear, callVars, ListenersBelong
<1>8. EmitterHoldsTheWanted'
  <2>1. ASSUME NEW x \in wanted
        PROVE  gid[x] \in GS <=> Expand(key[x]) \cap ks # {}
    <3>1. /\ x \in Handlers /\ gid[x] \in groups /\ pendingDeletes[gid[x]] = 0
          /\ keysOf[gid[x]] = Expand(key[x]) /\ key[x] \in ListenKeys
      BY DEF WantedAreListed, GroupsKeepTheirKeys, CallsHaveGroups
    <3>2. Expand(key[x]) \subseteq Keys
      BY <3>1, ExpandFacts
    <3>3. \A k \in Keys : gid[x] \in groupByKeys[k] <=> k \in Expand(key[x])
      BY <3>1, <3>2 DEF FiledGroupsLive, LiveGroupsFiled
    <3>4. gid[x] \in GS <=> \E k \in ks : gid[x] \in groupByKeys[k]
      BY <3>1
    <3>. QED BY <3>3, <3>4
  <2>2. \A g \in Groups : g \in GS => emitterListeners[g] \subseteq listeners[g]
    BY DEF EmitterHoldsTheWanted, WantedAreListed
  <2>. QED BY <2>1, <2>2 DEF Clear, EmitterHoldsTheWanted, callVars
<1>9. WantedAreListed'
  BY DEF Clear, callVars, GroupsKeepTheirKeys, FiledGroupsLive, WantedAreListed
<1>10. AddsExcludeRemovals'
  <2>1. ASSUME NEW x \in Handlers, NEW y \in Handlers,
               phase[x] = "wrapping", key[y] = key[x], gid[y] \in GS
        PROVE  FALSE
    <3>1. key[y] \in ListenKeys
      BY <2>1 DEF CallsHaveGroups
    <3>2. PICK k \in ks : gid[y] \in groupByKeys[k]
      BY <2>1
    <3>3. k \in Expand(key[y])
      BY <3>2, <2>1 DEF FiledGroupsLive, GroupsKeepTheirKeys
    <3>4. MayStart("unsubscribeAll", key[y])
      BY <3>1, <3>3 DEF Clear
    <3>. QED BY <2>1, <3>4, MayStartFacts
  <2>2. \A g \in Groups : g \notin GS => pendingDeletes'[g] = pendingDeletes[g]
    BY DEF Clear
  <2>3. \A y \in Handlers : key[y] \in ListenKeys => gid[y] \in Groups
    BY NothingsAreNothing DEF CallsHaveGroups
  <2>4. \A x \in Handlers : phase[x] = "wrapping" => key[x] \in ListenKeys
    BY DEF CallsHaveGroups
  <2>. QED BY <2>1, <2>2, <2>3, <2>4 DEF Clear, callVars, AddsExcludeRemovals
<1>11. ChosenGroupsFit'
  BY ExpandFacts DEF Clear, callVars, CallsHaveGroups, ChosenGroupsFit
<1>12. PlainAddsAreAlone'
  BY DEF Clear, callVars, PlainAddsAreAlone
<1>13. LastIsLast'
  BY DEF Clear, callVars, LastIsLast
<1>14. EmitReachedTheWanted'
  BY DEF Clear, callVars, EmitReachedTheWanted
<1>. QED BY <1>1, <1>2, <1>3, <1>4, <1>5, <1>6, <1>7, <1>8, <1>9, <1>10, <1>11, <1>12, <1>13, <1>14

\* The groups it deletes later hold no listener anybody still wants.
LEMMA UnsubscribeAllFinishInv ==
  ASSUME SafeOverlap, TypeOK, RegistryInv, NEW g \in Groups, UnsubscribeAllFinish(g)
  PROVE  RegistryInv'
<1>. USE DEF TypeOK, RegistryInv
<1>1. CallsHaveGroups'
  BY DEF UnsubscribeAllFinish, callVars, CallsHaveGroups
<1>2. GroupsServeOneKey'
  BY DEF UnsubscribeAllFinish, callVars, GroupsServeOneKey
<1>3. GroupsHaveCalls'
  BY DEF UnsubscribeAllFinish, callVars, GroupsHaveCalls, Fresh
<1>4. GroupsKeepTheirKeys'
  BY DEF UnsubscribeAllFinish, callVars, GroupsKeepTheirKeys
<1>5. FiledGroupsLive'
  BY DEF UnsubscribeAllFinish, callVars, FiledGroupsLive
<1>6. LiveGroupsFiled'
  BY DEF UnsubscribeAllFinish, callVars, LiveGroupsFiled
<1>7. ListenersBelong'
  BY DEF UnsubscribeAllFinish, callVars, ListenersBelong
<1>8. EmitterHoldsTheWanted'
  BY DEF UnsubscribeAllFinish, callVars, EmitterHoldsTheWanted
<1>9. WantedAreListed'
  BY DEF UnsubscribeAllFinish, callVars, WantedAreListed
<1>10. AddsExcludeRemovals'
  BY DEF UnsubscribeAllFinish, callVars, AddsExcludeRemovals
<1>11. ChosenGroupsFit'
  BY DEF UnsubscribeAllFinish, callVars, AddsExcludeRemovals, ChosenGroupsFit
<1>12. PlainAddsAreAlone'
  BY DEF UnsubscribeAllFinish, callVars, PlainAddsAreAlone
<1>13. LastIsLast'
  BY DEF UnsubscribeAllFinish, callVars, LastIsLast
<1>14. EmitReachedTheWanted'
  BY DEF UnsubscribeAllFinish, callVars, EmitReachedTheWanted
<1>. QED BY <1>1, <1>2, <1>3, <1>4, <1>5, <1>6, <1>7, <1>8, <1>9, <1>10, <1>11, <1>12, <1>13, <1>14

\* What an emit calls, and that it does not throw.
LEMMA EmitReaches ==
  ASSUME TypeOK, RegistryInv, NEW k \in Keys, Emit(k)
  PROVE  called' = [key |-> k, to |-> {x \in wanted : k \in Expand(key[x])}, ok |-> TRUE]
<1>. USE DEF TypeOK, RegistryInv
<1>1. groupByKeys[k] \subseteq groups
  BY DEF FiledGroupsLive
<1>2. called' = [key |-> k, to |-> Served(groupByKeys[k]), ok |-> TRUE]
  BY <1>1 DEF Emit
<1>3. Served(groupByKeys[k]) = {x \in wanted : k \in Expand(key[x])}
  <2>1. ASSUME NEW x \in wanted
        PROVE  gid[x] \in groupByKeys[k] <=> k \in Expand(key[x])
    BY DEF WantedAreListed, GroupsKeepTheirKeys, FiledGroupsLive, LiveGroupsFiled
  <2>2. \A g \in groupByKeys[k] : emitterListeners[g] = {x \in wanted : gid[x] = g}
    BY DEF EmitterHoldsTheWanted
  <2>3. \A x \in wanted : listeners[gid[x]] # {}
    BY DEF WantedAreListed
  <2>. QED BY <2>1, <2>2, <2>3 DEF Served
<1>. QED BY <1>2, <1>3

\* An emit finds every group it reads, and through them the wanted listeners.
LEMMA EmitInv ==
  ASSUME SafeOverlap, TypeOK, RegistryInv, NEW k \in Keys, Emit(k)
  PROVE  RegistryInv'
<1>. USE DEF TypeOK, RegistryInv
<1>1. CallsHaveGroups'
  BY DEF Emit, callVars, CallsHaveGroups
<1>2. GroupsServeOneKey'
  BY DEF Emit, callVars, GroupsServeOneKey
<1>3. GroupsHaveCalls'
  BY DEF Emit, callVars, GroupsHaveCalls, Fresh
<1>4. GroupsKeepTheirKeys'
  BY DEF Emit, callVars, GroupsKeepTheirKeys
<1>5. FiledGroupsLive'
  BY DEF Emit, callVars, FiledGroupsLive
<1>6. LiveGroupsFiled'
  BY DEF Emit, callVars, LiveGroupsFiled
<1>7. ListenersBelong'
  BY DEF Emit, callVars, ListenersBelong
<1>8. EmitterHoldsTheWanted'
  BY DEF Emit, callVars, EmitterHoldsTheWanted
<1>9. WantedAreListed'
  BY DEF Emit, callVars, WantedAreListed
<1>10. AddsExcludeRemovals'
  BY DEF Emit, callVars, AddsExcludeRemovals
<1>11. ChosenGroupsFit'
  BY DEF Emit, callVars, ChosenGroupsFit
<1>12. PlainAddsAreAlone'
  BY DEF Emit, callVars, PlainAddsAreAlone
<1>13. LastIsLast'
  BY DEF Emit, callVars, LastIsLast
<1>14. EmitReachedTheWanted'
  <2>1. wanted' = wanted /\ key' = key
    BY DEF Emit, callVars
  <2>. QED BY <2>1, EmitReaches DEF EmitReachedTheWanted
<1>. QED BY <1>1, <1>2, <1>3, <1>4, <1>5, <1>6, <1>7, <1>8, <1>9, <1>10, <1>11, <1>12, <1>13, <1>14

\* While no add overlaps a removal on its key, nor a second add when wildcards
\* are off, the registry's bookkeeping stays whole (events/index.ts 462-681).
THEOREM RegistryCorrect ==
  ASSUME SafeOverlap
  PROVE  Spec => []RegistryInv
<1>1. Init => RegistryInv
  BY DEF Init, RegistryInv, CallsHaveGroups, GroupsServeOneKey, GroupsHaveCalls,
     GroupsKeepTheirKeys, FiledGroupsLive, LiveGroupsFiled, ListenersBelong,
     EmitterHoldsTheWanted, WantedAreListed, AddsExcludeRemovals, ChosenGroupsFit,
     PlainAddsAreAlone, LastIsLast, EmitReachedTheWanted
<1>2. TypeOK /\ RegistryInv /\ [Next]_vars => RegistryInv'
  <2>. SUFFICES ASSUME TypeOK, RegistryInv, [Next]_vars
                PROVE  RegistryInv'
    OBVIOUS
  <2>1. CASE Next
    BY <2>1, NextCases, AddBeginInv, AddFinishInv, UnsubscribeBeginInv,
       UnsubscribeFinishInv, ClearInv, UnsubscribeAllFinishInv, EmitInv
  <2>2. CASE UNCHANGED vars
    BY <2>2 DEF vars, callVars, RegistryInv, CallsHaveGroups, GroupsServeOneKey,
       GroupsHaveCalls, Fresh, GroupsKeepTheirKeys, FiledGroupsLive, LiveGroupsFiled,
       ListenersBelong, EmitterHoldsTheWanted, WantedAreListed, AddsExcludeRemovals,
       ChosenGroupsFit, PlainAddsAreAlone, LastIsLast, EmitReachedTheWanted
  <2>. QED BY <2>1, <2>2
<1>. QED BY <1>1, <1>2, TypeCorrect, PTL DEF Spec

\* Looking a key up among the keys a group is filed under is matching patterns.
LEMMA ExpandIsDenotes ==
  ASSUME NEW j \in ListenKeys, NEW k \in Keys
  PROVE  k \in Expand(j) <=> k = j \/ (Wildcards /\ Denotes(k, j))
<1>1. PICK l \in ListenKeys : k \in Expand(l)
  BY DEF Keys
<1>2. CASE ~Wildcards
  BY <1>2 DEF Expand
<1>3. CASE Wildcards
  <2>1. /\ j \in Seq(Segments) /\ Plain(j) /\ l \in Seq(Segments) /\ Plain(l)
    BY ListenKeysArePlain
  <2>2. Expand(j) = ExpandKey(j) /\ k \in ExpandKey(l)
    BY <1>1, <1>3 DEF Expand
  <2>3. j \in ExpandKey(j)
    BY DEF ExpandKey
  <2>. QED BY <1>3, <2>1, <2>2, <2>3, ExpansionIsDenotation
<1>. QED BY <1>2, <1>3, WildcardsIsBoolean

\* Under the same discipline an emit calls exactly the wanted listeners of the
\* keys it denotes, and never throws (events/index.ts 703-726).
THEOREM EmitIsExact ==
  ASSUME SafeOverlap
  PROVE  Spec => []EmitCallsExactlyTheWanted
<1>1. TypeOK /\ RegistryInv => EmitCallsExactlyTheWanted
  <2>. SUFFICES ASSUME TypeOK, RegistryInv, called # NoEmit
                PROVE  /\ called.ok
                       /\ called.to = {h \in wanted : \/ called.key = key[h]
                                                      \/ Wildcards /\ Denotes(called.key, key[h])}
    BY DEF EmitCallsExactlyTheWanted
  <2>1. called.key \in Keys
    BY DEF TypeOK
  <2>2. \A h \in wanted : key[h] \in ListenKeys
    BY DEF TypeOK, RegistryInv, WantedAreListed, CallsHaveGroups
  <2>3. called.ok /\ called.to = {h \in wanted : called.key \in Expand(key[h])}
    BY DEF RegistryInv, EmitReachedTheWanted
  <2>. QED BY <2>1, <2>2, <2>3, ExpandIsDenotes
<1>. QED BY <1>1, RegistryCorrect, TypeCorrect, PTL
-----------------------------------------------------------------------------
(* Removals that wait for each other leave nothing behind and never throw.   *)

\* A caller that awaits each unsubscribe and unsubscribeAll on a key before the
\* next removal on it, besides keeping its adds apart from them.
TidyOverlap ==
  /\ SafeOverlap
  /\ {"unsubscribe"} \notin Overlap
  /\ {"unsubscribe", "unsubscribeAll"} \notin Overlap

\* What a removal read before its await still holds after it, ...
RemovalsAreAlone ==
  \A h \in Handlers :
    phase[h] = "removing" =>
      /\ gid[h] \in groups /\ pendingDeletes[gid[h]] = 0 /\ h \in listeners[gid[h]]
      /\ isLast[h] <=> listeners[gid[h]] = {h}
      /\ \A x \in Handlers : key[x] = key[h] /\ phase[x] = "removing" => x = h

\* ... a group nobody is clearing holds only listeners that are wanted or on
\* their way out, ...
ListedAreWanted ==
  \A g \in Groups : \A h \in listeners[g] :
    pendingDeletes[g] = 0 => h \in wanted \/ phase[h] = "removing"

\* ... and at least one.
NoEmptyGroups ==
  \A g \in groups : pendingDeletes[g] = 0 => listeners[g] # {}

RemovalInv == RemovalsAreAlone /\ ListedAreWanted /\ NoEmptyGroups /\ UnsubscribeNeverThrows

\* Two removals on one key are never in flight together.
LEMMA RemovalsWait ==
  ASSUME TidyOverlap, NEW k,
         NEW kind \in {"unsubscribe", "unsubscribeAll"}, MayStart(kind, k)
  PROVE  \A h \in Handlers :
           key[h] = k => /\ phase[h] # "removing"
                         /\ kind = "unsubscribe" => ~(pendingDeletes[gid[h]] > 0)
<1>1. {kind, "unsubscribe"} \notin Overlap
  <2>1. {"unsubscribe", "unsubscribe"} = {"unsubscribe"}
    OBVIOUS
  <2>2. {"unsubscribeAll", "unsubscribe"} = {"unsubscribe", "unsubscribeAll"}
    OBVIOUS
  <2>. QED BY <2>1, <2>2 DEF TidyOverlap
<1>2. ~Running("unsubscribe", k)
  BY <1>1 DEF MayStart, Kinds
<1>3. kind = "unsubscribe" => ~Running("unsubscribeAll", k)
  BY DEF MayStart, Kinds, TidyOverlap
<1>. QED BY <1>2, <1>3 DEF Running

\* An add that chooses a group disturbs no removal.
LEMMA AddBeginRemoval ==
  ASSUME TidyOverlap, TypeOK, RegistryInv, RemovalInv, NEW h \in Handlers, NEW k \in ListenKeys, AddBegin(h, k)
  PROVE  RemovalInv'
<1>. USE DEF TypeOK, RegistryInv, RemovalInv
<1>1. RemovalsAreAlone'
  BY DEF AddBegin, RemovalsAreAlone
<1>2. ListedAreWanted'
  BY DEF AddBegin, ListedAreWanted
<1>3. NoEmptyGroups'
  BY DEF AddBegin, NoEmptyGroups
<1>4. UnsubscribeNeverThrows'
  BY DEF AddBegin, UnsubscribeNeverThrows
<1>. QED BY <1>1, <1>2, <1>3, <1>4

\* The group it files its listener in holds no removal.
LEMMA AddFinishRemoval ==
  ASSUME TidyOverlap, TypeOK, RegistryInv, RemovalInv, NEW h \in Handlers, AddFinish(h)
  PROVE  RemovalInv'
<1>. USE DEF TypeOK, RegistryInv, RemovalInv
<1>1. RemovalsAreAlone'
  <2>1. \A x \in Handlers : phase[x] = "removing" => x # h /\ gid[x] # gid[h]
    BY NothingsAreNothing DEF AddFinish, CallsHaveGroups, GroupsServeOneKey, AddsExcludeRemovals
  <2>2. \A x \in Handlers : phase'[x] = "removing" =>
          /\ phase[x] = "removing" /\ gid[x] \in Groups
          /\ listeners'[gid[x]] = listeners[gid[x]]
    BY <2>1 DEF AddFinish, CallsHaveGroups
  <2>. QED BY <2>2 DEF AddFinish, RemovalsAreAlone
<1>2. ListedAreWanted'
  BY DEF AddFinish, FiledUnder, ListedAreWanted
<1>3. NoEmptyGroups'
  <2>1. gid[h] \in Groups /\ h \in listeners'[gid[h]]
    BY DEF AddFinish, CallsHaveGroups
  <2>2. \A g \in Groups : listeners[g] \subseteq listeners'[g]
    BY DEF AddFinish
  <2>. QED BY <2>1, <2>2 DEF AddFinish, NoEmptyGroups
<1>4. UnsubscribeNeverThrows'
  BY DEF AddFinish, FiledUnder, UnsubscribeNeverThrows
<1>. QED BY <1>1, <1>2, <1>3, <1>4

\* An unsubscribe starts alone on its key.
LEMMA UnsubscribeBeginRemoval ==
  ASSUME TidyOverlap, TypeOK, RegistryInv, RemovalInv, NEW h \in Handlers, UnsubscribeBegin(h)
  PROVE  RemovalInv'
<1>. USE DEF TypeOK, RegistryInv, RemovalInv
<1>1. RemovalsAreAlone'
  <2>1. \A x \in Handlers : key[x] = key[h] =>
          phase[x] # "removing" /\ ~(pendingDeletes[gid[x]] > 0)
    BY RemovalsWait DEF UnsubscribeBegin
  <2>2. \A x \in Handlers : x # h => phase'[x] = phase[x] /\ isLast'[x] = isLast[x]
    BY DEF UnsubscribeBegin
  <2>3. UNCHANGED <<groups, listeners, pendingDeletes, gid, key>>
    BY DEF UnsubscribeBegin
  <2>4. SUFFICES ASSUME NEW y \in Handlers, phase'[y] = "removing"
                 PROVE  /\ gid[y] \in groups /\ pendingDeletes[gid[y]] = 0
                        /\ y \in listeners[gid[y]]
                        /\ isLast'[y] <=> listeners[gid[y]] = {y}
                        /\ \A x \in Handlers : key[x] = key[y] /\ phase'[x] = "removing" => x = y
    BY <2>3 DEF RemovalsAreAlone
  <2>5. CASE y = h
    <3>1. gid[h] \in groups /\ h \in listeners[gid[h]]
      BY <2>4, <2>5 DEF UnsubscribeBegin
    <3>2. isLast'[h] = (listeners[gid[h]] = {h})
      BY <2>4, <2>5, Zenon DEF UnsubscribeBegin
    <3>3. pendingDeletes[gid[h]] = 0
      BY <2>1, <3>1
    <3>4. \A x \in Handlers : key[x] = key[h] /\ phase'[x] = "removing" => x = h
      BY <2>1, <2>2
    <3>. QED BY <2>5, <3>1, <3>2, <3>3, <3>4
  <2>6. CASE y # h
    BY <2>1, <2>2, <2>4, <2>6 DEF RemovalsAreAlone
  <2>. QED BY <2>5, <2>6
<1>2. ListedAreWanted'
  <2>1. \A g \in Groups : h \in listeners[g] => gid[h] = g /\ g \in groups
    BY DEF ListenersBelong, GroupsHaveCalls
  <2>2. (\E g \in Groups : h \in listeners[g]) => phase'[h] = "removing"
    BY <2>1 DEF UnsubscribeBegin
  <2>3. \A x \in Handlers : x # h => phase'[x] = phase[x]
    BY DEF UnsubscribeBegin
  <2>. QED BY <2>2, <2>3 DEF UnsubscribeBegin, ListedAreWanted
<1>3. NoEmptyGroups'
  BY DEF UnsubscribeBegin, NoEmptyGroups
<1>4. UnsubscribeNeverThrows'
  BY DEF UnsubscribeBegin, UnsubscribeNeverThrows
<1>. QED BY <1>1, <1>2, <1>3, <1>4

\* It finds its group, and its group under every key, and drops the last listener with the group.
LEMMA UnsubscribeFinishRemoval ==
  ASSUME TidyOverlap, TypeOK, RegistryInv, RemovalInv, NEW h \in Handlers, UnsubscribeFinish(h)
  PROVE  RemovalInv'
<1>. USE DEF TypeOK, RegistryInv, RemovalInv
<1>1. /\ phase[h] = "removing" /\ gid[h] \in groups /\ h \in listeners[gid[h]]
      /\ \A k \in keysOf[gid[h]] : groupByKeys[k] # {}
  BY DEF UnsubscribeFinish, RemovalsAreAlone, LiveGroupsFiled
<1>2. /\ phase' = [phase EXCEPT ![h] = "removed"]
      /\ isLast' = [isLast EXCEPT ![h] = FALSE]
      /\ UNCHANGED <<gid, key, pendingDeletes, wanted>>
      /\ \/ isLast[h] /\ DropGroup(gid[h])
         \/ /\ ~isLast[h]
            /\ listeners' = [listeners EXCEPT ![gid[h]] = @ \ {h}]
            /\ UNCHANGED groups
  BY <1>1 DEF UnsubscribeFinish
<1>3. \A x \in Handlers : phase[x] = "removing" /\ x # h => gid[x] # gid[h]
  BY <1>1, NothingsAreNothing DEF RemovalsAreAlone, GroupsServeOneKey, CallsHaveGroups
<1>4. \A g \in Groups : g # gid[h] => /\ g \in groups' <=> g \in groups
                                     /\ listeners'[g] = listeners[g]
  BY <1>2 DEF DropGroup
<1>5. \A g \in Groups : listeners'[g] \subseteq listeners[g] \ {h}
  BY <1>2 DEF DropGroup, ListenersBelong
<1>6. RemovalsAreAlone'
  <2>1. \A x \in Handlers : phase'[x] = "removing" =>
          x # h /\ phase[x] = "removing" /\ isLast'[x] = isLast[x] /\ gid[x] \in Groups
    BY <1>2 DEF CallsHaveGroups
  <2>. QED BY <1>2, <1>3, <1>4, <2>1 DEF RemovalsAreAlone
<1>7. ListedAreWanted'
  BY <1>2, <1>5 DEF ListedAreWanted
<1>8. NoEmptyGroups'
  <2>1. CASE isLast[h]
    BY <1>2, <1>4, <2>1 DEF DropGroup, NoEmptyGroups
  <2>2. CASE ~isLast[h]
    <3>1. listeners[gid[h]] # {h}
      BY <1>1, <2>2 DEF RemovalsAreAlone
    <3>2. listeners'[gid[h]] # {}
      BY <1>1, <1>2, <2>2, <3>1
    <3>. QED BY <1>2, <1>4, <2>2, <3>2 DEF NoEmptyGroups
  <2>. QED BY <2>1, <2>2
<1>9. UnsubscribeNeverThrows'
  BY <1>2 DEF UnsubscribeNeverThrows
<1>. QED BY <1>6, <1>7, <1>8, <1>9

\* An unsubscribeAll takes no group from under an unsubscribe.
LEMMA ClearRemoval ==
  ASSUME TidyOverlap, TypeOK, RegistryInv, RemovalInv, NEW ks \in SUBSET Keys, Clear(ks)
  PROVE  RemovalInv'
<1>. USE DEF TypeOK, RegistryInv, RemovalInv
<1>. DEFINE GS == groups \cap UNION {groupByKeys[k] : k \in ks}
<1>0. /\ UNCHANGED <<groups, listeners, phase, key, gid, isLast>>
      /\ \A g \in Groups : pendingDeletes'[g] = IF g \in GS THEN pendingDeletes[g] + 1
                                                             ELSE pendingDeletes[g]
      /\ wanted' = {x \in wanted : Expand(key[x]) \cap ks = {}}
  BY DEF Clear, callVars
<1>1. RemovalsAreAlone'
  <2>1. ASSUME NEW x \in Handlers, phase[x] = "removing", gid[x] \in GS
        PROVE  FALSE
    <3>1. key[x] \in ListenKeys
      BY <2>1 DEF CallsHaveGroups
    <3>2. PICK k \in ks : gid[x] \in groupByKeys[k]
      BY <2>1
    <3>3. k \in Expand(key[x])
      BY <3>2, <2>1 DEF FiledGroupsLive, GroupsKeepTheirKeys
    <3>4. MayStart("unsubscribeAll", key[x])
      BY <3>1, <3>3 DEF Clear
    <3>. QED BY <2>1, <3>4, RemovalsWait
  <2>. QED BY <1>0, <2>1 DEF RemovalsAreAlone
<1>2. ListedAreWanted'
  <2>1. ASSUME NEW g \in Groups, NEW x \in listeners[g], pendingDeletes'[g] = 0,
               x \in wanted, x \notin wanted'
        PROVE  FALSE
    <3>1. gid[x] = g /\ g \in groups /\ key[x] \in ListenKeys /\ g \notin GS
      BY <1>0, <2>1 DEF ListenersBelong, WantedAreListed, CallsHaveGroups
    <3>2. PICK k \in ks : k \in Expand(key[x])
      BY <1>0, <2>1
    <3>3. g \in groupByKeys[k]
      BY <2>1, <3>1, <3>2 DEF GroupsKeepTheirKeys, LiveGroupsFiled, WantedAreListed
    <3>. QED BY <3>1, <3>2, <3>3
  <2>2. \A g \in Groups : pendingDeletes'[g] = 0 => pendingDeletes[g] = 0
    BY <1>0
  <2>. QED BY <1>0, <2>1, <2>2 DEF ListedAreWanted
<1>3. NoEmptyGroups'
  BY DEF Clear, callVars, NoEmptyGroups
<1>4. UnsubscribeNeverThrows'
  BY DEF Clear, callVars, UnsubscribeNeverThrows
<1>. QED BY <1>1, <1>2, <1>3, <1>4

\* It deletes groups that nobody else is removing from.
LEMMA UnsubscribeAllFinishRemoval ==
  ASSUME TidyOverlap, TypeOK, RegistryInv, RemovalInv, NEW g \in Groups, UnsubscribeAllFinish(g)
  PROVE  RemovalInv'
<1>. USE DEF TypeOK, RegistryInv, RemovalInv
<1>1. RemovalsAreAlone'
  BY DEF UnsubscribeAllFinish, callVars, RemovalsAreAlone
<1>2. ListedAreWanted'
  BY DEF UnsubscribeAllFinish, callVars, ListedAreWanted
<1>3. NoEmptyGroups'
  BY DEF UnsubscribeAllFinish, callVars, NoEmptyGroups
<1>4. UnsubscribeNeverThrows'
  BY DEF UnsubscribeAllFinish, callVars, UnsubscribeNeverThrows
<1>. QED BY <1>1, <1>2, <1>3, <1>4

\* An emit removes nothing.
LEMMA EmitRemoval ==
  ASSUME TidyOverlap, TypeOK, RegistryInv, RemovalInv, NEW k \in Keys, Emit(k)
  PROVE  RemovalInv'
<1>. USE DEF TypeOK, RegistryInv, RemovalInv
<1>1. RemovalsAreAlone'
  BY DEF Emit, callVars, RemovalsAreAlone
<1>2. ListedAreWanted'
  BY DEF Emit, callVars, ListedAreWanted
<1>3. NoEmptyGroups'
  BY DEF Emit, callVars, NoEmptyGroups
<1>4. UnsubscribeNeverThrows'
  BY DEF Emit, callVars, UnsubscribeNeverThrows
<1>. QED BY <1>1, <1>2, <1>3, <1>4

\* Removals that wait for each other keep the registry free of what is left over.
LEMMA RemovalCorrect ==
  ASSUME TidyOverlap
  PROVE  Spec => []RemovalInv
<1>1. Init => RemovalInv
  BY DEF Init, RemovalInv, RemovalsAreAlone, ListedAreWanted, NoEmptyGroups,
     UnsubscribeNeverThrows
<1>2. TypeOK /\ RegistryInv /\ RemovalInv /\ [Next]_vars => RemovalInv'
  <2>. SUFFICES ASSUME TypeOK, RegistryInv, RemovalInv, [Next]_vars
                PROVE  RemovalInv'
    OBVIOUS
  <2>1. CASE Next
    BY <2>1, NextCases, AddBeginRemoval, AddFinishRemoval, UnsubscribeBeginRemoval,
       UnsubscribeFinishRemoval, ClearRemoval, UnsubscribeAllFinishRemoval, EmitRemoval
  <2>2. CASE UNCHANGED vars
    BY <2>2 DEF vars, callVars, RemovalInv, RemovalsAreAlone, ListedAreWanted,
       NoEmptyGroups, UnsubscribeNeverThrows
  <2>. QED BY <2>1, <2>2
<1>3. SafeOverlap
  BY DEF TidyOverlap
<1>. QED BY <1>1, <1>2, <1>3, TypeCorrect, RegistryCorrect, PTL DEF Spec

\* Unsubscribing never throws for a caller that awaits each removal on a key
\* before the next one, whatever runs on other keys (events/index.ts 662-681).
THEOREM UnsubscribeIsSafe ==
  ASSUME TidyOverlap
  PROVE  Spec => []UnsubscribeNeverThrows
<1>1. RemovalInv => UnsubscribeNeverThrows
  BY DEF RemovalInv
<1>. QED BY <1>1, RemovalCorrect, PTL

\* For the same caller, whenever no call is running, the emitter, the groups and
\* the keys hold the wanted listeners and nothing else (events/index.ts 462-681).
THEOREM NothingIsLeftBehind ==
  ASSUME TidyOverlap
  PROVE  Spec => []NothingLeftBehind
<1>1. TypeOK /\ RegistryInv /\ RemovalInv => NothingLeftBehind
  <2>. SUFFICES ASSUME TypeOK, RegistryInv, RemovalInv, Quiet, NEW g \in Groups
                PROVE  /\ emitterListeners[g] = {h \in wanted : gid[h] = g}
                       /\ listeners[g] = emitterListeners[g]
                       /\ g \in groups <=> listeners[g] # {}
                       /\ \A k \in Keys : g \in groupByKeys[k] => g \in groups
    BY DEF NothingLeftBehind
  <2>. USE DEF TypeOK, RegistryInv, RemovalInv, Quiet
  <2>1. emitterListeners[g] = {h \in wanted : gid[h] = g}
    BY DEF EmitterHoldsTheWanted
  <2>2. listeners[g] = emitterListeners[g]
    BY <2>1 DEF ListedAreWanted, ListenersBelong, WantedAreListed
  <2>3. g \in groups <=> listeners[g] # {}
    BY DEF NoEmptyGroups, GroupsHaveCalls
  <2>4. \A k \in Keys : g \in groupByKeys[k] => g \in groups
    BY DEF FiledGroupsLive
  <2>. QED BY <2>1, <2>2, <2>3, <2>4
<1>2. SafeOverlap
  BY DEF TidyOverlap
<1>. QED BY <1>1, <1>2, RemovalCorrect, RegistryCorrect, TypeCorrect, PTL

-----------------------------------------------------------------------------
(* The registry implements Subscriptions.                                   *)

Status == [h \in Handlers |-> IF phase[h] \in {"none", "wrapping"} THEN "new"
                              ELSE IF h \in wanted THEN "on" ELSE "off"]
Topic == [h \in Handlers |-> IF phase[h] \in {"none", "wrapping"} THEN NoKey ELSE key[h]]

\* A step that only clears what the last emit called is invisible.
LEMMA Invisible ==
  ASSUME Status' = Status, Topic' = Topic, called' = NoEmit
  PROVE  Promised!Next
BY DEF Status, Topic, Promised!Next, Promised!Settle

\* Choosing a group is invisible: the listener is still new ...
LEMMA AddBeginRefines ==
  ASSUME TypeOK, NEW h \in Handlers, NEW k \in ListenKeys, AddBegin(h, k)
  PROVE  Promised!Next
<1>1. Status' = Status /\ Topic' = Topic
  BY DEF TypeOK, AddBegin, Status, Topic
<1>. QED BY <1>1, Invisible DEF AddBegin

\* ... and on once it is filed.
LEMMA AddFinishRefines ==
  ASSUME TypeOK, CallsHaveGroups, NEW h \in Handlers, AddFinish(h)
  PROVE  Promised!Next
<1>1. PICK k \in ListenKeys : k = key[h]
  BY DEF CallsHaveGroups, AddFinish
<1>2. Status[h] = "new" /\ called' = NoEmit
  BY DEF AddFinish, Status
<1>3. Status' = [Status EXCEPT ![h] = "on"]
  BY DEF TypeOK, AddFinish, Status
<1>4. Topic' = [Topic EXCEPT ![h] = k]
  BY <1>1 DEF TypeOK, AddFinish, Topic
<1>5. Promised!Subscribe(h, k)
  BY <1>2, <1>3, <1>4 DEF Promised!Subscribe, Status, Topic
<1>. QED BY <1>5 DEF Promised!Next

\* A listener that is still wanted goes off before unsubscribe awaits;
\* one that was cleared before is off already.
LEMMA UnsubscribeBeginRefines ==
  ASSUME TypeOK, NEW h \in Handlers, UnsubscribeBegin(h)
  PROVE  Promised!Next
<1>1. phase[h] = "subscribed" /\ called' = NoEmit /\ wanted' = wanted \ {h} /\ key' = key
  BY DEF UnsubscribeBegin
<1>2. \E p \in {"removing", "removed"} : phase' = [phase EXCEPT ![h] = p]
  BY DEF UnsubscribeBegin
<1>3. Topic' = Topic
  BY <1>1, <1>2 DEF TypeOK, Topic
<1>4. Status' = [Status EXCEPT ![h] = "off"]
  BY <1>1, <1>2 DEF TypeOK, Status
<1>5. CASE h \in wanted
  <2>1. Promised!Unsubscribe(h)
    BY <1>1, <1>3, <1>4, <1>5 DEF Promised!Unsubscribe, Status, Topic
  <2>. QED BY <2>1 DEF Promised!Next
<1>6. CASE h \notin wanted
  <2>1. Status' = Status
    BY <1>1, <1>4, <1>6 DEF Status
  <2>. QED BY <1>1, <1>3, <2>1, Invisible
<1>. QED BY <1>5, <1>6

\* What happens to the groups afterwards is invisible,
LEMMA UnsubscribeFinishRefines ==
  ASSUME TypeOK, NEW h \in Handlers, UnsubscribeFinish(h)
  PROVE  Promised!Next
<1>1. /\ phase[h] = "removing" /\ called' = NoEmit /\ wanted' = wanted /\ key' = key
      /\ \E p \in {"removed", "failed"} : phase' = [phase EXCEPT ![h] = p]
  BY DEF UnsubscribeFinish
<1>2. Status' = Status /\ Topic' = Topic
  BY <1>1 DEF TypeOK, Status, Topic
<1>. QED BY <1>1, <1>2, Invisible

\* here too.
LEMMA UnsubscribeAllFinishRefines ==
  ASSUME TypeOK, NEW g \in Groups, UnsubscribeAllFinish(g)
  PROVE  Promised!Next
<1>1. Status' = Status /\ Topic' = Topic /\ called' = NoEmit
  BY DEF UnsubscribeAllFinish, callVars, Status, Topic
<1>. QED BY <1>1, Invisible

\* What a wanted handler is filed under is what reaches it.
LEMMA ReachesWanted ==
  ASSUME TypeOK, RegistryInv, NEW h \in wanted, NEW k \in Keys
  PROVE  Promised!Reaches(k, h) <=> k \in Expand(key[h])
<1>1. /\ h \in Handlers /\ key[h] \in ListenKeys /\ Topic[h] = key[h] /\ Topic[h] # NoKey
  BY NothingsAreNothing DEF TypeOK, RegistryInv, WantedAreListed, CallsHaveGroups, Topic
<1>2. Promised!Reaches(k, h) <=> k = key[h] \/ (Wildcards /\ Denotes(k, key[h]))
  BY <1>1 DEF Promised!Reaches, Promised!Denotes, Promised!Deep, Promised!One, Denotes, Deep, One, Topic
<1>. QED BY <1>1, <1>2, ExpandIsDenotes

\* The listeners that are on are the wanted ones; every key of the registry is
\* a pattern of the subscriptions.
LEMMA StatusOfWanted ==
  ASSUME TypeOK, RegistryInv
  PROVE  /\ \A h \in Handlers : Status[h] = "on" <=> h \in wanted
         /\ Keys \subseteq Promised!Patterns
<1>1. \A h \in Handlers : Status[h] = "on" <=> h \in wanted
  BY DEF TypeOK, RegistryInv, WantedAreListed, Status
<1>2. \A k \in ListenKeys : Expand(k) \subseteq Promised!ExpandKey(k)
  BY DEF Expand, ExpandKey, Promised!ExpandKey, Promised!Deep, Promised!One, Deep, One
<1>. QED BY <1>1, <1>2 DEF Keys, Promised!Patterns

\* Both calls that clear keys are the same step on a set of keys.
LEMMA ClearRefines ==
  ASSUME TypeOK, RegistryInv, NEW ks \in SUBSET Keys, Clear(ks), NEW js,
         \A h \in wanted : (\E j \in js : Promised!Reaches(j, h)) <=> Expand(key[h]) \cap ks # {}
  PROVE  Promised!UnsubscribeAll(js)
<1>1. /\ wanted' = {h \in wanted : Expand(key[h]) \cap ks = {}}
      /\ phase' = phase /\ key' = key /\ called' = NoEmit
  BY DEF Clear, callVars
<1>2. Topic' = Topic
  BY <1>1 DEF Topic
<1>3. \A h \in Handlers : Status[h] = "on" <=> h \in wanted
  BY StatusOfWanted
<1>4. ASSUME NEW h \in Handlers
      PROVE  Status'[h] = IF Status[h] = "on" /\ \E j \in js : Promised!Reaches(j, h)
                            THEN "off" ELSE Status[h]
  <2>1. CASE h \in wanted
    BY <1>1, <1>3, <2>1 DEF Status, RegistryInv, WantedAreListed
  <2>2. CASE h \notin wanted
    BY <1>1, <1>3, <2>2 DEF Status
  <2>. QED BY <2>1, <2>2
<1>5. Status' = [h \in Handlers |-> IF Status[h] = "on" /\ \E j \in js : Promised!Reaches(j, h)
                                      THEN "off" ELSE Status[h]]
  BY <1>4 DEF Status
<1>. QED BY <1>1, <1>2, <1>5 DEF Promised!UnsubscribeAll, Status, Topic

\* Both forms of unsubscribeAll clear the subscriptions their keys denote.
LEMMA UnsubscribeAllRefines ==
  ASSUME TypeOK, RegistryInv,
         UnsubscribeAll \/ \E k \in Keys : UnsubscribeAllOfKey(k)
  PROVE  Promised!Next
<1>1. \A h \in wanted : key[h] \in ListenKeys
  BY DEF TypeOK, RegistryInv, WantedAreListed, CallsHaveGroups
<1>2. ASSUME NEW k \in Keys, Clear({k})
      PROVE  Promised!Next
  <2>1. \A h \in wanted : (\E j \in {k} : Promised!Reaches(j, h)) <=> Expand(key[h]) \cap {k} # {}
    BY ReachesWanted
  <2>2. Promised!UnsubscribeAll({k})
    BY <1>2, <2>1, ClearRefines
  <2>. QED BY <2>2, StatusOfWanted DEF Promised!Next
<1>3. ASSUME Wildcards, Clear({<<Deep>>} \cap Keys)
      PROVE  Promised!Next
  <2>1. <<Deep>> \in Keys
    BY <1>3 DEF Clear
  <2>2. {<<Deep>>} \cap Keys = {<<Deep>>}
    BY <2>1
  <2>. QED BY <1>2, <1>3, <2>1, <2>2
<1>4. ASSUME ~Wildcards, Clear(Keys)
      PROVE  Promised!Next
  <2>1. ASSUME NEW h \in wanted
        PROVE  (\E j \in Promised!Patterns : Promised!Reaches(j, h)) /\ Expand(key[h]) \cap Keys # {}
    <3>1. PICK k \in Keys : k \in Expand(key[h])
      BY <1>1, ExpandFacts
    <3>2. Promised!Reaches(k, h)
      BY <3>1, ReachesWanted
    <3>. QED BY <3>1, <3>2, StatusOfWanted
  <2>2. Promised!UnsubscribeAll(Promised!Patterns)
    BY <1>4, <2>1, ClearRefines
  <2>. QED BY <2>2 DEF Promised!Next
<1>. QED BY <1>2, <1>3, <1>4, WildcardsIsBoolean DEF UnsubscribeAll, UnsubscribeAllOfKey

\* An emit calls the listeners that are on and that its key reaches.
LEMMA EmitRefines ==
  ASSUME TypeOK, RegistryInv, NEW k \in Keys, Emit(k)
  PROVE  Promised!Next
<1>1. wanted' = wanted /\ key' = key /\ phase' = phase
  BY DEF Emit, callVars
<1>2. called' = [key |-> k, to |-> {h \in Handlers : Status[h] = "on" /\ Promised!Reaches(k, h)},
                 ok |-> TRUE]
  <2>1. {h \in Handlers : Status[h] = "on" /\ Promised!Reaches(k, h)}
          = {h \in wanted : k \in Expand(key[h])}
    BY ReachesWanted, StatusOfWanted DEF TypeOK
  <2>. QED BY <2>1, EmitReaches
<1>3. Status' = Status /\ Topic' = Topic
  BY <1>1 DEF Status, Topic
<1>4. Promised!Emit(k)
  BY <1>2, <1>3 DEF Promised!Emit, Promised!On, Status, Topic
<1>. QED BY <1>4, StatusOfWanted DEF Promised!Next

\* Each step of the registry, its awaits and its groups included, is a step of
\* the subscriptions its users see, or invisible to them.
THEOREM RegistryImplementsSubscriptions ==
  ASSUME SafeOverlap
  PROVE  Spec => ImplementsSubscriptions
<1>1. Init => Promised!Init
  BY DEF Init, Promised!Init
<1>2. TypeOK /\ RegistryInv /\ [Next]_vars => [Promised!Next]_(Promised!vars)
  <2>. SUFFICES ASSUME TypeOK, RegistryInv, [Next]_vars
                PROVE  [Promised!Next]_(Promised!vars)
    OBVIOUS
  <2>1. CASE Next
    BY <2>1, AddBeginRefines, AddFinishRefines, UnsubscribeBeginRefines,
       UnsubscribeFinishRefines, UnsubscribeAllRefines, UnsubscribeAllFinishRefines,
       EmitRefines DEF Next, RegistryInv
  <2>2. CASE UNCHANGED vars
    BY <2>2 DEF vars, callVars, Promised!vars
  <2>. QED BY <2>1, <2>2
<1>. QED BY <1>1, <1>2, TypeCorrect, RegistryCorrect, PTL
     DEF Spec, ImplementsSubscriptions, Promised!Spec
=============================================================================
