------------------------------ MODULE EventKeys ------------------------------
(***************************************************************************)
(* The names under which packages/events files a listener.  A key is the   *)
(* sequence of its segments ("create.users" is <<"create", "users">>), so   *)
(* the delimiter itself is abstracted away.                                *)
(***************************************************************************)
EXTENDS Sequences, Naturals

One == "*"     \* stands for the last segment
Deep == "**"   \* stands for everything that follows
Segments == STRING \cup {One, Deep}

ExpandKeyOneMore(key) ==  \* mutant: the loop goes one segment too far
  {<<Deep>>}
    \cup {Append(SubSeq(key, 1, i), Deep) : i \in 1..Len(key)}
    \cup {Append(SubSeq(key, 1, Len(key) - 1), One), key}

\* All keys a group is filed under when wildcards are on: the group of
\* "create.users" is found under **, create.**, create.* and create.users.
ExpandKey(key) ==
  {<<Deep>>}
    \cup {Append(SubSeq(key, 1, i), Deep) : i \in 1..(Len(key) - 1)}
    \cup {Append(SubSeq(key, 1, Len(key) - 1), One), key}

Plain(key) == key # << >> /\ \A i \in DOMAIN key : key[i] \notin {One, Deep}

\* What the patterns are meant to denote, stated without the loop: a final *
\* takes exactly one segment, a final ** takes one or more.
Denotes(pattern, key) ==
  LET stem == SubSeq(pattern, 1, Len(pattern) - 1)
      last == pattern[Len(pattern)]
      begins == Len(stem) < Len(key) /\ SubSeq(key, 1, Len(stem)) = stem
  IN  \/ pattern = key
      \/ last = Deep /\ begins
      \/ last = One /\ begins /\ Len(key) = Len(pattern)
=============================================================================
