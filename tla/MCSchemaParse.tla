--------------------------- MODULE MCSchemaParse ---------------------------
(* Schemas of an object with two keys, of which one may be an object or a   *)
(* union, for an adapter that lacks a validation and unions.                *)
EXTENDS SchemaParse, TLC

Schema(kind, parent, children) ==
  [kind |-> kind, parent |-> parent, children |-> children, type |-> "number", limit |-> "none",
   parser |-> "none", toInternal |-> FALSE, optional |-> FALSE, lazy |-> FALSE, message |-> "default"]

Leaf(parent) == Schema("leaf", parent, << >>)
Limited(parent) == [Leaf(parent) EXCEPT !.limit = "palmares"]
Text(parent) == [Leaf(parent) EXCEPT !.type = "string"]

\* A limit and a parser the adapter does not have.
Flat == "root" :> Schema("object", "root", <<"a", "b">>)
        @@ "a" :> Limited("root")
        @@ "b" :> [Leaf("root") EXCEPT !.parser = "palmares", !.limit = "adapter"]

\* A model schema, one of whose fields is turned into something else.
Lazy == "root" :> [Schema("object", "root", <<"a", "b">>) EXCEPT !.lazy = TRUE]
        @@ "a" :> [Limited("root") EXCEPT !.toInternal = TRUE]
        @@ "b" :> [Text("root") EXCEPT !.optional = TRUE]

\* An object in the object.
Nested == "root" :> Schema("object", "root", <<"o", "b">>)
          @@ "o" :> Schema("object", "root", <<"a">>)
          @@ "a" :> [Limited("o") EXCEPT !.optional = TRUE]
          @@ "b" :> Text("root")

\* A union of a number and a text.
Either == "root" :> Schema("object", "root", <<"u">>)
          @@ "u" :> Schema("union", "root", <<"x", "y">>)
          @@ "x" :> Limited("u")
          @@ "y" :> [Text("u") EXCEPT !.limit = "palmares"]

MCTrees == {Flat, Lazy, Nested, Either}
Symmetry == Permutations(Calls)
=============================================================================
