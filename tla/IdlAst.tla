------------------------------- MODULE IdlAst -------------------------------
(***************************************************************************)
(* compiler/ast.hpp: the definitions of an input file, as the parser of    *)
(* songc leaves them and its other passes read them.                       *)
(***************************************************************************)
EXTENDS Integers, Sequences, SequencesExt, FiniteSetsExt, Functions

Primitives == {"bool", "i8", "i16", "i32", "i64", "u8", "u16", "u32", "u64",
               "f32", "f64", "string", "bytes", "void"}

NoType == [base |-> "void", dims |-> 0, opt |-> FALSE]
IsPrimitive(t) == t.base \in Primitives
IsVoid(t) == t.base = "void"          \* whatever modifiers follow it

Elem(t) == [t EXCEPT !.dims = @ - 1]

\* The C++ type: an array loses its optional mark.
TypeToCpp(t) == [t EXCEPT !.opt = @ /\ t.dims = 0]

\* The members of one kind, in the order of the file.
Vector(members, kind) == SelectSeq(members, LAMBDA m : m.kind = kind)

\* A definition: fields are those of a struct or an error, or the items of an enum.
Definition(kind, name, base, members, doc, loc) ==
  [kind |-> kind, name |-> name, base |-> base,
   fields |-> Vector(members, IF kind \in {"enum", "flags"} THEN "item" ELSE "field"),
   properties |-> Vector(members, "property"), constructors |-> Vector(members, "constructor"),
   methods |-> Vector(members, "method"), doc |-> doc, loc |-> loc]

\* A namespace: a vector for each kind of definition.
Namespace(defs) ==
  LET of(kinds) == SelectSeq(defs, LAMBDA d : d.kind \in kinds)
  IN [enums |-> of({"enum", "flags"}), structs |-> of({"struct"}), classes |-> of({"class"}),
      services |-> of({"service"}), errors |-> of({"error"})]

Empty == [enums |-> <<>>, structs |-> <<>>, classes |-> <<>>, services |-> <<>>, errors |-> <<>>]

\* All definitions, kind by kind, and all members of one.
Registered(ns) == ns.enums \o ns.structs \o ns.classes \o ns.services \o ns.errors
Definitions(ns) == Range(Registered(ns))
Members(d) ==
  Range(d.fields) \cup Range(d.properties) \cup Range(d.constructors) \cup Range(d.methods)

Names(xs) == {x.name : x \in xs}
TypesIn(m) == {m.type} \cup {p.type : p \in Range(m.params)}
=============================================================================
