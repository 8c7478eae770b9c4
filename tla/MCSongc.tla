------------------------------ MODULE MCSongc ------------------------------
(* The compiler on small inputs: every text of a few characters for the      *)
(* lexer, and families of .song files for the passes that follow it.         *)
EXTENDS Songc, IdlParser, TLC

CONSTANT MaxText         \* characters of a text given to the lexer

VARIABLES text, place, lexemes     \* a text, and how far the lexer has come in it

lexVars == <<text, place, lexemes>>

Characters == {"a", "x", "0", "9", "/", "-", ">", ";", "n", " ", "#"}
Texts == UNION {[1..k -> Characters] : k \in 1..MaxText}

LexerDone == lexemes # <<>> /\ Last(lexemes).type \in {"Eof", "Bad"}

Lex ==
  LET t == NextToken(text, place) IN
  /\ text # <<>> /\ ~LexerDone
  /\ lexemes' = Append(lexemes, t) /\ place' = t.to
  /\ UNCHANGED <<text, vars>>

------------------------------------------------------------------------------
(* Writing definitions down: the grammar of docs/ and the README.            *)

Tok(k) == <<k, k>>
Id(n) == <<"Identifier", n>>
EOF == <<"Eof", "">>

Flat(seqs) == FoldLeft(LAMBDA a, s : a \o s, <<>>, seqs)
Joined(seqs) ==
  FoldLeft(LAMBDA a, s : IF a = <<>> THEN s ELSE a \o <<Tok(",")>> \o s, <<>>, seqs)
Places(xs) == [i \in DOMAIN xs |-> i]
Each(xs, P(_)) == [i \in DOMAIN xs |-> P(xs[i])]

Modifiers(t) ==
  Flat([i \in 1..t.dims |-> <<Tok("["), Tok("]")>>]) \o IF t.opt THEN <<Tok("?")>> ELSE <<>>
TypeName(t) == IF IsPrimitive(t) THEN <<Tok(t.base)>> ELSE <<Id(t.base)>>
PrintType(t) == TypeName(t) \o Modifiers(t)
PrintParams(ps) ==
  <<Tok("(")>> \o Joined(Each(ps, LAMBDA p : PrintType(p.type) \o <<Id(p.name)>>)) \o <<Tok(")")>>

\* A style is what follows the last item of an enum, and whether the modifiers of a
\* property's type come before its name, as README.md:293 has it.  The grammar has
\* those of a writable property of a user type after it.
PrintMember(class, m, style) ==
  CASE m.kind = "item" ->
         <<Id(m.name)>> \o (IF m.value = <<>> THEN <<>> ELSE <<Tok("="), <<"Integer", m.value[1]>>>>)
    [] m.kind = "field" -> PrintType(m.type) \o <<Id(m.name), Tok(";")>>
    [] m.kind = "property" ->
         (IF m.readonly THEN <<Tok("readonly")>> ELSE <<>>)
         \o (IF IsPrimitive(m.type) \/ m.readonly \/ style.documented THEN PrintType(m.type) \o <<Id(m.name)>>
             ELSE TypeName(m.type) \o <<Id(m.name)>> \o Modifiers(m.type))
         \o <<Tok(";")>>
    [] m.kind = "constructor" -> <<Id(class)>> \o PrintParams(m.params) \o <<Tok(";")>>
    [] m.kind = "method" ->
         (IF m.mode = "unary" THEN <<>> ELSE <<Tok(m.mode)>>)
         \o <<Id(m.name)>> \o PrintParams(m.params) \o <<Tok("->")>> \o PrintType(m.type)
         \o (IF m.throws = <<>> THEN <<>>
             ELSE <<Tok("throws")>> \o Joined(Each(m.throws, LAMBDA e : <<Id(e)>>)))
         \o <<Tok(";")>>

PrintDefinition(d, style) ==
  LET parts == Each(d.members, LAMBDA m : PrintMember(d.name, m, style))
  IN <<Tok(d.kind), Id(d.name)>> \o (IF d.base = "" THEN <<>> ELSE <<Tok(":"), Id(d.base)>>)
     \o <<Tok("{")>> \o (IF d.kind \in {"enum", "flags"} THEN Joined(parts) \o style.last ELSE Flat(parts))
     \o <<Tok("}")>>

PrintFile(defs, style) ==
  <<Tok("namespace"), Id("demo"), Tok(";")>>
  \o Flat(Each(defs, LAMBDA d : PrintDefinition(d, style))) \o <<EOF>>

Plain == [last |-> <<>>, documented |-> FALSE]
Written(defs) == PrintFile(defs, Plain)
WithComma(defs) == PrintFile(defs, [Plain EXCEPT !.last = <<Tok(",")>>])
AsDocumented(defs) == PrintFile(defs, [Plain EXCEPT !.documented = TRUE])

\* The definitions of a namespace, and the members of each, as the file has them.
InFile(nodes) ==
  [i \in 1..Cardinality(nodes) |->
     CHOOSE n \in nodes : Cardinality({m \in nodes : m.loc <= n.loc}) = i]
Listed(ns) ==
  Each(InFile(Definitions(ns)),
       LAMBDA d : [kind |-> d.kind, name |-> d.name, base |-> d.base, members |-> InFile(Members(d))])

Named(src) == ReplaceAt(src, 2, Id("demo"))     \* the namespace's name aside

\* A text as the grammar would write it: no doc comment, no comma after the
\* last item of an enum.
Canonical(src) ==
  LET code == SelectSeq(src, LAMBDA t : t[1] # "DocComment")
      at == SelectSeq(Places(code), LAMBDA i : ~(code[i][1] = "," /\ code[i + 1][1] = "}"))
  IN [i \in DOMAIN at |-> code[at[i]]]

------------------------------------------------------------------------------
(* The inputs.                                                               *)

T(base) == [base |-> base, dims |-> 0, opt |-> FALSE]
Arr(base, n) == [T(base) EXCEPT !.dims = n]
OptArr(base, n) == [Arr(base, n) EXCEPT !.opt = TRUE]
Opt(base) == [T(base) EXCEPT !.opt = TRUE]

Mem(kind, name, type) ==
  [kind |-> kind, name |-> name, type |-> type, readonly |-> FALSE, params |-> <<>>,
   throws |-> <<>>, mode |-> "unary", value |-> <<>>, doc |-> <<>>, loc |-> 0]
Def(kind, name, base, members) == [kind |-> kind, name |-> name, base |-> base, members |-> members]
Fld(name, type) == Mem("field", name, type)
Item(name, value) == [Mem("item", name, NoType) EXCEPT !.value = value]
Par(name, type) == [name |-> name, type |-> type]
Op(name, md, params, type) ==
  [Mem("method", name, type) EXCEPT !.params = params, !.mode = md]
Ctor(params) == [Mem("constructor", "", NoType) EXCEPT !.params = params]
Prop(name, type, readonly) == [Mem("property", name, type) EXCEPT !.readonly = readonly]

Project(texts, modes, n) == [texts |-> texts, modes |-> modes, runs |-> n]

\* Definitions of every kind, with every kind of member.
Sample == <<
  Def("enum", "E", "", <<Item("p", <<2>>), Item("q", <<>>)>>),
  Def("flags", "F", "", <<Item("p", <<>>)>>),
  Def("struct", "S", "", <<Fld("e", T("E")), Fld("n", Arr("i32", 2))>>),
  Def("struct", "D", "S", <<Fld("f", T("F"))>>),
  Def("error", "X", "", <<Fld("s", Opt("S"))>>),
  Def("error", "Y", "X", <<>>),
  Def("class", "C", "", <<Prop("r", T("S"), TRUE), Prop("w", Arr("S", 1), FALSE),
                          Prop("v", Arr("i32", 1), FALSE), Ctor(<<Par("a", T("i32"))>>),
                          Op("m", "unary", <<>>, T("void")), Op("o", "optional", <<>>, T("E"))>>),
  Def("class", "B", "C", <<>>),
  Def("service", "V", "", <<[Op("u", "unary", <<Par("a", T("S")), Par("b", T("bool"))>>, T("E"))
                               EXCEPT !.throws = <<"X", "Y">>],
                            Op("t", "stream", <<>>, T("S")), Op("o", "optional", <<>>, T("void"))>>)>>

SampleText == Written(Sample)

Without(src, i) == RemoveAt(src, i)
DocToken == <<"DocComment", "">>
Slips == {Tok(","), Tok(";"), Tok("}"), Tok("optional"), Id("C"), <<"Bad", "">>}

\* The sample with doc comments: they may stand before any token.
CommentedTexts ==
  {InsertAt(SampleText, i, DocToken) : i \in 1..Len(SampleText)}
  \cup {InsertAt(InsertAt(SampleText, i, DocToken), i, DocToken) : i \in 1..Len(SampleText)}

\* The sample with a token missing, replaced or put in.
EditedTexts ==
  {Without(SampleText, i) : i \in 1..Len(SampleText) - 1}
  \cup {ReplaceAt(SampleText, i, t) : i \in 1..Len(SampleText) - 1, t \in Slips}
  \cup {InsertAt(SampleText, i, Tok(",")) : i \in 1..Len(SampleText)}

Bases == {"", "A", "B", "C"}
Body(kind, f) == IF kind = "class" THEN <<Prop(f, T("i32"), FALSE)>> ELSE <<Fld(f, T("i32"))>>

\* Three definitions that inherit in every way, and names that clash.
Hierarchies ==
  {<<Def(k[1], "A", b[1], Body(k[1], "f")), Def(k[2], "B", b[2], Body(k[2], "g")),
     Def(k[3], "C", b[3], Body(k[3], "f"))>> :
     k \in [1..3 -> {"struct", "error", "class"}], b \in [1..3 -> Bases]}

Wrong == {
  <<Def("struct", "A", "Z", <<>>)>>,
  <<Def("struct", "A", "", <<>>), Def("enum", "A", "", <<>>)>>,
  <<Def("struct", "A", "", <<Fld("f", T("Z"))>>)>>,
  <<Def("service", "V", "", <<Op("m", "unary", <<>>, T("void")), Op("m", "stream", <<>>, T("i32"))>>)>>,
  <<Def("service", "V", "", <<Op("m", "unary", <<Par("a", T("Z"))>>, T("void"))>>)>>,
  <<Def("struct", "S", "", <<>>),
    Def("service", "V", "", <<[Op("m", "unary", <<>>, T("void")) EXCEPT !.throws = <<"S">>]>>)>>}

Values == {<<>>, <<0>>, <<1>>, <<3>>}
Numberings ==
  {<<Def(k, "E", "", <<Item("p", v[1]), Item("q", v[2]), Item("r", v[3])>>)>> :
     k \in {"enum", "flags"}, v \in [1..3 -> Values]}

\* Types a member may have; S is a struct, D a struct of it, E an enum.
SomeTypes == {T("i32"), T("string"), T("S"), T("E"), Opt("i32"), Arr("i32", 1), Arr("i32", 2),
              OptArr("i32", 2), OptArr("i32", 1), OptArr("S", 1), Arr("bytes", 1), Arr("bool", 1),
              Arr("S", 1), Arr("E", 1), Arr("S", 2), T("D")}
Types0 == <<Def("enum", "E", "", <<Item("p", <<>>)>>), Def("struct", "S", "", <<Fld("x", T("i32"))>>)>>

Layouts ==
  {Types0 \o <<Def("struct", "D", "", <<Fld("a", t), Fld("b", u)>>)>> :
     t \in SomeTypes, u \in SomeTypes}
  \cup {<<Def("struct", "D", "", <<Fld("a", t)>>)>> \o Types0 : t \in {T("S"), Arr("S", 1), T("E")}}

\* Names that hold what the Python generator replaces.
Renamings ==
  {Types0 \o <<Def("struct", n, "", <<Fld("x", T("i32"))>>),
               Def("struct", "D", "", <<Fld("a", T("i64")), Fld(f, t)>>)>> :
     n \in {"Freq", "Corresp"}, f \in {"b", "freq"},
     t \in UNION {{T(b), Opt(b), Arr(b, 1)} : b \in {"i32", "Freq", "Corresp"}}}

Modes1 == {"unary", "stream"}
Contracts ==
  {Types0 \o <<Def("service", "V", "", <<Op("m", m[1], <<Par("a", t), Par("b", T("i32"))>>, T("void")),
                                          Op("n", m[2], <<>>, t)>>),
               Def("service", "W", "", <<Op("m", m[3], <<>>, T("i32")),
                                          Op("o", "optional", <<Par("c", t)>>, T("S"))>>)>> :
     m \in [1..3 -> Modes1], t \in SomeTypes \ {T("D")}}

Streaming == {Types0 \o <<Def("service", "V", "", <<Op("m", "stream", <<>>, t)>>)>> : t \in SomeTypes}

Objects ==
  {Types0 \o <<Def("class", "A", "", <<Prop("p", t, r), Prop("q", T("i32"), FALSE),
                                        Op("m", "unary", <<Par("a", t)>>, T("i32"))>>
                                     \o SubSeq(<<Ctor(<<>>), Ctor(<<Par("a", t)>>)>>, 1, n)),
               Def("class", "B", b, <<Prop("z", T("i32"), FALSE), Op("m", "unary", <<>>, t)>>)>> :
     t \in {T("i32"), T("S"), Arr("i32", 1), T("B")}, r \in BOOLEAN, n \in 0..2, b \in {"", "A"}}

\* What a developer makes of a file: methods that come, go and change.
Iface(methods) == Types0 \o <<Def("service", "V", "", methods)>>
Old == Op("m", "unary", <<Par("a", T("i32"))>>, T("S"))
Changed == Op("m", "unary", <<Par("a", T("i64"))>>, T("S"))
Added == Op("n", "unary", <<>>, Arr("S", 1))
Stream == Op("s", "stream", <<>>, T("i32"))
Histories == {<<Written(Iface(<<Old>>)), Written(Iface(ms))>> :
                ms \in {<<Changed>>, <<Added>>, <<Old, Added>>, <<Added, Changed, Stream>>}}
  \cup {<<Written(Iface(<<Old>>)), InsertAt(Written(Iface(<<Changed>>)), i, DocToken)>> :
          i \in {7, 12}}      \* before the item of E, the field of S

Idle == Project(<<SampleText>>, {}, 0)     \* while a text is lexed

\* What the grammar writes in this run, and what the README's form would be where
\* the grammar has another.
Families == Hierarchies \cup Wrong \cup Numberings \cup Layouts \cup Renamings \cup Contracts
            \cup Streaming \cup Objects \cup {Sample}
GrammarTexts ==
  {Written(defs) : defs \in Families} \cup {WithComma(defs) : defs \in Numberings \cup {Sample}}
  \cup CommentedTexts
DocumentedTexts == {AsDocumented(defs) : defs \in Objects \cup {Sample}} \ GrammarTexts

TheProjects ==
  {Idle}
  \cup {Project(<<src>>, {"single"}, 1) : src \in EditedTexts \cup GrammarTexts \cup DocumentedTexts}
  \cup {Project(texts, {"single", "scaffold"}, 4) : texts \in Histories}
  \cup {Project(<<SampleText, Without(SampleText, 4)>>, {"split", "python"}, 2)}

------------------------------------------------------------------------------
MCInit ==
  /\ Init
  /\ place = 1 /\ lexemes = <<>>
  /\ \/ text = <<>>
     \/ text \in Texts /\ project = Idle

MCNext == Lex \/ (Next /\ UNCHANGED lexVars)
MCSpec == MCInit /\ [][MCNext]_<<vars, lexVars>>
------------------------------------------------------------------------------
(* What must hold.                                                           *)

\* Lexing (lexer.cpp next_token, skip_whitespace): the lexemes tile the text,
\* what lies between them is blank or a comment, each is what the lexer makes
\* of its characters alone, and its line is the one it begins on.
LexemesTile ==
  \A i \in DOMAIN lexemes :
    LET t == lexemes[i]
        before == SubSeq(text, IF i = 1 THEN 1 ELSE lexemes[i - 1].to, t.from - 1)
        alone == NextToken(SubSeq(text, t.from, t.to - 1), 1)
        body == SelectSeq(before, LAMBDA c : c \notin {" ", "n"})
    IN /\ t.type \notin {"Eof", "Bad"} =>
            alone.type = t.type /\ alone.from = 1 /\ alone.to = t.to - t.from + 1
       /\ body # <<>> => \E k \in 1..Len(before) - 1 : before[k] = "/" /\ before[k + 1] = "/"
       /\ i > 1 => t.line = lexemes[i - 1].line
                     + Cardinality({k \in lexemes[i - 1].from..t.from - 1 : Char(text, k) = "n"})

Nodes(ns) == Definitions(ns) \cup UNION {Members(d) : d \in Definitions(ns)}

\* The doc comments that begin after the node before n and before n itself.
DocsBefore(n) ==
  LET earlier == {m.loc : m \in Nodes(ast)} \cap (1..n.loc - 1)
  IN SelectSeq(Places(Source), LAMBDA p :
       Source[p][1] = "DocComment" /\ p < n.loc /\ \A e \in earlier : e < p)

\* Parsing (parser.cpp parse, advance, take_doc): what the parser accepts is a
\* text of the grammar, and its definitions are those the text writes down,
\* whatever trailing commas stand in it; each doc comment is found, in order, at the
\* definition or member that begins next after it, and nowhere else; no text that
\* the grammar writes in this run, with a comma after the last item of an enum or
\* doc comments anywhere, is refused; but every text is where a writable property of
\* a user type has its modifiers as README.md:293 writes them, before the name.
ParserExact ==
  /\ pass = "resolve" => /\ Written(Listed(ast)) = Named(Canonical(Source))
                         /\ \A n \in Nodes(ast) : n.doc = DocsBefore(n)
                         /\ Source \notin DocumentedTexts
  /\ status \in {"error", "abort"} /\ ast = Empty => Source \notin GrammarTexts

\* Without recursion: a set of types that all have their bases in the set.
CyclicBases(defs) ==
  \E S \in SUBSET Names(Range(defs)) \ {{}} : \A d \in Range(defs) : d.name \in S => d.base \in S

Above(defs, a, b) ==     \* b is a base of a, at some distance
  LET names == Names(Range(defs)) IN
  \A S \in SUBSET names :
    (\A d \in Range(defs) : (d.name = a \/ d.name \in S) /\ d.base \in names => d.base \in S) => b \in S

WellFormed(defs) ==
  /\ Cardinality(Names(Range(defs))) = Len(defs)
  /\ ~CyclicBases(defs)
  /\ \A d \in Range(defs) :
       /\ d.base # "" => \E e \in Range(defs) : e.name = d.base /\ e.kind = d.kind
       /\ \A m \in Range(d.members) : \A t \in TypesIn(m) :
            IsPrimitive(t) \/ t.base \in Names(Range(defs))
       /\ \A m \in Range(d.members) : \A e \in Range(m.throws) :
            \E x \in Range(defs) : x.name = e /\ x.kind = "error"
       /\ LET named == IF d.kind = "class" THEN Vector(d.members, "method") ELSE d.members
          IN Cardinality(Names(Range(named))) = Len(named)
       /\ d.kind \in {"struct", "error"} =>
            \A e \in Range(defs) : Above(defs, d.name, e.name) =>
              Names(Range(d.members)) \cap Names(Range(e.members)) = {}
       /\ d.kind \in {"enum", "flags"} => IsInjective(PyEnumValues([fields |-> d.members]))

\* Resolution (resolver.cpp resolve): the compiler accepts exactly the well-formed
\* definitions, inheritance without cycles, inherited names and the values of
\* enum items included.
ResolverExact ==
  /\ pass = "write" => WellFormed(Listed(ast))
  /\ pass = "idle" /\ status = "error" /\ ast # Empty /\ todo = <<>> => ~WellFormed(Listed(ast))

\* The values the resolver checked are those of the C++ names and of Python.
EnumsAgree ==
  \A d \in Range(ast.enums) :
    /\ PyEnumValues(d) = AutoValues(d.fields) /\ EnumEncode(d) = EnumDecode(d)
    /\ \A i \in DOMAIN d.fields : EnumName(d, AutoValues(d.fields)[i]) = {d.fields[i].name}

RECURSIVE Bytes(_)
\* The loops that a C++ codec call runs, down to what it writes.
Bytes(call) ==
  CASE call[1] = "array" -> <<"sequence", Bytes(EncodeCall(call[2]))>>
    [] call[1] = "userArray" -> <<"sequence", <<"userType", call[2]>>>>
    [] call[1] = "optional" -> <<"optional", Bytes(call[2])>>
    [] OTHER -> call

\* The struct's C++ codec, by attributes.
CppStruct(d, calls) == [i \in DOMAIN d.fields |-> <<d.fields[i].name, Bytes(calls[i])>>]

PyStructAgrees(d) ==
  LET types == {f.type.base : f \in Range(d.fields)} IN
  /\ (PyStructEncode(d) = CppStruct(d, StructEncode(d)))
       <=> (Names(Range(d.fields)) \cup types) \cap HasReq = {}
  /\ (PyStructDecode(d) = CppStruct(d, StructDecode(d))) <=> types \cap HasResp = {}

PyCallAgrees(ns, s, i) ==
  LET request == ServiceProxy(ns, s, i) IN
  PyProxy(ns, s, i) =
    [service |-> request.service, method |-> request.method,
     args |-> [k \in DOMAIN request.args |-> Bytes(request.args[k])],
     reply |-> [k \in DOMAIN request.reply |-> Bytes(request.reply[k])]]

PyKnows(ns, t) == PyCodec(ns, t) /\ (t.opt => t.dims = 0)

\* Python (python_codegen.cpp encode_call, decode_call, generate_struct_def,
\* generate_enum_def, generate_service_ids, generate_service_proxy): enums have the
\* values they have in C++.  In a module that imports, where no type is an enum, for
\* which there is no Python codec, or an optional array:
\* - a struct's fields are written as the C++ header does it exactly when no field
\*   and no field's type has a "req" in its name, which python_codegen.cpp:226 makes
\*   "buf", and read so exactly when no field's type has a "resp" in its name;
\* - a method's call is that of the C++ proxy exactly when it is no stream and no
\*   service before its own has one (README.md:755 has the ids agree).
PythonAgrees ==
  pass = "write" =>
    /\ EnumsAgree
    /\ PyImports(ast) =>
         /\ \A d \in Range(ast.structs) :
              (\A f \in Range(d.fields) : PyKnows(ast, f.type)) => PyStructAgrees(d)
         /\ \A c \in Calls(ast) :
              LET m == ast.services[c[1]].methods[c[2]] IN
              (\A t \in TypesIn(m) : PyKnows(ast, t)) =>
                (PyCallAgrees(ast, c[1], c[2])
                  <=> m.mode # "stream" /\ \A s \in 1..c[1] - 1 : ~HasStream(ast.services[s]))
=============================================================================
