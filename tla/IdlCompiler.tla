----------------------------- MODULE IdlCompiler -----------------------------
(* compiler/resolver.cpp, codegen.cpp, python_codegen.cpp: what songc makes  *)
(* of the definitions of a file.                                             *)
(*                                                                           *)
(* Generated text is kept as far as it matters: the wire functions it calls  *)
(* and in which order, the ids it puts into a request or switches on, and    *)
(* the names each piece of the header defines and needs.                     *)
EXTENDS IdlAst

CONSTANTS HasReq, HasResp    \* the names with "req" in them, and those with "resp"

------------------------------------------------------------------------------
(* The resolver.                                                             *)

\* register_types goes through the kinds one by one; the first of two types
\* with one name is the one in the symbol table.
TypeExists(ns, name) == name \in Names(Definitions(ns))
Lookup(ns, name) ==
  LET all == Registered(ns) IN all[Min({i \in DOMAIN all : all[i].name = name})]
Base(ns, name) == IF TypeExists(ns, name) THEN Lookup(ns, name).base ELSE ""

DuplicateTypes(ns) ==
  LET all == Registered(ns)
  IN {i \in DOMAIN all : \E j \in 1..i - 1 : all[j].name = all[i].name}

\* A type, its base, the base of that and so on, "" after the last of them: in
\* as many steps as there are types one comes twice if they go round.
Chain(ns, name) ==
  LET chain[i \in 0..Len(Registered(ns))] == IF i = 0 THEN name ELSE Base(ns, chain[i - 1])
  IN chain

\* Mutant: only a type that is its own base is a cycle.
DetectSelfBase(ns, name) == Base(ns, name) = name

\* has_inheritance_cycle: a name is visited again.
DetectCycle(ns, name) ==
  LET chain == Chain(ns, name)
  IN \E i, j \in DOMAIN chain : i < j /\ chain[i] = chain[j] /\ chain[i] # ""

Kind(d) == IF d.kind = "flags" THEN "enum" ELSE d.kind
ValidInheritance(ns, d) ==
  d.base # "" => TypeExists(ns, d.base) /\ Kind(Lookup(ns, d.base)) = Kind(d)

ValidType(ns, t) == IsPrimitive(t) \/ TypeExists(ns, t.base)

ValidMethod(ns, m) ==
  /\ \A t \in TypesIn(m) : ValidType(ns, t)
  /\ \A e \in Range(m.throws) : TypeExists(ns, e) /\ Lookup(ns, e).kind = "error"

NoDuplicates(members) ==
  \A i, j \in DOMAIN members : members[i].name = members[j].name => i = j

\* The bases of a type, as far as they go.
Ancestors(ns, name) == {Chain(ns, name)[i] : i \in 1..Len(Registered(ns))}

InheritedFields(ns, name) ==
  UNION {Names(Range(d.fields)) :
           d \in {e \in Range(ns.structs \o ns.errors) : e.name \in Ancestors(ns, name)}}

ValidFields(ns, d) ==
  /\ NoDuplicates(d.fields)
  /\ \A f \in Range(d.fields) : f.name \notin InheritedFields(ns, d.name)

\* The value of every enum item: its own, or the one before it plus one.
AutoValues(items) ==
  FoldLeft(LAMBDA vals, item :
             Append(vals, IF item.value # <<>> THEN item.value[1]
                          ELSE IF vals = <<>> THEN 0 ELSE vals[Len(vals)] + 1),
           <<>>, items)

ValidEnum(d) == NoDuplicates(d.fields) /\ IsInjective(AutoValues(d.fields))

ValidDefinition(ns, d) ==
  /\ ValidInheritance(ns, d)
  /\ ~DetectCycle(ns, d.name)
  /\ CASE d.kind \in {"enum", "flags"} -> ValidEnum(d)
       [] d.kind \in {"struct", "error"} ->
            (\A f \in Range(d.fields) : ValidType(ns, f.type)) /\ ValidFields(ns, d)
       [] OTHER -> (\A m \in Members(d) : ValidMethod(ns, m)) /\ NoDuplicates(d.methods)

Resolve(ns) == DuplicateTypes(ns) = {} /\ \A d \in Definitions(ns) : ValidDefinition(ns, d)

------------------------------------------------------------------------------
(* C++: a codec call is <<function, what it is for>>.                        *)

EncodeValue(t) == IF IsPrimitive(t) THEN <<"primitive", t.base>> ELSE <<"userType", t.base>>
EncodeCall(t) ==
  IF t.dims > 0
    THEN IF t.dims = 1 /\ ~IsPrimitive(t)
           THEN <<"userArray", t.base>> ELSE <<"array", TypeToCpp(Elem(t))>>
  ELSE IF t.opt THEN <<"optional", EncodeValue(t)>> ELSE EncodeValue(t)

DecodeValue(t) == IF IsPrimitive(t) THEN <<"primitive", t.base>> ELSE <<"userType", t.base>>
DecodeCall(t) ==
  IF t.dims > 0
    THEN IF t.dims = 1 /\ ~IsPrimitive(t)
           THEN <<"userArray", t.base>> ELSE <<"array", TypeToCpp(Elem(t))>>
  ELSE IF t.opt THEN <<"optional", DecodeValue(t)>> ELSE DecodeValue(t)

EncodeParams(params) == [i \in DOMAIN params |-> EncodeCall(params[i].type)]
DecodeParams(params) == [i \in DOMAIN params |-> DecodeCall(params[i].type)]
EncodeResult(t) == IF IsVoid(t) THEN <<>> ELSE <<EncodeCall(t)>>
DecodeResult(t) == IF IsVoid(t) THEN <<>> ELSE <<DecodeCall(t)>>

StructEncode(d) == [i \in DOMAIN d.fields |-> EncodeCall(d.fields[i].type)]
StructDecode(d) == [i \in DOMAIN d.fields |-> DecodeCall(d.fields[i].type)]

EnumWireSuffix(d) == IF d.kind = "flags" THEN "u32" ELSE "i32"
EnumEncode(d) == <<"primitive", EnumWireSuffix(d)>>
EnumDecode(d) == <<"primitive", EnumWireSuffix(d)>>

\* <Enum>_name(): the item a value is reported as, none for an unknown value.
EnumName(d, v) ==
  LET values == FoldLeft(LAMBDA seen, item :
                           Append(seen, IF item.value # <<>> THEN item.value[1]
                                        ELSE IF seen = <<>> THEN 0 ELSE Last(seen) + 1),
                         <<>>, d.fields)
      first == {i \in DOMAIN values : values[i] = v /\ \A j \in 1..i - 1 : values[j] # v}
  IN {d.fields[i].name : i \in first}

HasStream(d) == \E m \in Range(d.methods) : m.mode = "stream"

\* Mutant: a stream dispatcher takes no id of its own.
ServiceIdUncounted(ns, s) == s

\* kService_<Name>: a service with streams takes two ids.
ServiceId(ns, s) == s + Cardinality({r \in 1..s - 1 : HasStream(ns.services[r])})
StreamId(ns, s) == ServiceId(ns, s) + 1

MethodId(i) == i                      \* kMethod_: global over unary and stream methods
PropertyId(i) == i                    \* kProp_: counted in every class anew
ConstructorId(i) == i - 1

\* What the proxy's i-th method puts on the wire and expects back.
ServiceProxy(ns, s, i) ==
  LET m == ns.services[s].methods[i]
      stream == m.mode = "stream"
  IN [service |-> IF stream THEN StreamId(ns, s) ELSE ServiceId(ns, s),
      method |-> MethodId(i), args |-> EncodeParams(m.params), stream |-> stream,
      reply |-> IF stream THEN <<DecodeCall(m.type)>> ELSE DecodeResult(m.type)]

\* The pure virtual the implementation overrides.
ServiceInterface(m) ==
  [name |-> m.name,
   result |-> IF m.mode = "stream" THEN NoType ELSE TypeToCpp(m.type),
   params |-> [i \in DOMAIN m.params |-> TypeToCpp(m.params[i].type)]
              \o IF m.mode = "stream" THEN <<"StreamWriter">> ELSE <<>>]

\* Every method of every service, as <<service, method>>.
Calls(ns) == UNION {{s} \X DOMAIN ns.services[s].methods : s \in DOMAIN ns.services}

\* The cases of dispatch_<Name> and dispatch_<Name>_stream, registered with a
\* runtime under their ids, that a request finds.
ServiceDispatcher(ns, request) ==
  {c \in Calls(ns) :
     /\ request.method = MethodId(c[2])
     /\ request.service = IF ns.services[c[1]].methods[c[2]].mode = "stream"
                          THEN StreamId(ns, c[1]) ELSE ServiceId(ns, c[1])}

\* How such a case reads the request and what it sends back.
DispatcherCase(m) ==
  [args |-> DecodeParams(m.params),
   reply |-> IF m.mode = "stream" THEN <<EncodeCall(m.type)>> ELSE EncodeResult(m.type)]

------------------------------------------------------------------------------
(* C++ classes: the proxy's requests name a member of the proxy's class, the *)
(* object's own class looks it up.                                           *)

ClassProxy(d, kind, i) ==
  CASE kind = "get" -> [id |-> PropertyId(i), sends |-> <<>>,
                        expects |-> <<DecodeCall(d.properties[i].type)>>]
    [] kind = "set" -> [id |-> PropertyId(i), sends |-> <<EncodeCall(d.properties[i].type)>>,
                        expects |-> <<>>]
    [] kind = "call" -> [id |-> MethodId(i), sends |-> EncodeParams(d.methods[i].params),
                         expects |-> DecodeResult(d.methods[i].type)]
    [] kind = "create" -> [id |-> ConstructorId(i),
                           sends |-> EncodeParams(d.constructors[i].params), expects |-> <<>>]

\* The generated setter pushes the new value to the subscribers.
Skeleton(d, i) == [id |-> PropertyId(i), value |-> <<EncodeCall(d.properties[i].type)>>]

ClassNamed(ns, name) == CHOOSE d \in Range(ns.classes) : d.name = name

\* Mutant: the base class is asked first.
ClassDispatcherBaseFirst(ns, d, kind, id) ==
  IF d.base = "" \/ id \notin DOMAIN (IF kind = "call" THEN ClassNamed(ns, d.base).methods
                                      ELSE ClassNamed(ns, d.base).properties)
    THEN {<<d.name, id>>} ELSE {<<d.base, id>>}

\* The ids <Name>Base has a case for.
OwnCases(d, kind) ==
  IF kind = "call" THEN DOMAIN d.methods
  ELSE {i \in DOMAIN d.properties : kind = "get" \/ ~d.properties[i].readonly}

\* prop_get, prop_set and dispatch of <Name>Base: the case of the class's own
\* member, or that of the next base that has one, or an exception.
ClassDispatcher(ns, d, kind, id) ==
  LET chain == Chain(ns, d.name)
      above == {k \in DOMAIN chain \ {0} :
                  chain[k] # "" /\ id \in OwnCases(ClassNamed(ns, chain[k]), kind)}
  IN IF id \in OwnCases(d, kind) THEN {<<d.name, id>>}
     ELSE {<<chain[k], id>> : k \in {n \in above : \A m \in above : n <= m}}

MemberCase(d, kind, i) ==
  CASE kind = "get" -> [reads |-> <<>>, sends |-> <<EncodeCall(d.properties[i].type)>>]
    [] kind = "set" -> [reads |-> <<DecodeCall(d.properties[i].type)>>,
                        sends |-> <<EncodeCall(d.properties[i].type)>>]
    [] kind = "call" -> [reads |-> DecodeParams(d.methods[i].params),
                         sends |-> EncodeResult(d.methods[i].type)]

\* register_<Name>: the constructors an id selects, a default one if none is declared.
ClassFactory(d, id) ==
  IF d.constructors = <<>> THEN IF id = 0 THEN {<<>>} ELSE {}
  ELSE {DecodeParams(d.constructors[i].params) :
          i \in {j \in DOMAIN d.constructors : ConstructorId(j) = id}}

------------------------------------------------------------------------------
(* The header: its pieces in order, each with the names it defines and those *)
(* it needs defined by then.                                                 *)

\* The elements that encode_array<T> and decode_array<T> of song/buffer.hpp take:
\* numbers and strings, and vectors of them.  vector<byte> ends in an element that
\* both refuse; a vector<bool> is no span, but can be read.
EncodeArray == Primitives \ {"bool", "bytes", "void"}
DecodeArray == Primitives \ {"bytes", "void"}

\* A codec call for void is no expression at all, where one is asked for; there
\* is no codec for optional values.
ValueNeeds(call) ==
  IF call[1] = "userType" \/ call[2] = "void" THEN {<<"codec", call[2]>>} ELSE {}
CallNeeds(call, elements) ==
  CASE call[1] = "array" ->
         IF ~call[2].opt /\ call[2].base \in elements THEN {} ELSE {<<"array", call[2].base>>}
    [] call[1] = "userArray" -> {<<"arrayCodec", call[2]>>}
    [] call[1] = "optional" -> {<<"codec", "optional">>} \cup ValueNeeds(call[2])
    [] OTHER -> ValueNeeds(call)

\* A value needs its type complete, a vector only declared.
TypeNeeds(t) ==
  IF IsPrimitive(t) THEN {} ELSE {<<IF t.dims > 0 THEN "name" ELSE "type", t.base>>}

\* A value that is read, and one that is written too.
ReadNeeds(t) == TypeNeeds(t) \cup CallNeeds(DecodeCall(t), DecodeArray)
UseNeeds(t) == ReadNeeds(t) \cup CallNeeds(EncodeCall(t), EncodeArray)

Piece(defines, needs) == [defines |-> defines, needs |-> needs]
Pieces(defs, P(_)) == [i \in DOMAIN defs |-> P(defs[i])]

\* A streamed value is read by the proxy and written by the implementation.
Streamed(d, m) == d.kind = "service" /\ m.mode = "stream"

\* No value is made for the result of a constructor or of a unary void method.
ValueTypes(d, m) ==
  {p.type : p \in Range(m.params)}
  \cup IF Streamed(d, m) \/ (m.type = NoType /\ m.kind \in {"constructor", "method"})
         THEN {} ELSE {m.type}
MemberNeeds(d) ==
  UNION {(UNION {UseNeeds(t) : t \in ValueTypes(d, m)})
         \cup IF Streamed(d, m) THEN ReadNeeds(m.type) ELSE {} : m \in Members(d)}

EnumDef(d) == Piece({<<"name", d.name>>, <<"type", d.name>>}, {})
EnumCodec(d) == Piece({<<"codec", d.name>>, <<"arrayCodec", d.name>>}, {<<"type", d.name>>})
StructForward(d) == Piece({<<"name", d.name>>}, {})
StructDef(d) == Piece({<<"type", d.name>>}, UNION {TypeNeeds(f.type) : f \in Range(d.fields)})
ArrayForward(d) == Piece({<<"arrayCodec", d.name>>}, {<<"name", d.name>>})
StructCodec(d) ==
  Piece({<<"codec", d.name>>}, UNION {UseNeeds(f.type) : f \in Range(d.fields)})
ArrayCodec(d) == Piece({}, {<<"codec", d.name>>})
ServicePieces(d) == Piece({}, MemberNeeds(d))
ClassPieces(d) == Piece({<<"base", d.name>>},
                        MemberNeeds(d) \cup IF d.base = "" THEN {} ELSE {<<"base", d.base>>})

\* Mutant: the array codecs of structs are not declared ahead.
GenerateHeaderUndeclared(ns) ==
  Pieces(ns.structs, StructForward) \o Pieces(ns.enums, EnumDef) \o Pieces(ns.enums, EnumCodec)
  \o Pieces(ns.structs, StructDef)
  \o Pieces(ns.structs, StructCodec) \o Pieces(ns.structs, ArrayCodec)
  \o Pieces(ns.services, ServicePieces) \o Pieces(ns.classes, ClassPieces)

GenerateHeader(ns) ==
  Pieces(ns.structs, StructForward) \o Pieces(ns.enums, EnumDef) \o Pieces(ns.enums, EnumCodec)
  \o Pieces(ns.structs, StructDef) \o Pieces(ns.structs, ArrayForward)
  \o Pieces(ns.structs, StructCodec) \o Pieces(ns.structs, ArrayCodec)
  \o Pieces(ns.services, ServicePieces) \o Pieces(ns.classes, ClassPieces)

\* --split: the types header declares the codecs but no array codec of a struct.
CodecDeclared(d) == Piece({<<"codec", d.name>>}, {<<"type", d.name>>})
GenerateTypesHeader(ns) ==
  Pieces(ns.structs, StructForward) \o Pieces(ns.enums, EnumDef) \o Pieces(ns.enums, EnumCodec)
  \o Pieces(ns.structs, StructDef) \o Pieces(ns.structs, CodecDeclared)
GenerateWireImpl(ns) == GenerateTypesHeader(ns) \o Pieces(ns.structs, StructCodec)
GenerateClientHeader(ns) == GenerateTypesHeader(ns) \o Pieces(ns.services, ServicePieces)
GenerateServerHeader(ns) == GenerateTypesHeader(ns) \o Pieces(ns.services, ServicePieces)

Compiles(pieces) ==
  \A i \in DOMAIN pieces : \A n \in pieces[i].needs : \E j \in 1..i - 1 : n \in pieces[j].defines

------------------------------------------------------------------------------
(* Python.                                                                   *)

\* The loops a generated encoder runs, down to the elements it writes; the
\* array helpers of Buffer for i32, i64 and string write elements too.
PyEncodeValue(t) == IF IsPrimitive(t) THEN <<"primitive", t.base>> ELSE <<"userType", t.base>>
PyEncodeCall(t) ==
  LET elements == t.dims > 0 /\ (~IsPrimitive(t) \/ t.base \in {"i32", "i64", "string"})
      loops[n \in 0..t.dims] ==
        IF n > 0 THEN <<"sequence", loops[n - 1]>>
        ELSE IF t.opt /\ ~elements THEN <<"optional", PyEncodeValue(t)>> ELSE PyEncodeValue(t)
  IN loops[t.dims]

PyDecodeValue(t) == IF IsPrimitive(t) THEN <<"primitive", t.base>> ELSE <<"userType", t.base>>
PyDecodeCall(t) ==
  LET elements == t.dims > 0 /\ (~IsPrimitive(t) \/ t.base \in {"i32", "i64", "string"})
      loops[n \in 0..t.dims] ==
        IF n > 0 THEN <<"sequence", loops[n - 1]>>
        ELSE IF t.opt /\ ~elements THEN <<"optional", PyDecodeValue(t)>> ELSE PyDecodeValue(t)
  IN loops[t.dims]

\* A struct's dataclass: a field of optional type gets a default value.
PyDefaulted(d) == [i \in DOMAIN d.fields |-> d.fields[i].type.opt]

\* The calls of a struct's codec are made for a proxy and then given the codec's
\* buffer: every "req" of a written call, and every "resp" of a read one, becomes
\* "buf", those in the names of fields and types too.  Such a name is "buf" here,
\* which nothing is called.
ToBuf(name, hit) == IF name \in hit THEN "buf" ELSE name
TypeToBuf(t, hit) == [t EXCEPT !.base = ToBuf(@, hit)]

\* Each field's attribute, and how it is written or read.
PyStructEncode(d) ==
  [i \in DOMAIN d.fields |->
     <<ToBuf(d.fields[i].name, HasReq), PyEncodeCall(TypeToBuf(d.fields[i].type, HasReq))>>]

\* Mutant: the flag of an optional field is not read.
PyStructDecodeUnflagged(d) ==
  [i \in DOMAIN d.fields |->
     <<d.fields[i].name,
       PyDecodeCall([TypeToBuf(d.fields[i].type, HasResp) EXCEPT !.opt = FALSE])>>]

PyStructDecode(d) ==
  [i \in DOMAIN d.fields |->
     <<d.fields[i].name, PyDecodeCall(TypeToBuf(d.fields[i].type, HasResp))>>]

PyEnumValues(d) ==
  FoldLeft(LAMBDA a, item :
             LET v == IF item.value # <<>> THEN item.value[1] ELSE a.next
             IN [next |-> v + 1, values |-> Append(a.values, v)],
           [next |-> 0, values |-> <<>>], d.fields).values

PyServiceId(ns, s) == s               \* SERVICE_: one id for every service

PyProxy(ns, s, i) ==
  LET m == ns.services[s].methods[i]
  IN [service |-> PyServiceId(ns, s), method |-> MethodId(i),
      args |-> [k \in DOMAIN m.params |-> PyEncodeCall(m.params[k].type)],
      reply |-> IF IsVoid(m.type) THEN <<>> ELSE <<PyDecodeCall(m.type)>>]

\* The module imports: an annotation is evaluated as its class is made, and a
\* field without a default may not follow one that has it.
PyImports(ns) ==
  \A s \in DOMAIN ns.structs :
    LET d == ns.structs[s] IN
    /\ \A i, j \in DOMAIN d.fields : i < j /\ PyDefaulted(d)[i] => PyDefaulted(d)[j]
    /\ \A f \in Range(d.fields) :
         \/ IsPrimitive(f.type)
         \/ \E e \in Range(ns.enums) : e.name = f.type.base
         \/ \E r \in 1..s - 1 : ns.structs[r].name = f.type.base

\* encode_<T> and decode_<T> exist for structs only.
PyCodec(ns, t) == IsPrimitive(t) \/ \E d \in Range(ns.structs) : d.name = t.base
=============================================================================
