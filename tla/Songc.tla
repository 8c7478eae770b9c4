-------------------------------- MODULE Songc --------------------------------
(* compiler/main.cpp: the compiler's passes over one input file, the files   *)
(* it writes, and the developer who edits the input and follows the reports. *)
(*                                                                           *)
(* A file is "none", "cut" (the disk had no room for it), the definitions it *)
(* was generated from, or an implementation file.                            *)
EXTENDS Scaffold

CONSTANTS
  Projects,              \* of [texts, modes, runs]: what a developer saves in the input
                         \* file one after another, the options songc is run with and
                         \* how often it is run at most
  Parsed(_)              \* what the parser makes of a text: [fail, ns]

IsVector(s) == s \in Seq(Range(s))

IsType(t) == t \in [base : STRING, dims : Nat, opt : BOOLEAN]

\* A definition has a vector for each kind of member.
IsDefinition(d) ==
  /\ IsVector(d.fields) /\ IsVector(d.properties)
  /\ IsVector(d.constructors) /\ IsVector(d.methods)
  /\ \A m \in Members(d) : IsVector(m.params) /\ \A t \in TypesIn(m) : IsType(t)

\* A name is an identifier, and no keyword.
IsName(n) == n \notin Primitives \cup {"optional", ""}

HasFieldsOnly(d) ==
  /\ d.properties = <<>> /\ d.constructors = <<>> /\ d.methods = <<>>
  /\ \A f \in Range(d.fields) : f.kind = "field" /\ f.params = <<>>

\* ast.hpp: five vectors, each of definitions of its own kind.
IsNamespace(ns) ==
  /\ IsVector(ns.enums) /\ IsVector(ns.structs) /\ IsVector(ns.classes)
  /\ IsVector(ns.services) /\ IsVector(ns.errors)
  /\ \A d \in Definitions(ns) : IsDefinition(d) /\ IsName(d.name)
  /\ \A d \in Range(ns.enums) : d.kind \in {"enum", "flags"}
  /\ \A d \in Range(ns.structs) : d.kind = "struct" /\ HasFieldsOnly(d)
  /\ \A d \in Range(ns.classes) : d.kind = "class"
  /\ \A d \in Range(ns.services) : d.kind = "service"
  /\ \A d \in Range(ns.errors) : d.kind = "error"

\* The developer saves texts, one after another, and main() knows four modes.
ASSUME ProjectsAssumption ==
  \A p \in Projects :
    /\ IsVector(p.texts) /\ p.texts # <<>>
    /\ p.modes \subseteq {"single", "split", "python", "scaffold"}

\* All that the other passes take for granted of the parser.
ASSUME ParserAssumption ==
  \A p \in Projects : \A text \in Range(p.texts) :
    Parsed(text).fail = "none" => IsNamespace(Parsed(text).ns)

VARIABLES project, version,  \* the developer's: the texts, and the one saved last
          outputs,           \* file -> contents
          followed,          \* the developer has done what the last report says
          pass,              \* where main() is: idle, parse, resolve, write
          mode, ast, todo,   \* its options, its AST, the files it has yet to write
          status, runs       \* its exit status, and how often it has been run

vars == <<project, version, outputs, followed, pass, mode, ast, todo, status, runs>>

None == [is |-> "none"]
Cut == [is |-> "cut"]
Generated(defs) == [is |-> "generated", defs |-> defs]
Impl(content) == [is |-> "impl", content |-> content]

File(file) == IF file \in DOMAIN outputs THEN outputs[file] ELSE None

\* The names of the files: the namespace's own, and one for each service.
Output(suffix) == <<"generated", suffix>>
ImplFile(service) == <<"impl", service.name>>

Source == project.texts[version]
ServiceOf(file) == CHOOSE d \in Range(ast.services) : d.name = file[2]

\* The files main() writes in a mode, in order.
OutputsOf(md, ns) ==
  CASE md = "single" -> <<Output("hpp")>>
    [] md = "split" -> <<Output("types"), Output("wire"), Output("client"), Output("server")>>
    [] md = "python" -> <<Output("py")>>
    [] md = "scaffold" -> [i \in DOMAIN ns.services |-> ImplFile(ns.services[i])]

Init ==
  /\ project \in Projects
  /\ version = 1 /\ outputs = <<>> /\ followed = FALSE
  /\ pass = "idle" /\ mode = "single" /\ ast = Empty /\ todo = <<>>
  /\ status = "none" /\ runs = 0

Run(md) ==
  /\ pass = "idle" /\ runs < project.runs
  /\ pass' = "parse" /\ mode' = md /\ ast' = Empty /\ todo' = <<>>
  /\ status' = "none" /\ runs' = runs + 1 /\ followed' = FALSE
  /\ UNCHANGED <<project, version, outputs>>

Exit(s) == /\ pass' = "idle" /\ status' = s
           /\ UNCHANGED <<project, version, outputs, followed, mode, ast, todo, runs>>

\* A ParserError is reported; nothing catches a LexerError.
ParseInput ==
  /\ pass = "parse"
  /\ \E r \in {Parsed(Source)} :
     \/ /\ r.fail = "none"
        /\ ast' = r.ns /\ pass' = "resolve"
        /\ UNCHANGED <<project, version, outputs, followed, mode, todo, status, runs>>
     \/ r.fail = "lexer" /\ Exit("abort")
     \/ r.fail = "parser" /\ Exit("error")

ResolveInput ==
  /\ pass = "resolve"
  /\ \/ /\ Resolve(ast)
        /\ pass' = "write" /\ todo' = OutputsOf(mode, ast)
        /\ UNCHANGED <<project, version, outputs, followed, mode, ast, status, runs>>
     \/ ~Resolve(ast) /\ Exit("error")

\* What the scaffold finds in a file: a cut one has nothing it looks for.
HeaderFound ==
  LET h == File(Output("hpp"))
  IN IF h = None THEN <<>> ELSE <<IF h = Cut THEN Empty ELSE h.defs>>
ImplFound(file) ==
  LET i == File(file)
  IN IF i = None THEN <<>>
     ELSE <<IF i = Cut THEN [methods |-> {}, reports |-> <<>>] ELSE i.content>>

Content(file) ==
  IF mode = "scaffold"
    THEN Impl(GenerateScaffold(ast, ServiceOf(file), ImplFound(file), HeaderFound))
    ELSE Generated(ast)

\* write_file truncates the file it opens, and does not look whether what it
\* writes then gets there.
WriteFile ==
  /\ pass = "write" /\ todo # <<>>
  /\ \E content \in {Content(Head(todo)), Cut} :
       outputs' = [file \in DOMAIN outputs \cup {Head(todo)} |->
                     IF file = Head(todo) THEN content ELSE outputs[file]]
  /\ todo' = Tail(todo)
  /\ UNCHANGED <<project, version, followed, pass, mode, ast, status, runs>>

\* Mutant: an output that cannot be opened is passed over.
SkipOutput ==
  /\ pass = "write" /\ todo # <<>>
  /\ todo' = Tail(todo)
  /\ UNCHANGED <<project, version, outputs, followed, pass, mode, ast, status, runs>>

\* The output cannot be opened: an exception that main() reports.
CannotOpen == pass = "write" /\ todo # <<>> /\ Exit("error")

Finish == pass = "write" /\ todo = <<>> /\ Exit("ok")

\* The developer saves the next version of the input, between two runs.
Edit ==
  /\ pass = "idle" /\ version < Len(project.texts)
  /\ version' = version + 1 /\ followed' = FALSE
  /\ UNCHANGED <<project, outputs, pass, mode, ast, todo, status, runs>>

\* An implementation file after its developer has done what its last report says.
Apply(impl, service) ==
  LET report == Last(impl.reports).methods
      kept == {x \in impl.methods : x.name \notin report.removed \cup report.modified}
      asked == {m \in Range(service.methods) : m.name \in report.new \cup report.modified}
  IN [impl EXCEPT !.methods = kept \cup {Declaration(m) : m \in asked}]

Scaffolded == pass = "idle" /\ status = "ok" /\ mode = "scaffold"

Follow ==
  /\ Scaffolded /\ ~followed
  /\ \A d \in Range(ast.services) : File(ImplFile(d)) # Cut
  /\ followed' = TRUE
  /\ outputs' = [file \in DOMAIN outputs |->
        IF file \in Range(OutputsOf(mode, ast)) /\ outputs[file].content.reports # <<>>
          THEN Impl(Apply(outputs[file].content, ServiceOf(file))) ELSE outputs[file]]
  /\ UNCHANGED <<project, version, pass, mode, ast, todo, status, runs>>

Next ==
  \/ \E md \in project.modes : Run(md)
  \/ ParseInput \/ ResolveInput \/ WriteFile \/ CannotOpen \/ Finish
  \/ Edit \/ Follow

Spec == Init /\ [][Next]_vars

------------------------------------------------------------------------------
(* What must hold.                                                           *)

\* A proxy's request is answered by the case of its own method and by no other,
\* unary and stream ids together, which reads what was written.
OwnMethod(ns) ==
  \A c \in Calls(ns) :
    LET request == ServiceProxy(ns, c[1], c[2])
        case == DispatcherCase(ns.services[c[1]].methods[c[2]])
    IN /\ ServiceDispatcher(ns, request) = {c}
       /\ case.args = request.args /\ case.reply = request.reply

\* A proxy of an object's own class reaches the member it means, and the
\* constructor it means takes what it sends.
OwnProperty(ns, d, kind, i) ==
  LET request == ClassProxy(d, kind, i)
      case == MemberCase(d, kind, i)
  IN /\ ClassDispatcher(ns, d, kind, request.id) = {<<d.name, i>>}
     /\ case.reads = request.sends
     /\ kind = "get" => case.sends = request.expects
     /\ kind = "set" => Skeleton(d, i).id = request.id /\ Skeleton(d, i).value = request.sends

OwnMember(ns) ==
  \A d \in Range(ns.classes) :
    /\ \A i \in DOMAIN d.properties : \A kind \in {"get", "set"} :
         kind = "get" \/ ~d.properties[i].readonly => OwnProperty(ns, d, kind, i)
    /\ \A i \in DOMAIN d.methods :
         LET request == ClassProxy(d, "call", i)
         IN /\ ClassDispatcher(ns, d, "call", request.id) = {<<d.name, i>>}
            /\ MemberCase(d, "call", i) = [reads |-> request.sends, sends |-> request.expects]
    /\ \A i \in DOMAIN d.constructors :
         LET request == ClassProxy(d, "create", i) IN ClassFactory(d, request.id) = {request.sends}

\* Calls (codegen.cpp generate_service_proxy, generate_service_dispatcher,
\* generate_class_proxy, generate_class_dispatcher, generate_class_factory):
\* whatever ids the generators count, the generated proxies reach what they mean
\* in the generated dispatchers, with the bytes these read.
CallsReachOwn == pass = "write" => OwnMethod(ast) /\ OwnMember(ast)

\* Structs come after those they hold by value, classes after their bases.
InOrder(ns) ==
  /\ \A i, j \in DOMAIN ns.structs :
       (\E f \in Range(ns.structs[i].fields) : f.type.dims = 0 /\ f.type.base = ns.structs[j].name)
         => j < i
  /\ \A i, j \in DOMAIN ns.classes : ns.classes[i].base = ns.classes[j].name => j < i

\* A value's type: not void, not an error or a class, not optional (a mark that is
\* lost behind brackets, but for those of an array of primitives), no array of
\* arrays of a user type, and no array of the primitives refused.
SupportedType(ns, t, refused) ==
  /\ ~IsVoid(t)
  /\ IsPrimitive(t) => (t.opt => t.dims > 1) /\ (t.dims > 0 => t.base \notin refused)
  /\ ~IsPrimitive(t) =>
       t.base \in Names(Range(ns.enums) \cup Range(ns.structs)) /\ t.dims < 2 /\ (t.opt => t.dims = 1)

Supported(ns, d) ==
  \A m \in Members(d) :
    /\ \A t \in ValueTypes(d, m) : SupportedType(ns, t, {"bool", "bytes"})
    /\ Streamed(d, m) => SupportedType(ns, m.type, {"bytes"})

\* A field, parameter or result is an array of a struct.
HasStructArray(ns, d) ==
  \E m \in Members(d) : \E t \in TypesIn(m) :
    t.dims > 0 /\ t.base \in Names(Range(ns.structs))

\* The header (codegen.cpp generate_header, generate_types_header): every piece
\* finds defined before it what it needs exactly when structs come after those they
\* hold and classes after their bases (README.md:277 asks for no order), and no value
\* is of a type that is not supported: optional types, arrays of bool or bytes,
\* arrays of arrays of a user type, errors, classes, and void for anything but a
\* unary result are accepted by the resolver, and the header does not compile.  The
\* split headers then do exactly when, besides, there is no array of a struct.
HeaderCompiles ==
  pass = "write" =>
    /\ Compiles(GenerateHeader(ast)) <=>
         /\ InOrder(ast)
         /\ \A d \in Range(ast.structs \o ast.services \o ast.classes) : Supported(ast, d)
    /\ Compiles(GenerateHeader(ast)) =>
         ((\A d \in Range(ast.structs \o ast.services) : ~HasStructArray(ast, d)) <=>
            /\ Compiles(GenerateWireImpl(ast))
            /\ Compiles(GenerateClientHeader(ast)) /\ Compiles(GenerateServerHeader(ast)))

\* main.cpp main: the compiler that exits with 0 was given definitions that
\* resolve, a text the developer had saved, and has written every output of its
\* mode from them, but for those the disk cut short.
OkMeansCurrent ==
  status = "ok" =>
    /\ Resolve(ast) /\ \E i \in 1..version : ast = Parsed(project.texts[i]).ns
    /\ \A file \in Range(OutputsOf(mode, ast)) :
         \/ File(file) = Cut
         \/ IF mode = "scaffold" THEN File(file).is = "impl" ELSE File(file) = Generated(ast)

\* main.cpp main, write_file, scaffold.cpp generate: no run touches a file after the
\* input was refused, and what is written over an implementation file holds all its
\* methods and, in front, its reports.  One write does not: write_file has emptied
\* the file by the time it writes (main.cpp:31), and what a full disk cuts short is lost.
KeepsImplementation ==
  [][outputs' # outputs /\ pass # "idle" =>
       /\ Resolve(ast)
       /\ \A file \in DOMAIN outputs :
            outputs[file].is = "impl" /\ outputs'[file] # Cut =>
              /\ outputs'[file].content.methods = outputs[file].content.methods
              /\ IsPrefix(outputs[file].content.reports, outputs'[file].content.reports)]_vars

\* The method the interface asks for, with its types.
Fits(x, m) ==
  ServiceInterface(m) = [name |-> x.name, result |-> x.result,
                         params |-> [i \in DOMAIN x.params |-> x.params[i][1]]]

\* Those of some definitions with a doc comment on a field or an item.
Documented(defs) == {d \in Range(defs) : \E m \in Range(d.fields) : m.doc # <<>>}

\* scaffold.cpp compare, generate_skeleton, parse_existing_structs and
\* parse_existing_enums: who has done what the report says has all methods of the
\* interface and no others, and they override the interface's, but for those of
\* streams, which the skeleton declares with a result and without the writer
\* (scaffold.cpp:108).  A next report finds nothing in the methods, and against a
\* current header nothing but the structs with a documented field and the enums with
\* a documented item, which it reports for good.
FollowedReport ==
  followed =>
    \A d \in Range(ast.services) :
      LET impl == File(ImplFile(d)).content
          report == SyncReport(ast, d, impl, HeaderFound)
      IN /\ Names(impl.methods) = Names(Range(d.methods))
         /\ \A m \in Range(d.methods) : Fits(The(impl.methods, m.name), m) <=> m.mode # "stream"
         /\ report.methods = NoDifference
         /\ File(Output("hpp")) = Generated(ast) =>
              /\ report.structs = [NoDifference EXCEPT !.modified = Names(Documented(ast.structs))]
              /\ report.enums = [NoDifference EXCEPT !.modified = Names(Documented(ast.enums))]
=============================================================================
