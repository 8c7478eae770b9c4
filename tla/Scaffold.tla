------------------------------ MODULE Scaffold ------------------------------
(* compiler/scaffold.cpp: the implementation file a developer starts from,   *)
(* and the report songc appends to it when the IDL has changed.              *)
(*                                                                           *)
(* An implementation file is the methods its class declares, each on a line  *)
(* (what an editor has wrapped is not seen), and the reports at its end,     *)
(* which are comments.  A header is the definitions it was generated from.   *)
EXTENDS IdlCompiler

ParamsToString(params) == [i \in DOMAIN params |-> <<TypeToCpp(params[i].type), params[i].name>>]

\* One line declares it, whatever the method's mode.
Declaration(m) ==
  [name |-> m.name, result |-> TypeToCpp(m.type), params |-> ParamsToString(m.params)]

\* Mutant: a change of parameters goes unseen.
NormalizeResult(x) == <<x.result>>

NormalizeSignature(x) == <<x.result, x.params>>

GenerateSkeleton(service) ==
  [methods |-> {Declaration(m) : m \in Range(service.methods)}, reports |-> <<>>]

\* Commented lines, and so the reports, are passed over.
ParseExistingImpl(impl) == impl.methods

\* The elements of a sequence at some places, in order.
At(xs, places) ==
  [k \in 1..Cardinality(places) |->
     xs[CHOOSE i \in places : Cardinality({j \in places : j <= i}) = k]]

FieldsToString(fields) == [i \in DOMAIN fields |-> <<TypeToCpp(fields[i].type), fields[i].name>>]

\* A field's doc comment is taken for part of its type, and the field dropped.
ParseExistingStructs(header) ==
  {[name |-> d.name,
    fields |-> FieldsToString(At(d.fields, {i \in DOMAIN d.fields : d.fields[i].doc = <<>>}))] :
     d \in Range(header.structs)}

\* The words of an item's doc comment are taken for items.
ParseExistingEnums(header) ==
  {[name |-> d.name,
    items |-> [i \in DOMAIN d.fields |-> <<d.fields[i].doc, d.fields[i].name, d.fields[i].value>>]] :
     d \in Range(header.enums)}

The(xs, name) == CHOOSE x \in xs : x.name = name

\* What compare() and its two fellows find: names to add, names to delete and
\* names whose contents differ.
Difference(wanted, existing, Same(_, _)) ==
  [new |-> Names(wanted) \ Names(existing),
   removed |-> Names(existing) \ Names(wanted),
   modified |-> {n \in Names(wanted) \cap Names(existing) : ~Same(The(wanted, n), The(existing, n))}]

Compare(service, existing) ==
  Difference(Range(service.methods), existing,
             LAMBDA m, x : NormalizeSignature(Declaration(m)) = NormalizeSignature(x))

CompareStructs(ns, existing) ==
  Difference(Range(ns.structs), existing, LAMBDA d, x : FieldsToString(d.fields) = x.fields)

CompareEnums(ns, existing) ==
  Difference(Range(ns.enums), existing,
             LAMBDA d, x : x.items = [i \in DOMAIN d.fields |->
                                        <<<<>>, d.fields[i].name, d.fields[i].value>>])

NoDifference == [new |-> {}, removed |-> {}, modified |-> {}]

\* The SyncReport, which generate_sync_report prints in this order.
SyncReport(ns, service, impl, header) ==
  [methods |-> Compare(service, ParseExistingImpl(impl)),
   structs |-> IF header = <<>> THEN NoDifference
               ELSE CompareStructs(ns, ParseExistingStructs(header[1])),
   enums |-> IF header = <<>> THEN NoDifference
             ELSE CompareEnums(ns, ParseExistingEnums(header[1]))]

HasChanges(report) == \E part \in DOMAIN report : report[part] # NoDifference

\* Mutant: an implementation that differs is written anew.
GenerateAgain(ns, service, impl, header) ==
  IF impl = <<>> \/ HasChanges(SyncReport(ns, service, impl[1], header)) THEN GenerateSkeleton(service)
  ELSE impl[1]

\* What is written over an implementation file (<<>>: there is none): the file
\* as it was and the report, or a line that says all is up to date.
GenerateScaffold(ns, service, impl, header) ==
  IF impl = <<>> THEN GenerateSkeleton(service)
  ELSE [impl[1] EXCEPT !.reports = Append(@, SyncReport(ns, service, impl[1], header))]
=============================================================================
