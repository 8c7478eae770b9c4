------------------------------ MODULE IdlParser ------------------------------
(* compiler/lexer.cpp and compiler/parser.cpp: from the characters of a      *)
(* .song file to its definitions.                                            *)
(*                                                                           *)
(* A character stands for its class: "x" an x or an X, "f" a letter that is  *)
(* a hexadecimal digit, "a" any other letter, "0" a zero and "9" any other   *)
(* digit, "n" a newline, "#" what the language does not use.                 *)
(* A token is <<type, value>>; a keyword, a primitive or a punctuation mark  *)
(* is its own type.  The token list of a file ends with Eof,                 *)
(* and a token of type Bad is where next_token() throws: a LexerError, or    *)
(* the out_of_range of std::stoll, neither of which main() catches.          *)
EXTENDS IdlAst

CONSTANTS MaxDigits, MaxHexDigits   \* significant digits that std::stoll has room for

------------------------------------------------------------------------------
(* The lexer: a lexeme is [type, from, to, line], the characters from..to-1. *)

Alpha == {"a", "x", "f", "_"}
Digits == {"0", "9"}
HexDigits == Digits \cup {"f"}
Punctuation == {";", ",", ":", ".", "{", "}", "(", ")", "[", "]", "?", "="}

Char(in, p) == IF p > Len(in) THEN "eof" ELSE in[p]

\* The first place from p on whose character is not in S.
Past(in, p, S) == Min({q \in p..Len(in) : in[q] \notin S} \cup {Len(in) + 1})

\* The end of the line p is on.
LineEnd(in, p) == Min({q \in p..Len(in) : in[q] = "n"} \cup {Len(in) + 1})

\* Whitespace and comments of two slashes, but not of three, are skipped.
RECURSIVE Skip(_, _)
Skip(in, p) ==
  LET q == Past(in, p, {" ", "n"}) IN
  IF Char(in, q) = "/" /\ Char(in, q + 1) = "/" /\ Char(in, q + 2) # "/"
    THEN Skip(in, LineEnd(in, q)) ELSE q

\* Digits from place p up to q: none, or too many, and an exception leaves the lexer.
Number(in, p, q, max) ==
  IF q = p \/ q - Past(in, p, {"0"}) > max THEN <<"Bad", q>> ELSE <<"Integer", q>>

LexInteger(in, p) ==
  IF Char(in, p) = "0" /\ Char(in, p + 1) = "x"
    THEN Number(in, p + 2, Past(in, p + 2, HexDigits), MaxHexDigits)
    ELSE Number(in, p, Past(in, p, Digits), MaxDigits)

\* Mutant: a doc comment ends before its last character.
LexDocCommentShort(in, p) == <<"DocComment", LineEnd(in, p) - 1>>

LexDocComment(in, p) == <<"DocComment", LineEnd(in, p)>>

LexIdentifierOrKeyword(in, p) == <<"Identifier", Past(in, p, Alpha \cup Digits)>>

\* The lexeme at or after place p, and where the next one is looked for.
NextToken(in, start) ==
  LET p == Skip(in, start)
      c == Char(in, p)
      t == CASE c = "eof" -> <<"Eof", p>>
             [] c = "/" /\ Char(in, p + 1) = "/" -> LexDocComment(in, p)
             [] c \in Punctuation -> <<c, p + 1>>
             [] c = "-" /\ Char(in, p + 1) = ">" -> <<"->", p + 2>>
             [] c \in Digits -> LexInteger(in, p)
             [] c \in Alpha -> LexIdentifierOrKeyword(in, p)
             [] OTHER -> <<"Bad", p>>
  IN [type |-> t[1], from |-> p, to |-> t[2],
      line |-> 1 + Quantify(1..p - 1, LAMBDA i : in[i] = "n")]

------------------------------------------------------------------------------
(* The parser's state: the tokens, the place of m_current_token, the doc     *)
(* comments (their places) of m_pending_doc, and how it failed, if it did.   *)

Current(s) == s.src[s.pos]
Check(s, type) == s.fail = "none" /\ Current(s)[1] = type
AtEnd(s) == s.fail # "none" \/ Current(s)[1] = "Eof"

Advance(s) ==
  LET next == Min({q \in s.pos + 1..Len(s.src) : s.src[q][1] # "DocComment"} \cup {Len(s.src)})
  IN [s EXCEPT !.pos = next,
               !.doc = @ \o [i \in 1..next - s.pos - 1 |-> s.pos + i],
               !.fail = IF s.src[next][1] = "Bad" THEN "lexer" ELSE @]

Fail(s) == [s EXCEPT !.fail = IF @ = "none" THEN "parser" ELSE @]
Expect(s, type) == IF Check(s, type) THEN Advance(s) ELSE Fail(s)
Expects(s, types) == FoldLeft(Expect, s, types)
SkipIf(s, type) == IF Check(s, type) THEN Advance(s) ELSE s
\* Mutant: the pending comments are not cleared.
TakeDocKept(s) == s

TakeDoc(s) == [s EXCEPT !.doc = <<>>]

\* F of what a parse function gave: a LET would work that out at each use.
Then(parsed, F(_)) == CHOOSE x \in {F(p) : p \in {parsed}} : TRUE

IsPrimitiveType(s) == s.fail = "none" /\ Current(s)[1] \in Primitives
TokenToPrimitive(s) == Current(s)[1]
Value(s) == Current(s)[2]

RECURSIVE Brackets(_, _)
Brackets(s, n) ==
  IF Check(s, "[") THEN Brackets(Expect(Advance(s), "]"), n + 1) ELSE <<s, n>>

\* What may follow the base of a type: pairs of brackets, then a question mark.
Modified(s, base) ==
  Then(Brackets(s, 0), LAMBDA b :
    <<SkipIf(b[1], "?"), [base |-> base, dims |-> b[2], opt |-> Check(b[1], "?")]>>)

\* Every parse function returns the state after it and what it has parsed; loc is
\* the place of the first token (the source's is a token or two further on for a
\* member of a class).
ParseType(s) ==
  IF IsPrimitiveType(s) THEN Modified(Advance(s), TokenToPrimitive(s))
  ELSE IF Check(s, "Identifier") THEN Modified(Advance(s), Value(s))
  ELSE <<Fail(s), NoType>>

Member(s, kind) ==
  [kind |-> kind, name |-> "", type |-> NoType, readonly |-> FALSE, params |-> <<>>,
   throws |-> <<>>, mode |-> "unary", value |-> <<>>, doc |-> s.doc, loc |-> s.pos]

\* Mutant: the semicolon of a field is not asked for.
ParseFieldUnended(s) ==
  Then(ParseType(TakeDoc(s)), LAMBDA t :
    <<SkipIf(Expect(t[1], "Identifier"), ";"),
      [Member(s, "field") EXCEPT !.name = Value(t[1]), !.type = t[2]]>>)

ParseField(s) ==
  Then(ParseType(TakeDoc(s)), LAMBDA t :
    <<Expects(t[1], <<"Identifier", ";">>),
      [Member(s, "field") EXCEPT !.name = Value(t[1]), !.type = t[2]]>>)

ParseProperty(s) ==
  Then(ParseType(SkipIf(TakeDoc(s), "readonly")), LAMBDA t :
    <<Expects(t[1], <<"Identifier", ";">>),
      [Member(s, "property") EXCEPT !.name = Value(t[1]), !.type = t[2],
                                    !.readonly = Check(s, "readonly")]>>)

ParseParam(s) ==
  Then(ParseType(s), LAMBDA t :
    <<Expect(t[1], "Identifier"), [name |-> Value(t[1]), type |-> t[2]]>>)

RECURSIVE ParamsFrom(_, _)
ParamsFrom(s, params) ==
  Then(ParseParam(s), LAMBDA p :
    LET all == Append(params, p[2])
    IN IF Check(p[1], ",") THEN ParamsFrom(Advance(p[1]), all) ELSE <<p[1], all>>)

Params(s) == IF Check(s, ")") THEN <<s, <<>>>> ELSE ParamsFrom(s, <<>>)

RECURSIVE ThrowsFrom(_, _)
ThrowsFrom(s, errors) ==
  LET e == Expect(s, "Identifier")
      all == Append(errors, Value(s))
  IN IF Check(e, ",") THEN ThrowsFrom(Advance(e), all) ELSE <<e, all>>

ParseConstructor(s) ==
  Then(Params(Expects(TakeDoc(s), <<"Identifier", "(">>)), LAMBDA p :
    <<Expects(p[1], <<")", ";">>), [Member(s, "constructor") EXCEPT !.params = p[2]]>>)

\* A method from its opening parenthesis on.
MethodTail(s, method) ==
  Then(Params(Expect(s, "(")), LAMBDA p :
    Then(ParseType(Expects(p[1], <<")", "->">>)), LAMBDA r :
      Then(IF Check(r[1], "throws") THEN ThrowsFrom(Advance(r[1]), <<>>) ELSE <<r[1], <<>>>>, LAMBDA e :
        <<Expect(e[1], ";"),
          [method EXCEPT !.params = p[2], !.type = r[2], !.throws = e[2]]>>)))

\* Mutant: an optional method is not known.
ParseMethodNoOptional(s) ==
  LET mode == IF Check(s, "stream") THEN "stream" ELSE "unary"
      n == IF mode = "unary" THEN TakeDoc(s) ELSE Advance(TakeDoc(s))
  IN MethodTail(Expect(n, "Identifier"),
                [Member(s, "method") EXCEPT !.name = Value(n), !.mode = mode])

ParseMethod(s) ==
  LET mode == IF Check(s, "optional") THEN "optional"
              ELSE IF Check(s, "stream") THEN "stream" ELSE "unary"
      n == IF mode = "unary" THEN TakeDoc(s) ELSE Advance(TakeDoc(s))
  IN MethodTail(Expect(n, "Identifier"),
                [Member(s, "method") EXCEPT !.name = Value(n), !.mode = mode])

\* A class member that begins with an identifier other than the class's: the
\* name of a method, or the type of a property, whose modifiers come after the
\* property's name.
IdentifierMember(s) ==
  LET n == Advance(TakeDoc(s))
      t == Modified(Expect(n, "Identifier"), Value(s))
  IN IF Check(n, "(")
       THEN MethodTail(n, [Member(s, "method") EXCEPT !.name = Value(s)])
       ELSE <<Expect(t[1], ";"),
              [Member(s, "property") EXCEPT !.name = Value(n), !.type = t[2]]>>

ClassMember(s, class) ==
  IF Check(s, "readonly") \/ IsPrimitiveType(s) THEN ParseProperty(s)
  ELSE IF Check(s, "Identifier") /\ Value(s) = class THEN ParseConstructor(s)
  ELSE IF Check(s, "stream") \/ Check(s, "optional") THEN ParseMethod(s)
  ELSE IF Check(s, "Identifier") THEN IdentifierMember(s)
  ELSE <<Fail(s), Member(s, "none")>>

RECURSIVE ParseMembers(_, _, _, _)
ParseMembers(s, kind, name, members) ==
  IF Check(s, "}") \/ AtEnd(s) THEN <<s, members>>
  ELSE Then(CASE kind \in {"struct", "error"} -> ParseField(s)
              [] kind = "service" -> ParseMethod(s)
              [] OTHER -> ClassMember(s, name),
            LAMBDA m : ParseMembers(m[1], kind, name, Append(members, m[2])))

ParseEnumItem(s) ==
  LET n == Expect(TakeDoc(s), "Identifier")
      v == Expect(Advance(n), "Integer")
      item == [Member(s, "item") EXCEPT !.name = Value(s)]
  IN IF Check(n, "=") THEN <<v, [item EXCEPT !.value = <<Value(Advance(n))>>]>> ELSE <<n, item>>

\* The items of an enum; a comma may follow the last one.
RECURSIVE Items(_, _)
Items(s, items) ==
  IF Check(s, "}") THEN <<s, items>>
  ELSE Then(ParseEnumItem(s), LAMBDA i :
         LET all == Append(items, i[2])
         IN IF Check(i[1], ",") THEN Items(Advance(i[1]), all) ELSE <<i[1], all>>)

ParseEnum(s) ==
  LET n == Advance(s)
  IN Then(Items(Expects(n, <<"Identifier", "{">>), <<>>), LAMBDA m :
       <<Expect(m[1], "}"), Definition(Current(s)[1], Value(n), "", m[2], <<>>, s.pos)>>)

\* parse_struct, parse_class, parse_service and parse_error: a service has no base.
ParseBlock(s) ==
  LET kind == Current(s)[1]
      n == Advance(s)
      b == Expect(n, "Identifier")
      inherits == kind # "service" /\ Check(b, ":")
      o == IF inherits THEN Expect(Advance(b), "Identifier") ELSE b
  IN Then(ParseMembers(Expect(o, "{"), kind, Value(n), <<>>), LAMBDA m :
       <<Expect(m[1], "}"),
         Definition(kind, Value(n), IF inherits THEN Value(Advance(b)) ELSE "", m[2], <<>>, s.pos)>>)

RECURSIVE ParseDefinitions(_, _)
ParseDefinitions(s, defs) ==
  IF AtEnd(s) THEN <<s, defs>>
  ELSE Then(IF Current(s)[1] \in {"enum", "flags"} THEN ParseEnum(TakeDoc(s))
            ELSE IF Current(s)[1] \in {"struct", "class", "service", "error"}
              THEN ParseBlock(TakeDoc(s))
            ELSE <<Fail(s), Definition("none", "", "", <<>>, <<>>, s.pos)>>,
            LAMBDA d : ParseDefinitions(d[1], Append(defs, [d[2] EXCEPT !.doc = s.doc])))

ParseNamespace(s) == Expects(s, <<"namespace", "Identifier", ";">>)

\* The parser of main(): its constructor reads the first token.
Start(src) == Advance([src |-> src, pos |-> 0, doc |-> <<>>, fail |-> "none"])
Parse(src) ==
  Then(ParseDefinitions(ParseNamespace(Start(src)), <<>>), LAMBDA d :
    [fail |-> d[1].fail, ns |-> Namespace(d[2])])
=============================================================================
