------------------------------- MODULE Parser -------------------------------
(***************************************************************************)
(* The parser (parser.cpp) on the tokens the lexer (lexer.cpp) makes of a  *)
(* text, and QueryData::to_string (parsedata.cpp), which turns a query     *)
(* back into text.                                                         *)
(*                                                                         *)
(* A token is its type and its value; characters, case and spaces are left *)
(* out.  Of a string constant, chars are the bytes, and bare is what the   *)
(* lexer would make of them without the quotes: one identifier, a number,  *)
(* several tokens or none.                                                 *)
(*                                                                         *)
(* The recursive-descent functions are a table of sentences and the parts  *)
(* they are made of.  None of them looks at what follows its sentence.     *)
(***************************************************************************)
EXTENDS Integers, SequencesExt

Token(type, val) == [type |-> type, val |-> val]
Keyword(w) == Token("Keyword", w)
Delim(c)   == Token("Delim", c)
Id(name)   == Token("Id", name)
Num(n)     == Token("Int", n)
Str(chars, bare) == Token("String", [chars |-> chars, bare |-> bare])

EndOfText == Token("End", 0)   \* token_ is empty

TypeAt(toks, i)  == IF i <= Len(toks) THEN toks[i].type ELSE EndOfText.type
Is(toks, i, tok) == TypeAt(toks, i) = tok.type /\ toks[i].val = tok.val

(* What the lexer can return: an identifier is a string.  A declared       *)
(* length is not negative; neither lexer nor parser looks at its sign.     *)
IsText(toks) ==
    /\ toks \in Seq(ToSet(toks))
    /\ \A i \in DOMAIN toks :
          /\ toks[i] = Token(toks[i].type, toks[i].val)
          /\ TypeAt(toks, i) = "Id" => toks[i].val \in STRING
          /\ Is(toks, i, Keyword("varchar")) /\ TypeAt(toks, i + 2) = "Int"
                => toks[i + 2].val \in Nat

(* What a parsing function returns: a value and the next position, or, for *)
(* the exception "Bad syntax", the position 0.                             *)
Got(val, at) == [val |-> val, at |-> at]
BadSyntax == Got(<<>>, 0)
Failed(g) == g.at = 0

EatToken(toks, i, tok) == IF Is(toks, i, tok) THEN Got(tok, i + 1) ELSE BadSyntax

(* Lexer::eat_id. *)
EatId(toks, i) == IF TypeAt(toks, i) = "Id" THEN Got(toks[i].val, i + 1) ELSE BadSyntax

Constant(toks, i) ==
    IF TypeAt(toks, i) \in {"Int", "String"} THEN Got(toks[i], i + 1) ELSE BadSyntax

Expression(toks, i) ==
    IF TypeAt(toks, i) \in {"Id", "Int", "String"} THEN Got(toks[i], i + 1) ELSE BadSyntax

Term(toks, i) ==
    LET lhs == Expression(toks, i)
        rhs == Expression(toks, lhs.at + 1)
    IN  IF Failed(lhs) \/ ~Is(toks, lhs.at, Delim("=")) \/ Failed(rhs) THEN BadSyntax
        ELSE Got([lhs |-> lhs.val, rhs |-> rhs.val], rhs.at)

(* field_def and field_type; the length of an int is 0. *)
FieldDef(toks, i) ==
    LET def(type, len, at) == Got([name |-> toks[i].val, type |-> type, length |-> len], at)
    IN  IF TypeAt(toks, i) # "Id" THEN BadSyntax
        ELSE CASE Is(toks, i + 1, Keyword("int")) -> def("INTEGER", 0, i + 2)
               [] /\ Is(toks, i + 1, Keyword("varchar")) /\ Is(toks, i + 2, Delim("("))
                  /\ TypeAt(toks, i + 3) = "Int" /\ Is(toks, i + 4, Delim(")"))
                     -> def("VARCHAR", toks[i + 3].val, i + 5)
               [] OTHER -> BadSyntax

(* select_list, table_list, field_list, const_list, field_defs and         *)
(* predicate: an item, and the rest after each separator.                  *)
ListOf(item(_, _), sep, toks, i) ==
    LET list[k \in 1..Len(toks) + 1] ==
            LET first == item(toks, k)
                rest  == list[first.at + 1]
            IN  CASE Failed(first) -> BadSyntax
                  [] ~Failed(first) /\ ~Is(toks, first.at, sep) -> Got(<<first.val>>, first.at)
                  [] OTHER -> IF Failed(rest) THEN BadSyntax
                              ELSE Got(<<first.val>> \o rest.val, rest.at)
    IN  IF i > Len(toks) THEN BadSyntax ELSE list[i]

(* Mutant: the predicate ends with its first term. *)
WhereOneTerm(toks, i) ==
    LET first == Term(toks, i + 1)
    IN  IF ~Is(toks, i, Keyword("where")) THEN Got(<<>>, i)
        ELSE IF Failed(first) THEN BadSyntax ELSE Got(<<first.val>>, first.at)

Where(toks, i) ==
    IF Is(toks, i, Keyword("where")) THEN ListOf(Term, Keyword("and"), toks, i + 1)
                                     ELSE Got(<<>>, i)

----------------------------------------------------------------------------
(* The sentences: tokens to eat, and parts to parse. *)
Part(name) == Token("Part", name)

QueryForm == <<Keyword("select"), Part("ids"), Keyword("from"), Part("ids"), Part("where")>>

Form ==
    [insert |-> <<Keyword("insert"), Keyword("into"), Part("id"), Delim("("), Part("ids"),
                  Delim(")"), Keyword("values"), Delim("("), Part("constants"), Delim(")")>>,
     delete |-> <<Keyword("delete"), Keyword("from"), Part("id"), Part("where")>>,
     modify |-> <<Keyword("update"), Part("id"), Keyword("set"), Part("id"), Delim("="),
                  Part("expression"), Part("where")>>,
     create_table |-> <<Keyword("create"), Keyword("table"), Part("id"), Delim("("),
                        Part("fields"), Delim(")")>>,
     create_view  |-> <<Keyword("create"), Keyword("view"), Part("id"), Keyword("as")>>
                        \o QueryForm,
     create_index |-> <<Keyword("create"), Keyword("index"), Part("id"), Keyword("on"),
                        Part("id"), Delim("("), Part("id"), Delim(")")>>,
     query |-> QueryForm]

ParsePart(name, toks, i) ==
    CASE name = "id"         -> EatId(toks, i)
      [] name = "ids"        -> ListOf(EatId, Delim(","), toks, i)
      [] name = "constants"  -> ListOf(Constant, Delim(","), toks, i)
      [] name = "expression" -> Expression(toks, i)
      [] name = "fields"     -> ListOf(FieldDef, Delim(","), toks, i)
      [] name = "where"      -> Where(toks, i)

ParseForm(kind, toks) ==
    LET form == Form[kind]
        upTo[k \in 0..Len(form)] ==
            IF k = 0 THEN Got(<<>>, 1)
            ELSE LET before == upTo[k - 1]
                     part   == ParsePart(form[k].val, toks, before.at)
                 IN  CASE Failed(before) -> BadSyntax
                       [] ~Failed(before) /\ form[k].type # "Part" ->
                             IF Is(toks, before.at, form[k]) THEN Got(before.val, before.at + 1)
                                                             ELSE BadSyntax
                       [] OTHER -> IF Failed(part) THEN BadSyntax
                                   ELSE Got(Append(before.val, part.val), part.at)
    IN  upTo[Len(form)]

(* Parser::update_cmd and create_cmd choose by the first words; whatever   *)
(* does not begin with "create table" or "create view" has to be an index. *)
UpdateKind(toks) ==
    LET creates(what) == Is(toks, 1, Keyword("create")) /\ Is(toks, 2, Keyword(what))
    IN  CASE Is(toks, 1, Keyword("insert")) -> "insert"
          [] Is(toks, 1, Keyword("delete")) -> "delete"
          [] Is(toks, 1, Keyword("update")) -> "modify"
          [] creates("table") -> "create_table"
          [] creates("view")  -> "create_view"
          [] OTHER -> "create_index"

(* A statement: its kind and its parts in the order of its sentence. *)
Statement(kind, parts) == [kind |-> kind, parts |-> parts]
NoStatement == Statement("bad syntax", <<>>)

ParseAs(kind, toks) == LET g == ParseForm(kind, toks)
                       IN  IF Failed(g) THEN NoStatement ELSE Statement(kind, g.val)

ParseUpdate(toks) == ParseAs(UpdateKind(toks), toks)
ParseQuery(toks)  == ParseAs("query", toks)

----------------------------------------------------------------------------
(* Back to text.  A client writes a string constant with quotes;           *)
(* Constant::to_string leaves them out.                                    *)
ConstantText(tok, quotes) == IF tok.type = "String" /\ ~quotes THEN tok.val.bare ELSE <<tok>>

Join(seqs, sep) ==
    FlattenSeq([k \in DOMAIN seqs |-> IF k = 1 THEN seqs[k] ELSE <<sep>> \o seqs[k]])

Each(item(_), s) == [k \in DOMAIN s |-> item(s[k])]

TermText(t, quotes) ==
    ConstantText(t.lhs, quotes) \o <<Delim("=")>> \o ConstantText(t.rhs, quotes)

FieldText(f) == IF f.type = "INTEGER" THEN <<Id(f.name), Keyword("int")>>
                ELSE <<Id(f.name), Keyword("varchar"), Delim("("), Num(f.length), Delim(")")>>

PartText(name, val, quotes) ==
    LET ident(x) == <<Id(x)>>
        const(c) == ConstantText(c, quotes)
        term(t)  == TermText(t, quotes)
    IN  CASE name = "id"         -> ident(val)
          [] name = "ids"        -> Join(Each(ident, val), Delim(","))
          [] name = "constants"  -> Join(Each(const, val), Delim(","))
          [] name = "expression" -> const(val)
          [] name = "fields"     -> Join(Each(FieldText, val), Delim(","))
          [] name = "where"      -> IF val = <<>> THEN <<>>
                                    ELSE <<Keyword("where")>>
                                           \o Join(Each(term, val), Keyword("and"))

(* A sentence with its parts filled in: the k-th word, and the whole. *)
PartsUpTo(form, k) == Cardinality({j \in 1..k : form[j].type = "Part"})

Words(form, parts, k, quotes) ==
    IF form[k].type # "Part" THEN <<form[k]>>
    ELSE PartText(form[k].val, parts[PartsUpTo(form, k)], quotes)

TextOf(s, quotes) ==
    LET form == Form[s.kind]
    IN  FlattenSeq([k \in DOMAIN form |-> Words(form, s.parts, k, quotes)])

(* The text a client sends, and QueryData::to_string. *)
Written(s)   == TextOf(s, TRUE)
QueryText(q) == TextOf(q, FALSE)

HasString(q) == \E t \in ToSet(q.parts[3]) : "String" \in {t.lhs.type, t.rhs.type}
=============================================================================
