------------------------------ MODULE TableQuery ------------------------------
(***************************************************************************)
(* The query language of the tables (internal/resources/query: parse, eval,*)
(* projection, selectors).                                                 *)
(*                                                                         *)
(* An expression is a sequence of pieces: symbols, blanks, and the pieces  *)
(* that words and numbers are made of. Pieces of letters that touch are    *)
(* one word, so "br" before "and" is the word "brand". A keyword is read in *)
(* any case, of which two are here; so are fields, which are here in one.  *)
(***************************************************************************)
EXTENDS Integers, Sequences, FiniteSets
LOCAL INSTANCE SequencesExt

CONSTANTS
  MaxInput,          \* maxInputBytes, in pieces
  MaxTerms,          \* maxTerms
  MetricsStaleAfter  \* metricsStaleAfter

-----------------------------------------------------------------------------
(* Types.                                                                  *)

StringFields == {"name", "namespace", "status", "health"}
NumericFields == {"restarts", "age", "cpu", "memory"}
FieldNames == StringFields \cup NumericFields
Operators == {"=", "!=", ">", ">=", "<", "<="}

IsStringField(field) == field \in StringFields

Letters == FieldNames \cup {"missing", "and", "AND", "br", "x", "m"}
Digits == {"5", "2^64"}
Boundary(input, at) == at > Len(input) \/ input[at] \notin Letters \cup Digits

Read(at, value) == [at |-> at, value |-> value]
Failed(at) == [error |-> at]
IsError(r) == "error" \in DOMAIN r

-----------------------------------------------------------------------------
(* The scanner: where it stands after a symbol, a keyword or blanks.       *)

RECURSIVE SkipSpace(_, _)
SkipSpace(input, at) ==
  IF at <= Len(input) /\ input[at] = " " THEN SkipSpace(input, at + 1) ELSE at

MatchLiteral(input, at, literal) == at <= Len(input) /\ input[at] = literal

\* ToUpper of both: the case of a keyword does not matter.
Spellings(word) == IF word = "AND" THEN {"AND", "and"} ELSE {word}

MatchKeywordMutant(input, at, word) == at <= Len(input) /\ input[at] \in Spellings(word)

\* A keyword ends at a boundary. It may begin within a word.
MatchKeyword(input, at, word) ==
  at <= Len(input) /\ input[at] \in Spellings(word) /\ Boundary(input, at + 1)

\* The first place from here on that the run stops at.
RunEnd(input, at, stops) ==
  LET ends == (stops \cap (at..Len(input))) \cup {Len(input) + 1}
  IN  CHOOSE i \in ends : \A j \in ends : i <= j

PlacesOf(input, pieces) == {i \in DOMAIN input : input[i] \in pieces}
Conjunctions(input) == {i \in DOMAIN input : MatchKeyword(input, i, "AND")}

ReadField(input, at) ==
  LET end == RunEnd(input, at, DOMAIN input \ PlacesOf(input, Letters))
  IN  IF end = at + 1 /\ input[at] \in FieldNames THEN Read(end, input[at]) ELSE Failed(at)

ReadOp(input, at) ==
  IF at <= Len(input) /\ input[at] \in Operators THEN Read(at + 1, input[at]) ELSE Failed(at)

ReadStringValue(input, at) ==
  LET quoted == RunEnd(input, at + 1, PlacesOf(input, {"'"}))
      bare == RunEnd(input, at, PlacesOf(input, {" ", "&", "&&"}) \cup Conjunctions(input))
  IN  IF MatchLiteral(input, at, "'")
      THEN IF quoted > Len(input) THEN Failed(at + 1)
           ELSE Read(quoted + 1, SubSeq(input, at + 1, quoted - 1))
      ELSE IF bare = at THEN Failed(at) ELSE Read(bare, SubSeq(input, at, bare - 1))

\* What the number is, in seconds, millicores, bytes and restarts; <<>> for
\* what is refused. Restarts are added up digit by digit in 64 bits, and "5m"
\* bytes are rounded up.
Quantity(field, token) ==
  CASE field = "age" -> IF token = <<"5", "m">> THEN <<300>> ELSE <<>>
    [] field = "cpu" -> CASE token = <<"5">> -> <<5000>>
                          [] token = <<"-", "5">> -> <<-5000>>
                          [] token = <<"5", "m">> -> <<5>>
                          [] OTHER -> <<>>
    [] field = "memory" -> CASE token = <<"5">> -> <<5>>
                             [] token = <<"-", "5">> -> <<-5>>
                             [] token = <<"5", "m">> -> <<1>>
                             [] OTHER -> <<>>
    [] field = "restarts" -> CASE token = <<"5">> -> <<5>>
                               [] token = <<"2^64">> -> <<0>>
                               [] OTHER -> <<>>

ReadNumericValue(input, at, field) ==
  LET end == RunEnd(input, at, PlacesOf(input, {" ", "&&"}) \cup Conjunctions(input))
      number == Quantity(field, SubSeq(input, at, end - 1))
  IN  IF number = <<>> THEN Failed(at) ELSE Read(end, number[1])

-----------------------------------------------------------------------------
(* The parser.                                                             *)

Term(kind, field, op, text, number) ==
  [kind |-> kind, field |-> field, op |-> op, text |-> text, number |-> number]
Compare(field, op, value) ==
  IF IsStringField(field) THEN Term("compare", field, op, value, 0)
                          ELSE Term("compare", field, op, <<>>, value)
Absent(field) == Term("missing", field, "=", <<>>, 0)

ParseMissing(input, at) ==
  LET open == SkipSpace(input, at)
      field == ReadField(input, SkipSpace(input, open + 1))
      close == SkipSpace(input, field.at)
  IN  CASE ~MatchLiteral(input, open, "(") -> Failed(open)
        [] MatchLiteral(input, open, "(") /\ IsError(field) -> field
        [] OTHER -> IF MatchLiteral(input, close, ")") THEN Read(close + 1, Absent(field.value))
                    ELSE Failed(close)

ParseCompare(input, at) ==
  LET field == ReadField(input, at)
      op == ReadOp(input, SkipSpace(input, field.at))
      from == SkipSpace(input, op.at)
      value == IF IsStringField(field.value) THEN ReadStringValue(input, from)
               ELSE ReadNumericValue(input, from, field.value)
  IN  CASE IsError(field) -> field
        [] ~IsError(field) /\ IsError(op) -> op
        [] OTHER ->
             IF IsStringField(field.value) /\ op.value \notin {"=", "!="} THEN Failed(from)
             ELSE IF IsError(value) THEN value
             ELSE Read(value.at, Compare(field.value, op.value, value.value))

ParseTerm(input, at) ==
  LET from == SkipSpace(input, at)
  IN  IF MatchKeyword(input, from, "missing") THEN ParseMissing(input, from + 1)
      ELSE ParseCompare(input, from)

RECURSIVE ParseTerms(_, _, _)
ParseTerms(input, at, before) ==
  LET term == ParseTerm(input, at)
      end == SkipSpace(input, term.at)
  IN  CASE IsError(term) -> term
        [] ~IsError(term) /\ end > Len(input) -> Read(end, Append(before, term.value))
        [] OTHER -> IF MatchKeyword(input, end, "AND") \/ MatchLiteral(input, end, "&&")
                    THEN ParseTerms(input, end + 1, Append(before, term.value))
                    ELSE Failed(end)

Valid(program) == [valid |-> TRUE, program |-> program]
Invalid(at) == [valid |-> FALSE, position |-> at]

ParseExpression(input) ==
  LET read == ParseTerms(input, 1, <<>>)
  IN  CASE IsError(read) -> Invalid(read.error)
        [] ~IsError(read) /\ Len(read.value) > MaxTerms -> Invalid(0)
        [] OTHER -> Valid([terms |-> read.value])

Blank(input) == SkipSpace(input, 1) > Len(input)

CompileQuery(mode, input) ==
  CASE mode \in {"", "text"} -> Valid([needle |-> input])
    [] mode = "expression" ->
         IF Blank(input) THEN Valid([terms |-> <<>>])
         ELSE IF Len(input) > MaxInput THEN Invalid(0) ELSE ParseExpression(input)
    [] OTHER -> Invalid(0)

-----------------------------------------------------------------------------
(* A row, as it is compared: <<>> stands for a value that is not known.    *)

MetricsFresh(row) ==
  row.fetched # <<>> /\ row.now - row.fetched[1] <= MetricsStaleAfter

Project(row) ==
  [name |-> row.name, namespace |-> row.namespace, status |-> row.status, health |-> row.health,
   restarts |-> row.restarts,
   age |-> IF row.created = <<>> THEN <<>>
           ELSE IF row.now < row.created[1] THEN <<0>> ELSE <<row.now - row.created[1]>>,
   cpu |-> IF MetricsFresh(row) THEN row.cpu ELSE <<>>,
   memory |-> IF MetricsFresh(row) THEN row.memory ELSE <<>>]

FieldUnknown(field, projection) == ~IsStringField(field) /\ projection[field] = <<>>

Holds(left, op, right) ==
  CASE op = "=" -> left = right
    [] op = "!=" -> left # right
    [] op = ">" -> left > right
    [] op = ">=" -> left >= right
    [] op = "<" -> left < right
    [] op = "<=" -> left <= right

EvalTerm(term, projection) ==
  CASE term.kind = "missing" -> IF FieldUnknown(term.field, projection) THEN "true" ELSE "false"
    [] term.kind = "compare" /\ FieldUnknown(term.field, projection) -> "unknown"
    [] OTHER ->
         LET value == projection[term.field]
             holds == IF IsStringField(term.field) THEN Holds(value, term.op, term.text)
                      ELSE Holds(value[1], term.op, term.number)
         IN  IF holds THEN "true" ELSE "false"

\* The first term that is not true decides, as an unknown one ends it too.
Match(terms, row) ==
  LET results == [i \in DOMAIN terms |-> EvalTerm(terms[i], Project(row))]
      against == SelectSeq(results, LAMBDA r : r # "true")
  IN  IF against = <<>> THEN "true" ELSE Head(against)

FilterRows(rows, terms) ==
  [matched |-> SelectSeq(rows, LAMBDA r : Match(terms, r) = "true"),
   unknown |-> Len(SelectSeq(rows, LAMBDA r : Match(terms, r) = "unknown"))]
=============================================================================
