----------------------------- MODULE MCTableQuery -----------------------------
(***************************************************************************)
(* Expressions that were typed, well or not, and rows to hold against      *)
(* them.                                                                   *)
(***************************************************************************)
EXTENDS TableQuery
LOCAL INSTANCE SequencesExt
LOCAL INSTANCE Functions

-----------------------------------------------------------------------------
(* Anything that can be typed in a few pieces.                             *)

Pieces == {"name", "cpu", "missing", "and", "5", "=", "&&", "(", ")", "'"}
Typed == {[of |-> "typed", input |-> s] : s \in SeqOf(Pieces, 4)}

-----------------------------------------------------------------------------
(* Expressions that are meant, and ways to spell them.                     *)

Texts == {<<"br">>, <<"and", "x">>, <<"br", "-", "5">>, <<"br", " ", "and">>, <<"br", "and">>}
Huge == 2000000000   \* stands for 2^64, a count that no 64 bits hold
Numbers == {Compare("cpu", ">", 5000), Compare("age", "<=", 300), Compare("memory", "=", 5),
            Compare("restarts", ">=", 5)}
Absences == {Absent("cpu"), Absent("restarts"), Absent("name")}
Edges == {Compare("cpu", ">", -5000), Compare("memory", "=", -5), Compare("restarts", ">=", Huge)}
Compares == {Compare("name", o, t) : o \in {"=", "!="}, t \in Texts} \cup Numbers \cup Absences \cup Edges
UpToTwo(S) == {<<t>> : t \in S} \cup {<<s, t>> : s \in S, t \in S}
Meant == UpToTwo(Compares)

Styles == [blanks : BOOLEAN, quotes : BOOLEAN, joint : {"AND", "and", "&&"}]

Spelt(term, style) ==
  LET blank == IF style.blanks THEN <<" ">> ELSE <<>>
      quoted == style.quotes \/ \E i \in DOMAIN term.text : term.text[i] = " "
      value == CASE term.kind = "missing" -> <<>>
                 [] term.kind = "compare" /\ term.field = "name" ->
                      IF quoted THEN <<"'">> \o term.text \o <<"'">> ELSE term.text
                 [] term.kind = "compare" /\ term.field = "age" -> <<"5", "m">>
                 [] OTHER -> IF term.number = Huge THEN <<"2^64">>
                             ELSE IF term.number < 0 THEN <<"-", "5">> ELSE <<"5">>
  IN  IF term.kind = "missing"
      THEN <<"missing">> \o blank \o <<"(", term.field>> \o blank \o <<")">>
      ELSE <<term.field>> \o blank \o <<term.op>> \o blank \o value
Spelling(terms, style) ==
  LET joint == IF style.joint = "&&" THEN <<"&&">> ELSE <<" ", style.joint, " ">>
  IN  IF Len(terms) = 1 THEN Spelt(terms[1], style)
      ELSE Spelt(terms[1], style) \o joint \o Spelt(terms[2], style)
Spelled == {[of |-> "spelled", terms |-> t, style |-> s, input |-> Spelling(t, s)] : t \in Meant, s \in Styles}

\* What the specification lets be written: AND in capitals or && (:253), and no
\* number below nought (:250).
Documented(q) ==
  /\ Len(q.terms) > 1 => q.style.joint # "and"
  /\ \A t \in Range(q.terms) : t.number >= 0
\* A bare value that ends in "and", as brand does, is cut there (parse.go:400).
Cut(q) == ~q.style.quotes /\ \E t \in Range(q.terms) : t.text = <<"br", "and">>
\* parseInt adds digits up in 64 bits and does not look whether they hold them.
Wraps(q) == \E t \in Range(q.terms) : t.number = Huge

\* docs/incident-workspace-spec-updated.md:242 "string with a blank must be
\* quoted", blanks round an operator are free: what the specification lets be
\* written is read as what was meant however it is spelled, but for a bare value
\* that ends in "and", which is refused. What it does not let be written and the
\* program takes, "and" in small letters and a number below nought, is read as
\* it stands; only a count beyond 64 bits is read as another one. What is no
\* expression is refused where it goes wrong, never read as text or as no filter
\* at all (:249).
ReadAsMeant(q, a) ==
  IF q.of = "spelled"
  THEN /\ Documented(q) /\ ~Cut(q) => a.valid
       /\ a.valid => \/ a.program.terms = q.terms
                     \/ Wraps(q) /\ Len(a.program.terms) = Len(q.terms)
  ELSE IF Blank(q.input) THEN a = Valid([terms |-> <<>>])
  ELSE IF a.valid
  THEN /\ a.program.terms # <<>>
       /\ \A t \in Range(a.program.terms) :
            /\ {t.field, IF t.kind = "missing" THEN "(" ELSE t.op} \subseteq Range(q.input)
            /\ t.field = "cpu" /\ t.kind = "compare" => "5" \in Range(q.input)
  ELSE a.position \in 1..(Len(q.input) + 1)

-----------------------------------------------------------------------------
(* Rows.                                                                   *)

Row(restarts, created, fetched, cpu) ==
  [name |-> <<"br">>, namespace |-> <<"x">>, status |-> <<"x">>, health |-> <<"x">>,
   restarts |-> restarts, created |-> created, fetched |-> fetched, now |-> 400,
   cpu |-> cpu, memory |-> cpu]
Rows == {Row(r, c, f, u) : r \in {<<>>, <<5>>}, c \in {<<>>, <<100>>, <<50>>, <<500>>},
                           f \in {<<>>, <<400 - MetricsStaleAfter>>, <<399 - MetricsStaleAfter>>},
                           u \in {<<>>, <<5>>, <<5001>>}}
NamesAsked == {Compare("name", o, t) : o \in {"=", "!="}, t \in {<<"br">>, <<"and", "x">>}}
Matched == {[of |-> "row", terms |-> t, row |-> r] :
              t \in UpToTwo(NamesAsked \cup Numbers \cup Absences), r \in Rows}

\* docs/incident-workspace-spec-updated.md:254 "missing value is unknown, not
\* 0; comparisons, != among them, with an unknown do not match": a row matches
\* when everything that is asked is known and holds, and usage that is older
\* than it may be is not known.
MatchedWhenKnown(q, a) ==
  LET Known(f) == CASE f = "name" -> TRUE
                    [] f = "restarts" -> q.row.restarts # <<>>
                    [] f = "age" -> q.row.created # <<>>
                    [] f \in {"cpu", "memory"} ->
                         q.row.cpu # <<>> /\ q.row.fetched = <<400 - MetricsStaleAfter>>
      True(t) == IF t.kind = "missing" THEN ~Known(t.field)
                 ELSE /\ Known(t.field)
                      /\ t.field = "age" => q.row.created # <<50>>
                      /\ t.field = "cpu" => q.row.cpu = <<5001>>
                      /\ t.field = "memory" => q.row.cpu = <<5>>
                      /\ t.field = "restarts" => q.row.restarts = <<5>>
                      /\ t.field = "name" => (t.op = "=") = (t.text = <<"br">>)
      wanted == \A i \in DOMAIN q.terms : True(q.terms[i])
  IN  /\ (a = "true") = wanted
      /\ a = "unknown" => \E i \in DOMAIN q.terms :
           q.terms[i].kind = "compare" /\ ~Known(q.terms[i].field)

-----------------------------------------------------------------------------
Questions == Typed \cup Spelled \cup Matched
Answer(q) == IF q.of = "row" THEN Match(q.terms, q.row) ELSE CompileQuery("expression", q.input)
Sound(q, a) == IF q.of = "row" THEN MatchedWhenKnown(q, a) ELSE ReadAsMeant(q, a)
=============================================================================
