-------------------------- MODULE PartitionText --------------------------
(***************************************************************************)
(* partition.go: how the text of a partition, from a row of                *)
(* information_schema.partitions or from SHOW CREATE TABLE, becomes the    *)
(* predicate that aims a query at its region.                              *)
(*                                                                         *)
(* A text is a sequence of tokens: a quote, a backquote, a parenthesis, an *)
(* operator, a keyword, a word.  What stands between two quotes is tokens  *)
(* too, since the code searches the text without regard to quotes in some  *)
(* places.  A condition is written by the operators of its SQL grammar     *)
(* below, which keep beside its tokens what it means: the points, values   *)
(* of the columns, at which it holds.                                      *)
(***************************************************************************)
EXTENDS Integers, Sequences, FiniteSets, SequencesExt

CONSTANTS Texts,       \* set of [columns, partitions, ddl, head], see Given
          ColumnNames, \* names of columns
          Literals,    \* set of [tokens, value]: the literals that texts contain
          Written,     \* sequence of sets: the conditions that texts contain, see WrittenAssumption
          Refused      \* the code returns an error

VARIABLES text,      \* the text that is read
          parsed     \* for each partition its conditions, or Refused; <<>> before

textVars == <<text, parsed>>
-----------------------------------------------------------------------------
(* SQL: conditions with their meaning.                                     *)
Marks == {"'", "backquote", "(", ")", "comma"}
Keywords == {"AND", "OR", "NOT"}
Values == {l.value : l \in Literals}
Assignments == [ColumnNames -> Values]
Operators == {">=", "<=", "=", "<", ">"}
Signs == Operators \cup {"<>", "!="}

Compare(x, op, y) == CASE op = ">=" -> x >= y
                       [] op = "<=" -> x <= y
                       [] op = "=" -> x = y
                       [] op = "<" -> x < y
                       [] op = ">" -> x > y
                       [] OTHER -> x # y

\* form: "cmp" is a comparison, "flat" a conjunction of them, both perhaps in
\* parentheses; "other" is what the loader does not have to understand.
Comparison(name, column, op, literal) ==
    [tokens |-> column \o <<op>> \o literal.tokens, columns |-> {name},
     form |-> IF op \in Operators /\ ToSet(literal.tokens) \cap Signs = {} /\ name \notin {"AND"} \cup Signs
              THEN "cmp" ELSE "other",
     holds |-> {p \in Assignments : Compare(p[name], op, literal.value)}]
Enclosed(tokens) == <<"(">> \o tokens \o <<")">>
InParentheses(e) == [e EXCEPT !.tokens = Enclosed(@)]
Negation(e) == [e EXCEPT !.tokens = <<"NOT">> \o @, !.form = "other", !.holds = Assignments \ @]
Conjunction(e, f) ==
    [tokens |-> e.tokens \o <<"AND">> \o f.tokens, columns |-> e.columns \cup f.columns,
     form |-> IF e.form = "cmp" /\ f.form = "cmp" THEN "flat" ELSE "other",
     holds |-> e.holds \cap f.holds]
Disjunction(e, f) ==
    [tokens |-> e.tokens \o <<"OR">> \o f.tokens, columns |-> e.columns \cup f.columns,
     form |-> "other", holds |-> e.holds \cup f.holds]

\* A name that is a keyword or looks like an operator is written in backquotes.
Backquoted(name) == <<"backquote", name, "backquote">>
Comparisons == {Comparison(name, <<name>>, op, l) : name \in ColumnNames \ (Keywords \cup Signs),
                                                   op \in Signs, l \in Literals}
               \cup {Comparison(name, Backquoted(name), op, l) : name \in ColumnNames,
                                                               op \in Signs, l \in Literals}
-----------------------------------------------------------------------------
(* The scanners.  Two quotes inside quotes stand for one: they end and      *)
(* begin a string, so that what is outside is told by counting.            *)
Quotes(t, i) == Cardinality({j \in 1..i : t[j] = "'"})
Terminated(t) == Quotes(t, Len(t)) % 2 = 0
Outside(t) == {i \in DOMAIN t : t[i] # "'" /\ Quotes(t, i) % 2 = 0}

\* The parentheses open after token i, those in quotes not counted.
Depth(t) ==
    LET Count(token) == {j \in Outside(t) : t[j] = token}
        opened == Count("(")
        closed == Count(")")
    IN  [i \in 0..Len(t) |-> Cardinality(opened \cap (1..i)) - Cardinality(closed \cap (1..i))]

\* What is between the separators at the positions cuts: the k-th piece begins where
\* k - 1 of them have passed.
PieceStart(cuts, k) == CHOOSE a \in {0} \cup cuts : Cardinality(cuts \cap (1..a)) = k - 1
PieceEnd(t, cuts, a) == Min({b \in cuts \cup {Len(t) + 1} : b > a})
Pieces(t, cuts) == [k \in 1..Cardinality(cuts) + 1 |->
                       SubSeq(t, PieceStart(cuts, k) + 1, PieceEnd(t, cuts, PieceStart(cuts, k)) - 1)]

SplitTopLevel(t) ==
    LET depth == Depth(t) IN
    IF ~Terminated(t) \/ depth[Len(t)] # 0 \/ \E i \in DOMAIN t : depth[i] < 0
    THEN Refused
    ELSE Pieces(t, {i \in Outside(t) : t[i] = "comma" /\ depth[i] = 0})

\* At every AND outside quotes, in parentheses or not.
SplitConditions(t) ==
    LET parts == Pieces(t, {i \in Outside(t) : t[i] = "AND"})
    IN  IF ~Terminated(t) \/ \E k \in DOMAIN parts : parts[k] = <<>> THEN Refused ELSE parts

\* Where the parenthesis that t begins with closes, or 0.
Closing(t) ==
    LET depth == Depth(t)
        ends == {i \in DOMAIN t : depth[i] = 0}
    IN  IF t = <<>> \/ t[1] # "(" \/ ends = {} THEN 0 ELSE Min(ends)

Inside(t) == SubSeq(t, 2, Closing(t) - 1)
After(t) == SubSeq(t, Closing(t) + 1, Len(t))

\* Mutant: what follows the closing parenthesis is not looked at.
UnwrappedFirst(t) == IF Closing(t) = 0 THEN t ELSE Inside(t)

Unwrapped(t) == LET end == Closing(t) IN IF end = Len(t) THEN Inside(t) ELSE t

\* unwrapCondition: parentheses around all of t are taken off, again and again.
Unwrap(t) == LET bare[n \in 0..Len(t)] == IF n = 0 THEN t ELSE Unwrapped(bare[n - 1])
             IN  bare[Len(t)]
-----------------------------------------------------------------------------
(* From text to conditions.                                                *)

Identifier(t) == CASE Len(t) = 1 /\ t[1] \in ColumnNames -> t[1]
                   [] Len(t) = 3 /\ t = Backquoted(t[2]) /\ t[2] \in ColumnNames -> t[2]
                   [] OTHER -> Refused

\* parseQuoted: quotes at both ends, and only pairs of them in between.
IsQuoted(t) == /\ Len(t) >= 2 /\ t[1] = "'" /\ t[Len(t)] = "'"
               /\ Terminated(t) /\ Outside(t) = {}

\* A quoted string, a number, or TIMESTAMP and a date in quotes.
Unquoted == {l.tokens : l \in {m \in Literals : m.tokens[1] # "'"}}
Literal(t) == IF IsQuoted(t) \/ t \in Unquoted THEN t ELSE Refused

\* The tokens whose text an operator is found in.
Within(op) == CASE op = "=" -> {"=", ">=", "<=", "!="}
                [] op = "<" -> {"<", "<=", "<>"}
                [] op = ">" -> {">", ">=", "<>"}
                [] OTHER -> {op}

\* The operators are tried in this order, each on the whole text, quotes or not.
\* If it is part of another token, what is left of that token is no identifier
\* or no literal.
ParseCondition(t) ==
    LET order == <<">=", "<=", "=", "<", ">">>
        Found(k) == {i \in DOMAIN t : t[i] \in Within(order[k])}
        tried == {k \in DOMAIN order : Found(k) # {}}
    IN  IF tried = {} THEN Refused
        ELSE LET op == order[Min(tried)]
                 i == Min(Found(Min(tried)))
                 condition == [column |-> Identifier(SubSeq(t, 1, i - 1)), operator |-> op,
                               value |-> Literal(SubSeq(t, i + 1, Len(t)))]
             IN  IF t[i] # op \/ Refused \in {condition.column, condition.value}
                 THEN Refused ELSE condition

ParseColumns(t) ==
    LET parts == SplitTopLevel(t) IN
    IF parts = Refused THEN Refused
    ELSE LET names == [k \in DOMAIN parts |-> Identifier(parts[k])] IN
         IF Refused \in ToSet(names) \/ ~IsInjective(names) THEN Refused ELSE names

\* The conditions of one partition are together over all columns.
Complete(conditions, columns) ==
    /\ Refused \notin ToSet(conditions)
    /\ {conditions[k].column : k \in DOMAIN conditions} = ToSet(columns)

Joined(parts) == FlattenSeq([k \in DOMAIN parts |-> IF k = 1 THEN parts[k] ELSE <<"comma">> \o parts[k]])

\* What the server gives: the partition clause of a DDL that begins with head, or
\* the expression and the description of one row.
Given(g) == g.head \o (<<"PARTITION", "ON", "COLUMNS">> \o (Enclosed(g.columns)
            \o Enclosed(Joined([k \in DOMAIN g.partitions |-> g.partitions[k].tokens]))))

AllTokens == Marks \cup Keywords \cup Signs \cup ColumnNames \cup UNION {ToSet(l.tokens) : l \in Literals}

\* A literal is one string, or has keywords, operators and marks in strings only; one
\* text has one value.  Names are words.
ASSUME WordsAssumption ==
    /\ ColumnNames \cap Marks = {}
    /\ \A l \in Literals :
         /\ l.tokens \in Seq(AllTokens) /\ l.tokens # <<>> /\ l.value \in Int
         /\ IF l.tokens[1] = "'" THEN IsQuoted(l.tokens)
            ELSE /\ Terminated(l.tokens)
                 /\ \A i \in Outside(l.tokens) : l.tokens[i] \notin Marks \cup Keywords \cup Signs
         /\ \A m \in Literals : m.tokens = l.tokens => m.value = l.value

\* The first conditions are comparisons, the next ones are made of those before them.
ASSUME WrittenAssumption ==
    /\ Written \in Seq(ToSet(Written)) /\ Written # <<>> /\ Written[1] \subseteq Comparisons
    /\ \A n \in 1..Len(Written) - 1 :
         \/ Written[n + 1] \subseteq UNION {Written[n], {InParentheses(e) : e \in Written[n]},
                                           {Negation(e) : e \in Written[n]}}
         \/ Written[n + 1] \subseteq UNION {Written[n], {Conjunction(e, f) : e, f \in Written[n]},
                                           {Disjunction(e, f) : e, f \in Written[n]}}

Expressions == UNION {Written[n] : n \in DOMAIN Written}

\* A row has one partition.  No parentheses and strings among the columns; before the
\* partition clause nothing that begins like one.
ASSUME TextsAssumption ==
    \A g \in Texts :
       /\ g.ddl \in BOOLEAN
       /\ g.partitions \in Seq(Expressions) /\ g.partitions # <<>> /\ (~g.ddl => Len(g.partitions) = 1)
       /\ g.columns \in Seq(ToSet(g.columns) \ {"'", "(", ")"}) /\ g.head \in Seq(ToSet(g.head))
       /\ \A i \in 1..Len(g.head) - 1 : g.head[i] = "PARTITION" => g.head[i + 1] # "ON"

Conditions == [column : ColumnNames, operator : Operators, value : Seq(AllTokens)]
ASSUME RefusedAssumption ==
    /\ Refused \notin ColumnNames /\ Refused \notin Seq(AllTokens)
    /\ Refused \notin Seq(Seq(AllTokens)) /\ Refused \notin Conditions /\ Refused \notin Seq(Seq(Conditions))

TextInit == text \in Texts /\ parsed = <<>>

\* One value: what the code keeps in a local variable.
ParsePartitions(parts, columns) ==
    \E split \in {IF Refused \in {parts, columns} THEN <<Refused>>
                  ELSE [k \in DOMAIN parts |-> SplitConditions(Unwrap(parts[k]))]} :
       IF Refused \in ToSet(split) THEN parsed' = Refused
       ELSE \E bare \in {[k \in DOMAIN split |-> [c \in DOMAIN split[k] |-> Unwrap(split[k][c])]]} :
            \E all \in {[k \in DOMAIN bare |-> [c \in DOMAIN bare[k] |-> ParseCondition(bare[k][c])]]} :
               parsed' = IF \A k \in DOMAIN all : Complete(all[k], columns) THEN all ELSE Refused

ParseRow == /\ parsed = <<>> /\ ~text.ddl
            /\ \E columns \in {ParseColumns(text.columns)} :
                  ParsePartitions(<<text.partitions[1].tokens>>, columns)
            /\ UNCHANGED text

\* ParsePartitionDefinition: the first PARTITION of the text counts.
ParseDefinition ==
    /\ parsed = <<>> /\ text.ddl
    /\ \E t \in {Given(text)} :
       \E start \in {Min({i \in DOMAIN t : t[i] = "PARTITION"})} :
       \E rest \in {SubSeq(t, start + 3, Len(t))} :
       \E after \in {After(rest)} :
          IF SubSeq(t, start + 1, start + 2) # <<"ON", "COLUMNS">> \/ 0 \in {Closing(rest), Closing(after)}
          THEN parsed' = Refused
          ELSE \E parts \in {SplitTopLevel(Inside(after))}, columns \in {ParseColumns(Inside(rest))} :
                  ParsePartitions(parts, columns)
    /\ UNCHANGED text

ReadText == ParseRow \/ ParseDefinition

TextSpec == TextInit /\ [][ReadText]_textVars
-----------------------------------------------------------------------------
\* A literal no text contains is a string unlike the others, and after them.
ValueOf(literal) == LET known == {l.value : l \in {m \in Literals : m.tokens = literal}}
                    IN  IF known = {} THEN 1 + Max(Values) ELSE CHOOSE v \in known : TRUE

\* BuildPartitionPredicate joins the conditions with AND.
Selects(conditions) ==
    {p \in Assignments : \A k \in DOMAIN conditions :
        Compare(p[conditions[k].column], conditions[k].operator, ValueOf(conditions[k].value))}

Ordinary == /\ text.head = <<>>
            /\ ParseColumns(text.columns) # Refused
            /\ \A k \in DOMAIN text.partitions :
                  /\ text.partitions[k].form # "other"
                  /\ text.partitions[k].columns = ToSet(ParseColumns(text.columns))

\* A query is aimed at a region by a predicate that selects exactly what the
\* partition's text says, or not at all; and conjunctions of comparisons over all
\* partition columns are understood (partition_test.go has a case or two of each):
\* however conditions are negated, grouped, joined by OR, and whatever stands in
\* their quotes.
ParsedMeansText ==
    CASE parsed = <<>> -> TRUE
      [] parsed = Refused -> ~Ordinary
      [] OTHER -> /\ Len(parsed) = Len(text.partitions)
                  /\ \A k \in DOMAIN parsed : Selects(parsed[k]) = text.partitions[k].holds
=============================================================================
