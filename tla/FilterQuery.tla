---------------------------- MODULE FilterQuery ----------------------------
(***************************************************************************)
(* From a request's filter to the WHERE clause of a query: plain gRPC      *)
(* options, advanced ones with nested Or conditions, or a GraphQL filter,  *)
(* are converted to advanced options, those to query mods, and the         *)
(* database evaluates the statement built from them.                       *)
(*                                                                         *)
(* The string columns are all filtered alike; Columns stands for them.     *)
(* IndexTable says what suppresses voided rows.                            *)
(***************************************************************************)
EXTENDS Integers, Sequences, FiniteSets, SequencesExt

CONSTANTS
    Columns,         \* the string columns, in the order they are filtered
    Table,           \* the rows of the index
    StringFilters,   \* the filters of string columns, conditions included
    ArrayFilters,    \* the filters of the tags, conditions included
    FilterRequests,  \* the requests considered
    MaxFilterDepth,  \* maxFilterDepth
    Nesting          \* how many levels of conditions the filters have

VARIABLES
    request,   \* what the caller sent
    stage,     \* what has been made of it: "request", "options", "mods", "answer"
    options,   \* the AdvancedSearchOptions
    mods,      \* the query mods
    answer     \* what the database answered

filterVars == <<request, stage, options, mods, answer>>

None == [none |-> TRUE]
StringColumns == Range(Columns)

-----------------------------------------------------------------------------
(* StringFilterOption and ArrayFilterOption: lists of values, the empty    *)
(* one meaning not given, and conditions that are alternatives to them.    *)
StringFilter(in, notIn, or) == [in |-> in, notIn |-> notIn, or |-> or]
OneOf(values) == StringFilter(values, {}, <<>>)
ArrayFilter(any, all, notAny, notAll, or) ==
    [any |-> any, all |-> all, notAny |-> notAny, notAll |-> notAll, or |-> or]

(* SearchOptions, with one value or none per column, and the GraphQL       *)
(* CloudEventFilter, of whose string fields the type ones are kept.        *)
SearchOptions(after, before, fields) ==
    [after |-> after, before |-> before, fields |-> fields]
CloudEventFilter(after, before, type, types) ==
    [after |-> after, before |-> before, type |-> type, types |-> types]

AdvancedSearchOptions(after, before, strings, tags) ==
    [after |-> after, before |-> before, strings |-> strings, tags |-> tags]

(* convertSearchOptionsToAdvanced. *)
convertSearchOptionsToAdvanced(plain) ==
    IF plain = None THEN None
    ELSE AdvancedSearchOptions(plain.after, plain.before,
           [c \in StringColumns |-> IF plain.fields[c] = None THEN None
                                    ELSE OneOf({plain.fields[c].value})],
           None)

TypesOf(filter) ==
    filter.types \cup (IF filter.type = None THEN {} ELSE {filter.type.value})

(* filterToAdvancedSearchOptions: the subject always, the two type fields  *)
(* united, the other fields as they are.                                   *)
filterToAdvancedSearchOptions(filter, subject) ==
    LET types == IF filter = None THEN {} ELSE TypesOf(filter)
    IN  AdvancedSearchOptions(
            IF filter = None THEN None ELSE filter.after,
            IF filter = None THEN None ELSE filter.before,
            [c \in StringColumns |->
                CASE c = "subject" -> OneOf({subject})
                  [] c = "type" /\ types # {} -> OneOf(types)
                  [] OTHER -> None],
            None)

OptionsOf(r) ==
    CASE r.form = "plain" -> convertSearchOptionsToAdvanced(r.filter)
      [] r.form = "graphql" -> filterToAdvancedSearchOptions(r.filter, r.subject)
      [] OTHER -> r.filter

(* The conditions of a filter are filters; the fields of the options made  *)
(* of a request hold filters.                                              *)
ASSUME FilterAssumption ==
    /\ Columns \in Seq(STRING) /\ {"type", "subject"} \subseteq StringColumns
    /\ "tags" \notin StringColumns
    /\ \A f \in StringFilters : f.or \in Seq(StringFilters)
    /\ \A f \in ArrayFilters : f.or \in Seq(ArrayFilters)
    /\ None \notin StringFilters \cup ArrayFilters
    /\ MaxFilterDepth \in Nat
    /\ Nesting \in Nat /\ Nesting > MaxFilterDepth

ASSUME RequestsAssumption ==
    \A r \in FilterRequests :
        LET o == OptionsOf(r)
        IN  o # None =>
              /\ \A c \in StringColumns : o.strings[c] \in StringFilters \/ o.strings[c] = None
              /\ o.tags \in ArrayFilters \/ o.tags = None

-----------------------------------------------------------------------------
(* Query mods, each as what the database makes of the text it writes: the  *)
(* separator before it, whether the database refuses it, and the rows it   *)
(* admits.  AND binds stronger than OR; the first mod of a parenthesis has *)
(* no separator.                                                           *)
Test(v, op, arg) ==
    CASE op = "IN" -> v \in arg
      [] op = "NOT IN" -> v \notin arg
      [] op = "hasAny" -> v \cap arg # {}
      [] op = "hasAll" -> arg \subseteq v
      [] op = "NOT hasAny" -> v \cap arg = {}
      [] op = "NOT hasAll" -> ~(arg \subseteq v)
      [] op = ">" -> \A t \in arg : v > t
      [] op = "<" -> \A t \in arg : v < t

Rows(terms) ==
    LET starts == {i \in DOMAIN terms : i = 1 \/ terms[i].or}
        run(s) == {i \in DOMAIN terms : s <= i /\ ~\E t \in starts : s < t /\ t <= i}
    IN  {row \in Table : \E s \in starts : \A i \in run(s) : row \in terms[i].rows}

Refused(terms) == \E i \in DOMAIN terms : terms[i].refused

(* A where is a test of one column; an expr is a parenthesis around mods,  *)
(* which must not be empty; Or2 sets the separator before its mod to OR.   *)
Where(column, op, arg) ==
    [or |-> FALSE, refused |-> FALSE,
     rows |-> {row \in Table : Test(row[column], op, arg)}]
Expr(inner) ==
    [or |-> FALSE, refused |-> inner = <<>> \/ Refused(inner), rows |-> Rows(inner)]
Or2(mod) == [or |-> TRUE, refused |-> mod.refused, rows |-> mod.rows]

-----------------------------------------------------------------------------
StringTests(f) == <<<<"IN", f.in>>, <<"NOT IN", f.notIn>>>>
ArrayTests(f) ==
    <<<<"hasAny", f.any>>, <<"hasAll", f.all>>,
      <<"NOT hasAny", f.notAny>>, <<"NOT hasAll", f.notAll>>>>

FiltersOn(column) == IF column = "tags" THEN ArrayFilters ELSE StringFilters
Tests(f, column) == IF column = "tags" THEN ArrayTests(f) ELSE StringTests(f)

(* One where for each list that is not empty. *)
Wheres(column, tests) ==
    FlattenSeq([i \in DOMAIN tests |->
        IF tests[i][2] = {} THEN <<>> ELSE <<Where(column, tests[i][1], tests[i][2])>>])

(* The alternatives of which something is left. *)
Alternatives(clauses) ==
    FlattenSeq([i \in DOMAIN clauses |->
        IF clauses[i] = <<>> THEN <<>> ELSE <<Or2(Expr(clauses[i]))>>])

(* Mutant: the alternatives narrow the filter. *)
CombineAnd(own, clauses) ==
    own \o FlattenSeq([i \in DOMAIN clauses |->
        IF clauses[i] = <<>> THEN <<>> ELSE <<Expr(clauses[i])>>])

(* The mods of a filter's own lists and of its conditions, in one          *)
(* parenthesis when it has conditions.                                     *)
Combine(own, clauses) ==
    IF clauses = <<>> THEN own ELSE <<Expr(own \o Alternatives(clauses))>>

(* stringFilterModsDepth and arrayFilterModsDepth, which differ in their   *)
(* tests, at every depth.                                                  *)
filterModsDepth(column) ==
    LET at[depth \in 0..MaxFilterDepth + 1] ==
          [f \in FiltersOn(column) |->
             IF depth > MaxFilterDepth THEN <<>>
             ELSE Combine(Wheres(column, Tests(f, column)),
                          [i \in DOMAIN f.or |-> at[depth + 1][f.or[i]]])]
    IN  at

filterMods(f, column) == filterModsDepth(column)[0][f]

(* Mutant: a filter of which nothing is left is written as a condition     *)
(* that every row meets.                                                   *)
FieldUnlessRefused(m) ==
    IF Expr(m).refused THEN [or |-> FALSE, refused |-> FALSE, rows |-> Table] ELSE Expr(m)
Field(m) == Expr(m)

TimeMods(column, op, bound) ==
    IF bound = None THEN <<>> ELSE <<Where(column, op, {bound.value})>>
FieldMods(f, column) == IF f = None THEN <<>> ELSE <<Field(filterMods(f, column))>>

AdvancedSearchOptionsToQueryMod(o) ==
    IF o = None THEN <<>>
    ELSE TimeMods("time", ">", o.after)
         \o TimeMods("time", "<", o.before)
         \o FlattenSeq([i \in DOMAIN Columns |->
                FieldMods(o.strings[Columns[i]], Columns[i])])
         \o FieldMods(o.tags, "tags")

newQuery(m) ==
    IF Refused(m) THEN [err |-> TRUE, rows |-> {}]
    ELSE [err |-> FALSE, rows |-> IF m = <<>> THEN Table ELSE Rows(m)]

-----------------------------------------------------------------------------
NoAnswer == [err |-> FALSE, rows |-> {}]

FilterInit ==
    /\ request \in FilterRequests
    /\ stage = "request"
    /\ options = None /\ mods = <<>> /\ answer = NoAnswer

Convert ==
    /\ stage = "request"
    /\ options' = OptionsOf(request)
    /\ stage' = "options"
    /\ UNCHANGED <<request, mods, answer>>

Build ==
    /\ stage = "options"
    /\ mods' = AdvancedSearchOptionsToQueryMod(options)
    /\ stage' = "mods"
    /\ UNCHANGED <<request, options, answer>>

Run ==
    /\ stage = "mods"
    /\ answer' = newQuery(mods)
    /\ stage' = "answer"
    /\ UNCHANGED <<request, options, mods>>

FilterNext == Convert \/ Build \/ Run
FilterSpec == FilterInit /\ [][FilterNext]_filterVars

-----------------------------------------------------------------------------
(* What the proto's comments say of a filter: its lists are ANDed, its     *)
(* conditions are alternatives to them; a filter of nothing asks nothing.  *)
Own(f, column, row) ==
    \A i \in DOMAIN Tests(f, column) :
        LET test == Tests(f, column)[i]
        IN  test[2] # {} => Test(row[column], test[1], test[2])
Bare(f, column) == \A i \in DOMAIN Tests(f, column) : Tests(f, column)[i][2] = {}

(* The rows that n levels of a filter mean, its own lists the first.      *)
Means(column) ==
    LET upTo[n \in 0..Nesting] ==
          [f \in FiltersOn(column) |->
             IF n = 0 THEN {}
             ELSE {row \in Table : Own(f, column, row) /\ (Bare(f, column) => f.or = <<>>)}
                  \cup UNION {upTo[n - 1][f.or[i]] : i \in DOMAIN f.or}]
    IN  upTo

(* Every condition, down to the deepest, asks something, and there are no  *)
(* more than n levels.                                                     *)
Plain(column) ==
    LET within[n \in 0..MaxFilterDepth + 1] ==
          [f \in FiltersOn(column) |->
             IF n = 0 THEN FALSE
             ELSE /\ Bare(f, column) => f.or # <<>>
                  /\ \A i \in DOMAIN f.or : within[n - 1][f.or[i]]]
    IN  within

Given(o) == {c \in StringColumns : o.strings[c] # None}
            \cup (IF o.tags = None THEN {} ELSE {"tags"})
FilterOn(o, c) == IF c = "tags" THEN o.tags ELSE o.strings[c]

InTime(o, row) ==
    /\ o.after # None => row.time > o.after.value
    /\ o.before # None => row.time < o.before.value

Reference(o) ==
    IF o = None THEN Table
    ELSE {row \in Table : /\ InTime(o, row)
                          /\ \A c \in Given(o) : row \in Means(c)[Nesting][FilterOn(o, c)]}

Advanced == stage = "answer" /\ request.form = "advanced" /\ request.filter # None

AllPlain(o) == \A c \in Given(o) : Plain(c)[MaxFilterDepth + 1][FilterOn(o, c)]

(* A query never answers with a row its filter excludes, though conditions *)
(* deeper than maxFilterDepth and empty ones are dropped: a filter of      *)
(* which nothing is left is refused, never taken for one that asks nothing.*)
NeverWider == Advanced => answer.rows \subseteq Reference(request.filter)

(* Within the limit and without empty conditions, it answers with exactly  *)
(* the rows the filter admits, however its lists and conditions are nested.*)
ExactWhenPlain ==
    Advanced /\ AllPlain(request.filter) =>
        ~answer.err /\ answer.rows = Reference(request.filter)

(* Plain options select the rows equal to every field given, and no        *)
(* options select every row; a GraphQL filter selects the events of its    *)
(* subject whose type is any of those named in its two fields.             *)
SimpleFormsExact ==
    stage = "answer" =>
        /\ request.form = "plain" =>
             answer = [err |-> FALSE, rows |-> {row \in Table :
                request.filter # None =>
                    /\ InTime(request.filter, row)
                    /\ \A c \in StringColumns : request.filter.fields[c] # None =>
                           row[c] = request.filter.fields[c].value}]
        /\ request.form = "graphql" =>
             answer = [err |-> FALSE, rows |-> {row \in Table :
                /\ row.subject = request.subject
                /\ request.filter # None =>
                    /\ InTime(request.filter, row)
                    /\ (request.filter.type # None \/ request.filter.types # {}) =>
                         \/ row.type \in request.filter.types
                         \/ request.filter.type # None
                              /\ row.type = request.filter.type.value}]

(* Every form of request: exactly the rows it admits.                      *)
AnswersExact == ExactWhenPlain /\ SimpleFormsExact

=============================================================================
