--------------------------- MODULE MCFilterQuery ---------------------------
(***************************************************************************)
(* FilterQuery with two values per column: every string filter with two    *)
(* alternatives, nested ones, chains of alternatives beyond the depth      *)
(* limit of 5, array filters, and both other forms of request.             *)
(***************************************************************************)
EXTENDS FilterQuery

V == {"a", "b"}
MCColumns == <<"type", "subject">>
MCTable == [type : V, subject : V, tags : SUBSET V, time : 1..2]

Leaves == {StringFilter(in, notIn, <<>>) : in \in SUBSET V, notIn \in {{}, {"a"}}}
Few == {OneOf({"a"}), OneOf({}), StringFilter({}, {"a"}, <<>>)}
Seqs(S) == {<<>>} \cup {<<x>> : x \in S} \cup {<<x, y>> : x \in S, y \in S}

Trees == {[f EXCEPT !.or = or] : f \in Leaves, or \in Seqs(Leaves)}
Nested == {[f EXCEPT !.or = or] : f \in Few,
             or \in Seqs({[g EXCEPT !.or = o] : g \in Few, o \in {<<>>} \cup {<<h>> : h \in Few}})}

Deepest == 7

(* Conditions nested n deep, with `outer` at every level but the last. *)
Chain(outer, last, n) ==
    LET c[i \in 0..n] == IF i = 0 THEN last ELSE [outer EXCEPT !.or = <<c[i - 1]>>]
    IN  c[n]
Chains == {Chain(f, g, n) : f \in Few, g \in Few, n \in 0..Deepest}

ArrayLeaves ==
    {ArrayFilter(any, all, notAny, notAll, <<>>) :
       any \in {{}, V}, all \in {{}, {"a"}}, notAny \in {{}, {"b"}}, notAll \in {{}, V}}
Arrays == {[f EXCEPT !.or = or] : f \in ArrayLeaves, or \in {<<>>} \cup {<<g>> : g \in ArrayLeaves}}
ArrayChains == {Chain(f, g, n) : f \in {ArrayFilter({}, {}, {}, {}, <<>>),
                                        ArrayFilter({}, V, {}, {}, <<>>)},
                                 g \in {ArrayFilter({"a"}, {}, {}, {}, <<>>)}, n \in 0..Deepest}

(* Each with all of its conditions.  (TLC evaluates a definition once, but *)
(* what replaces a constant at every use: hence a name for either.)        *)
AllStringFilters == Trees \cup Nested \cup Chains
AllArrayFilters == Arrays \cup ArrayChains
MCStringFilters == AllStringFilters
MCArrayFilters == AllArrayFilters

Value(v) == [value |-> v]
Bound == {None, Value(1)}
Maybe == {None} \cup {Value(v) : v \in V}

NoOptions == AdvancedSearchOptions(None, None, [c \in StringColumns |-> None], None)
Advance(o) == [form |-> "advanced", filter |-> o]

MCRequests ==
    {Advance([NoOptions EXCEPT !.strings["type"] = f]) : f \in Trees \cup Nested \cup Chains}
    \cup {Advance([NoOptions EXCEPT !.tags = f]) : f \in Arrays \cup ArrayChains}
    \cup {Advance([NoOptions EXCEPT !.strings["type"] = f, !.strings["subject"] = g,
                                    !.tags = t, !.after = b]) :
            f \in {OneOf({"a"})} \cup Chains, g \in Few,
            t \in {None, ArrayFilter({"a"}, {}, {}, {}, <<>>)}, b \in Bound}
    \cup {Advance(None), [form |-> "plain", filter |-> None],
          [form |-> "graphql", filter |-> None, subject |-> "a"]}
    \cup {[form |-> "plain", filter |-> SearchOptions(after, before, fields)] :
            after \in Bound, before \in {None, Value(2)}, fields \in [StringColumns -> Maybe]}
    \cup {[form |-> "graphql", subject |-> "a",
           filter |-> CloudEventFilter(after, None, type, types)] :
            after \in Bound, type \in Maybe, types \in SUBSET V}
=============================================================================
