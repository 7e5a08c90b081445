----------------------------- MODULE MCValueOps -----------------------------
(* Small types, values and options for ValueOps. *)
EXTENDS ValueOps

Opts(merge, trailing) == [merge_skip_copy |-> merge, remove_trailing_skips |-> trailing]

num == Numeric(1)
padded == Compound(<<<<0, num>>>>, 2)
holed == Compound(<<<<0, num>>, <<2, num>>>>, 3)
vec == Container(11, 1, num)
vecpadded == Container(12, 1, padded)
vecvec == Container(13, 1, vec)
string == Container(14, 1, num)
item == Compound(<<<<0, vec>>, <<1, Enum(1, <<1>>)>>>>, 2)
box == Compound(<<<<0, string>>>>, 2)
vecitem == Container(15, 1, item)

MCStrings == {14}
AllContainers == {vec, vecpadded, vecvec, string, vecitem}
MCContainers == AllContainers

PassCases ==
    {<<t, Opts(TRUE, TRUE)>> :
        t \in {holed, vec, vecpadded, vecvec, string, vecitem, Array(2, vec)}}
    \cup {<<vec, Opts(FALSE, FALSE)>>, <<holed, Opts(FALSE, TRUE)>>, <<box, Opts(TRUE, FALSE)>>}
MCCases == PassCases

\* The options for which the layout in a container is not the one of its elements.
UnmergedCases == {<<vecpadded, Opts(FALSE, TRUE)>>}
MCUnmergedCases == UnmergedCases
VecCases == {<<vec, Opts(TRUE, TRUE)>>}
MCVecCases == VecCases
=============================================================================
