------------------------------ MODULE MCSearch ------------------------------
(***************************************************************************)
(* Small instances of Search: one filter with the letters a and s, of which*)
(* the second is the label's, and one with a alone.                        *)
(***************************************************************************)
EXTENDS Search

AllChars == {"a", "b", "s", "SP"}
Label == <<"s">>
SmallQueries == {<< >>, <<"a", "b">>, <<"a", "SP", "b">>}
SmallSections == << <<"a", "s">>, <<"a">> >>
Ids == [c \in AllChars |-> IF c = "SP" THEN "_20" ELSE c]
Row(name, entries) == [name |-> name, entries |-> entries]
SmallData ==
  << << << Row(<<"a">>, 0), Row(<<"a", "b">>, 2), Row(<<"a", "b", "s">>, 0) >>,
        << Row(<<"s">>, 0) >> >>,
     << << Row(<<"a", "b">>, 0) >> >> >>
=============================================================================
