--------------------------- MODULE MC_TrustToken ----------------------------
EXTENDS TrustToken

\* Code points of the characters of the model.
MCCharCode == [c \in {"_", ":", "N", "a", "b", "c", "o", "p", "t", "x"} |->
                 CASE c = "_" -> 95 [] c = ":" -> 58 [] c = "N" -> 78
                   [] c = "a" -> 97 [] c = "b" -> 98 [] c = "c" -> 99
                   [] c = "o" -> 111 [] c = "p" -> 112 [] c = "t" -> 116
                   [] c = "x" -> 120]

MCKeys == {<<"a">>, <<"b">>}
\* A value with the separator in it, and one without.
MCVals == {<<"a">>, <<"a", "_", "a">>}
MCOperations == {<<"o">>, <<"x">>}
MCTrustField == <<"t">>
MCMethod == <<"p">>
MCClientId == <<"c">>
MCLimit == <<"N">>

=============================================================================
