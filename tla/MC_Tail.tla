------------------------------ MODULE MC_Tail -------------------------------
EXTENDS Tail

MCNL == "\n"

\* Every file of up to five characters over two letters and the newline:
\* empty files, one-byte files, files with and without a final newline,
\* empty lines and up to five lines.
MCFiles == BoundedSeq({"a", "b", MCNL}, 5)

\* A negative count, no line, one line, and more lines than the shorter
\* files hold.
MCCounts == -1 .. 3

\* One file f in the home; x is a match outside it ("../x").
MCGlob == ("f*" :> {"f"}) @@ ("../x" :> {"x"}) @@ ("none" :> {})
          @@ ("*" :> {"f", "x"})
MCInside == {"f"}

\* One pattern; a pattern with only an outside match before one with the
\* file; a pattern with no match before one matching both paths.
MCPatternLists == {<<"f*">>, <<"../x", "f*">>, <<"none", "*">>}

\* The writer appends a newline or a letter.
MCAppendChars == {"b", MCNL}

=============================================================================
