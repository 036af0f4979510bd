----------------------------- MODULE MCCsvStream -----------------------------
EXTENDS CsvStream

\* Every text of up to five characters.
Short == BoundedSeq(Symbols, 5)

\* Lines with plain, quoted, escaped and broken fields, and blank ones.
Samples == {<<>>, <<"a">>, <<"a", "c", "a">>, <<"a", "s", "a">>, <<"q", "c", "q", "c", "a">>,
            <<"q", "n", "q">>, <<"q", "q", "q", "a", "q">>, <<"a", "c", "q">>}

\* Up to three of them, with LF or CRLF between them.
Documents == {h \o e \o r \o last : h \in Samples, e \in {<<"n">>, <<"r", "n">>}, r \in Samples,
              last \in {<<>>, <<"r", "n">>, <<"n", "a", "n", "a">>} \cup {<<"n">> \o l : l \in Samples}}

AllTexts == Short \cup Documents
=============================================================================
