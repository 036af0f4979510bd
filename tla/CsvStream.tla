------------------------------ MODULE CsvStream ------------------------------
(***************************************************************************)
(* The streaming CSV parser of @opencred/batch-core: a text arrives in     *)
(* chunks cut anywhere, the header is taken off it, then one record after  *)
(* the other is yielded, until the text ends or a cap is exceeded.         *)
(*                                                                         *)
(* Characters are told apart as far as the parser does: "q" is a double    *)
(* quote, "n" and "r" are LF and CR, "c" and "s" are the delimiters comma  *)
(* and semicolon, "a" is anything else.  Of white space, which is trimmed, *)
(* CR stands for all that is not LF.  Decoding keeps characters whole, so  *)
(* chunks are cut between characters.  The third delimiter (tab) and       *)
(* trimValues = false are left out.                                        *)
(***************************************************************************)
EXTENDS Naturals, SequencesExt

CONSTANTS
    Texts,            \* the texts that may arrive
    MaxRows,          \* StreamingCsvOptions.maxRows
    MaxRecordBytes    \* StreamingCsvOptions.maxRecordBytes

Symbols    == {"q", "n", "r", "c", "s", "a"}
Whitespace == {"n", "r"}

ASSUME TextAssumption == \A t \in Texts : t \in Seq(Symbols)
ASSUME CapAssumption == MaxRows \in Nat /\ MaxRecordBytes \in Nat

VARIABLES
    text, at,           \* what the source yields; how much of it was pulled
    phase,              \* "header", "rows", "done", "failed"
    lead,               \* what came with the header's chunk, not scanned yet
    buf, inQuotes, scanPos,   \* the state of the scanner
    header, rows,       \* the header record; the records yielded
    verdict,            \* the cap that was exceeded
    torn                \* history: quotes were counted a second time, oddly

scanner == <<buf, inQuotes, scanPos>>
vars    == <<text, at, phase, lead, scanner, header, rows, verdict, torn>>

Init ==
    /\ text \in Texts /\ at = 0
    /\ phase = "header" /\ lead = <<>>
    /\ buf = <<>> /\ inQuotes = FALSE /\ scanPos = 0
    /\ header = <<>> /\ rows = <<>>
    /\ verdict = "none" /\ torn = FALSE

-----------------------------------------------------------------------------
(* Strings.                                                                 *)

Blank(s) == \A i \in DOMAIN s : s[i] \in Whitespace

\* Without the CR in front of the LF that ended it.
Chomp(s) == IF s # <<>> /\ Last(s) = "r" THEN Front(s) ELSE s

Trim(s) ==
    LET ink == {i \in DOMAIN s : s[i] \notin Whitespace}
    IN  IF ink = {} THEN <<>> ELSE SubSeq(s, Min(ink), Max(ink))

From(s, i) == SubSeq(s, i, Len(s))

\* A set of positions, in order.
InOrder(positions) ==
    [k \in 1..Cardinality(positions) |->
        CHOOSE i \in positions : Cardinality({j \in positions : j <= i}) = k]

\* What is left of s at some positions.
Only(s, positions) ==
    LET order == InOrder(positions) IN [k \in DOMAIN order |-> s[order[k]]]

\* The positions of records that are not blank.
Filled(records) == {k \in DOMAIN records : ~Blank(records[k])}

\* The pieces of s before each of the positions in ends, a sequence.
Before(s, ends) ==
    [k \in DOMAIN ends |-> SubSeq(s, IF k = 1 THEN 1 ELSE ends[k - 1] + 1, ends[k] - 1)]

\* The pieces of s between the positions in cuts.
Pieces(s, cuts) == Before(s, Append(InOrder(cuts), Len(s) + 1))

\* Whether position i of s is quoted, for a scan that begins behind position
\* from with the flag q: the flag turns at every quote.
Quoted(s, from, q, i) ==
    LET odd == Cardinality({j \in (from + 1)..i : s[j] = "q"}) % 2 = 1 IN q # odd

\* The record terminators such a scan finds.
Terminators(s, from, q) ==
    {i \in (from + 1)..Len(s) : s[i] = "n" /\ ~Quoted(s, from, q, i)}

\* Without the CRs that are part of a line break.
Unix(s) == Only(s, {i \in DOMAIN s : s[i] = "r" => i = Len(s) \/ s[i + 1] # "n"})

\* The lines a text has when quotes are not looked at, without the blank ones:
\* split(/\r?\n/).
LinesOf(unix) ==
    LET lines == Pieces(unix, {i \in DOMAIN unix : unix[i] = "n"})
    IN  Only(lines, Filled(lines))

Lines(s) == LinesOf(Unix(s))

-----------------------------------------------------------------------------
(* Delimiter and fields.                                                    *)

Occurrences(line, d) ==
    Cardinality({i \in DOMAIN line : line[i] = d /\ ~Quoted(line, 0, FALSE, i)})

\* How often a delimiter is in each of the first five lines, as a set.
Counts(lines, d) == {Occurrences(lines[k], d) : k \in (1..5) \cap DOMAIN lines}

\* The semicolon needs a better score than the comma, min * min / max of these
\* counts; a candidate that is missing from one line has none.
Beats(semicolons, commas) ==
    /\ semicolons # {} /\ Min(semicolons) > 0
    /\ \/ Min(commas) = 0
       \/ Min(semicolons) * Min(semicolons) * Max(commas) > Min(commas) * Min(commas) * Max(semicolons)

DelimiterOf(lines) == IF Beats(Counts(lines, "s"), Counts(lines, "c")) THEN "s" ELSE "c"

DetectDelimiter(s) == DelimiterOf(Lines(s))

\* What parseRecord has seen: complete fields, the one under way, between quotes
\* or not, and whether the next character was taken with this one.
Partial == [fields : Seq(Seq(Symbols)), current : Seq(Symbols), open : BOOLEAN, skip : BOOLEAN]

NothingSeen == [fields |-> <<>>, current |-> <<>>, open |-> FALSE, skip |-> FALSE]

\* The next character: a quote opens or closes, a doubled one between them is a
\* quote of the field.
Taken(p, record, delimiter, i) ==
    CASE p.skip -> [p EXCEPT !.skip = FALSE]
      [] ~p.skip /\ record[i] = "q" /\ ~p.open -> [p EXCEPT !.open = TRUE]
      [] ~p.skip /\ record[i] = "q" /\ p.open ->
           IF i < Len(record) /\ record[i + 1] = "q"
           THEN [p EXCEPT !.current = Append(@, "q"), !.skip = TRUE]
           ELSE [p EXCEPT !.open = FALSE]
      [] ~p.skip /\ record[i] = delimiter /\ ~p.open ->
           [p EXCEPT !.fields = Append(@, p.current), !.current = <<>>]
      [] OTHER -> [p EXCEPT !.current = Append(@, record[i])]

\* parseRecord, the same as parseCsvLine.
Seen(record, delimiter) ==
    LET seen[i \in 0..Len(record)] ==
          IF i = 0 THEN NothingSeen ELSE Taken(seen[i - 1], record, delimiter, i)
    IN  seen

ParseRecord(record, delimiter) ==
    LET end == Seen(record, delimiter)[Len(record)] IN Append(end.fields, end.current)

Cells(record, delimiter) ==
    LET fields == ParseRecord(record, delimiter) IN [k \in DOMAIN fields |-> Trim(fields[k])]

\* rawValues: the last of several columns of one name wins, a missing cell is
\* empty, one too many is dropped.
RawValues(names, cells) ==
    [h \in ToSet(names) |->
        LET j == Max({k \in DOMAIN names : names[k] = h})
        IN  IF j \in DOMAIN cells THEN cells[j] ELSE <<>>]

-----------------------------------------------------------------------------
(* The parser.                                                              *)

Fail(cap) == phase' = "failed" /\ verdict' = cap

\* What the source may yield next; a chunk may be empty.
Chunks == {SubSeq(text, at + 1, at + k) : k \in 0..(Len(text) - at)}

\* takeHeaderRecord, one chunk: the whole buffer is scanned, with the flag the
\* scan before left.
TakeHeader ==
    /\ phase = "header" /\ at < Len(text)
    /\ \E chunk \in Chunks :
         LET b == buf \o chunk
             E == Terminators(b, 0, inQuotes)
             record == IF E = {} THEN b ELSE Chomp(SubSeq(b, 1, Min(E) - 1))
         IN
         /\ at' = at + Len(chunk)
         /\ torn' = (torn \/ (inQuotes /\ buf # <<>>))
         /\ IF Len(record) > MaxRecordBytes
            THEN Fail("size") /\ UNCHANGED <<lead, scanner, header>>
            ELSE IF E = {}
            THEN /\ buf' = b /\ inQuotes' = Quoted(b, 0, inQuotes, Len(b))
                 /\ UNCHANGED <<phase, lead, scanPos, header, verdict>>
            ELSE /\ header' = record /\ lead' = From(b, Min(E) + 1)
                 /\ buf' = <<>> /\ inQuotes' = FALSE
                 /\ phase' = "rows"
                 /\ UNCHANGED <<scanPos, verdict>>
    /\ UNCHANGED <<text, rows>>

\* The text ends with its header.
HeaderIsAll ==
    /\ phase = "header" /\ at = Len(text)
    /\ header' = buf
    /\ phase' = "done"
    /\ UNCHANGED <<text, at, lead, scanner, rows, verdict, torn>>

\* (fault) a record that is complete is not measured
YieldUnmeasured(found, otherwise) ==
    LET wanted == Only(found, Filled(found)) IN
    IF Len(rows) + Len(wanted) <= MaxRows
    THEN rows' = rows \o wanted /\ otherwise
    ELSE /\ rows' = rows \o SubSeq(wanted, 1, MaxRows - Len(rows))
         /\ Fail("limit") /\ UNCHANGED scanner

\* The consumer takes the records of found in turn; the first that is over a
\* cap ends the parse.  Nothing else of the chunk is looked at then.
Yield(found, otherwise) ==
    LET wanted == Only(found, Filled(found))
        TooLong(k) == Len(wanted[k]) > MaxRecordBytes
        over == {k \in DOMAIN wanted : TooLong(k) \/ Len(rows) + k > MaxRows}
    IN  IF over = {}
        THEN rows' = rows \o wanted /\ otherwise
        ELSE /\ rows' = rows \o SubSeq(wanted, 1, Min(over) - 1)
             /\ Fail(IF TooLong(Min(over)) THEN "size" ELSE "limit")
             /\ UNCHANGED scanner

\* (fault) the flag is not kept from chunk to chunk
ScanForgetful(chunk) ==
    LET b == buf \o chunk
        E == Terminators(b, scanPos, FALSE)
        found == [k \in 1..Cardinality(E) |-> Chomp(Pieces(b, E)[k])]
    IN
    /\ torn' = torn
    /\ Yield(found, /\ buf' = IF E = {} THEN b ELSE From(b, Max(E) + 1)
                    /\ scanPos' = IF E = {} THEN Len(b) ELSE 0
                    /\ UNCHANGED <<phase, inQuotes, verdict>>)

\* scanRecords, one chunk: it is scanned from scanPos on.  What follows the
\* last terminator stays, with scanPos in front of it; the flag stays as well.
Scan(chunk) ==
    LET b == buf \o chunk
        E == Terminators(b, scanPos, inQuotes)
        found == [k \in 1..Cardinality(E) |-> Chomp(Pieces(b, E)[k])]
        tail == IF E = {} THEN b ELSE From(b, Max(E) + 1)
    IN
    /\ torn' = (torn \/ (inQuotes /\ scanPos < Len(buf)))
    /\ Yield(found,
             IF Len(tail) > MaxRecordBytes
             THEN Fail("size") /\ UNCHANGED scanner
             ELSE /\ buf' = tail
                  /\ inQuotes' = Quoted(b, scanPos, inQuotes, Len(b))
                  /\ scanPos' = IF E = {} THEN Len(b) ELSE 0
                  /\ UNCHANGED <<phase, verdict>>)

ScanLead ==
    /\ phase = "rows" /\ lead # <<>>
    /\ Scan(lead)
    /\ lead' = <<>>
    /\ UNCHANGED <<text, at, header>>

ScanChunk ==
    /\ phase = "rows" /\ lead = <<>> /\ at < Len(text)
    /\ \E chunk \in Chunks : Scan(chunk) /\ at' = at + Len(chunk)
    /\ UNCHANGED <<text, lead, header>>

\* (fault) a record that nothing terminates is dropped
FlushNothing ==
    /\ phase = "rows" /\ lead = <<>> /\ at = Len(text)
    /\ phase' = "done"
    /\ UNCHANGED <<text, at, lead, scanner, header, rows, verdict, torn>>

\* The text has ended: what is left is a record of its own.
Flush ==
    /\ phase = "rows" /\ lead = <<>> /\ at = Len(text)
    /\ Yield(<<buf>>, phase' = "done" /\ UNCHANGED <<scanner, verdict>>)
    /\ UNCHANGED <<text, at, lead, header, torn>>

Next == TakeHeader \/ HeaderIsAll \/ ScanLead \/ ScanChunk \/ Flush

Spec == Init /\ [][Next]_vars

-----------------------------------------------------------------------------
(* Properties.  Expected says by position what a text holds: a terminator   *)
(* is a LF with an even number of quotes before it.                         *)

Unquoted(s, i) == Cardinality({j \in 1..i : s[j] = "q"}) % 2 = 0

\* The field between two delimiters: a quote is of the field if another one
\* follows it inside the quotes.
Content(s) ==
    Trim(Only(s, {i \in DOMAIN s : s[i] = "q" => i < Len(s) /\ s[i + 1] = "q" /\ Unquoted(s, i)}))

ContentOf(pieces) == [k \in DOMAIN pieces |-> Content(pieces[k])]

FieldsOf(s, d) == ContentOf(Pieces(s, {i \in DOMAIN s : s[i] = d /\ Unquoted(s, i)}))

AllFields(records, d) == [k \in DOMAIN records |-> FieldsOf(records[k], d)]

\* A text cut into raw records at the positions in ends.  The first is the
\* header, data are those of the others that are not blank; ended is how many
\* of them a prefix of the text has complete.
Reading(t, ends, raw) ==
    LET data == {k \in 2..Len(raw) : ~Blank(raw[k])}
        d    == DetectDelimiter(Chomp(raw[1]))
    IN  [header  |-> FieldsOf(raw[1], d),
         rows    |-> AllFields(Only(raw, data), d),
         ended   |-> [i \in 0..Len(t) |->
                        Cardinality({k \in data : Cardinality({e \in ends : e <= i}) >= k})],
         sizes   |-> {Len(Chomp(raw[k])) : k \in {1} \cup data},
         longest |-> Max({Len(raw[k]) : k \in DOMAIN raw})]

Expected ==
    [t \in Texts |->
        LET ends == {i \in DOMAIN t : t[i] = "n" /\ Unquoted(t, i)}
        IN  Reading(t, ends, Pieces(t, ends))]

AllCells(records, d) == [k \in DOMAIN records |-> Cells(records[k], d)]

Parsed == AllCells(rows, DetectDelimiter(header))

RowsAre(parsed, expected) ==
    /\ phase \in {"rows", "done"} => Cells(header, DetectDelimiter(header)) = expected.header
    /\ phase = "rows" => parsed = SubSeq(expected.rows, 1, expected.ended[at - Len(lead)])
    /\ phase = "done" => parsed = expected.rows
    /\ phase = "failed" => IsPrefix(parsed, expected.rows)

\* However the text is cut, the header and the rows are those of the text, and
\* a row is handed over as soon as the chunk that ends it was scanned; a parse
\* that fails has handed over nothing else before.  Only quotes that are
\* scanned twice can change that.
RowsTrue == ~torn => RowsAre(Parsed, Expected[text])

CapsKept(expected) ==
    /\ phase = "done" => \A n \in expected.sizes : n <= MaxRecordBytes
    /\ verdict = "size" => expected.longest > MaxRecordBytes
    /\ verdict = "limit" => Len(expected.rows) > MaxRows

\* The caps (module comment and #578): between two chunks no more than a record
\* is held, whatever the quotes; a text is accepted only if it keeps to both,
\* and refused only if it does not, a terminator's CR counted in.
CapsTrue ==
    /\ phase # "failed" => Len(buf) <= MaxRecordBytes
    /\ Len(rows) <= MaxRows
    /\ ~torn => CapsKept(Expected[text])

\* parseCsv of the same text: lines, whatever the quotes say.
Table(lines, d) ==
    [header |-> IF lines = <<>> THEN <<>> ELSE Cells(lines[1], d),
     rows   |-> IF lines = <<>> THEN <<>> ELSE AllCells(Tail(lines), d)]

Buffered == [t \in Texts |-> Table(Lines(t), DetectDelimiter(t))]

Even(lines) ==
    \A k \in DOMAIN lines, d \in {"c", "s"} :
        Occurrences(lines[k], d) = Occurrences(lines[1], d)

\* The texts the two parsers are to agree on: no field has a line break in it,
\* the first line is not blank, and all have each delimiter as often (comment
\* streaming-csv-parser.ts:505-510).
Plain(t) ==
    /\ \A i \in DOMAIN t : t[i] = "n" => Unquoted(t, i)
    /\ \E i \in DOMAIN t : t[i] \notin Whitespace /\ \A j \in 1..(i - 1) : t[j] # "n"
    /\ Even(Lines(t))

SameRows(names, parsed, table) ==
    /\ names = table.header
    /\ Len(parsed) = Len(table.rows)
    /\ \A k \in DOMAIN parsed : RawValues(names, parsed[k]) = RawValues(names, table.rows[k])

\* On such texts the streaming parser gives the rows the buffered one gives,
\* which the desktop application uses: the same names with the same values.
AgreesWithBuffered ==
    phase = "done" /\ ~torn /\ Plain(text) =>
        SameRows(Cells(header, DetectDelimiter(header)), Parsed, Buffered[text])
=============================================================================
