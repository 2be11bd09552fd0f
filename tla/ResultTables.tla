---------------------------- MODULE ResultTables ----------------------------
(***************************************************************************)
(* What the web application makes of a tabular result file: the rows of    *)
(* its text, the table, the profile of its columns, the chart recommended  *)
(* for it, the files it can be compared with, the rows that stand for it   *)
(* and the summary sent for an interpretation.                             *)
(*                                                                         *)
(* A cell is blank, a number or a text; means and deviations of a column   *)
(* are left out.                                                           *)
(***************************************************************************)
EXTENDS Integers, Sequences, FiniteSets, SequencesExt, FiniteSetsExt

CONSTANTS
    Contents,    \* the rows of each result file, each a sequence of cells
    Hinted,      \* names that tell a series, as "residual" or "force" do
    Penalised,   \* names that tell a step or an index
    AxisNames,   \* names of progression axes
    MaxRows,     \* rows that are charted
    MaxColumns,  \* columns that are read
    MaxPoints,   \* points drawn of a series
    TextCells    \* the cells written and read back to check the reader

Blank == [kind |-> "blank", value |-> 0]
Number(n) == [kind |-> "number", value |-> n]
IsNumber(cell) == cell.kind = "number"
Files == DOMAIN Contents

(***************************************************************************)
(* Reading the text                                                        *)
(***************************************************************************)
Quote == "quote"
Delimiter == "comma"
Return == "return"
NewLine == "newline"
Space == "space"

IsBlank(text) == \A i \in DOMAIN text : text[i] = Space
RowEnded(r) ==
    LET row == Append(r.row, r.cell)
    IN  [r EXCEPT !.row = <<>>, !.cell = <<>>,
                  !.rows = IF \A i \in DOMAIN row : IsBlank(row[i]) THEN @ ELSE Append(@, row)]
\* One character; "skip" says that the one before has read this one too.
CharRead(text, r, i) ==
    LET next == IF i < Len(text) THEN text[i + 1] ELSE Space
        char == text[i]
        Plain == [r EXCEPT !.cell = Append(@, char)]
    IN  CASE r.skip -> [r EXCEPT !.skip = FALSE]
          [] ~r.skip /\ char = Quote ->
               IF r.quoted /\ next = Quote THEN [Plain EXCEPT !.skip = TRUE] ELSE [r EXCEPT !.quoted = ~@]
          [] ~r.skip /\ char = Delimiter /\ ~r.quoted -> [r EXCEPT !.row = Append(@, r.cell), !.cell = <<>>]
          [] ~r.skip /\ char \in {Return, NewLine} /\ ~r.quoted ->
               [RowEnded(r) EXCEPT !.skip = char = Return /\ next = NewLine]
          [] OTHER -> Plain
parseQuotedRows(text) ==
    LET first == [rows |-> <<>>, row |-> <<>>, cell |-> <<>>, quoted |-> FALSE, skip |-> FALSE]
    IN  RowEnded(FoldLeft(LAMBDA r, i : CharRead(text, r, i), first, [i \in 1..Len(text) |-> i])).rows

(***************************************************************************)
(* The table                                                               *)
(***************************************************************************)
\* The columns up to the last one that is not blank throughout.
ColumnCount(rows) ==
    Max({1} \union {c \in 1..MaxColumns : \E i \in DOMAIN rows : c \in DOMAIN rows[i] /\ rows[i][c] # Blank})
Cell(row, c) == IF c \in DOMAIN row THEN row[c] ELSE Blank
parseResultTable(rows) ==
    LET count == ColumnCount(rows)
        Header(c) == IF rows = <<>> \/ Cell(rows[1], c) = Blank THEN [kind |-> "column", value |-> c] ELSE rows[1][c]
        all == [i \in 1..Max({0, Len(rows) - 1}) |-> [c \in 1..count |-> Cell(rows[i + 1], c)]]
    IN  [headers |-> [c \in 1..count |-> Header(c)],
         rows |-> SubSeq(all, 1, Min({MaxRows, Len(all)})), all |-> all,
         truncated |-> Len(all) > MaxRows \/ \E i \in DOMAIN rows : Len(rows[i]) > MaxColumns]
Tables == [f \in Files |-> parseResultTable(Contents[f])]

\* The first column of a name; 0 if there is none.
ColumnNamed(table, name) ==
    IF name \in ToSet(table.headers) THEN Min({c \in DOMAIN table.headers : table.headers[c] = name}) ELSE 0

(***************************************************************************)
(* Profiles, and the chart recommended                                     *)
(***************************************************************************)
Present(rows, c) == {i \in DOMAIN rows : rows[i][c] # Blank}
Numeric(rows, c) == {i \in DOMAIN rows : IsNumber(rows[i][c])}
MostlyNumeric(rows, c) ==
    Numeric(rows, c) # {} /\ 10 * Cardinality(Numeric(rows, c)) >= 9 * Cardinality(Present(rows, c))
profileResultTable(table) ==
    [c \in DOMAIN table.headers |->
        [name |-> table.headers[c], numeric |-> MostlyNumeric(table.rows, c),
         values |-> {table.rows[i][c].value : i \in Numeric(table.rows, c)}]]

Score(name) == (IF name \in Hinted THEN 2 ELSE 0) - (IF name \in Penalised THEN 1 ELSE 0)
\* At most three columns that vary, the likeliest first; a logarithmic scale
\* when they are positive and span three decades.
recommendResultChart(table) ==
    LET profiles == profileResultTable(table)
        varying == SelectSeq(profiles, LAMBDA p : p.numeric /\ Cardinality(p.values) > 1)
        ranked == FlattenSeq([k \in 1..4 |-> SelectSeq(varying, LAMBDA p : Score(p.name) = 3 - k)])
        y == [k \in 1..Min({3, Len(ranked)}) |-> ranked[k].name]
        ends == UNION {{Min(p.values), Max(p.values)} : p \in {q \in ToSet(varying) : q.name \in ToSet(y)}}
    IN  [y |-> y, profiles |-> profiles,
         log |-> y # <<>> /\ (\A v \in ends : v > 0) /\ Max(ends) >= 1000 * Min(ends)]

\* Of two columns of one name in the candidate the last one counts.
datasetCompatibility(base, candidate) ==
    LET own == profileResultTable(base)
        other == profileResultTable(candidate)
        shared == {own[c].name : c \in {d \in DOMAIN own : /\ own[d].numeric
                                                           /\ \E e \in DOMAIN other :
                                                                /\ other[e].name = own[d].name /\ other[e].numeric
                                                                /\ \A g \in DOMAIN other : g > e => other[g].name # own[d].name}}
    IN  Len(base.all) = Len(candidate.all) /\ shared \ (AxisNames \union Penalised) # {}

(***************************************************************************)
(* The rows that are drawn, and those sent as a sample                     *)
(***************************************************************************)
\* As Spread, the last row counted as one more.
SpreadShort(length, maximum) == [k \in 1..maximum |-> ((k - 1) * (length - 1)) \div maximum]
\* Math.round(k * (length - 1) / (maximum - 1)), rows counted from 0.
Spread(length, maximum) ==
    [k \in 1..maximum |-> (2 * (k - 1) * (length - 1) + maximum - 1) \div (2 * (maximum - 1))]
sampleIndices(length, maximum) ==
    IF length <= maximum THEN [k \in 1..length |-> k - 1] ELSE Spread(length, maximum)
SampleRows(length, maximum) ==
    LET count == Min({maximum, length})
    IN  IF count = 0 THEN {} ELSE IF count = 1 THEN {0} ELSE ToSet(Spread(length, count))

\* The summary of a column: the rows of its extremes and of its largest jump
\* are the first ones that have it.
FirstOf(rows, P(_)) == LET those == SelectSeq(rows, P) IN those[1]
ColumnSummary(table, c) ==
    LET rows == table.all
        numbers == SelectSeq([i \in DOMAIN rows |-> i], LAMBDA i : IsNumber(rows[i][c]))
        V(i) == rows[i][c].value
        values == {V(numbers[k]) : k \in DOMAIN numbers}
        Jump(k) == IF V(numbers[k]) > V(numbers[k - 1]) THEN V(numbers[k]) - V(numbers[k - 1])
                   ELSE V(numbers[k - 1]) - V(numbers[k])
        later == [k \in 1..Len(numbers) - 1 |-> k + 1]
        largest == Max({0} \union {Jump(k) : k \in ToSet(later)})
        text == [field |-> table.headers[c], count |-> Cardinality(Present(rows, c)),
                 missing |-> Len(rows) - Cardinality(Present(rows, c)),
                 unique |-> Cardinality({rows[i][c] : i \in Present(rows, c)})]
    IN  IF ~MostlyNumeric(rows, c) THEN text @@ [kind |-> "text"]
        ELSE text @@ [kind |-> "numeric", minimum |-> Min(values), maximum |-> Max(values),
                      minimumRow |-> FirstOf(numbers, LAMBDA i : V(i) = Min(values)) - 1,
                      maximumRow |-> FirstOf(numbers, LAMBDA i : V(i) = Max(values)) - 1,
                      jumpRow |-> IF later = <<>> THEN -1
                                  ELSE numbers[FirstOf(later, LAMBDA k : Jump(k) = largest)] - 1]
summarizeResultTable(table) ==
    [total |-> Len(table.all), columns |-> [c \in DOMAIN table.headers |-> ColumnSummary(table, c)],
     sample |-> SampleRows(Len(table.all), 24)]

(***************************************************************************)
(* The chart, and the comparison of one file of several Cases              *)
(***************************************************************************)
\* The place of row i of the first table's column x: the row itself without x,
\* the order of appearance of a text; <<>> if it has no place.
Place(base, table, x, i) ==
    LET c == ColumnNamed(table, x)
        b == ColumnNamed(base, x)
        texts == [r \in DOMAIN base.rows |-> base.rows[r][b]]
        before == {r \in DOMAIN texts : texts[r] = table.rows[i][c]}
    IN  IF c = 0 THEN <<i - 1>>
        ELSE IF b = 0 \/ MostlyNumeric(base.rows, b)
             THEN IF IsNumber(table.rows[i][c]) THEN <<table.rows[i][c].value>> ELSE <<>>
             ELSE IF before = {} THEN <<>>
                  ELSE <<Cardinality({texts[r] : r \in {q \in DOMAIN texts : q < Min(before)}})>>
\* The rows drawn of column y of a table.
PointRows(base, table, x, y, log) ==
    LET c == ColumnNamed(table, y)
        sampled == sampleIndices(Len(table.rows), MaxPoints)
        rows == {sampled[k] + 1 : k \in DOMAIN sampled}
    IN  IF c = 0 THEN {}
        ELSE {i \in rows : /\ IsNumber(table.rows[i][c]) /\ Place(base, table, x, i) # <<>>
                           /\ (log => table.rows[i][c].value > 0)}
\* The series that are drawn; there is no chart without one.
ChartSeries(tables, x, y, log) ==
    {s \in (DOMAIN tables) \X (DOMAIN y) : PointRows(tables[1], tables[s[1]], x, y[s[2]], log) # {}}
\* A mark of the diagnosis is drawn at its row of the first table.
AnnotationDrawn(base, x, y, log, field, row, value) ==
    /\ field \in ToSet(y) /\ row \in 0..Len(base.rows) - 1
    /\ (log => value > 0) /\ Place(base, base, x, row + 1) # <<>>

comparableResultHeaders(tables) ==
    SelectSeq(tables[1].headers, LAMBDA h : \A t \in DOMAIN tables : h \in ToSet(tables[t].headers))
CommonNumeric(tables) ==
    SelectSeq(comparableResultHeaders(tables),
              LAMBDA h : \A t \in DOMAIN tables : MostlyNumeric(tables[t].rows, ColumnNamed(tables[t], h)))
\* The column compared first: <<>> when the files share none.
DefaultHeader(tables) ==
    LET measured == SelectSeq(CommonNumeric(tables), LAMBDA h : h \notin AxisNames)
        recommended == SelectSeq(recommendResultChart(tables[1]).y, LAMBDA h : h \in ToSet(measured))
        wishes == recommended \o measured \o CommonNumeric(tables) \o comparableResultHeaders(tables)
    IN  SubSeq(wishes, 1, Min({1, Len(wishes)}))
\* The difference to the first Case: <<>> where it has none.
resultCellDelta(baseline, candidate) ==
    CASE Blank \in {baseline, candidate} -> <<>>
      [] IsNumber(baseline) /\ IsNumber(candidate) -> <<candidate.value - baseline.value>>
      [] OTHER -> IF baseline = candidate THEN <<0>> ELSE <<>>

(***************************************************************************)
(* Properties                                                              *)
(***************************************************************************)
Texts == {<<c>> : c \in TextCells} \union {<<c, d>> : c \in TextCells, d \in TextCells}
Doubled(text) == FlattenSeq([i \in DOMAIN text |-> IF text[i] = Quote THEN <<Quote, Quote>> ELSE <<text[i]>>])
Quoted(text) == <<Quote>> \o Doubled(text) \o <<Quote>>
LineOf(row) == FlattenSeq([c \in DOMAIN row |-> IF c = 1 THEN Quoted(row[c]) ELSE <<Delimiter>> \o Quoted(row[c])])
NotBlank(rows) == SelectSeq(rows, LAMBDA row : \E c \in DOMAIN row : ~IsBlank(row[c]))
\* Whatever is in the cells, quotes, separators and line ends included, the
\* reader finds the rows that were written, whichever line end parts them and
\* whether the last one ends with it; only blank rows are left out.
ReaderFindsWhatIsWritten ==
    \A one \in Texts, other \in Texts, end \in {<<NewLine>>, <<Return>>, <<Return, NewLine>>} :
        /\ parseQuotedRows(LineOf(one)) = NotBlank(<<one>>)
        /\ parseQuotedRows(LineOf(one) \o end \o LineOf(other) \o end) = NotBlank(<<one, other>>)

\* A table is marked as truncated when a cell of the file that is not blank is
\* not in the rows charted or in the headers.
TruncationIsTold ==
    \A f \in Files : \A i \in DOMAIN Contents[f] : \A c \in DOMAIN Contents[f][i] :
        Contents[f][i][c] = Blank \/ Tables[f].truncated
            \/ Contents[f][i][c] = (IF i = 1 THEN Tables[f].headers[c] ELSE Tables[f].rows[i - 1][c])

\* The rows that stand for a longer series are distinct, in order, and begin
\* and end with the first and the last; so do those sent as a sample.
SamplesSpanTheRows ==
    \A length \in 0..3 * MaxPoints + 3, maximum \in 2..MaxPoints + 1 :
        LET sampled == sampleIndices(length, maximum)
            sample == SampleRows(length, maximum)
        IN  /\ Len(sampled) = Min({length, maximum}) /\ Cardinality(sample) = Len(sampled)
            /\ \A k \in DOMAIN sampled : k > 1 => sampled[k - 1] < sampled[k]
            /\ length > 0 => sampled[1] = 0 /\ Last(sampled) = length - 1 /\ {0, length - 1} \subseteq sample

\* The rows the summary names hold the values it names, the largest jump is
\* larger than any before it, and no cell is left uncounted.
SummaryIsOfTheTable ==
    \A f \in Files : \A c \in DOMAIN Tables[f].headers :
        LET summary == summarizeResultTable(Tables[f])
            s == summary.columns[c]
            rows == Tables[f].all
        IN  /\ summary.total = Len(rows) /\ \A i \in summary.sample : i + 1 \in DOMAIN rows
            /\ s.count + s.missing = Len(rows) /\ s.unique <= s.count
            /\ s.kind = "numeric" =>
                 /\ rows[s.minimumRow + 1][c].value = s.minimum /\ rows[s.maximumRow + 1][c].value = s.maximum
                 /\ \A i \in Numeric(rows, c) : rows[i][c].value \in s.minimum..s.maximum
                 /\ s.jumpRow + 1 \in Numeric(rows, c) \union {0}

\* The chart that is recommended can be drawn as it is: all its series have
\* points on the scale that is recommended with them, and an extreme that the
\* summary names in one of the charted rows can be marked on it.
RecommendedIsDrawn ==
    \A f \in Files :
        LET table == Tables[f]
            r == recommendResultChart(table)
        IN  /\ ChartSeries(<<table>>, Blank, r.y, r.log) = {1} \X (DOMAIN r.y)
            /\ \A k \in DOMAIN r.y :
                 LET s == ColumnSummary(table, ColumnNamed(table, r.y[k]))
                 IN  s.kind = "numeric" /\ s.minimumRow < Len(table.rows) =>
                        AnnotationDrawn(table, Blank, r.y, r.log, r.y[k], s.minimumRow, s.minimum)

\* Files compatible with one another, whose columns have names of their own, can
\* be compared either way round, with opposite differences, and their comparison
\* begins with a measurement they share.
CompatibleFilesCompare ==
    \A f, g \in {h \in Files : IsInjective(Tables[h].headers)} :
        datasetCompatibility(Tables[f], Tables[g]) =>
            /\ datasetCompatibility(Tables[g], Tables[f])
            /\ \A h \in ToSet(comparableResultHeaders(<<Tables[f], Tables[g]>>)) :
                 \A i \in (DOMAIN Tables[f].rows) \intersect (DOMAIN Tables[g].rows) :
                   LET a == Tables[f].rows[i][ColumnNamed(Tables[f], h)]
                       b == Tables[g].rows[i][ColumnNamed(Tables[g], h)]
                   IN  resultCellDelta(b, a) = [k \in DOMAIN resultCellDelta(a, b) |-> -resultCellDelta(a, b)[k]]
            /\ \E h \in ToSet(DefaultHeader(<<Tables[f], Tables[g]>>)) :
                 h \notin AxisNames /\ h \in ToSet(CommonNumeric(<<Tables[f], Tables[g]>>))
=============================================================================
