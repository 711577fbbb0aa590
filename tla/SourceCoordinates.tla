-------------------------- MODULE SourceCoordinates --------------------------
(***************************************************************************)
(* The coordinates of an open file (SourceText and SourceCoordinateIndex in   *)
(* src/crates/tsz-core/src/source.rs) and the change request that uses them    *)
(* (apply_change in src/crates/tsz-cli/src/tsserver.rs).                       *)
(*                                                                         *)
(* The server slices bytes; the protocol counts lines and UTF-16 units, both   *)
(* from one.  A character is what it is to either: how long, and whether it    *)
(* ends a line.                                                              *)
(***************************************************************************)
EXTENDS Naturals, Sequences, SequencesExt, FiniteSetsExt

CONSTANTS
    None,         \* the coordinate is not in the file
    MaxLength     \* bounds the characters of a file

\* Separator is U+2028 or U+2029; Astral needs a surrogate pair.
utf8  == [Ascii |-> 1, Accent |-> 2, Astral |-> 4, CR |-> 1, LF |-> 1, Separator |-> 3]
utf16 == [Ascii |-> 1, Accent |-> 1, Astral |-> 2, CR |-> 1, LF |-> 1, Separator |-> 1]
Char == DOMAIN utf8

VARIABLES
    source,       \* SourceText::text
    line_starts   \* SourceCoordinateIndex::line_starts: of each line, its byte and its unit

sourceVars == <<source, line_starts>>

\* A boundary is the number of characters before it.
Boundaries(t) == 0..Len(t)
Total(width, t, i) == FoldLeft(LAMBDA n, c : n + width[c], 0, SubSeq(t, 1, i))
Byte(t, i) == Total(utf8, t, i)
Unit(t, i) == Total(utf16, t, i)
IsBoundary(t, byte) == \E i \in Boundaries(t) : Byte(t, i) = byte

-----------------------------------------------------------------------------
\* Mutant: every carriage return ends a line.
EndsLineAtEachReturn(t, i) == t[i] \in {"CR", "LF", "Separator"}

\* A carriage return ends a line unless a line feed follows.
EndsLine(t, i) ==
    \/ t[i] \in {"LF", "Separator"}
    \/ t[i] = "CR" /\ ~(i < Len(t) /\ t[i + 1] = "LF")

\* The numbers of S, the smaller before the larger.
Ascending(S) ==
    CHOOSE s \in [1..Cardinality(S) -> S] : \A i, j \in DOMAIN s : i < j => s[i] < s[j]

\* SourceCoordinateIndex::new
Index(t) ==
    LET ends == Ascending({i \in 1..Len(t) : EndsLine(t, i)})
    IN  <<[byte |-> 0, unit |-> 0]>> \o
            [k \in DOMAIN ends |-> [byte |-> Byte(t, ends[k]), unit |-> Unit(t, ends[k])]]

Lines == DOMAIN line_starts
LineEnd(line) ==
    IF line + 1 \in Lines THEN line_starts[line + 1].byte ELSE Byte(source, Len(source))

\* The characters of a line, by the boundary before each.
Within(line) ==
    {i \in 0..(Len(source) - 1) : Byte(source, i) \in line_starts[line].byte..(LineEnd(line) - 1)}

\* Mutant: the end of any line has a column.
byte_offset_PastLine(line, column) ==
    IF line \notin Lines \/ column = 0 THEN None
    ELSE LET at == {i \in Within(line) : Unit(source, i) - line_starts[line].unit = column - 1}
         IN  IF at # {} THEN Byte(source, CHOOSE i \in at : TRUE)
             ELSE IF \E i \in Boundaries(source) :
                        /\ Byte(source, i) = LineEnd(line)
                        /\ Unit(source, i) - line_starts[line].unit = column - 1
             THEN LineEnd(line)
             ELSE None

\* The byte at a line and a column.  Columns run through the line's terminator,
\* but its end is the start of the next line and has no column of its own.
byte_offset(line, column) ==
    IF line \notin Lines \/ column = 0 THEN None
    ELSE LET at == {i \in Within(line) : Unit(source, i) - line_starts[line].unit = column - 1}
         IN  IF at # {} THEN Byte(source, CHOOSE i \in at : TRUE)
             ELSE IF /\ line = Len(line_starts)
                     /\ Unit(source, Len(source)) - line_starts[line].unit = column - 1
             THEN LineEnd(line)
             ELSE None

\* partition_point(..) - 1: the last line that starts at or before it.
LineOfByte(byte) == CHOOSE l \in Lines :
    /\ line_starts[l].byte <= byte
    /\ \A k \in Lines : line_starts[k].byte <= byte => k <= l
LineOfUnit(unit) == CHOOSE l \in Lines :
    /\ line_starts[l].unit <= unit
    /\ \A k \in Lines : line_starts[k].unit <= unit => k <= l

\* The units of source[first..last], two bytes at boundaries.
UnitsBetween(first, last) ==
    LET BoundaryAt(byte) == CHOOSE i \in Boundaries(source) : Byte(source, i) = byte
    IN  Unit(source, BoundaryAt(last)) - Unit(source, BoundaryAt(first))

byte_to_utf16(byte) ==
    LET line == line_starts[LineOfByte(byte)]
    IN  line.unit + UnitsBetween(line.byte, byte)

position_from_utf16(unit) ==
    LET l == LineOfUnit(unit) IN <<l, unit - line_starts[l].unit + 1>>

position(byte) ==
    IF IsBoundary(source, byte) THEN position_from_utf16(byte_to_utf16(byte)) ELSE None

-----------------------------------------------------------------------------
Load(t) == source' = t /\ line_starts' = Index(t)

SourceInit == source = <<>> /\ line_starts = Index(<<>>)

\* The text without the bytes first..last, and inserted in their place.
Replaced(first, last, inserted) ==
    LET BoundaryAt(byte) == CHOOSE i \in Boundaries(source) : Byte(source, i) = byte
    IN  SubSeq(source, 1, BoundaryAt(first)) \o inserted
            \o SubSeq(source, BoundaryAt(last) + 1, Len(source))

\* The text after a change request, unless its range is outside the file or ends
\* before it starts.
Changed(start, end, inserted) ==
    LET first == byte_offset(start[1], start[2])
        last == byte_offset(end[1], end[2])
    IN  IF first = None \/ last = None THEN None
        ELSE IF first > last THEN None
        ELSE Replaced(first, last, inserted)

Coordinates == (1..(MaxLength + 1)) \X (1..(2 * MaxLength + 1))
Addressed == {p \in Coordinates : byte_offset(p[1], p[2]) # None}
Inserted == BoundedSeq(Char, 1)

ApplyChange(start, end, inserted) ==
    /\ Changed(start, end, inserted) # None
    /\ Len(Changed(start, end, inserted)) <= MaxLength
    /\ Load(Changed(start, end, inserted))

SourceNext == \E start, end \in Addressed, inserted \in Inserted : ApplyChange(start, end, inserted)

SourceSpec == SourceInit /\ [][SourceNext]_sourceVars

-----------------------------------------------------------------------------
(* What the coordinates promise a client that counts in UTF-16 units. *)

Before(p, q) == p[1] < q[1] \/ (p[1] = q[1] /\ p[2] < q[2])

\* Every place between two characters has one line and column, and every line and
\* column that is accepted is of one place: what a response names can be sent back
\* in a request (byte_offset inverts position), also between CR and LF, around
\* surrogate pairs and at the end of the file.  Lines and columns keep the order of
\* the text, so a range is the right way round for the client exactly when it is for
\* the server (`start > end`).
CoordinatesRoundTrip ==
    /\ \A i \in Boundaries(source) :
          LET place == position(Byte(source, i))
          IN  byte_offset(place[1], place[2]) = Byte(source, i)
    /\ \A place \in Coordinates :
          byte_offset(place[1], place[2]) # None =>
              position(byte_offset(place[1], place[2])) = place
    /\ \A i, j \in Boundaries(source) :
          i < j => Before(position(Byte(source, i)), position(Byte(source, j)))

\* The file as the client has it: its units, each knowing where in its character
\* it is.
Units(t) == FlattenSeq([i \in DOMAIN t |-> [u \in 1..utf16[t[i]] |-> <<t[i], u>>]])

\* Where a unit's line begins, by the rule for line ends on units.
ClientLineStart(units, n) ==
    LET Ends(k) ==
            \/ units[k][1] \in {"LF", "Separator"}
            \/ units[k][1] = "CR" /\ ~(k < Len(units) /\ units[k + 1][1] = "LF")
        starts == {0} \cup {k \in 1..n : Ends(k)}
    IN  [line |-> Cardinality(starts), first |-> Max(starts)]

\* The units a client means by the places: none or one for each.
ClientPlaces ==
    LET units == Units(source)
        starts == [n \in 0..Len(units) |-> ClientLineStart(units, n)]
    IN  [place \in Coordinates |->
            {n \in 0..Len(units) :
                /\ place = <<starts[n].line, n - starts[n].first + 1>>
                /\ n < Len(units) => units[n + 1][2] = 1}]

\* A change does to the server's text what the client did to its own: it takes
\* away the units between the two places and puts its own there; and it is refused
\* only if the client's range is none, runs backwards or splits a surrogate pair.
ChangesAreTheClients ==
    LET places == ClientPlaces
        units == Units(source)
    IN  \A start, end \in Coordinates :
          LET ranges == {r \in places[start] \X places[end] : r[1] <= r[2]}
          IN  \A inserted \in Inserted :
                LET changed == Changed(start, end, inserted)
                IN  IF changed = None THEN ranges = {}
                    ELSE {Units(changed)} =
                            {SubSeq(units, 1, r[1]) \o Units(inserted)
                                \o SubSeq(units, r[2] + 1, Len(units)) : r \in ranges}
=============================================================================
