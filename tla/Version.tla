--------------------------------- MODULE Version ---------------------------------
(***************************************************************************)
(* plg::version and plg::range_set: how a text becomes a version or a set  *)
(* of ranges, and which versions a range contains.  A text is a sequence   *)
(* of tokens; it grows by a piece at a time and is read again.             *)
(***************************************************************************)
EXTENDS VersionOrder

LOCAL INSTANCE FiniteSetsExt
LOCAL INSTANCE SequencesExt
LOCAL INSTANCE TLC

CONSTANTS
  IntMax,      \* the largest int
  Wide,        \* 2^64: parse_number accumulates modulo it
  Vocabulary,  \* bound: sets of pieces, texts are made of those of one set
  MaxPieces,   \* bound: pieces in a text
  Known        \* bound: texts of the versions others are compared with

VersionAssumption == IntMax \in Nat /\ Wide \in Nat /\ IntMax < Wide

VARIABLES
  words,   \* the pieces texts are made of
  pieces,  \* how many the text has
  text,
  read,    \* the parse of the text as a version, into the object used before
  ranges   \* the parse of the text as a set of ranges

vars == <<words, pieces, text, read, ranges>>

-----------------------------------------------------------------------------
(* Tokens. *)

Space == 1
Plus == 2
Dot == 3
Less == 50
LessOrEqual == 51
Greater == 52
GreaterOrEqual == 53
Equal == 54
RangeOperator == Less..Equal
LogicalOr == 60
Eol == 0

Token == {Space, Plus, Dot, Hyphen, LogicalOr} \cup Digit \cup Letter \cup RangeOperator

-----------------------------------------------------------------------------
(* version_parser: the place in the text, the version read so far, and       *)
(* whether every step has succeeded.                                         *)

Blank == [core |-> <<0, 1, 0>>, tag |-> <<>>, build |-> <<>>, ids |-> <<>>]

Get(p) == IF p.pos <= Len(p.text) THEN p.text[p.pos] ELSE Eol
Advance(p) == [p EXCEPT !.pos = @ + 1]
Failed(p) == [p EXCEPT !.ok = FALSE]
Then(p, F(_)) == IF p.ok THEN F(p) ELSE p
Consume(p, token) == IF Get(p) = token THEN Advance(p) ELSE Failed(p)

\* The tokens from this place that are in S.
Run(p, S) ==
  SubSeq(p.text, p.pos, Min({i \in p.pos..Len(p.text) : p.text[i] \notin S} \cup {Len(p.text) + 1}) - 1)

NumberOf(digits) == FoldLeft(LAMBDA n, d : (10 * n + (d - 10)) % Wide, 0, digits)

ParseNumber(p, i) ==
  LET digits == IF Get(p) = 10 THEN <<10>> ELSE Run(p, Digit)
      n == NumberOf(digits)
  IN  IF digits = <<>> \/ n > IntMax THEN Failed(p)
      ELSE [p EXCEPT !.pos = @ + Len(digits), !.out.core[i] = n]

IsLeadingZero_AnyIdentifier(id) == id[1] = 10 /\ Len(id) > 1
IsLeadingZero(id) == id[1] = 10 /\ Len(id) > 1 /\ IsNumeric(id)

Join(ids) == Tail(FlattenSeq([i \in DOMAIN ids |-> <<Dot>> \o ids[i]]))

\* Identifiers of the prerelease tag are in the version before the tag is.
RECURSIVE ParseIdentifiers(_, _, _)
ParseIdentifiers(p, field, before) ==
  LET id == Run(p, Alphanumeric)
      ids == Append(before, id)
      next == [p EXCEPT !.pos = @ + Len(id), !.out.ids = IF field = "tag" THEN ids ELSE @]
  IN  CASE id = <<>> \/ (field = "tag" /\ IsLeadingZero(id)) -> Failed(p)
        [] id # <<>> /\ ~(field = "tag" /\ IsLeadingZero(id)) /\ Get(next) = Dot ->
             ParseIdentifiers(Advance(next), field, ids)
        [] OTHER -> [next EXCEPT !.out[field] = Join(ids)]

ParseTag(p, mark, field) ==
  IF Get(p) = mark THEN ParseIdentifiers(Advance(p), field, <<>>) ELSE p

\* A parse after the mark of the build is one of the build.
ParseVersion(p) ==
  Then(ParseNumber([p EXCEPT !.out = Blank], 1), LAMBDA a :
  Then(Consume(a, Dot), LAMBDA b :
  Then(ParseNumber(b, 2), LAMBDA c :
  Then(Consume(c, Dot), LAMBDA d :
  Then(ParseNumber(d, 3), LAMBDA e :
  Then(ParseTag(e, Hyphen, "tag"), LAMBDA f :
       ParseTag(f, Plus, "build")))))))

\* The lexer goes first, and a text it refuses leaves the object alone.
Scanned(t, out) ==
  [text |-> t, pos |-> 1, out |-> out, ok |-> \A i \in DOMAIN t : t[i] \in Token]

Parse(t, out) ==
  Then(Scanned(t, out), LAMBDA p :
  Then(ParseVersion(p), LAMBDA q : Consume(q, Eol)))

Digits(n) == IF n < 10 THEN <<10 + n>> ELSE <<10 + (n \div 10), 10 + (n % 10)>>

\* to_string, for numbers of at most two digits.
Text(v) ==
  Digits(v.core[1]) \o <<Dot>> \o Digits(v.core[2]) \o <<Dot>> \o Digits(v.core[3])
    \o (IF v.tag = <<>> THEN <<>> ELSE <<Hyphen>> \o v.tag)
    \o (IF v.build = <<>> THEN <<>> ELSE <<Plus>> \o v.build)

-----------------------------------------------------------------------------
(* range_parser: a set has ranges, and a range has comparators.              *)

SkipWhitespaces(p) == [p EXCEPT !.pos = @ + Len(Run(p, {Space}))]

RECURSIVE ParseRange(_, _)
ParseRange(p, before) ==
  LET start == SkipWhitespaces(p)
      op == IF Get(start) \in RangeOperator THEN Get(start) ELSE Equal
      number == SkipWhitespaces(IF Get(start) \in RangeOperator THEN Advance(start) ELSE start)
      ver == ParseVersion(number)
      after == SkipWhitespaces(ver)
      all == Append(before, [op |-> op, ver |-> ver.out])
  IN  CASE ~ver.ok -> ver
        [] ver.ok /\ Get(after) \in RangeOperator \cup Digit -> ParseRange(after, all)
        [] OTHER -> [after EXCEPT !.range = all]

RECURSIVE ParseSet(_, _)
ParseSet(p, before) ==
  LET one == ParseRange(p, <<>>)
  IN  CASE ~one.ok -> one
        [] one.ok /\ Get(one) = LogicalOr -> ParseSet(Advance(one), Append(before, one.range))
        [] OTHER -> [one EXCEPT !.set = Append(before, one.range)]

\* The end of the text is not asked for.
ParseRanges(t) ==
  LET p == ParseSet(Scanned(t, Blank) @@ [range |-> <<>>, set |-> <<>>], <<>>)
  IN  [ok |-> Scanned(t, Blank).ok /\ p.ok, set |-> p.set]

Holds(c, op) ==
  CASE op = Less -> c < 0
    [] op = LessOrEqual -> c <= 0
    [] op = Greater -> c > 0
    [] op = GreaterOrEqual -> c >= 0
    [] op = Equal -> c = 0

\* A version with a tag is let in by a comparator with a tag for the same release.
LetsIn_AnyTag(range, v) ==
  v.tag = <<>> \/ \E i \in DOMAIN range : range[i].ver.tag # <<>>
LetsIn(range, v) ==
  \/ v.tag = <<>>
  \/ \E i \in DOMAIN range : range[i].ver.tag # <<>> /\ CompareCore(v, range[i].ver) = 0

SetContains(set, v, prerelease) ==
  \E r \in DOMAIN set :
    /\ prerelease \/ LetsIn(set[r], v)
    /\ \A i \in DOMAIN set[r] : Holds(CompareParsed(v, set[r][i].ver), set[r][i].op)

-----------------------------------------------------------------------------
Init ==
  /\ words \in Vocabulary
  /\ pieces = 0
  /\ text = <<>>
  /\ read = [ok |-> FALSE, out |-> Blank]
  /\ ranges = [ok |-> FALSE, set |-> <<>>]

Read(t) ==
  LET p == Parse(t, read.out)
  IN  /\ text' = t
      /\ read' = [ok |-> p.ok, out |-> p.out]
      /\ ranges' = ParseRanges(t)

Type ==
  /\ pieces < MaxPieces
  /\ \E w \in words : Read(text \o w)
  /\ pieces' = pieces + 1
  /\ UNCHANGED words

\* Another object, and another text.
Restart ==
  /\ pieces = MaxPieces
  /\ pieces' = 0
  /\ text' = <<>>
  /\ read' = [ok |-> FALSE, out |-> Blank]
  /\ ranges' = [ok |-> FALSE, set |-> <<>>]
  /\ UNCHANGED words

Next == Type \/ Restart

Spec == Init /\ [][Next]_vars

-----------------------------------------------------------------------------
(* Properties.  What semantic versioning says, with the text taken apart by  *)
(* its separators instead of read from left to right.                        *)

\* The pieces of s between the tokens sep.
Between(s, sep) ==
  LET Add(acc, c) == IF c = sep THEN Append(acc, <<>>) ELSE [acc EXCEPT ![Len(acc)] = Append(@, c)]
  IN  FoldLeft(Add, <<<<>>>>, s)

\* What comes before the first sep, and the rest behind it, if there is one.
Before(s, sep) == Between(s, sep)[1]
Behind(s, sep) == SubSeq(s, Len(Before(s, sep)) + 2, Len(s))
Has(s, sep) == \E i \in DOMAIN s : s[i] = sep

Numeral(s) == s # <<>> /\ IsNumeric(s) /\ (Len(s) > 1 => s[1] # 10)
Identifier(s) == s # <<>> /\ \A i \in DOMAIN s : s[i] \in Alphanumeric
ValueOf(s) == FoldLeft(LAMBDA n, d : 10 * n + d - 10, 0, s)

Core(t) == Between(Before(Before(t, Plus), Hyphen), Dot)

\* A version, as semver.org writes it.
SemVer(t) ==
  LET front == Before(t, Plus)
      core == Core(t)
      Ids(s) == LET parts == Between(s, Dot) IN {parts[i] : i \in DOMAIN parts}
  IN  /\ Len(core) = 3 /\ \A i \in 1..3 : Numeral(core[i]) /\ ValueOf(core[i]) <= IntMax
      /\ Has(front, Hyphen) =>
           \A id \in Ids(Behind(front, Hyphen)) : Identifier(id) /\ (IsNumeric(id) => Numeral(id))
      /\ Has(t, Plus) => \A id \in Ids(Behind(t, Plus)) : Identifier(id)

\* A number of the core that 64 bits do not hold.
TooWide(t) == \E i \in DOMAIN Core(t) : IsNumeric(Core(t)[i]) /\ ValueOf(Core(t)[i]) >= Wide

\* parse reads exactly the texts of versions, and to_string gives the text back,
\* unless a number takes more than 64 bits: parse_number loses those above, so such a
\* text may be read, and is then another version.  A text that was refused by the
\* lexer or the parser is not taken for one that was read.
VersionReadsItsText ==
  /\ ~TooWide(text) => (read.ok <=> SemVer(text))
  /\ read.ok =>
       /\ \A i \in 1..3 : read.out.core[i] = ValueOf(Core(text)[i]) % Wide
       /\ Text(read.out) = text \/ TooWide(text)
       /\ read.out.ids = IF read.out.tag = <<>> THEN <<>> ELSE Between(read.out.tag, Dot)

\* The comparison of two versions that were read, either way round, is their
\* precedence: what the resolver sorts by and a constraint is decided by.
VersionOrderIsPrecedence ==
  read.ok => \A k \in Known :
    LET w == Parse(k, Blank).out
    IN  /\ CompareParsed(read.out, w) < 0 <=> Lower(read.out, w)
        /\ CompareParsed(read.out, w) > 0 <=> Lower(w, read.out)
        /\ CompareParsed(w, read.out) < 0 <=> Lower(w, read.out)

\* A comparator of a text without spaces.
Comparator(s) ==
  IF Head(s) \in RangeOperator THEN [op |-> Head(s), text |-> Tail(s)] ELSE [op |-> Equal, text |-> s]

\* A set of ranges, as it is written: alternatives, each of comparators, none
\* empty, with a space before every comparator but the first of the text.
Alternatives(t) ==
  LET alts == Between(t, LogicalOr)
      Words(s) == SelectSeq(Between(s, Space), LAMBDA w : w # <<>>)
  IN  [i \in DOMAIN alts |-> Words(alts[i])]
IsRangeSet(t) ==
  LET alts == Alternatives(t)
  IN  \A i \in DOMAIN alts :
        alts[i] # <<>> /\ \A j \in DOMAIN alts[i] : SemVer(Comparator(alts[i][j]).text)

\* A text that writes a set of ranges is read as one, and contains a version when
\* all comparators of an alternative hold of it; by default a prerelease must also
\* have been asked for, by a comparator of that alternative.
RangeMeansItsText ==
  IsRangeSet(text) =>
    /\ ranges.ok
    /\ \A k \in Known, prerelease \in BOOLEAN :
         LET v == Parse(k, Blank).out
             alts == Alternatives(text)
             Of(c) == Parse(Comparator(c).text, Blank).out
             True(c) ==
               CASE Comparator(c).op = Less -> Lower(v, Of(c))
                 [] Comparator(c).op = LessOrEqual -> ~Lower(Of(c), v)
                 [] Comparator(c).op = Greater -> Lower(Of(c), v)
                 [] Comparator(c).op = GreaterOrEqual -> ~Lower(v, Of(c))
                 [] OTHER -> ~Lower(v, Of(c)) /\ ~Lower(Of(c), v)
         IN  SetContains(ranges.set, v, prerelease) <=>
               \E i \in DOMAIN alts :
                 /\ \A j \in DOMAIN alts[i] : True(alts[i][j])
                 /\ ~prerelease /\ v.ids # <<>> =>
                      \E j \in DOMAIN alts[i] :
                        Of(alts[i][j]).ids # <<>> /\ Of(alts[i][j]).core = v.core

=============================================================================
