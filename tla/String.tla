--------------------------------- MODULE String ---------------------------------
(***************************************************************************)
(* plg::basic_string: short strings live in the object, in MinCap cells;   *)
(* longer ones in a buffer of their own.  Either way a terminator follows  *)
(* the characters.  An argument may be a part of the string itself, which  *)
(* moves under the call that reads it.                                     *)
(*                                                                         *)
(* A Value is a character, and Gone the terminator, value_type().  The     *)
(* cells behind the terminator are taken to be Raw after a call.           *)
(* Allocation throws when the fuel of the call is used up.                 *)
(***************************************************************************)
EXTENDS Throwing, Places

CONSTANTS
  MinCap,     \* min_cap, the terminator included
  Boundary,   \* buffers are a multiple of it
  Alignment,  \* alignment
  MaxLength,    \* max_size()
  MaxText    \* bound: the longest argument that is no part of the string

StringAssumption ==
  /\ ThrowingAssumption
  /\ {MinCap, Boundary, MaxLength} \subseteq Nat \ {0}
  /\ {Alignment, MaxText} \subseteq Nat

VARIABLES
  long,   \* is_long()
  chars,  \* the buffer in use, capacity() + 1 cells
  length,   \* size()
  stringCall    \* the last call, as in Container

stringVars == <<long, chars, length, stringCall>>

Characters == SubSeq(chars, 1, length)
StringContainer == INSTANCE Container WITH Item <- Value, items <- Characters,
                                           call <- stringCall

-----------------------------------------------------------------------------
(* Representations: a buffer, the characters in it, and whether it is long.  *)
(* A call in progress has one, its fuel, and whether it threw.               *)

Rep(isLong, n, s) ==
  [long |-> isLong, cells |-> s \o <<Gone>> \o Times(n - Len(s) - 1, Raw), size |-> Len(s)]

StartText(fuel) ==
  [long |-> long, cells |-> chars, size |-> length, left |-> fuel, threw |-> FALSE]
With(o, r) == [o EXCEPT !.long = r.long, !.cells = r.cells, !.size = r.size]

Cap(o) == Len(o.cells) - 1
Text(o) == SubSeq(o.cells, 1, o.size)

RecommendLength(n) ==
  LET guess == Boundary * ((n + Boundary) \div Boundary) - 1
  IN  CASE n < MinCap -> MinCap - 1
        [] n >= MinCap /\ guess = MinCap -> guess + 1
        [] OTHER -> guess

\* The string s in a new buffer for n characters.
InNewBuffer(o, n, s) ==
  IF o.left = 0 THEN Throw(o)
  ELSE [With(o, Rep(TRUE, RecommendLength(n) + 1, s)) EXCEPT !.left = @ - 1]

StringInit ==
  /\ long = FALSE
  /\ chars = Rep(FALSE, MinCap, <<>>).cells
  /\ length = 0
  /\ stringCall = StringContainer!NoCall

-----------------------------------------------------------------------------
(* Operations.  A source is a sequence of characters or a part of the string,*)
(* and is read from the cells as they are by then.                           *)

Fresh(s) == [own |-> FALSE, at |-> 0, n |-> Len(s), text |-> s]
Own(at, n) == [own |-> TRUE, at |-> at, n |-> n, text |-> <<>>]
Read(c, src) == IF src.own THEN SubSeq(c, src.at + 1, src.at + src.n) ELSE src.text
Ahead(src, by) == [src EXCEPT !.at = @ + by]
Part(src, from, n) == IF src.own THEN Own(src.at + from, n) ELSE Fresh(SubSeq(src.text, from + 1, from + n))

\* set_size and the terminator.
Terminated_SizeOnly(o, n) == [o EXCEPT !.size = n]
Terminated(o, n) == [o EXCEPT !.cells = Put(@, n, <<Gone>>), !.size = n]

\* grow_by_and_replace and grow_by_without_replace
GrowBy(o, delta, copied, deleted, added) ==
  LET n == IF Cap(o) < MaxLength \div 2 - Alignment
           THEN RecommendLength(Greater(Cap(o) + delta, 2 * Cap(o))) ELSE MaxLength
  IN  IF delta > MaxLength - Cap(o) THEN Throw(o)
      ELSE InNewBuffer(o, n, SubSeq(o.cells, 1, copied) \o added
                               \o SubSeq(o.cells, copied + deleted + 1, o.size))

Appended(o, src) ==
  IF Cap(o) - o.size < src.n THEN GrowBy(o, o.size + src.n - Cap(o), o.size, 0, Read(o.cells, src))
  ELSE Terminated([o EXCEPT !.cells = Put(@, o.size, Read(@, src))], o.size + src.n)

\* The characters after from move up or down to the place after to.
MoveTail(o, from, to) == [o EXCEPT !.cells = Put(@, to, SubSeq(@, from + 1, o.size))]

Insert(o, pos, src) ==
  LET moved == IF src.own /\ src.at \in pos..(o.size - 1) THEN Ahead(src, src.n) ELSE src
  IN  CASE pos > o.size -> Throw(o)
        [] pos <= o.size /\ Cap(o) - o.size < src.n ->
             GrowBy(o, o.size + src.n - Cap(o), pos, 0, Read(o.cells, src))
        [] OTHER ->
             Terminated([MoveTail(o, pos, pos + src.n) EXCEPT !.cells = Put(@, pos, Read(@, moved))],
                        o.size + src.n)

\* The part of the source before the tail that moves is copied before it moves,
\* the rest where the move brought it.
ReplaceInPlace_Forgets(o, pos, n1, src) ==
  LET moved == IF src.own /\ src.at > pos THEN Ahead(src, src.n - n1) ELSE src
  IN  Terminated([MoveTail(o, pos + n1, pos + src.n) EXCEPT !.cells = Put(@, pos, Read(@, moved))],
                 o.size - n1 + src.n)
ReplaceInPlace(o, pos, n1, src) ==
  LET Written(at, s) == [MoveTail(o, pos + n1, pos + src.n) EXCEPT !.cells = Put(@, at, Read(@, s))]
      First == [o EXCEPT !.cells = Put(@, pos, Read(@, Part(src, 0, n1)))]
      inside == src.own /\ src.at \in (pos + 1)..(o.size - 1)
      done ==
        CASE n1 >= src.n ->
               MoveTail([o EXCEPT !.cells = Put(@, pos, Read(@, src))], pos + n1, pos + src.n)
          [] n1 < src.n /\ inside /\ pos + n1 <= src.at ->
               Written(pos, Ahead(src, src.n - n1))
          [] n1 < src.n /\ inside /\ pos + n1 > src.at /\ pos + n1 < o.size ->
               [MoveTail(First, pos + n1, pos + src.n) EXCEPT
                  !.cells = Put(@, pos + n1, Read(@, Own(src.at + src.n, src.n - n1)))]
          [] OTHER -> Written(pos, src)
  IN  Terminated(done, o.size - n1 + src.n)

Replace(o, pos, del, src) ==
  LET n1 == Lesser(del, o.size - pos)
  IN  CASE pos > o.size -> Throw(o)
        [] pos <= o.size /\ Cap(o) - o.size + n1 < src.n ->
             GrowBy(o, o.size - n1 + src.n - Cap(o), pos, n1, Read(o.cells, src))
        [] OTHER -> ReplaceInPlace(o, pos, n1, src)

AssignChars(o, src) ==
  IF Cap(o) >= src.n
  THEN Terminated([o EXCEPT !.cells = Put(@, 0, Read(@, src))], src.n)
  ELSE GrowBy(o, src.n - Cap(o), 0, o.size, Read(o.cells, src))

EraseChars(o, pos, del) ==
  LET n == Lesser(del, o.size - pos)
  IN  IF pos > o.size THEN Throw(o) ELSE Terminated(MoveTail(o, pos + n, pos), o.size - n)

ResizeLength(o, n, x) ==
  IF n > o.size THEN Appended(o, Fresh(Times(n - o.size, x))) ELSE Terminated(o, n)

ReserveLength(o, n) ==
  CASE n > MaxLength -> Throw(o)
    [] n <= MaxLength /\ n <= Cap(o) -> o
    [] OTHER -> InNewBuffer(o, n, Text(o))

\* A failure to allocate is not passed on, and a buffer no smaller is given back.
Shrunk(o) ==
  LET new == InNewBuffer(o, o.size, Text(o))
  IN  CASE RecommendLength(o.size) = Cap(o) -> o
        [] RecommendLength(o.size) # Cap(o) /\ RecommendLength(o.size) < MinCap ->
             With(o, Rep(FALSE, MinCap, Text(o)))
        [] OTHER -> IF new.threw \/ Cap(new) >= Cap(o) THEN o ELSE new

\* Another string as the source of an assignment.
AssignCopy(o, other) ==
  CASE ~o.long /\ ~other.long -> With(o, other)
    [] (o.long \/ other.long) /\ other.size > Cap(o) ->
         GrowBy(o, other.size - Cap(o), 0, o.size, Text(other))
    [] OTHER -> Terminated([o EXCEPT !.cells = Put(@, 0, Text(other))], other.size)

\* A constructor: from characters, or from the rest of another string, whose
\* buffer it takes.
ConstructedText(o, s) ==
  CASE Len(s) > MaxLength -> Throw(o)
    [] Len(s) <= MaxLength /\ Len(s) < MinCap -> With(o, Rep(FALSE, MinCap, s))
    [] OTHER -> InNewBuffer(o, Len(s), s)

Pilfered(o, other, pos, n) ==
  LET len == Lesser(n, other.size - pos)
  IN  IF pos > other.size THEN Throw(o)
      ELSE Terminated([With(o, other) EXCEPT !.cells = Put(@, 0, SubSeq(@, pos + 1, pos + len))], len)

-----------------------------------------------------------------------------
(* Actions. *)

TextFuel == {0, 1}

Texts(n) == UNION {[1..k -> Value] : k \in 0..n}
TextInput == Texts(MaxText)
Sources == {Fresh(s) : s \in TextInput} \cup UNION {{Own(i, n) : n \in 0..(length - i)} : i \in 0..length}

\* Other strings, in the object or in a buffer.
Short(s) == Rep(FALSE, MinCap, s)
Long(n, s) == Rep(TRUE, RecommendLength(n) + 1, s)
Others == {Short(s) : s \in Texts(MinCap - 1)}
            \cup {Long(n, s) : n \in MinCap..(MinCap + 1), s \in Texts(MinCap)}

TextEnded(o, at, cut, s) ==
  /\ long' = o.long
  /\ chars' = [i \in DOMAIN o.cells |-> IF i <= o.size + 1 THEN o.cells[i] ELSE Raw]
  /\ length' = o.size
  /\ stringCall' = [at |-> at, cut |-> cut, put |-> s, strong |-> TRUE, threw |-> o.threw]

AppendText == \E fuel \in TextFuel, src \in Sources :
  TextEnded(Appended(StartText(fuel), src), length, 0, Read(chars, src))

InsertText == \E fuel \in TextFuel, pos \in 0..(length + 1), src \in Sources :
  TextEnded(Insert(StartText(fuel), pos, src), pos, 0, Read(chars, src))

ReplaceText == \E fuel \in TextFuel, pos \in 0..(length + 1), n \in 0..length, src \in Sources :
  TextEnded(Replace(StartText(fuel), pos, n, src), pos, n, Read(chars, src))

AssignText == \E fuel \in TextFuel, src \in Sources :
  TextEnded(AssignChars(StartText(fuel), src), 0, length, Read(chars, src))

EraseText == \E pos \in 0..(length + 1), n \in 0..length :
  TextEnded(EraseChars(StartText(0), pos, n), pos, n, <<>>)

ResizeText == \E fuel \in TextFuel, n \in 0..(MaxLength + 1), x \in Value :
  TextEnded(ResizeLength(StartText(fuel), n, x), Lesser(n, length), length - Lesser(n, length), Times(Greater(0, n - length), x))

ReserveFor == \E fuel \in TextFuel, n \in 0..(MaxLength + 1) :
  TextEnded(ReserveLength(StartText(fuel), n), length, 0, <<>>)

ShrinkText == \E fuel \in TextFuel :
  TextEnded(Shrunk(StartText(fuel)), length, 0, <<>>)

\* operator=, by copy or by move.
AssignString == \E fuel \in TextFuel, other \in Others :
  \/ TextEnded(AssignCopy(StartText(fuel), other), 0, length, Text(other))
  \/ TextEnded(With(StartText(fuel), other), 0, length, Text(other))

\* swap, which gives the other the string as it was.
SwapText == \E other \in Others : TextEnded(With(StartText(0), other), 0, length, Text(other))

\* operator+ of the string and other characters, before or after it: a new string
\* takes its place, or an rvalue is inserted into or appended to.
Concatenate == \E fuel \in TextFuel, src \in Sources, rvalue \in BOOLEAN :
  LET o == StartText(fuel)
      s == Read(chars, src)
  IN  \/ TextEnded(IF rvalue THEN Appended(o, src) ELSE ConstructedText(o, Text(o) \o s), length, 0, s)
      \/ TextEnded(IF rvalue THEN Insert(o, 0, src) ELSE ConstructedText(o, s \o Text(o)), 0, 0, s)

\* The string ends and another is constructed.
CreateText == \E fuel \in TextFuel, s \in TextInput \cup {Times(MaxLength + 1, x) : x \in Value} :
  TextEnded(ConstructedText(StartText(fuel), s), 0, length, s)

CreatePart == \E other \in Others : \E pos \in 0..(other.size + 1), n \in 0..other.size :
  TextEnded(Pilfered(StartText(0), other, pos, n), 0, length,
        SubSeq(Text(other), pos + 1, Lesser(pos + n, other.size)))

StringNext ==
  \/ AppendText \/ InsertText \/ ReplaceText \/ AssignText \/ EraseText \/ ResizeText
  \/ ReserveFor \/ ShrinkText \/ AssignString \/ SwapText \/ Concatenate
  \/ CreateText \/ CreatePart

StringSpec == StringInit /\ [][StringNext]_stringVars

-----------------------------------------------------------------------------
(* Properties. *)

\* invariants(): the characters fit the buffer, a short string's is MinCap cells
\* and a long one's is larger or as large, and a terminator follows them.
StringTerminated ==
  /\ long \in BOOLEAN /\ chars \in Seq(Value \cup {Raw, Gone}) /\ length \in Nat
  /\ length < Len(chars)
  /\ IF long THEN Len(chars) >= MinCap ELSE Len(chars) = MinCap
  /\ chars[length + 1] = Gone
  /\ \A i \in 1..length : chars[i] \in Value

\* Every call does to the characters what Container promises, with the strong
\* guarantee, for arguments that are parts of the string too.
StringIsContainer == StringContainer!Spec

=============================================================================
