----------------------------- MODULE Objects_proofs -----------------------------
(***************************************************************************)
(* Proofs about plg::expected and plg::variant, for any values, and any    *)
(* step at which a call throws: has_val and index() tell what there is,    *)
(* and every call keeps to what Container promises.  They hold for any     *)
(* traits of the value and of the error of which one moves without a       *)
(* throw, and for any types of a variant, where no construction throws     *)
(* once the old object is destroyed.  The tree of unions of a variant has  *)
(* its types in their order, however many there are.                       *)
(***************************************************************************)
EXTENDS Expected, VariantTree, Basics

\* What the calls of expected do to the objects and to has_val.
TypeOK ==
  /\ traitOf \in [val : Trait, unex : Trait \ {"void"}]
  /\ \E a \in Alt : Nothrow(traitOf[a], "move")
  /\ hasVal \in [Who -> BOOLEAN]
  /\ object \in [Who -> Contained]

Told == \A w \in Who : hasVal[w] <=> object[w].alt = "val"

IInv == ExpectedAssumption /\ TypeOK /\ Told

-----------------------------------------------------------------------------
(* A call in progress, and the steps it is made of. *)

Progress == [hasVal : [Who -> BOOLEAN], object : [Who -> Contained \cup {Raw}], left : Nat, threw : BOOLEAN]
Ways == {"args", "copy", "move"}
Sources == [how : Ways, item : Item, of : Who \cup {"none"}]

\* What the object of v is once src has been read by a constructor that did not throw.
Read(o, t, src, v) ==
  IF src.how = "move" /\ src.of = v
  THEN [alt |-> o.object[v].alt, item |-> Kept(t, o.object[v].item)] ELSE o.object[v]

LEMMA TwoObjects ==
  /\ Other("this") = "other" /\ Other("other") = "this" /\ Who = {"this", "other"}
  /\ \A w \in Who : Other(w) \in Who /\ Other(w) # w /\ Other(Other(w)) = w
       /\ \A v \in Who : v = w \/ v = Other(w)
BY DEF Other, Who

LEMMA KeptIsItem ==
  ASSUME NEW t, NEW x \in Item
  PROVE  Kept(t, x) \in Item
BY DEF Kept, Item

LEMMA StepIs ==
  ASSUME NEW o \in Progress, NEW t, NEW src \in Sources, ~o.threw,
         src.how = "move" /\ src.of \in Who => o.object[src.of] \in Contained
  PROVE  LET q == Step(o, t, src)
         IN  /\ q \in Progress /\ q.hasVal = o.hasVal
             /\ q.threw => q.object = o.object
             /\ ~q.threw => \A v \in Who : q.object[v] = Read(o, t, src, v)
             /\ Nothrow(t, src.how) => ~q.threw
<1> DEFINE q == Step(o, t, src)
<1>1. CASE ~Nothrow(t, src.how) /\ o.left = 0
  <2>1. q = [o EXCEPT !.threw = TRUE]
    BY <1>1 DEF Step, Throw
  <2>2. q \in Progress /\ q.hasVal = o.hasVal /\ q.object = o.object /\ q.threw
    BY <2>1 DEF Progress
  <2>. QED
    BY <1>1, <2>2
<1>2. CASE ~(~Nothrow(t, src.how) /\ o.left = 0)
  <2> DEFINE less == IF Nothrow(t, src.how) THEN o.left ELSE o.left - 1
             read == IF src.how = "move" /\ src.of \in Who
                     THEN [o.object EXCEPT ![src.of].item = Kept(t, @)] ELSE o.object
  <2>1. q = [o EXCEPT !.left = less, !.object = read]
    BY <1>2 DEF Step
  <2>2. less \in Nat
    BY <1>2 DEF Progress
  <2>3. read \in [Who -> Contained \cup {Raw}] /\ \A v \in Who : read[v] = Read(o, t, src, v)
    <3>1. o.object \in [Who -> Contained \cup {Raw}]
      BY DEF Progress
    <3>2. CASE src.how = "move" /\ src.of \in Who
      <4>1. o.object[src.of] \in Contained
        BY <3>2
      <4>2. Kept(t, o.object[src.of].item) \in Item
        BY <4>1, KeptIsItem DEF Contained
      <4>3. [o.object[src.of] EXCEPT !.item = Kept(t, @)]
              = [alt |-> o.object[src.of].alt, item |-> Kept(t, o.object[src.of].item)]
        BY <4>1 DEF Contained
      <4>4. [alt |-> o.object[src.of].alt, item |-> Kept(t, o.object[src.of].item)] \in Contained
        BY <4>1, <4>2 DEF Contained
      <4>5. read = [o.object EXCEPT ![src.of] = [o.object[src.of] EXCEPT !.item = Kept(t, @)]]
        BY <3>2
      <4>. QED
        BY <3>1, <3>2, <4>3, <4>4, <4>5 DEF Read
    <3>3. CASE ~(src.how = "move" /\ src.of \in Who)
      BY <3>1, <3>3 DEF Read
    <3>. QED
      BY <3>2, <3>3
  <2> HIDE DEF less, read
  <2>4. q \in Progress /\ q.hasVal = o.hasVal /\ ~q.threw /\ q.object = read
    BY <2>1, <2>2, <2>3 DEF Progress
  <2>. QED
    BY <2>3, <2>4
<1>. QED
  BY <1>1, <1>2

LEMMA MakeIs ==
  ASSUME NEW o \in Progress, NEW w \in Who, NEW a \in Alt, NEW t, NEW src \in Sources, ~o.threw,
         src.how = "move" /\ src.of \in Who => o.object[src.of] \in Contained
  PROVE  LET q == Make(o, w, a, t, src)
         IN  /\ q \in Progress /\ q.hasVal = o.hasVal
             /\ q.threw => q.object = o.object
             /\ ~q.threw => /\ q.object[w] = [alt |-> a, item |-> src.item]
                            /\ q.object[w] \in Contained
                            /\ q.object[Other(w)] = Read(o, t, src, Other(w))
             /\ Nothrow(t, src.how) => ~q.threw
<1> DEFINE p == Step(o, t, src)
           q == Make(o, w, a, t, src)
           new == [alt |-> a, item |-> src.item]
<1>1. /\ p \in Progress /\ p.hasVal = o.hasVal
      /\ p.threw => p.object = o.object
      /\ ~p.threw => \A v \in Who : p.object[v] = Read(o, t, src, v)
      /\ Nothrow(t, src.how) => ~p.threw
  BY StepIs
<1>2. q = IF p.threw THEN p ELSE [p EXCEPT !.object = [p.object EXCEPT ![w] = new]]
  BY DEF Make, Then
<1>3. new \in Contained
  BY DEF Contained, Sources
<1> HIDE DEF p, q, new
<1>4. CASE p.threw
  BY <1>1, <1>2, <1>4 DEF q
<1>5. CASE ~p.threw
  <2>1. q = [p EXCEPT !.object = [p.object EXCEPT ![w] = new]]
    BY <1>2, <1>5
  <2>2. /\ q \in Progress /\ q.hasVal = o.hasVal /\ ~q.threw
        /\ q.object = [p.object EXCEPT ![w] = new] /\ p.object \in [Who -> Contained \cup {Raw}]
    BY <1>1, <1>3, <1>5, <2>1 DEF Progress
  <2>3. q.object[w] = new /\ q.object[Other(w)] = p.object[Other(w)]
    BY <2>2, TwoObjects
  <2>. QED
    BY <1>1, <1>3, <1>5, <2>2, <2>3, TwoObjects DEF q, new
<1>. QED
  BY <1>4, <1>5

LEMMA DestroyIs ==
  ASSUME NEW o \in Progress, NEW w \in Who
  PROVE  LET q == Destroy(o, w)
         IN  /\ q \in Progress /\ q.hasVal = o.hasVal /\ q.threw = o.threw
             /\ q.object[Other(w)] = o.object[Other(w)]
BY TwoObjects DEF Destroy, Progress

-----------------------------------------------------------------------------
(* The operations. *)

\* One of the two alternatives moves without a throw, so the old object comes back.
LEMMA ReinitIs ==
  ASSUME NEW o \in Progress, NEW w \in Who, NEW a \in Alt, NEW src \in Sources, ~o.threw,
         o.object[w] \in Contained, o.object[Other(w)] \in Contained,
         Nothrow(traitOf[a], "move") \/ Nothrow(traitOf[o.object[w].alt], "move"),
         src.of \in {"none", Other(w)}
  PROVE  LET q == ReinitExpected(o, w, a, src)
         IN  /\ q \in Progress /\ q.hasVal = o.hasVal
             /\ q.threw => q.object[w] = o.object[w] /\ q.object[Other(w)] = o.object[Other(w)]
             /\ ~q.threw => /\ q.object[w] = [alt |-> a, item |-> src.item]
                            /\ q.object[w] \in Contained
                            /\ q.object[Other(w)] = Read(o, traitOf[a], src, Other(w))
<1> DEFINE t == traitOf[a]
           v == Other(w)
           old == o.object[w].alt
           tmp == Source("move", o.object[w].item, w)
           q == ReinitExpected(o, w, a, src)
<1>1. v \in Who /\ v # w /\ Other(v) = w /\ \A u \in Who : u = w \/ u = v
  BY TwoObjects
<1>2. o.object[w] = [alt |-> old, item |-> o.object[w].item] /\ old \in Alt /\ o.object[w].item \in Item
  BY DEF Contained
<1>3. src.how \in Ways /\ src.item \in Item /\ src.of # w /\ w # "none"
  BY <1>1 DEF Sources, Who
<1>4. CASE Nothrow(t, src.how)
  <2> DEFINE d == Destroy(o, w)
  <2>1. q = Make(d, w, a, t, src)
    BY <1>4 DEF ReinitExpected
  <2>2. d \in Progress /\ d.hasVal = o.hasVal /\ ~d.threw /\ d.object[v] = o.object[v]
    BY DestroyIs
  <2> HIDE DEF d
  <2>3. /\ q \in Progress /\ q.hasVal = d.hasVal /\ ~q.threw
        /\ q.object[w] = [alt |-> a, item |-> src.item] /\ q.object[w] \in Contained
        /\ q.object[v] = Read(d, t, src, v)
    BY <1>1, <1>3, <1>4, <2>1, <2>2, MakeIs
  <2>4. Read(d, t, src, v) = Read(o, t, src, v)
    BY <2>2 DEF Read
  <2>. QED
    BY <2>2, <2>3, <2>4
<1>5. CASE ~Nothrow(t, src.how) /\ Nothrow(t, "move")
  <2> DEFINE s == Step(o, t, src)
             d == Destroy(s, w)
             made == Make(d, w, a, t, Temporary("move", src))
  <2>1. q = IF s.threw THEN s ELSE made
    BY <1>5 DEF ReinitExpected, Then
  <2>2. src.how # "move"
    BY <1>5
  <2>3. /\ s \in Progress /\ s.hasVal = o.hasVal
        /\ s.threw => s.object = o.object
        /\ ~s.threw => \A u \in Who : s.object[u] = Read(o, t, src, u)
    BY <2>2, StepIs
  <2>4. /\ d \in Progress /\ d.hasVal = o.hasVal /\ d.threw = s.threw /\ d.object[v] = s.object[v]
    BY <2>3, DestroyIs
  <2> DEFINE temp == Temporary("move", src)
  <2>5. temp \in Sources /\ temp.how = "move" /\ temp.item = src.item /\ temp.of = "none" /\ "none" \notin Who
    BY <1>3 DEF Temporary, Source, Sources, Ways, Who
  <2> HIDE DEF s, d, temp
  <2>6. CASE s.threw
    BY <2>1, <2>3, <2>6
  <2>7. CASE ~s.threw
    <3>1. /\ made \in Progress /\ made.hasVal = d.hasVal /\ ~made.threw
          /\ made.object[w] = [alt |-> a, item |-> temp.item] /\ made.object[w] \in Contained
          /\ made.object[v] = Read(d, t, temp, v)
      BY <1>1, <1>5, <2>4, <2>5, <2>7, MakeIs DEF temp
    <3>2. Read(d, t, temp, v) = Read(o, t, src, v)
      BY <1>1, <2>2, <2>3, <2>4, <2>5, <2>7 DEF Read
    <3>. QED
      BY <2>1, <2>4, <2>5, <2>7, <3>1, <3>2
  <2>. QED
    BY <2>6, <2>7
<1>6. CASE ~Nothrow(t, src.how) /\ ~Nothrow(t, "move")
  <2> DEFINE s == Step(o, traitOf[old], tmp)
             d == Destroy(s, w)
             made == Make(d, w, a, t, src)
             temp == Temporary("move", tmp)
             back == Make(d, w, old, traitOf[old], temp)
  <2>1. q = IF s.threw THEN s ELSE IF made.threw THEN Throw(back) ELSE made
    BY <1>6 DEF ReinitExpected, Then
  <2>2. Nothrow(traitOf[old], "move")
    BY <1>6
  <2>3. tmp \in Sources /\ tmp.how = "move" /\ tmp.of = w /\ tmp.item = o.object[w].item
    BY <1>2 DEF Source, Sources, Ways
  <2>4. temp \in Sources /\ temp.how = "move" /\ temp.item = tmp.item /\ temp.of = "none" /\ "none" \notin Who
    BY <2>3 DEF Temporary, Source, Sources, Ways, Who
  <2> HIDE DEF tmp, temp
  <2>5. /\ s \in Progress /\ s.hasVal = o.hasVal /\ ~s.threw
        /\ \A u \in Who : s.object[u] = Read(o, traitOf[old], tmp, u)
    BY SMTT(30), <2>2, <2>3, StepIs
  <2>6. s.object[v] = o.object[v]
    BY <1>1, <2>3, <2>5 DEF Read
  <2> HIDE DEF s
  <2>7. d \in Progress /\ d.hasVal = o.hasVal /\ ~d.threw /\ d.object[v] = o.object[v]
    BY <2>5, <2>6, DestroyIs
  <2> HIDE DEF d
  <2>8. /\ made \in Progress /\ made.hasVal = d.hasVal
        /\ made.threw => made.object = d.object
        /\ ~made.threw => /\ made.object[w] = [alt |-> a, item |-> src.item]
                          /\ made.object[w] \in Contained
                          /\ made.object[v] = Read(d, t, src, v)
    BY <1>1, <1>3, <2>7, MakeIs
  <2>9. Read(d, t, src, v) = Read(o, t, src, v)
    BY SMTT(30), <2>7 DEF Read
  <2>10. /\ back \in Progress /\ back.hasVal = d.hasVal /\ ~back.threw
         /\ back.object[w] = [alt |-> old, item |-> temp.item]
         /\ back.object[v] = Read(d, traitOf[old], temp, v)
    BY <1>1, <1>2, <2>2, <2>4, <2>7, MakeIs
  <2>11. Read(d, traitOf[old], temp, v) = o.object[v]
    BY <1>1, <2>4, <2>7 DEF Read
  <2> HIDE DEF made, back
  <2>12. CASE made.threw
    <3>1. q = [back EXCEPT !.threw = TRUE]
      BY <2>1, <2>5, <2>12 DEF Throw
    <3>2. q \in Progress /\ q.hasVal = back.hasVal /\ q.threw /\ q.object = back.object
      BY <2>10, <3>1 DEF Progress
    <3>. QED
      BY <1>2, <2>3, <2>4, <2>7, <2>10, <2>11, <3>2
  <2>13. CASE ~made.threw
    BY <2>1, <2>5, <2>7, <2>8, <2>9, <2>13
  <2>. QED
    BY <2>12, <2>13
<1>. QED
  BY <1>4, <1>5, <1>6

\* What a call has to come to: want in each when it returns, and what was there in
\* those of strong when it throws.
Comes(q, want, strong) ==
  /\ q.hasVal \in [Who -> BOOLEAN] /\ q.object \in [Who -> Contained] /\ q.threw \in BOOLEAN
  /\ \A w \in Who :
       /\ q.hasVal[w] <=> q.object[w].alt = "val"
       /\ want[w] \in Seq(Contained)
       /\ IF q.threw THEN w \in strong => q.object[w] = object[w] ELSE want[w] = <<q.object[w]>>

\* An assignment is strong for both.
LEMMA AssignIs ==
  ASSUME NEW o \in Progress, NEW w \in Who, NEW a \in Alt, NEW src \in Sources, ~o.threw,
         o.object[w] \in Contained, o.object[Other(w)] \in Contained,
         o.hasVal[w] <=> o.object[w].alt = "val",
         \E b \in Alt : Nothrow(traitOf[b], "move"),
         src.of \in {"none", Other(w)}
  PROVE  LET q == Assign(o, w, a, src)
         IN  /\ q \in Progress
             /\ q.hasVal[Other(w)] = o.hasVal[Other(w)]
             /\ q.threw => /\ q.hasVal[w] = o.hasVal[w]
                           /\ q.object[w] = o.object[w] /\ q.object[Other(w)] = o.object[Other(w)]
             /\ ~q.threw => /\ q.hasVal[w] = (a = "val")
                            /\ q.object[w] = [alt |-> a, item |-> src.item]
                            /\ q.object[w] \in Contained
                            /\ q.object[Other(w)] = Read(o, traitOf[a], src, Other(w))
<1> DEFINE same == Make(o, w, a, traitOf[a], src)
           new == ReinitExpected(o, w, a, src)
           p == IF o.hasVal[w] = (a = "val") THEN same ELSE new
           q == Assign(o, w, a, src)
<1>1. Other(w) \in Who /\ Other(w) # w /\ "none" \notin Who
  BY TwoObjects DEF Who
<1>2. q = IF p.threw THEN p ELSE [p EXCEPT !.hasVal[w] = (a = "val")]
  BY DEF Assign, Then
<1>3. /\ p \in Progress /\ p.hasVal = o.hasVal
      /\ p.threw => p.object[w] = o.object[w] /\ p.object[Other(w)] = o.object[Other(w)]
      /\ ~p.threw => /\ p.object[w] = [alt |-> a, item |-> src.item]
                     /\ p.object[w] \in Contained
                     /\ p.object[Other(w)] = Read(o, traitOf[a], src, Other(w))
  <2>1. CASE o.hasVal[w] = (a = "val")
    <3>1. p = same
      BY <2>1
    <3>2. src.of \in Who => src.of = Other(w)
      BY <1>1
    <3>. QED
      BY <3>1, <3>2, MakeIs
  <2>2. CASE ~(o.hasVal[w] = (a = "val"))
    <3>1. p = new
      BY <2>2
    <3>2. o.object[w].alt # a /\ o.object[w].alt \in Alt
      BY <2>2 DEF Contained, Progress
    <3>3. Nothrow(traitOf[a], "move") \/ Nothrow(traitOf[o.object[w].alt], "move")
      BY <3>2 DEF Alt
    <3>. QED
      BY <3>1, <3>3, ReinitIs
  <2>. QED
    BY <2>1, <2>2
<1> HIDE DEF p, q
<1>4. CASE p.threw
  BY <1>2, <1>3, <1>4 DEF q
<1>5. CASE ~p.threw
  <2>1. q = [p EXCEPT !.hasVal[w] = (a = "val")]
    BY <1>2, <1>5
  <2>2. /\ q \in Progress /\ q.object = p.object /\ ~q.threw
        /\ q.hasVal[w] = (a = "val") /\ q.hasVal[Other(w)] = o.hasVal[Other(w)]
    BY <1>1, <1>3, <1>5, <2>1 DEF Progress
  <2>. QED
    BY <1>3, <1>5, <2>2 DEF q
<1>. QED
  BY <1>4, <1>5

LEMMA HereIs ==
  ASSUME IInv, NEW w \in Who
  PROVE  /\ AltOf(w) \in Alt /\ object[w] \in Contained /\ object[w].item \in Item
         /\ object[w].alt = AltOf(w) /\ object[w] = [alt |-> AltOf(w), item |-> object[w].item]
         /\ Items(w) = <<object[w]>>
         /\ \A a \in Alt, x \in Item : One(a, x) \in Seq(Contained)
         /\ After("copy", w) = <<object[w]>>
         /\ After("move", w) = <<[alt |-> AltOf(w), item |-> Kept(traitOf[AltOf(w)], object[w].item)]>>
<1>1. object[w] \in Contained /\ (hasVal[w] <=> object[w].alt = "val") /\ hasVal[w] \in BOOLEAN
  BY DEF IInv, TypeOK, Told
<1>2. /\ object[w].alt \in Alt /\ object[w].item \in Item
      /\ object[w] = [alt |-> object[w].alt, item |-> object[w].item]
  BY <1>1 DEF Contained
<1>3. AltOf(w) = object[w].alt
  BY <1>1, <1>2 DEF AltOf, Alt
<1>4. Items(w) = <<object[w]>>
  BY <1>1 DEF Items, IInv, ExpectedAssumption
<1>5. \A a \in Alt, x \in Item : One(a, x) \in Seq(Contained)
  BY DEF One, Contained
<1>. QED
  BY <1>1, <1>2, <1>3, <1>4, <1>5 DEF After, One

LEMMA StartIs ==
  ASSUME IInv, NEW f \in Nat
  PROVE  /\ Start(f) \in Progress /\ ~Start(f).threw
         /\ Start(f).hasVal = hasVal /\ Start(f).object = object
BY DEF IInv, TypeOK, Start, Progress

LEMMA OneMovesFreely ==
  ASSUME IInv
  PROVE  \E a \in Alt : Nothrow(traitOf[a], "move")
BY DEF IInv, TypeOK

LEMMA ValuesAreItems ==
  ASSUME NEW t, NEW x \in Values(t)
  PROVE  x \in Item
BY DEF Values, Item

LEMMA AssignComes ==
  ASSUME IInv, NEW f \in Nat, NEW w \in Who, NEW a \in Alt, NEW src \in Sources,
         src.of \in {"none", Other(w)}, NEW want,
         want[w] = One(a, src.item),
         want[Other(w)] = <<Read(Start(f), traitOf[a], src, Other(w))>>
  PROVE  Comes(Assign(Start(f), w, a, src), want, Who)
<1> DEFINE o == Start(f)
           v == Other(w)
           q == Assign(o, w, a, src)
           read == Read(o, traitOf[a], src, v)
<1>1. v \in Who /\ v # w /\ \A u \in Who : u = w \/ u = v
  BY TwoObjects
<1>2. /\ o \in Progress /\ ~o.threw /\ o.hasVal = hasVal /\ o.object = object
      /\ object \in [Who -> Contained] /\ \A u \in Who : hasVal[u] <=> object[u].alt = "val"
  BY StartIs DEF IInv, TypeOK, Told
<1>3. \E b \in Alt : Nothrow(traitOf[b], "move")
  BY OneMovesFreely
<1> HIDE DEF o
<1>4. /\ q \in Progress
      /\ q.hasVal[v] = o.hasVal[v]
      /\ q.threw => /\ q.hasVal[w] = o.hasVal[w]
                    /\ q.object[w] = o.object[w] /\ q.object[v] = o.object[v]
      /\ ~q.threw => /\ q.hasVal[w] = (a = "val")
                     /\ q.object[w] = [alt |-> a, item |-> src.item]
                     /\ q.object[w] \in Contained
                     /\ q.object[v] = read
  BY <1>1, <1>2, <1>3, AssignIs
<1>5. read \in Contained /\ read.alt = object[v].alt
  BY <1>1, <1>2, KeptIsItem DEF Read, Contained
<1>6. want[w] \in Seq(Contained) /\ want[v] = <<read>> /\ want[v] \in Seq(Contained)
  <2>1. src.item \in Item
    BY DEF Sources
  <2>2. want[v] = <<read>>
    BY DEF o
  <2>. QED
    BY <1>5, <2>1, <2>2 DEF One, Contained
<1> HIDE DEF q, read, v
<1>7. q.hasVal \in [Who -> BOOLEAN] /\ q.threw \in BOOLEAN /\ DOMAIN q.object = Who
  BY <1>4 DEF Progress
<1>8. \A u \in Who : q.object[u] \in Contained
  BY <1>1, <1>2, <1>4, <1>5
<1>9. q.object \in [Who -> Contained]
  <2>1. q.object \in [Who -> Contained \cup {Raw}]
    BY <1>4 DEF Progress
  <2>. QED
    BY <1>8, <2>1
<1>10. ASSUME NEW u \in Who
       PROVE  /\ q.hasVal[u] <=> q.object[u].alt = "val"
              /\ want[u] \in Seq(Contained)
              /\ IF q.threw THEN q.object[u] = object[u] ELSE want[u] = <<q.object[u]>>
  <2>1. hasVal[u] <=> object[u].alt = "val"
    BY <1>2
  <2>2. want[u] \in Seq(Contained)
    BY <1>1, <1>6
  <2>3. CASE q.threw
    <3>1. q.object[u] = object[u] /\ q.hasVal[u] = hasVal[u]
      BY <1>1, <1>2, <1>4, <2>3
    <3>. QED
      BY <2>1, <2>2, <2>3, <3>1
  <2>4. CASE ~q.threw /\ u = w
    <3>1. q.hasVal[w] = (a = "val") /\ q.object[w] = [alt |-> a, item |-> src.item]
      BY <1>4, <2>4
    <3>2. want[w] = <<q.object[w]>>
      BY <3>1 DEF One
    <3>3. q.object[w].alt = a
      BY <3>1
    <3>4. q.hasVal[w] <=> q.object[w].alt = "val"
      BY <3>1, <3>3, Zenon
    <3>. QED
      BY <2>2, <2>4, <3>2, <3>4
  <2>5. CASE ~q.threw /\ u = v
    <3>1. q.hasVal[u] = hasVal[u] /\ q.object[u] = read
      BY <1>2, <1>4, <2>5
    <3>2. want[u] = <<read>> /\ read.alt = object[u].alt
      BY <1>5, <1>6, <2>5
    <3>. QED
      BY <2>1, <2>2, <2>5, <3>1, <3>2
  <2>. QED
    BY <1>1, <2>3, <2>4, <2>5
<1>11. Comes(q, want, Who)
  BY <1>7, <1>9, <1>10 DEF Comes
<1>. QED
  BY <1>11 DEF q, o

-----------------------------------------------------------------------------
(* The calls. *)

\* The end of a call that keeps its promise.
Promised == \E q, want, strong : Comes(q, want, strong) /\ Ended(q, want, strong)

LEMMA AssignedItemPromised ==
  ASSUME IInv, NEW alts \in SUBSET Alt, AssignedItem(alts)
  PROVE  Promised
<1>1. PICK f \in Fuel, w \in Who, a \in alts, how \in {"args", "copy", "move"} :
        \E x \in Values(traitOf[a]) :
          Ended(Assign(Start(f), w, a, Source(how, x, "none")), Wanted(w, One(a, x)), Who)
  BY DEF AssignedItem
<1>2. PICK x \in Values(traitOf[a]) :
        Ended(Assign(Start(f), w, a, Source(how, x, "none")), Wanted(w, One(a, x)), Who)
  BY <1>1
<1> DEFINE src == Source(how, x, "none")
           want == Wanted(w, One(a, x))
           v == Other(w)
<1>3. f \in Nat /\ a \in Alt
  BY DEF Fuel
<1>4. src \in Sources /\ src.of = "none" /\ src.item = x
  BY ValuesAreItems DEF Source, Sources, Ways
<1>5. v \in Who /\ v # w /\ "none" \notin Who
  BY TwoObjects DEF Who
<1>6. want[w] = One(a, src.item) /\ want[v] = <<object[v]>>
  BY <1>4, <1>5, HereIs DEF Wanted
<1>7. Read(Start(f), traitOf[a], src, v) = object[v]
  BY <1>3, <1>4, <1>5, StartIs DEF Read
<1> HIDE DEF src, want
<1>8. Comes(Assign(Start(f), w, a, src), want, Who)
  BY <1>3, <1>4, <1>6, <1>7, AssignComes
<1>. QED
  BY <1>2, <1>8 DEF src, want, Promised

LEMMA AssignedExpectedPromised ==
  ASSUME IInv, AssignedExpected
  PROVE  Promised
<1>1. PICK f \in Fuel, w \in Who, how \in {"copy", "move"} :
        Ended(Assign(Start(f), w, AltOf(Other(w)), Passed(how, Other(w))),
              [u \in Who |-> IF u = w THEN Items(Other(w)) ELSE After(how, Other(w))], Who)
  BY DEF AssignedExpected
<1> DEFINE v == Other(w)
           src == Passed(how, v)
           a == AltOf(v)
           want == [u \in Who |-> IF u = w THEN Items(v) ELSE After(how, v)]
<1>2. f \in Nat /\ v \in Who /\ v # w
  BY TwoObjects DEF Fuel
<1>3. /\ a \in Alt /\ object[v].item \in Item /\ object[v].alt = a
      /\ object[v] = [alt |-> a, item |-> object[v].item] /\ Items(v) = <<object[v]>>
      /\ After("copy", v) = <<object[v]>>
      /\ After("move", v) = <<[alt |-> a, item |-> Kept(traitOf[a], object[v].item)]>>
  BY <1>2, HereIs
<1>4. src \in Sources /\ src.of = v /\ src.item = object[v].item /\ src.how = how
  BY <1>2, <1>3 DEF Passed, Source, Sources, Ways
<1>5. want[w] = Items(v) /\ want[v] = After(how, v)
  BY <1>2
<1>6. want[w] = One(a, src.item)
  BY <1>3, <1>4, <1>5 DEF One
<1>7. want[v] = <<Read(Start(f), traitOf[a], src, v)>>
  <2>1. Start(f).object = object
    BY <1>2, StartIs
  <2>2. CASE how = "copy"
    BY <1>3, <1>4, <1>5, <2>1, <2>2 DEF Read
  <2>3. CASE how = "move"
    BY <1>3, <1>4, <1>5, <2>1, <2>3 DEF Read
  <2>. QED
    BY <2>2, <2>3
<1> HIDE DEF a, src, want
<1>8. Comes(Assign(Start(f), w, a, src), want, Who)
  BY <1>2, <1>3, <1>4, <1>6, <1>7, AssignComes
<1>. QED
  BY <1>1, <1>8 DEF a, src, want, Promised

\* The construction of a value from arguments does not throw.
LEMMA EmplacedPromised ==
  ASSUME IInv, Emplaced
  PROVE  Promised
<1>1. PICK w \in Who, x \in Values(traitOf.val), how \in {"args", "copy", "move"} :
        /\ Nothrow(traitOf.val, how)
        /\ Ended([Make(Destroy(Start(0), w), w, "val", traitOf.val, Source(how, x, "none"))
                    EXCEPT !.hasVal[w] = TRUE],
                 Wanted(w, One("val", x)), {})
  BY DEF Emplaced
<1> DEFINE src == Source(how, x, "none")
           o == Start(0)
           d == Destroy(o, w)
           p == Make(d, w, "val", traitOf.val, src)
           q == [p EXCEPT !.hasVal[w] = TRUE]
           want == Wanted(w, One("val", x))
           v == Other(w)
<1>0. Ended(q, want, {})
  BY <1>1
<1>2. v \in Who /\ v # w /\ "none" \notin Who /\ \A u \in Who : u = w \/ u = v
  BY TwoObjects DEF Who
<1>3. src \in Sources /\ src.of = "none" /\ src.item = x /\ src.how = how /\ x \in Item
  BY ValuesAreItems DEF Source, Sources, Ways
<1>4. o \in Progress /\ ~o.threw /\ o.hasVal = hasVal /\ o.object = object
  BY StartIs
<1>5. d \in Progress /\ d.hasVal = hasVal /\ ~d.threw /\ d.object[v] = object[v]
  BY <1>4, DestroyIs
<1> HIDE DEF d
<1>6. /\ p \in Progress /\ p.hasVal = hasVal /\ ~p.threw
      /\ p.object[w] = [alt |-> "val", item |-> x] /\ p.object[w] \in Contained
      /\ p.object[v] = Read(d, traitOf.val, src, v)
  BY <1>1, <1>2, <1>3, <1>5, MakeIs DEF Alt
<1>7. p.object[v] = object[v]
  BY <1>2, <1>3, <1>5, <1>6 DEF Read
<1>8. /\ object[v] \in Contained /\ Items(v) = <<object[v]>>
      /\ (hasVal[v] <=> object[v].alt = "val") /\ hasVal \in [Who -> BOOLEAN]
  BY <1>2, HereIs DEF IInv, Told, TypeOK
<1>9. want[w] = One("val", x) /\ want[v] = <<object[v]>>
  BY <1>2, <1>8 DEF Wanted
<1> HIDE DEF p, src, want, v
<1>10. /\ q.hasVal = [hasVal EXCEPT ![w] = TRUE] /\ q.object = p.object /\ q.threw = p.threw
  BY <1>6 DEF Progress
<1> HIDE DEF q
<1>11. /\ q.hasVal \in [Who -> BOOLEAN] /\ ~q.threw /\ q.threw \in BOOLEAN
       /\ q.hasVal[w] = TRUE /\ q.hasVal[v] = hasVal[v]
  BY <1>2, <1>6, <1>8, <1>10 DEF Progress
<1>12. q.object \in [Who -> Contained]
  <2>1. p.object \in [Who -> Contained \cup {Raw}] /\ \A u \in Who : p.object[u] \in Contained
    BY <1>2, <1>6, <1>7, <1>8 DEF Progress
  <2>. QED
    BY <1>10, <2>1
<1>13. /\ q.hasVal[w] <=> q.object[w].alt = "val"
       /\ want[w] \in Seq(Contained) /\ want[w] = <<q.object[w]>>
  <2>1. q.object[w] = [alt |-> "val", item |-> x]
    BY <1>6, <1>10
  <2>2. q.object[w].alt = "val" /\ want[w] = <<q.object[w]>>
    BY <1>9, <2>1 DEF One
  <2>. QED
    BY <1>11, <1>12, <2>2
<1>14. /\ q.hasVal[v] <=> q.object[v].alt = "val"
       /\ want[v] \in Seq(Contained) /\ want[v] = <<q.object[v]>>
  <2>1. q.object[v] = object[v] /\ q.hasVal[v] = hasVal[v]
    BY <1>7, <1>10, <1>11
  <2>2. q.hasVal[v] <=> q.object[v].alt = "val"
    BY <1>8, <2>1
  <2>. QED
    BY <1>8, <1>9, <2>1, <2>2
<1>15. ASSUME NEW u \in Who
       PROVE  /\ q.hasVal[u] <=> q.object[u].alt = "val"
              /\ want[u] \in Seq(Contained) /\ want[u] = <<q.object[u]>>
  BY <1>2, <1>13, <1>14
<1>16. Comes(q, want, {})
  BY <1>11, <1>12, <1>15 DEF Comes
<1>. QED
  BY <1>0, <1>16 DEF Promised

LEMMA EachComes ==
  ASSUME NEW q \in Progress, NEW want, NEW strong,
         \A u \in Who :
           /\ q.object[u] \in Contained
           /\ q.hasVal[u] <=> q.object[u].alt = "val"
           /\ want[u] \in Seq(Contained)
           /\ IF q.threw THEN u \in strong => q.object[u] = object[u] ELSE want[u] = <<q.object[u]>>
  PROVE  Comes(q, want, strong)
<1>1. q.hasVal \in [Who -> BOOLEAN] /\ q.threw \in BOOLEAN /\ q.object \in [Who -> Contained \cup {Raw}]
  BY DEF Progress
<1>2. q.object \in [Who -> Contained]
  BY <1>1
<1>. QED
  BY <1>1, <1>2 DEF Comes

\* Both have a value, or both an error.
LEMMA SwapObjectsComes ==
  ASSUME IInv, NEW f \in Nat, hasVal["this"] = hasVal["other"],
         NEW want, \A u \in Who : want[u] = Items(Other(u)),
         NEW strong, \A u \in strong : Nothrow(traitOf[AltOf("this")], "move")
  PROVE  Comes(SwapObjects(Start(f), AltOf("this"), traitOf[AltOf("this")]), want, strong)
<1> DEFINE o == Start(f)
           a == AltOf("this")
           t == traitOf[a]
           own == o.object["this"].item
           its == o.object["other"].item
           tmp == Source("move", own, "this")
           from == Source("move", its, "other")
           temp == Temporary("move", tmp)
           p == Step(o, t, tmp)
           r == Make(p, "this", a, t, from)
           s == Make(r, "other", a, t, temp)
           q == SwapObjects(o, a, t)
<1>1. q = IF p.threw THEN p ELSE IF r.threw THEN r ELSE s
  BY DEF SwapObjects, Then
<1>2. /\ o \in Progress /\ ~o.threw /\ o.hasVal = hasVal /\ o.object = object
      /\ "this" \in Who /\ "other" \in Who /\ "none" \notin Who
      /\ Other("this") = "other" /\ Other("other") = "this"
      /\ \A u \in Who : u = "this" \/ u = "other"
  BY StartIs, TwoObjects DEF Who
<1>3. /\ a \in Alt /\ AltOf("other") = a
      /\ object["this"] \in Contained /\ object["this"] = [alt |-> a, item |-> own] /\ own \in Item
      /\ object["other"] \in Contained /\ object["other"] = [alt |-> a, item |-> its] /\ its \in Item
      /\ want["this"] = <<object["other"]>> /\ want["other"] = <<object["this"]>>
  <2>1. AltOf("other") = a
    BY DEF AltOf
  <2>. QED
    BY <1>2, <2>1, HereIs
<1>4. /\ tmp \in Sources /\ tmp.how = "move" /\ tmp.of = "this" /\ tmp.item = own
      /\ from \in Sources /\ from.how = "move" /\ from.of = "other" /\ from.item = its
      /\ temp \in Sources /\ temp.how = "move" /\ temp.of = "none" /\ temp.item = own
  BY <1>3 DEF Source, Temporary, Sources, Ways, Who
<1>5. Kept(t, own) \in Item /\ Kept(t, its) \in Item
  BY <1>3, KeptIsItem
<1>6. \A u \in Who : hasVal[u] <=> a = "val"
  BY <1>2, <1>3 DEF AltOf
<1> HIDE DEF o, tmp, from, temp, a, t
<1>7. /\ p \in Progress /\ p.hasVal = hasVal
      /\ p.threw => p.object = object
      /\ ~p.threw => \A v \in Who : p.object[v] = Read(o, t, tmp, v)
      /\ Nothrow(t, "move") => ~p.threw
  BY ZenonT(60), <1>2, <1>3, <1>4, StepIs
<1>8. ~p.threw => p.object["this"] = [alt |-> a, item |-> Kept(t, own)] /\ p.object["other"] = object["other"]
  <2>1. object["this"].alt = a /\ object["this"].item = own
    BY <1>3
  <2>. QED
    BY <1>2, <1>4, <1>7, <2>1 DEF Read
<1> HIDE DEF p
<1>9. ~p.threw => /\ r \in Progress /\ r.hasVal = hasVal
                  /\ r.threw => r.object = p.object
                  /\ ~r.threw => /\ r.object["this"] = object["other"]
                                 /\ r.object["other"] = [alt |-> a, item |-> Kept(t, its)]
                  /\ Nothrow(t, "move") => ~r.threw
  <2>. SUFFICES ASSUME ~p.threw
                PROVE  /\ r \in Progress /\ r.hasVal = hasVal
                       /\ r.threw => r.object = p.object
                       /\ ~r.threw => /\ r.object["this"] = object["other"]
                                      /\ r.object["other"] = [alt |-> a, item |-> Kept(t, its)]
                       /\ Nothrow(t, "move") => ~r.threw
    OBVIOUS
  <2>1. /\ r \in Progress /\ r.hasVal = p.hasVal
        /\ r.threw => r.object = p.object
        /\ ~r.threw => /\ r.object["this"] = [alt |-> a, item |-> from.item]
                       /\ r.object["other"] = Read(p, t, from, "other")
        /\ Nothrow(t, from.how) => ~r.threw
    BY <1>2, <1>3, <1>4, <1>7, <1>8, MakeIs
  <2>2. Read(p, t, from, "other") = [alt |-> a, item |-> Kept(t, its)]
    <3>1. p.object["other"].alt = a /\ p.object["other"].item = its
      BY <1>3, <1>8
    <3>. QED
      BY <1>4, <3>1 DEF Read
  <2> HIDE DEF r
  <2>. QED
    BY <1>3, <1>4, <1>7, <2>1, <2>2
<1> HIDE DEF r
<1>10. ~p.threw /\ ~r.threw => /\ s \in Progress /\ s.hasVal = hasVal
                               /\ s.threw => s.object = r.object
                               /\ ~s.threw => /\ s.object["this"] = object["other"]
                                              /\ s.object["other"] = object["this"]
                               /\ Nothrow(t, "move") => ~s.threw
  <2>. SUFFICES ASSUME ~p.threw, ~r.threw
                PROVE  /\ s \in Progress /\ s.hasVal = hasVal
                       /\ s.threw => s.object = r.object
                       /\ ~s.threw => /\ s.object["this"] = object["other"]
                                      /\ s.object["other"] = object["this"]
                       /\ Nothrow(t, "move") => ~s.threw
    OBVIOUS
  <2>1. /\ s \in Progress /\ s.hasVal = r.hasVal
        /\ s.threw => s.object = r.object
        /\ ~s.threw => /\ s.object["other"] = [alt |-> a, item |-> temp.item]
                       /\ s.object["this"] = Read(r, t, temp, "this")
        /\ Nothrow(t, temp.how) => ~s.threw
    BY <1>2, <1>3, <1>4, <1>9, MakeIs
  <2>2. Read(r, t, temp, "this") = object["other"]
    BY <1>2, <1>4, <1>9 DEF Read
  <2> HIDE DEF s
  <2>. QED
    BY <1>3, <1>4, <1>9, <2>1, <2>2
<1> HIDE DEF s, q
<1>11. q \in Progress /\ q.hasVal = hasVal
  BY <1>1, <1>7, <1>9, <1>10
<1>12. /\ q.object["this"] \in {object["this"], object["other"], [alt |-> a, item |-> Kept(t, own)]}
       /\ q.object["other"] \in {object["this"], object["other"], [alt |-> a, item |-> Kept(t, its)]}
       /\ Nothrow(t, "move") => ~q.threw
       /\ ~q.threw => q.object["this"] = object["other"] /\ q.object["other"] = object["this"]
  BY <1>1, <1>7, <1>8, <1>9, <1>10
<1>13. \A u \in Who : q.object[u] \in Contained /\ q.object[u].alt = a
  <2>1. \A x \in Item : [alt |-> a, item |-> x] \in Contained /\ [alt |-> a, item |-> x].alt = a
    BY <1>3 DEF Contained
  <2>. QED
    BY <1>2, <1>3, <1>5, <1>12, <2>1
<1>14. ASSUME NEW u \in Who
       PROVE  /\ q.object[u] \in Contained
              /\ q.hasVal[u] <=> q.object[u].alt = "val"
              /\ want[u] \in Seq(Contained)
              /\ IF q.threw THEN u \in strong => q.object[u] = object[u] ELSE want[u] = <<q.object[u]>>
  <2>1. q.hasVal[u] <=> q.object[u].alt = "val"
    BY <1>6, <1>11, <1>13
  <2>2. want[u] \in Seq(Contained) /\ (~q.threw => want[u] = <<q.object[u]>>)
    <3>1. want[u] = <<object[Other(u)]>> /\ object[Other(u)] \in Contained
      BY TwoObjects, HereIs
    <3>2. ~q.threw => q.object[u] = object[Other(u)]
      BY <1>2, <1>12
    <3>. QED
      BY <3>1, <3>2
  <2>3. q.threw => u \notin strong
    BY <1>12 DEF t, a
  <2>. QED
    BY <1>13, <2>1, <2>2, <2>3
<1>15. Comes(q, want, strong)
  BY <1>11, <1>14, EachComes
<1>. QED
  BY <1>15 DEF q, o, t, a

\* One has a value and the other an error.  What is kept aside comes back.
LEMMA ExchangeComes ==
  ASSUME IInv, NEW f \in Nat, NEW a \in Who, NEW b \in Who, a # b,
         hasVal[a] # hasVal[b], Nothrow(traitOf[AltOf(a)], "move"),
         NEW want, \A u \in Who : want[u] = Items(Other(u)),
         NEW strong
  PROVE  Comes(Exchange(Start(f), a, b), want, strong)
<1> DEFINE o == Start(f)
           s == traitOf[AltOf(a)]
           t == traitOf[AltOf(b)]
           tmp == Passed("move", a)
           from == Passed("move", b)
           temp == Temporary("move", tmp)
           p == Step(o, s, tmp)
           bare == Destroy(p, a)
           its == Make(bare, a, AltOf(b), t, from)
           back == Make(bare, a, AltOf(a), s, temp)
           d == Destroy(its, b)
           made == Make(d, b, AltOf(a), s, temp)
           q == Exchange(o, a, b)
<1>1. q = IF its.threw THEN [back EXCEPT !.threw = TRUE]
          ELSE [made EXCEPT !.hasVal = [w \in Who |-> ~hasVal[w]]]
  BY DEF Exchange, Throw
<1>2. /\ o \in Progress /\ ~o.threw /\ o.hasVal = hasVal /\ o.object = object
      /\ "none" \notin Who /\ Other(a) = b /\ Other(b) = a /\ \A u \in Who : u = a \/ u = b
  BY StartIs, TwoObjects DEF Who
<1>3. /\ AltOf(a) \in Alt /\ AltOf(b) \in Alt
      /\ object[a] \in Contained /\ object[b] \in Contained
      /\ object[a] = [alt |-> AltOf(a), item |-> object[a].item] /\ object[a].item \in Item
      /\ object[b] = [alt |-> AltOf(b), item |-> object[b].item] /\ object[b].item \in Item
  BY HereIs
<1>4. /\ tmp \in Sources /\ tmp.how = "move" /\ tmp.of = a /\ tmp.item = object[a].item
      /\ from \in Sources /\ from.how = "move" /\ from.of = b /\ from.item = object[b].item
      /\ temp \in Sources /\ temp.how = "move" /\ temp.of = "none" /\ temp.item = object[a].item
  BY <1>3 DEF Passed, Source, Temporary, Sources, Ways
<1>5. hasVal \in [Who -> BOOLEAN] /\ \A u \in Who : hasVal[u] <=> object[u].alt = "val"
  BY DEF IInv, TypeOK, Told
<1> HIDE DEF o, tmp, from, temp, s, t
<1>6. p \in Progress /\ p.hasVal = hasVal /\ ~p.threw /\ p.object[b] = object[b]
  <2>1. /\ p \in Progress /\ p.hasVal = hasVal /\ ~p.threw
        /\ \A v \in Who : p.object[v] = Read(o, s, tmp, v)
    BY <1>2, <1>3, <1>4, StepIs DEF s
  <2>2. Read(o, s, tmp, b) = object[b]
    BY <1>2, <1>4 DEF Read
  <2>. QED
    BY <2>1, <2>2
<1> HIDE DEF p
<1>7. bare \in Progress /\ bare.hasVal = hasVal /\ ~bare.threw /\ bare.object[b] = object[b]
  BY <1>2, <1>6, DestroyIs
<1> HIDE DEF bare
<1>8. /\ its \in Progress /\ its.hasVal = hasVal
      /\ its.threw => its.object = bare.object
      /\ ~its.threw => its.object[a] = object[b]
  BY <1>2, <1>3, <1>4, <1>7, MakeIs
<1>9. /\ back \in Progress /\ back.hasVal = hasVal /\ ~back.threw
      /\ back.object[a] = object[a] /\ back.object[b] = object[b]
  <2>1. /\ back \in Progress /\ back.hasVal = hasVal /\ ~back.threw
        /\ back.object[a] = [alt |-> AltOf(a), item |-> temp.item]
        /\ back.object[b] = Read(bare, s, temp, b)
    BY <1>2, <1>3, <1>4, <1>7, MakeIs DEF s
  <2>2. Read(bare, s, temp, b) = object[b]
    BY <1>2, <1>4, <1>7 DEF Read
  <2>. QED
    BY <1>3, <1>4, <2>1, <2>2
<1> HIDE DEF its, back
<1>10. CASE its.threw
  <2>1. q = [back EXCEPT !.threw = TRUE]
    BY <1>1, <1>10
  <2>2. /\ q \in Progress /\ q.hasVal = hasVal /\ q.threw
        /\ q.object[a] = object[a] /\ q.object[b] = object[b]
    BY <1>9, <2>1 DEF Progress
  <2> HIDE DEF q
  <2>3. ASSUME NEW u \in Who
        PROVE  /\ q.object[u] \in Contained
               /\ q.hasVal[u] <=> q.object[u].alt = "val"
               /\ want[u] \in Seq(Contained)
               /\ IF q.threw THEN u \in strong => q.object[u] = object[u] ELSE want[u] = <<q.object[u]>>
    <3>1. q.object[u] = object[u] /\ object[u] \in Contained
      BY <1>2, <1>3, <2>2
    <3>2. want[u] \in Seq(Contained)
      <4>1. want[u] = <<object[Other(u)]>> /\ object[Other(u)] \in Contained
        BY TwoObjects, HereIs
      <4>. QED
        BY <4>1
    <3>3. q.hasVal[u] = hasVal[u] /\ (hasVal[u] <=> object[u].alt = "val")
      BY <1>5, <2>2
    <3>4. q.hasVal[u] <=> q.object[u].alt = "val"
      BY <3>1, <3>3
    <3>. QED
      BY <2>2, <3>1, <3>2, <3>4
  <2>4. Comes(q, want, strong)
    BY <2>2, <2>3, EachComes
  <2>. QED
    BY <2>4 DEF q, o
<1>11. CASE ~its.threw
  <2>1. d \in Progress /\ d.hasVal = hasVal /\ ~d.threw /\ d.object[a] = object[b]
    BY <1>2, <1>8, <1>11, DestroyIs
  <2> HIDE DEF d
  <2>2. made \in Progress /\ ~made.threw /\ made.object[b] = object[a] /\ made.object[a] = object[b]
    <3>1. /\ made \in Progress /\ ~made.threw
          /\ made.object[b] = [alt |-> AltOf(a), item |-> temp.item]
          /\ made.object[a] = Read(d, s, temp, a)
      BY <1>2, <1>3, <1>4, <2>1, MakeIs DEF s
    <3>2. Read(d, s, temp, a) = object[b]
      BY <1>2, <1>4, <2>1 DEF Read
    <3>. QED
      BY <1>3, <1>4, <3>1, <3>2
  <2> HIDE DEF made
  <2>3. q = [made EXCEPT !.hasVal = [w \in Who |-> ~hasVal[w]]]
    BY <1>1, <1>11
  <2>4. /\ q \in Progress /\ q.hasVal = [w \in Who |-> ~hasVal[w]] /\ ~q.threw
        /\ q.object[b] = object[a] /\ q.object[a] = object[b]
    BY <2>2, <2>3 DEF Progress
  <2> HIDE DEF q
  <2>5. ASSUME NEW u \in Who
        PROVE  /\ q.object[u] \in Contained
               /\ q.hasVal[u] <=> q.object[u].alt = "val"
               /\ want[u] \in Seq(Contained)
               /\ IF q.threw THEN u \in strong => q.object[u] = object[u] ELSE want[u] = <<q.object[u]>>
    <3>1. q.object[u] = object[Other(u)] /\ Other(u) \in Who
      BY <1>2, <2>4
    <3>2. (q.hasVal[u] <=> ~hasVal[u]) /\ (hasVal[u] <=> ~hasVal[Other(u)])
      <4>1. q.hasVal[u] = ~hasVal[u]
        BY <2>4
      <4>2. hasVal[a] <=> ~hasVal[b]
        BY <1>5
      <4>3. hasVal[u] <=> ~hasVal[Other(u)]
        BY <1>2, <4>2
      <4>. QED
        BY <4>1, <4>3
    <3>3. hasVal[Other(u)] <=> object[Other(u)].alt = "val"
      BY <1>5, <3>1
    <3>4. q.hasVal[u] <=> q.object[u].alt = "val"
      BY <3>1, <3>2, <3>3
    <3>5. want[u] = <<object[Other(u)]>> /\ object[Other(u)] \in Contained
      BY <3>1, HereIs
    <3>. QED
      BY <2>4, <3>1, <3>4, <3>5
  <2>6. Comes(q, want, strong)
    BY <2>4, <2>5, EachComes
  <2>. QED
    BY <2>6 DEF q, o
<1>. QED
  BY <1>10, <1>11

LEMMA SwappedPromised ==
  ASSUME IInv, Swapped
  PROVE  Promised
<1> DEFINE want == [w \in Who |-> Items(Other(w))]
           strong == {w \in Who : hasVal["this"] # hasVal["other"] \/ Nothrow(traitOf[AltOf(w)], "move")}
<1>1. PICK f \in Fuel : Ended(SwapBoth(Start(f)), want, strong)
  BY DEF Swapped
<1>2. f \in Nat /\ "this" \in Who /\ "other" \in Who
  BY DEF Fuel, Who
<1>3. \A u \in Who : want[u] = Items(Other(u))
  OBVIOUS
<1>4. hasVal \in [Who -> BOOLEAN]
  BY DEF IInv, TypeOK
<1>5. CASE hasVal["this"] = hasVal["other"]
  <2>1. SwapBoth(Start(f)) = SwapObjects(Start(f), AltOf("this"), traitOf[AltOf("this")])
    BY <1>5 DEF SwapBoth
  <2>2. \A u \in strong : Nothrow(traitOf[AltOf("this")], "move")
    <3>1. AltOf("this") = AltOf("other")
      BY <1>5 DEF AltOf
    <3>. QED
      BY <1>5, <3>1, TwoObjects
  <2> HIDE DEF want, strong
  <2>3. Comes(SwapBoth(Start(f)), want, strong)
    BY <1>2, <1>3, <1>5, <2>1, <2>2, SwapObjectsComes
  <2>. QED
    BY <1>1, <2>3 DEF Promised
<1>6. CASE hasVal["this"] # hasVal["other"]
  <2> DEFINE value == CHOOSE w \in Who : hasVal[w]
             error == Other(value)
  <2>1. value \in Who /\ hasVal[value]
    BY <1>2, <1>4, <1>6
  <2>2. error \in Who /\ error # value /\ ~hasVal[error] /\ Other(error) = value
    BY <1>4, <1>6, <2>1, TwoObjects
  <2>3. AltOf(value) = "val" /\ AltOf(error) = "unex"
    BY <2>1, <2>2 DEF AltOf
  <2> HIDE DEF want, strong
  <2>4. CASE Nothrow(traitOf.unex, "move")
    <3>1. SwapBoth(Start(f)) = Exchange(Start(f), error, value)
      BY <1>6, <2>4 DEF SwapBoth
    <3> HIDE DEF value, error
    <3>2. Comes(SwapBoth(Start(f)), want, strong)
      BY <1>2, <1>3, <2>1, <2>2, <2>3, <2>4, <3>1, ExchangeComes
    <3>. QED
      BY <1>1, <3>2 DEF Promised
  <2>5. CASE ~Nothrow(traitOf.unex, "move")
    <3>1. SwapBoth(Start(f)) = Exchange(Start(f), value, error)
      BY <1>6, <2>5 DEF SwapBoth
    <3> HIDE DEF value, error
    <3>2. Nothrow(traitOf.val, "move")
      BY <2>5, OneMovesFreely DEF Alt
    <3>3. Comes(SwapBoth(Start(f)), want, strong)
      BY <1>2, <1>3, <2>1, <2>2, <2>3, <3>1, <3>2, ExchangeComes
    <3>. QED
      BY <1>1, <3>3 DEF Promised
  <2>. QED
    BY <2>4, <2>5
<1>. QED
  BY <1>5, <1>6

\* A constructor that throws leaves nothing, and is no call of an object.
LEMMA CreatedPromised ==
  ASSUME IInv, Created
  PROVE  Promised
<1>1. PICK f \in Fuel, w \in Who, a \in Alt, how \in {"args", "copy", "move"} :
        \E x \in Values(traitOf[a]) :
          LET v == Other(w)
              as == IF how = "args" THEN a ELSE AltOf(v)
              src == IF how = "args" THEN Argument(x) ELSE Passed(how, v)
              new == Make(Destroy(Start(f), w), w, as, traitOf[as], src)
          IN  /\ ~new.threw
              /\ Ended([new EXCEPT !.hasVal[w] = (as = "val")],
                       [u \in Who |-> CASE u = w -> One(as, src.item)
                                        [] u # w /\ how = "args" -> Items(v)
                                        [] OTHER -> After(how, v)], {})
  BY DEF Created
<1> DEFINE v == Other(w)
           as == IF how = "args" THEN a ELSE AltOf(v)
           Src(x) == IF how = "args" THEN Argument(x) ELSE Passed(how, v)
           o == Start(f)
           d == Destroy(o, w)
           New(x) == Make(d, w, as, traitOf[as], Src(x))
           Want(x) == [u \in Who |-> CASE u = w -> One(as, Src(x).item)
                                       [] u # w /\ how = "args" -> Items(v)
                                       [] OTHER -> After(how, v)]
<1>2. PICK x \in Values(traitOf[a]) :
        ~New(x).threw /\ Ended([New(x) EXCEPT !.hasVal[w] = (as = "val")], Want(x), {})
  BY <1>1
<1> DEFINE src == Src(x)
           new == New(x)
           want == Want(x)
           q == [new EXCEPT !.hasVal[w] = (as = "val")]
<1>3. ~new.threw /\ Ended(q, want, {})
  BY <1>2
<1>4. /\ v \in Who /\ v # w /\ Other(w) = v /\ "none" \notin Who /\ \A u \in Who : u = w \/ u = v
      /\ f \in Nat /\ x \in Item
  BY TwoObjects, ValuesAreItems DEF Who, Fuel
<1>5. /\ AltOf(v) \in Alt /\ object[v] \in Contained /\ object[v].item \in Item
      /\ object[v].alt = AltOf(v) /\ Items(v) = <<object[v]>>
      /\ After("copy", v) = <<object[v]>>
      /\ After("move", v) = <<[alt |-> AltOf(v), item |-> Kept(traitOf[AltOf(v)], object[v].item)]>>
  BY <1>4, HereIs
<1>6. as \in Alt
  BY <1>5
<1>7. /\ src \in Sources
      /\ how = "args" => src.how = "args" /\ src.of = "none"
      /\ how # "args" => src.how = how /\ src.of = v /\ as = AltOf(v)
  BY <1>4, <1>5 DEF Argument, Passed, Source, Sources, Ways
<1>8. want[w] = One(as, src.item) /\ want[v] = IF how = "args" THEN Items(v) ELSE After(how, v)
  BY <1>4
<1>9. o \in Progress /\ ~o.threw /\ o.hasVal = hasVal /\ o.object = object
  BY <1>4, StartIs
<1> HIDE DEF o, want, src, v
<1>10. d \in Progress /\ d.hasVal = hasVal /\ ~d.threw /\ d.object[v] = object[v]
  BY <1>4, <1>9, DestroyIs
<1>11. new = Make(d, w, as, traitOf[as], src)
  BY DEF src
<1> HIDE DEF d, new, as
<1>12. /\ new \in Progress /\ new.hasVal = hasVal
       /\ new.object[w] = [alt |-> as, item |-> src.item] /\ new.object[w] \in Contained
       /\ new.object[v] = Read(d, traitOf[as], src, v)
  <2>1. src.how = "move" /\ src.of \in Who => d.object[src.of] \in Contained
    BY <1>4, <1>5, <1>7, <1>10
  <2> DEFINE t == traitOf[as]
             made == Make(d, w, as, t, src)
  <2> HIDE DEF t
  <2>2. /\ made \in Progress /\ made.hasVal = d.hasVal
        /\ ~made.threw => /\ made.object[w] = [alt |-> as, item |-> src.item]
                          /\ made.object[w] \in Contained
                          /\ made.object[Other(w)] = Read(d, t, src, Other(w))
    <3>1. as \in Alt /\ src \in Sources /\ d \in Progress /\ ~d.threw
      BY <1>6, <1>7, <1>10
    <3>2. /\ made \in Progress /\ made.hasVal = d.hasVal
          /\ made.threw => made.object = d.object
          /\ ~made.threw => /\ made.object[w] = [alt |-> as, item |-> src.item]
                            /\ made.object[w] \in Contained
                            /\ made.object[Other(w)] = Read(d, t, src, Other(w))
          /\ Nothrow(t, src.how) => ~made.threw
      BY <2>1, <3>1, MakeIs, Zenon
    <3>. QED
      BY <3>2
  <2>3. new = made
    BY <1>11 DEF t
  <2> HIDE DEF made
  <2>4. Read(d, t, src, v) = Read(d, traitOf[as], src, v)
    BY DEF t
  <2>. QED
    BY <1>3, <1>4, <1>10, <2>2, <2>3, <2>4
<1>13. /\ new.object[v] \in Contained /\ new.object[v].alt = object[v].alt
       /\ want[v] = <<new.object[v]>>
  <2>1. CASE how = "args"
    BY <1>4, <1>5, <1>7, <1>8, <1>10, <1>12, <2>1 DEF Read
  <2>2. CASE how = "copy"
    BY <1>4, <1>5, <1>7, <1>8, <1>10, <1>12, <2>2 DEF Read
  <2>3. CASE how = "move"
    <3>1. new.object[v] = [alt |-> AltOf(v), item |-> Kept(traitOf[AltOf(v)], object[v].item)]
      BY <1>5, <1>7, <1>10, <1>12, <2>3 DEF Read
    <3>2. [alt |-> AltOf(v), item |-> Kept(traitOf[AltOf(v)], object[v].item)] \in Contained
      BY <1>5, KeptIsItem DEF Contained
    <3>3. new.object[v].alt = AltOf(v)
      BY <3>1
    <3>. QED
      BY <1>5, <1>8, <2>3, <3>1, <3>2, <3>3
  <2>. QED
    BY <2>1, <2>2, <2>3
<1>14. /\ q \in Progress /\ ~q.threw /\ q.object = new.object
       /\ q.hasVal[w] = (as = "val") /\ q.hasVal[v] = hasVal[v]
  BY <1>3, <1>4, <1>12 DEF Progress
<1> HIDE DEF q
<1>15. ASSUME NEW u \in Who
       PROVE  /\ q.object[u] \in Contained
              /\ q.hasVal[u] <=> q.object[u].alt = "val"
              /\ want[u] \in Seq(Contained) /\ want[u] = <<q.object[u]>>
  <2>1. CASE u = w
    <3>1. q.object[w].alt = as
      <4>1. q.object[w] = [alt |-> as, item |-> src.item]
        BY <1>12, <1>14
      <4>. QED
        BY <4>1
    <3>2. q.hasVal[w] <=> q.object[w].alt = "val"
      BY <1>14, <3>1, Zenon
    <3>3. want[w] = <<q.object[w]>>
      BY <1>8, <1>12, <1>14 DEF One
    <3>4. q.object[w] \in Contained
      BY <1>12, <1>14
    <3>. QED
      BY <2>1, <3>2, <3>3, <3>4
  <2>2. CASE u = v
    <3>1. hasVal[v] <=> object[v].alt = "val"
      BY <1>4 DEF IInv, Told
    <3>2. q.hasVal[v] <=> q.object[v].alt = "val"
      BY <1>13, <1>14, <3>1
    <3>3. q.object[v] \in Contained /\ want[v] = <<q.object[v]>>
      BY <1>13, <1>14
    <3>. QED
      BY <2>2, <3>2, <3>3
  <2>. QED
    BY <1>4, <2>1, <2>2
<1>16. Comes(q, want, {})
  BY <1>14, <1>15, EachComes
<1>. QED
  BY <1>3, <1>16 DEF Promised

\* What f made of one is assigned to the other.
LEMMA ChainedPromised ==
  ASSUME IInv, NEW ops, Chained(ops)
  PROVE  Promised
<1>1. PICK f \in Fuel, w \in Who, how \in {"copy", "move"}, op \in ops, takes \in BOOLEAN :
        \E alt \in (IF Calls(op, w) THEN Results(op) ELSE {AltOf(w)}) :
        \E x \in (IF Calls(op, w) THEN Values(traitOf[alt]) ELSE {object[w].item}) :
          LET o == Start(f)
              v == Other(w)
              moved == how = "move" /\ (Calls(op, w) => takes)
              taken == [o EXCEPT !.object[w].item = IF moved THEN Kept(traitOf[AltOf(w)], @) ELSE @]
              got == IF Calls(op, w) THEN Step(taken, traitOf[alt], Argument(x))
                     ELSE Step(o, traitOf[alt], Passed(how, w))
          IN  Ended(Then(got, LAMBDA q : Assign(q, v, alt, Source("move", x, "none"))),
                    [u \in Who |-> IF u = v THEN One(alt, x)
                                   ELSE IF moved THEN After("move", w) ELSE Items(w)],
                    IF moved THEN {v} ELSE Who)
  BY DEF Chained
<1>2. PICK a \in (IF Calls(op, w) THEN Results(op) ELSE {AltOf(w)}) :
        \E x \in (IF Calls(op, w) THEN Values(traitOf[a]) ELSE {object[w].item}) :
          LET o == Start(f)
              v == Other(w)
              moved == how = "move" /\ (Calls(op, w) => takes)
              taken == [o EXCEPT !.object[w].item = IF moved THEN Kept(traitOf[AltOf(w)], @) ELSE @]
              got == IF Calls(op, w) THEN Step(taken, traitOf[a], Argument(x))
                     ELSE Step(o, traitOf[a], Passed(how, w))
          IN  Ended(Then(got, LAMBDA q : Assign(q, v, a, Source("move", x, "none"))),
                    [u \in Who |-> IF u = v THEN One(a, x)
                                   ELSE IF moved THEN After("move", w) ELSE Items(w)],
                    IF moved THEN {v} ELSE Who)
  BY <1>1
<1> DEFINE o == Start(f)
           v == Other(w)
           moved == how = "move" /\ (Calls(op, w) => takes)
           taken == [o EXCEPT !.object[w].item = IF moved THEN Kept(traitOf[AltOf(w)], @) ELSE @]
           Got(x) == IF Calls(op, w) THEN Step(taken, traitOf[a], Argument(x))
                     ELSE Step(o, traitOf[a], Passed(how, w))
           After1(x) == IF Got(x).threw THEN Got(x) ELSE Assign(Got(x), v, a, Source("move", x, "none"))
           Want(x) == [u \in Who |-> IF u = v THEN One(a, x)
                                     ELSE IF moved THEN After("move", w) ELSE Items(w)]
           strong == IF moved THEN {v} ELSE Who
<1>3. PICK x \in (IF Calls(op, w) THEN Values(traitOf[a]) ELSE {object[w].item}) :
        Ended(After1(x), Want(x), strong)
  BY <1>2 DEF Then
<1> DEFINE got == Got(x)
           from == Source("move", x, "none")
           p == Assign(got, v, a, from)
           q == After1(x)
           want == Want(x)
           kept == [alt |-> AltOf(w), item |-> Kept(traitOf[AltOf(w)], object[w].item)]
<1>4. Ended(q, want, strong) /\ q = IF got.threw THEN got ELSE p
  BY <1>3
<1>5. /\ v \in Who /\ v # w /\ Other(v) = w /\ "none" \notin Who /\ f \in Nat
      /\ \A u \in Who : u = v \/ u = w
  BY TwoObjects DEF Who, Fuel
<1>6. /\ AltOf(w) \in Alt /\ object[w] \in Contained /\ object[w].item \in Item
      /\ object[w].alt = AltOf(w) /\ object[w] = [alt |-> AltOf(w), item |-> object[w].item]
      /\ Items(w) = <<object[w]>> /\ After("move", w) = <<kept>> /\ object[v] \in Contained
  BY <1>5, HereIs
<1>7. kept \in Contained /\ kept.alt = object[w].alt
  BY <1>6, KeptIsItem DEF Contained
<1>8. x \in Item /\ a \in Alt /\ One(a, x) \in Seq(Contained)
  BY <1>6, ValuesAreItems, HereIs DEF Results, Alt
<1>9. /\ o \in Progress /\ ~o.threw /\ o.hasVal = hasVal /\ o.object = object
      /\ object \in [Who -> Contained] /\ \A u \in Who : hasVal[u] <=> object[u].alt = "val"
  BY <1>5, StartIs DEF IInv, TypeOK, Told
<1>10. want[v] = One(a, x) /\ want[w] = IF moved THEN <<kept>> ELSE <<object[w]>>
  BY <1>5, <1>6
<1>11. w \in strong => ~moved
  BY <1>5
<1>12. from \in Sources /\ from.how = "move" /\ from.of = "none" /\ from.item = x
  BY <1>8 DEF Source, Sources, Ways
<1> HIDE DEF o, v, kept, want, strong, from
<1>13. /\ got \in Progress /\ got.hasVal = hasVal /\ got.object[v] = object[v]
       /\ got.object[w] \in {object[w], kept}
       /\ ~moved => got.object[w] = object[w]
       /\ ~got.threw => got.object[w] = IF moved THEN kept ELSE object[w]
  <2>1. CASE Calls(op, w)
    <3> DEFINE src == Argument(x)
    <3>1. got = Step(taken, traitOf[a], src)
      BY <2>1
    <3>2. src \in Sources /\ src.how = "args"
      BY <1>8 DEF Argument, Source, Sources, Ways
    <3>3. /\ taken \in Progress /\ ~taken.threw /\ taken.hasVal = hasVal /\ taken.object[v] = object[v]
          /\ taken.object[w] = IF moved THEN kept ELSE object[w]
      <4> DEFINE item == IF moved THEN Kept(traitOf[AltOf(w)], object[w].item) ELSE object[w].item
                 now == [alt |-> object[w].alt, item |-> item]
      <4>1. taken = [o EXCEPT !.object = [object EXCEPT ![w] = [object[w] EXCEPT !.item = item]]]
        BY <1>5, <1>9
      <4>2. [object[w] EXCEPT !.item = item] = now
        BY <1>6 DEF Contained
      <4>3. now = IF moved THEN kept ELSE object[w]
        BY <1>6 DEF kept
      <4> HIDE DEF now, item
      <4>4. taken = [o EXCEPT !.object = [object EXCEPT ![w] = now]]
        BY <4>1, <4>2
      <4>5. now \in Contained
        BY <1>6, <1>7, <4>3
      <4> HIDE DEF taken
      <4>6. taken \in Progress /\ ~taken.threw /\ taken.hasVal = hasVal /\ taken.object = [object EXCEPT ![w] = now]
        BY <1>9, <4>4, <4>5 DEF Progress
      <4>. QED
        BY <1>5, <1>9, <4>3, <4>6
    <3> HIDE DEF taken, src, moved
    <3>4. /\ got \in Progress /\ got.hasVal = taken.hasVal
          /\ got.threw => got.object = taken.object
          /\ ~got.threw => \A u \in Who : got.object[u] = Read(taken, traitOf[a], src, u)
      BY <3>1, <3>2, <3>3, StepIs
    <3>5. \A u \in Who : Read(taken, traitOf[a], src, u) = taken.object[u]
      BY <3>2 DEF Read
    <3> HIDE DEF got
    <3>6. got.object[w] = taken.object[w] /\ got.object[v] = taken.object[v]
      BY <1>5, <3>4, <3>5
    <3>. QED
      BY <3>3, <3>4, <3>6
  <2>2. CASE ~Calls(op, w)
    <3> DEFINE src == Passed(how, w)
    <3>1. got = Step(o, traitOf[a], src) /\ a = AltOf(w) /\ (moved <=> how = "move")
      BY <2>2
    <3>2. src \in Sources /\ src.how = how /\ src.of = w
      BY <1>6 DEF Passed, Source, Sources, Ways
    <3> HIDE DEF src, moved
    <3>3. /\ got \in Progress /\ got.hasVal = o.hasVal
          /\ got.threw => got.object = o.object
          /\ ~got.threw => \A u \in Who : got.object[u] = Read(o, traitOf[a], src, u)
      BY <1>6, <1>9, <3>1, <3>2, StepIs
    <3>4. Read(o, traitOf[a], src, v) = object[v]
      BY <1>5, <1>9, <3>2 DEF Read
    <3>5. Read(o, traitOf[a], src, w) = IF moved THEN kept ELSE object[w]
      BY <1>6, <1>9, <3>1, <3>2 DEF Read, kept
    <3> HIDE DEF got
    <3>. QED
      BY <1>5, <1>9, <3>3, <3>4, <3>5
  <2>. QED
    BY <2>1, <2>2
<1> HIDE DEF got, moved
<1>14. got.object[w] \in Contained /\ got.object[w].alt = object[w].alt
  BY <1>6, <1>7, <1>13
<1>15. want[v] \in Seq(Contained) /\ want[w] \in Seq(Contained)
  BY <1>6, <1>7, <1>8, <1>10
<1>16. CASE got.threw
  <2>1. q = got
    BY <1>4, <1>16
  <2>2. ASSUME NEW u \in Who
        PROVE  /\ got.object[u] \in Contained
               /\ got.hasVal[u] <=> got.object[u].alt = "val"
               /\ want[u] \in Seq(Contained)
               /\ u \in strong => got.object[u] = object[u]
    <3>1. got.object[u] \in Contained /\ got.object[u].alt = object[u].alt
      BY <1>5, <1>6, <1>13, <1>14
    <3>2. got.hasVal[u] <=> got.object[u].alt = "val"
      BY <1>9, <1>13, <3>1
    <3>3. want[u] \in Seq(Contained)
      BY <1>5, <1>15
    <3>4. u \in strong => got.object[u] = object[u]
      BY <1>5, <1>11, <1>13
    <3>. QED
      BY <3>1, <3>2, <3>3, <3>4
  <2>3. Comes(got, want, strong)
    BY <1>13, <1>16, <2>2, EachComes
  <2>. QED
    BY <1>4, <2>1, <2>3 DEF Promised
<1>17. CASE ~got.threw
  <2>1. q = p
    BY <1>4, <1>17
  <2>2. got.hasVal[v] <=> got.object[v].alt = "val"
    BY <1>5, <1>9, <1>13
  <2>3. \E b \in Alt : Nothrow(traitOf[b], "move")
    BY OneMovesFreely
  <2>4. /\ p \in Progress
        /\ p.hasVal[w] = got.hasVal[w]
        /\ p.threw => /\ p.hasVal[v] = got.hasVal[v]
                      /\ p.object[v] = got.object[v] /\ p.object[w] = got.object[w]
        /\ ~p.threw => /\ p.hasVal[v] = (a = "val")
                       /\ p.object[v] = [alt |-> a, item |-> x]
                       /\ p.object[v] \in Contained
                       /\ p.object[w] = Read(got, traitOf[a], from, w)
    BY <1>5, <1>6, <1>8, <1>12, <1>13, <1>14, <1>17, <2>2, <2>3, AssignIs
  <2>5. Read(got, traitOf[a], from, w) = got.object[w]
    BY <1>5, <1>12 DEF Read
  <2> HIDE DEF p, q
  <2>6. /\ p.object[v] \in Contained /\ p.object[w] \in Contained
        /\ p.hasVal[v] <=> p.object[v].alt = "val"
        /\ p.hasVal[w] <=> p.object[w].alt = "val"
    <3>1. p.hasVal[w] <=> p.object[w].alt = "val"
      <4>1. p.object[w] = got.object[w] /\ p.hasVal[w] = hasVal[w]
        BY <1>13, <2>4, <2>5
      <4>. QED
        BY <1>9, <1>14, <4>1
    <3>2. CASE p.threw
      BY <1>6, <1>13, <1>14, <2>2, <2>4, <2>5, <3>1, <3>2
    <3>3. CASE ~p.threw
      <4>1. p.object[v].alt = a /\ p.hasVal[v] = (a = "val")
        BY <2>4, <3>3
      <4>2. p.hasVal[v] <=> p.object[v].alt = "val"
        BY <4>1, Zenon
      <4>. QED
        BY <1>14, <2>4, <2>5, <3>1, <3>3, <4>2
    <3>. QED
      BY <3>2, <3>3
  <2>7. p.threw => p.object[v] = object[v] /\ (w \in strong => p.object[w] = object[w])
    BY <1>11, <1>13, <2>4
  <2>8. ~p.threw => want[v] = <<p.object[v]>> /\ want[w] = <<p.object[w]>>
    <3>1. ~p.threw => want[v] = <<p.object[v]>>
      BY <1>10, <2>4 DEF One
    <3>2. ~p.threw => p.object[w] = IF moved THEN kept ELSE object[w]
      BY <1>13, <1>17, <2>4, <2>5
    <3>. QED
      BY <1>10, <3>1, <3>2
  <2>9. ASSUME NEW u \in Who
        PROVE  /\ p.object[u] \in Contained
               /\ p.hasVal[u] <=> p.object[u].alt = "val"
               /\ want[u] \in Seq(Contained)
               /\ IF p.threw THEN u \in strong => p.object[u] = object[u] ELSE want[u] = <<p.object[u]>>
    <3>1. CASE u = v
      BY <1>15, <2>6, <2>7, <2>8, <3>1
    <3>2. CASE u = w
      BY <1>15, <2>6, <2>7, <2>8, <3>2
    <3>. QED
      BY <1>5, <3>1, <3>2
  <2>10. Comes(p, want, strong)
    BY <2>4, <2>9, EachComes
  <2>. QED
    BY <1>4, <2>1, <2>10 DEF Promised
<1>. QED
  BY <1>16, <1>17

LEMMA StepPromised ==
  ASSUME IInv, Next
  PROVE  Promised
<1>1. CASE AssignValue
  BY <1>1, AssignedItemPromised DEF AssignValue
<1>2. CASE AssignExpected
  BY <1>2, AssignedExpectedPromised DEF AssignExpected
<1>3. CASE AssignVoid
  <2>1. {"unex"} \in SUBSET Alt
    BY DEF Alt
  <2>. QED
    BY <1>3, <2>1, AssignedItemPromised, AssignedExpectedPromised DEF AssignVoid
<1>4. CASE Emplace \/ EmplaceVoid
  BY <1>4, EmplacedPromised DEF Emplace, EmplaceVoid
<1>5. CASE Swap \/ SwapVoid
  BY <1>5, SwappedPromised DEF Swap, SwapVoid
<1>6. CASE Create \/ CreateVoid
  BY <1>6, CreatedPromised DEF Create, CreateVoid
<1>7. CASE Chain \/ ChainVoid \/ Transform \/ TransformVoid
  BY <1>7, ChainedPromised DEF Chain, ChainVoid, Transform, TransformVoid
<1>. QED
  BY <1>1, <1>2, <1>3, <1>4, <1>5, <1>6, <1>7 DEF Next

-----------------------------------------------------------------------------
(* The theorems. *)

LEMMA InitInv == ExpectedAssumption /\ Init => IInv
<1>. SUFFICES ASSUME ExpectedAssumption, Init PROVE IInv
  OBVIOUS
<1>1. /\ traitOf \in [val : Trait, unex : Trait \ {"void"}]
      /\ \E a \in Alt : Nothrow(traitOf[a], "move")
      /\ hasVal = [w \in Who |-> TRUE]
      /\ object \in [Who -> [alt : {"val"}, item : Values(traitOf.val)]]
  BY DEF Init
<1>2. ASSUME NEW w \in Who
      PROVE  object[w] \in Contained /\ object[w].alt = "val"
  <2>1. object[w] \in [alt : {"val"}, item : Values(traitOf.val)]
    BY <1>1
  <2>2. object[w].item \in Item
    BY <2>1, ValuesAreItems
  <2>. QED
    BY <2>1, <2>2 DEF Contained, Alt
<1>3. object \in [Who -> Contained]
  BY <1>1, <1>2
<1>4. hasVal \in [Who -> BOOLEAN] /\ \A w \in Who : hasVal[w]
  BY <1>1
<1>. QED
  BY <1>1, <1>2, <1>3, <1>4 DEF IInv, TypeOK, Told

LEMMA PromisedInv ==
  ASSUME IInv, Promised
  PROVE  IInv'
<1>1. PICK q, want, strong : Comes(q, want, strong) /\ Ended(q, want, strong)
  BY DEF Promised
<1>2. hasVal' = q.hasVal /\ object' = q.object /\ traitOf' = traitOf
  BY <1>1 DEF Ended
<1>3. /\ q.hasVal \in [Who -> BOOLEAN] /\ q.object \in [Who -> Contained]
      /\ \A w \in Who : q.hasVal[w] <=> q.object[w].alt = "val"
  BY <1>1 DEF Comes
<1>4. TypeOK'
  BY <1>2, <1>3 DEF IInv, TypeOK
<1>5. Told'
  BY <1>2, <1>3 DEF Told
<1>. QED
  BY <1>4, <1>5 DEF IInv, ExpectedAssumption, ThrowingAssumption, Contained, Item

LEMMA SpliceAll ==
  ASSUME NEW S, NEW s, Len(s) = 1, NEW t \in Seq(S)
  PROVE  This!Splice(s, 0, 1, t) = t /\ That!Splice(s, 0, 1, t) = t
<1>1. SubSeq(s, 1, 0) = <<>> /\ SubSeq(s, 0 + 1 + 1, Len(s)) = <<>>
  BY SubSeqEmpty
<1>2. <<>> \o t = t /\ t \o <<>> = t
  BY ConcatEmptySeq
<1>. QED
  BY <1>1, <1>2 DEF This!Splice, That!Splice

\* Each step is a call that returns or throws as Container promises, on each.
LEMMA PromisedCalls ==
  ASSUME IInv, Promised
  PROVE  This!Next /\ That!Next
<1>1. PICK q, want, strong : Comes(q, want, strong) /\ Ended(q, want, strong)
  BY DEF Promised
<1> DEFINE Called(w) == [at |-> 0, cut |-> 1, put |-> want[w], strong |-> w \in strong, threw |-> q.threw]
<1>2. object' = q.object /\ call' = [w \in Who |-> Called(w)]
  BY <1>1 DEF Ended
<1>3. "this" \in Who /\ "other" \in Who
  BY DEF Who
<1>4. ASSUME NEW w \in Who
      PROVE  /\ call'[w] = Called(w)
             /\ q.threw \in BOOLEAN /\ want[w] \in Seq(Contained)
             /\ q.object[w] \in Contained
             /\ Items(w)' = <<q.object[w]>>
             /\ Items(w) = <<object[w]>>
             /\ IF q.threw THEN w \in strong => q.object[w] = object[w] ELSE want[w] = <<q.object[w]>>
             /\ ~q.threw => This!Splice(Items(w), 0, 1, want[w]) = <<q.object[w]>>
                              /\ That!Splice(Items(w), 0, 1, want[w]) = <<q.object[w]>>
  <2>1. /\ q.object[w] \in Contained /\ q.threw \in BOOLEAN /\ want[w] \in Seq(Contained)
        /\ IF q.threw THEN w \in strong => q.object[w] = object[w] ELSE want[w] = <<q.object[w]>>
    BY <1>1 DEF Comes
  <2>2. Items(w)' = <<q.object[w]>>
    BY <1>2, <2>1 DEF Items, IInv, ExpectedAssumption
  <2>3. Items(w) = <<object[w]>>
    BY HereIs
  <2>4. This!Splice(<<object[w]>>, 0, 1, want[w]) = want[w] /\ That!Splice(<<object[w]>>, 0, 1, want[w]) = want[w]
    <3>1. Len(<<object[w]>>) = 1
      OBVIOUS
    <3> DEFINE put == want[w]
               was == <<object[w]>>
    <3>2. put \in Seq(Contained) /\ Len(was) = 1
      BY <2>1, <3>1
    <3> HIDE DEF put, was
    <3>3. This!Splice(was, 0, 1, put) = put /\ That!Splice(was, 0, 1, put) = put
      BY <3>2, SpliceAll
    <3>. QED
      BY <3>3 DEF put, was
  <2>. QED
    BY <1>2, <2>1, <2>2, <2>3, <2>4
<1> HIDE DEF Called
<1>5. ASSUME NEW w \in Who
      PROVE  /\ Called(w).at = 0 /\ Called(w).cut = 1 /\ Called(w).put = want[w]
             /\ Called(w).strong = (w \in strong) /\ Called(w).threw = q.threw
             /\ Called(w) \in This!Call /\ Called(w) \in That!Call
  <2> DEFINE keeps == w \in strong
             put == want[w]
  <2>1. Called(w) = [at |-> 0, cut |-> 1, put |-> put, strong |-> keeps, threw |-> q.threw]
    BY DEF Called
  <2>2. keeps \in BOOLEAN /\ q.threw \in BOOLEAN /\ put \in Seq(Contained)
    BY <1>4
  <2>3. Called(w).strong = keeps
    BY <2>1
  <2> HIDE DEF keeps, put
  <2>4. Called(w) \in This!Call /\ Called(w) \in That!Call
    BY <2>1, <2>2 DEF This!Call, That!Call
  <2>5. /\ Called(w).at = 0 /\ Called(w).cut = 1 /\ Called(w).put = put
        /\ Called(w).threw = q.threw
    BY <2>1
  <2>. QED
    BY <2>3, <2>4, <2>5 DEF keeps, put
<1>6. This!Next
  <2>1. call'["this"] \in This!Call
    BY <1>3, <1>4, <1>5
  <2>2. CASE q.threw
    <3>1. call'["this"].threw /\ (call'["this"].strong => "this" \in strong)
      BY <1>3, <1>4, <1>5, <2>2
    <3>2. /\ Items("this")' = <<q.object["this"]>> /\ q.object["this"] \in Contained
          /\ Items("this") = <<object["this"]>>
          /\ "this" \in strong => q.object["this"] = object["this"]
      BY <1>3, <1>4, <2>2
    <3>3. This!Throw
      <4>1. Items("this")' \in Seq(Contained)
        <5>1. \A x \in Contained : <<x>> \in Seq(Contained)
          OBVIOUS
        <5>. QED
          BY <3>2, <5>1, Zenon
      <4>2. call'["this"].strong => Items("this")' = Items("this")
        BY <3>1, <3>2
      <4>. QED
        BY <3>1, <4>1, <4>2 DEF This!Throw
    <3>. QED
      BY <2>1, <3>3 DEF This!Next
  <2>3. CASE ~q.threw
    BY <1>3, <1>4, <1>5, <2>1, <2>3 DEF This!Next, This!Return
  <2>. QED
    BY <2>2, <2>3
<1>7. That!Next
  <2>1. call'["other"] \in That!Call
    BY <1>3, <1>4, <1>5
  <2>2. CASE q.threw
    <3>1. call'["other"].threw /\ (call'["other"].strong => "other" \in strong)
      BY <1>3, <1>4, <1>5, <2>2
    <3>2. /\ Items("other")' = <<q.object["other"]>> /\ q.object["other"] \in Contained
          /\ Items("other") = <<object["other"]>>
          /\ "other" \in strong => q.object["other"] = object["other"]
      BY <1>3, <1>4, <2>2
    <3>3. That!Throw
      <4>1. Items("other")' \in Seq(Contained)
        <5>1. \A x \in Contained : <<x>> \in Seq(Contained)
          OBVIOUS
        <5>. QED
          BY <3>2, <5>1, Zenon
      <4>2. call'["other"].strong => Items("other")' = Items("other")
        BY <3>1, <3>2
      <4>. QED
        BY <3>1, <4>1, <4>2 DEF That!Throw
    <3>. QED
      BY <2>1, <3>3 DEF That!Next
  <2>3. CASE ~q.threw
    BY <1>3, <1>4, <1>5, <2>1, <2>3 DEF That!Next, That!Return
  <2>. QED
    BY <2>2, <2>3
<1>. QED
  BY <1>6, <1>7

\* Whatever is called on two expected, and at whatever step it throws, each has a
\* value or an error (plg::expected, reinit_expected).
THEOREM ExpectedInv == ExpectedAssumption /\ Spec => []IInv
<1>1. ExpectedAssumption /\ Init => IInv
  BY InitInv
<1>2. IInv /\ [Next]_vars => IInv'
  <2>1. ASSUME IInv, Next
        PROVE  IInv'
    BY <2>1, StepPromised, PromisedInv
  <2>2. ASSUME IInv, UNCHANGED vars
        PROVE  IInv'
    BY <2>2 DEF vars, IInv, TypeOK, Told, ExpectedAssumption, ThrowingAssumption, Contained, Item
  <2>. QED
    BY <2>1, <2>2
<1>. QED
  BY <1>1, <1>2, PTL DEF Spec

\* has_val tells which of the two an expected has, and there always is one
\* (reinit_expected restores the old one when the new one cannot be constructed).
THEOREM ExpectedTellsObject == ExpectedAssumption /\ Spec => []ExpectedHasValTellsObject
<1>1. IInv => ExpectedHasValTellsObject
  <2>. SUFFICES ASSUME IInv, NEW w \in Who
                PROVE  object[w] # Raw /\ (hasVal[w] <=> object[w].alt = "val")
    BY DEF ExpectedHasValTellsObject
  <2>. QED
    BY DEF IInv, TypeOK, Told, ExpectedAssumption
<1>. QED
  BY <1>1, ExpectedInv, PTL

\* Every call on an expected replaces what it has by what the call says, or throws;
\* an assignment that throws, and a swap of a value and an error, have done nothing
\* (operator=, swap).
THEOREM ExpectedRefinesContainer == ExpectedAssumption /\ Spec => ExpectedIsContainer
<1>1. ExpectedAssumption /\ Init => This!Init /\ That!Init
  <2>. SUFFICES ASSUME ExpectedAssumption, Init
                PROVE  This!Init /\ That!Init
    OBVIOUS
  <2>1. "this" \in Who /\ "other" \in Who
    BY DEF Who
  <2>2. IInv
    BY InitInv
  <2>3. \A w \in Who : Items(w) \in Seq(Contained)
    <3>1. ASSUME NEW w \in Who
          PROVE  Items(w) \in Seq(Contained)
      <4>1. Items(w) = <<object[w]>> /\ object[w] \in Contained
        BY <2>2, HereIs
      <4>. QED
        BY <4>1
    <3>. QED
      BY <3>1
  <2>4. \A w \in Who : call[w] = This!NoCall /\ call[w] = That!NoCall
    BY DEF Init, This!NoCall, That!NoCall
  <2>. QED
    BY <2>1, <2>3, <2>4 DEF This!Init, That!Init
<1>2. IInv /\ [Next]_vars
        => [This!Next]_<<Items("this"), call["this"]>> /\ [That!Next]_<<Items("other"), call["other"]>>
  <2>1. ASSUME IInv, Next
        PROVE  This!Next /\ That!Next
    BY <2>1, StepPromised, PromisedCalls
  <2>2. ASSUME UNCHANGED vars
        PROVE  UNCHANGED <<Items("this"), call["this"]>> /\ UNCHANGED <<Items("other"), call["other"]>>
    BY <2>2 DEF vars, Items
  <2>. QED
    BY <2>1, <2>2
<1>. QED
  BY <1>1, <1>2, ExpectedInv, PTL DEF Spec, ExpectedIsContainer, This!Spec, That!Spec

-----------------------------------------------------------------------------
(* plg::variant: the steps. *)

\* What the calls of variant do to the objects and to the index, which is npos
\* only within a call.
VariantTypeOK ==
  /\ index \in [Who -> Types]
  /\ storage \in [Who -> Stored]

Named == \A w \in Who : storage[w].alt = index[w]

\* While no object is lost.
VariantInv == VariantAssumption /\ VariantTypeOK /\ Named

\* Later too.
VariantSafe ==
  /\ VariantAssumption
  /\ lost \subseteq Who
  /\ index \in [Who -> Types]
  /\ storage \in [Who -> Stored \cup {Raw}]
  /\ \A w \in Who : IF w \in lost THEN storage[w] = Raw
                    ELSE storage[w] \in Stored /\ storage[w].alt = index[w]

Running ==
  [index : [Who -> Types \cup {Npos}], object : [Who -> Stored \cup {Raw}], left : Nat, threw : BOOLEAN]

\* src is no object, or one that is there.
Readable(o, src) == src.how = "move" /\ src.of \in Who => o.object[src.of] \in Stored

LEMMA VariantStepIs ==
  ASSUME NEW o \in Running, NEW t, NEW src \in Sources, ~o.threw, Readable(o, src)
  PROVE  LET q == Step(o, t, src)
         IN  /\ q \in Running /\ q.index = o.index
             /\ q.threw => q.object = o.object
             /\ ~q.threw => \A v \in Who : q.object[v] = Read(o, t, src, v)
             /\ Nothrow(t, src.how) => ~q.threw
<1> DEFINE q == Step(o, t, src)
<1>0. o.left \in Nat
  BY DEF Running
<1>1. CASE ~Nothrow(t, src.how) /\ o.left = 0
  <2>1. q = [o EXCEPT !.threw = TRUE]
    BY <1>1 DEF Step, Throw
  <2>2. q \in Running /\ q.index = o.index /\ q.object = o.object /\ q.threw /\ q.left = o.left
    BY <2>1 DEF Running
  <2>. QED
    BY <1>0, <1>1, <2>2
<1>2. CASE ~(~Nothrow(t, src.how) /\ o.left = 0)
  <2> DEFINE less == IF Nothrow(t, src.how) THEN o.left ELSE o.left - 1
             read == IF src.how = "move" /\ src.of \in Who
                     THEN [o.object EXCEPT ![src.of].item = Kept(t, @)] ELSE o.object
  <2>1. q = [o EXCEPT !.left = less, !.object = read]
    BY <1>2 DEF Step
  <2>2. less \in Nat
    BY <1>0, <1>2
  <2>3. read \in [Who -> Stored \cup {Raw}] /\ \A v \in Who : read[v] = Read(o, t, src, v)
    <3>1. o.object \in [Who -> Stored \cup {Raw}]
      BY DEF Running
    <3>2. CASE src.how = "move" /\ src.of \in Who
      <4>1. o.object[src.of] \in Stored
        BY <3>2 DEF Readable
      <4>2. Kept(t, o.object[src.of].item) \in Item
        BY <4>1, KeptIsItem DEF Stored
      <4>3. [o.object[src.of] EXCEPT !.item = Kept(t, @)]
              = [alt |-> o.object[src.of].alt, item |-> Kept(t, o.object[src.of].item)]
        BY <4>1 DEF Stored
      <4>4. [alt |-> o.object[src.of].alt, item |-> Kept(t, o.object[src.of].item)] \in Stored
        BY <4>1, <4>2 DEF Stored
      <4>5. read = [o.object EXCEPT ![src.of] = [o.object[src.of] EXCEPT !.item = Kept(t, @)]]
        BY <3>2
      <4>. QED
        BY <3>1, <3>2, <4>3, <4>4, <4>5 DEF Read
    <3>3. CASE ~(src.how = "move" /\ src.of \in Who)
      BY <3>1, <3>3 DEF Read
    <3>. QED
      BY <3>2, <3>3
  <2> HIDE DEF less, read
  <2>4. q \in Running /\ q.index = o.index /\ ~q.threw /\ q.object = read /\ q.left = less
    BY <2>1, <2>2, <2>3 DEF Running
  <2>. QED
    BY <2>2, <2>3, <2>4
<1>. QED
  BY <1>1, <1>2

\* What has come to the place of w, from src, when nothing threw.
Arrived(o, q, w, i, t, src) ==
  /\ q.object[w] = [alt |-> i, item |-> src.item]
  /\ q.object[w] \in Stored
  /\ q.object[Other(w)] = Read(o, t, src, Other(w))

LEMMA VariantMakeIs ==
  ASSUME NEW o \in Running, NEW w \in Who, NEW i \in Types, NEW t, NEW src \in Sources, ~o.threw,
         Readable(o, src)
  PROVE  LET q == Make(o, w, i, t, src)
         IN  /\ q \in Running /\ q.index = o.index
             /\ q.threw => q.object = o.object
             /\ ~q.threw => Arrived(o, q, w, i, t, src)
             /\ Nothrow(t, src.how) => ~q.threw
<1> DEFINE p == Step(o, t, src)
           q == Make(o, w, i, t, src)
           new == [alt |-> i, item |-> src.item]
<1>1. /\ p \in Running /\ p.index = o.index
      /\ p.threw => p.object = o.object
      /\ ~p.threw => \A v \in Who : p.object[v] = Read(o, t, src, v)
      /\ Nothrow(t, src.how) => ~p.threw
  BY VariantStepIs
<1>2. q = IF p.threw THEN p ELSE [p EXCEPT !.object = [p.object EXCEPT ![w] = new]]
  BY DEF Make, Then
<1>3. new \in Stored
  BY DEF Stored, Sources
<1> HIDE DEF p, q, new
<1>4. CASE p.threw
  BY <1>1, <1>2, <1>4 DEF q
<1>5. CASE ~p.threw
  <2>1. q = [p EXCEPT !.object = [p.object EXCEPT ![w] = new]]
    BY <1>2, <1>5
  <2>2. /\ q \in Running /\ q.index = o.index /\ ~q.threw
        /\ q.object = [p.object EXCEPT ![w] = new] /\ p.object \in [Who -> Stored \cup {Raw}]
    BY <1>1, <1>3, <1>5, <2>1 DEF Running
  <2>3. q.object[w] = new /\ q.object[Other(w)] = p.object[Other(w)]
    BY <2>2, TwoObjects
  <2>. QED
    BY <1>1, <1>3, <1>5, <2>2, <2>3, TwoObjects DEF q, new, Arrived
<1>. QED
  BY <1>4, <1>5

LEMMA VariantDestroyIs ==
  ASSUME NEW o \in Running, NEW w \in Who
  PROVE  LET q == Destroy(o, w)
         IN  /\ q \in Running /\ q.index = o.index /\ q.threw = o.threw
             /\ q.object[w] = Raw
             /\ q.object[Other(w)] = o.object[Other(w)]
BY TwoObjects DEF Destroy, Running

\* The index of w says i, and that of the other what it said.
Indexed(o, q, w, i) == q.index[w] = i /\ q.index[Other(w)] = o.index[Other(w)]

\* A call that is to put an object of type i in w and threw has done nothing to the
\* other.
Spared(o, q, w, i) ==
  /\ q.object[Other(w)] = o.object[Other(w)]
  /\ q.index[Other(w)] = o.index[Other(w)]
  /\ q.index[w] \in {o.index[w], i}

LEMMA DoEmplaceIs ==
  ASSUME NEW o \in Running, NEW w \in Who, NEW i \in Types, NEW src \in Sources, ~o.threw,
         Readable(o, src)
  PROVE  LET q == DoEmplace(o, w, i, src)
         IN  /\ q \in Running /\ Indexed(o, q, w, i)
             /\ q.threw => q.object = o.object
             /\ ~q.threw => Arrived(o, q, w, i, TraitOf[i], src)
             /\ Nothrow(TraitOf[i], src.how) => ~q.threw
<1> DEFINE p == [o EXCEPT !.index[w] = i]
           t == TraitOf[i]
           q == Make(p, w, i, t, src)
<1>1. DoEmplace(o, w, i, src) = q
  BY DEF DoEmplace
<1>2. /\ p \in Running /\ p.object = o.object /\ p.left = o.left /\ ~p.threw
      /\ p.index = [o.index EXCEPT ![w] = i] /\ o.index \in [Who -> Types \cup {Npos}]
  BY DEF Running
<1>3. Indexed(o, p, w, i) /\ Readable(p, src)
  BY <1>2, TwoObjects DEF Indexed, Readable
<1> HIDE DEF p, t
<1>4. /\ q \in Running /\ q.index = p.index
      /\ q.threw => q.object = p.object
      /\ ~q.threw => Arrived(p, q, w, i, t, src)
      /\ Nothrow(t, src.how) => ~q.threw
  BY <1>2, <1>3, VariantMakeIs
<1> HIDE DEF q
<1>5. Arrived(p, q, w, i, t, src) => Arrived(o, q, w, i, t, src)
  BY <1>2 DEF Arrived, Read
<1>. QED
  BY <1>1, <1>2, <1>3, <1>4, <1>5 DEF Indexed, t

LEMMA EmplaceNoDtorIs ==
  ASSUME NEW o \in Running, NEW w \in Who, NEW i \in Types, NEW src \in Sources, ~o.threw,
         Readable(o, src), src.of \in {"none", Other(w)}
  PROVE  LET q == EmplaceNoDtor(o, w, i, src)
         IN  /\ q \in Running
             /\ q.threw => Spared(o, q, w, i) /\ q.object = o.object
             /\ ~q.threw => Indexed(o, q, w, i) /\ Arrived(o, q, w, i, TraitOf[i], src)
             /\ Nothrow(TraitOf[i], src.how) => ~q.threw
<1> DEFINE t == TraitOf[i]
           v == Other(w)
           q == EmplaceNoDtor(o, w, i, src)
           s == Step(o, t, src)
<1>1. v \in Who /\ v # w
  BY TwoObjects
<1>2. ASSUME NEW how \in {"move", "copy"}, Nothrow(t, how),
             q = Then(s, LAMBDA r : DoEmplace(r, w, i, Temporary(how, src)))
      PROVE  /\ q \in Running
             /\ q.threw => Spared(o, q, w, i) /\ q.object = o.object
             /\ ~q.threw => Indexed(o, q, w, i) /\ Arrived(o, q, w, i, t, src)
  <2> DEFINE temp == Temporary(how, src)
             made == DoEmplace(s, w, i, temp)
  <2>1. q = IF s.threw THEN s ELSE made
    BY <1>2 DEF Then
  <2>2. temp \in Sources /\ temp.how = how /\ temp.item = src.item /\ temp.of = "none" /\ "none" \notin Who
    BY DEF Temporary, Source, Sources, Ways, Who
  <2>3. /\ s \in Running /\ s.index = o.index
        /\ s.threw => s.object = o.object
        /\ ~s.threw => \A u \in Who : s.object[u] = Read(o, t, src, u)
    BY VariantStepIs
  <2> HIDE DEF s, temp
  <2>4. CASE s.threw
    BY <2>1, <2>3, <2>4 DEF Spared
  <2>5. CASE ~s.threw
    <3>1. Readable(s, temp)
      BY <2>2 DEF Readable
    <3>2. /\ made \in Running /\ Indexed(s, made, w, i) /\ ~made.threw
          /\ Arrived(s, made, w, i, t, temp)
      BY <1>2, <2>2, <2>3, <2>5, <3>1, DoEmplaceIs
    <3>3. Read(s, t, temp, v) = Read(o, t, src, v)
      BY <1>1, <2>2, <2>3, <2>5 DEF Read
    <3>4. Arrived(o, made, w, i, t, src)
      BY <2>2, <3>2, <3>3 DEF Arrived
    <3>. QED
      BY <2>1, <2>3, <2>5, <3>2, <3>4 DEF Indexed
  <2>. QED
    BY <2>4, <2>5
<1>3. CASE Nothrow(t, src.how)
  <2>1. q = DoEmplace(o, w, i, src)
    BY <1>3 DEF EmplaceNoDtor
  <2>. QED
    BY <1>3, <2>1, DoEmplaceIs DEF Indexed, Spared
<1>4. CASE ~Nothrow(t, src.how) /\ Nothrow(t, "move")
  <2>1. q = Then(s, LAMBDA r : DoEmplace(r, w, i, Temporary("move", src)))
    BY <1>4 DEF EmplaceNoDtor
  <2>. QED
    BY <1>2, <1>4, <2>1
<1>5. CASE ~Nothrow(t, src.how) /\ ~Nothrow(t, "move") /\ Nothrow(t, "copy")
  <2>1. q = Then(s, LAMBDA r : DoEmplace(r, w, i, Temporary("copy", src)))
    BY <1>5 DEF EmplaceNoDtor
  <2>. QED
    BY <1>2, <1>5, <2>1
<1>6. CASE ~Nothrow(t, src.how) /\ ~Nothrow(t, "move") /\ ~Nothrow(t, "copy")
  <2> DEFINE p == [o EXCEPT !.index[w] = Npos]
  <2>1. q = DoEmplace(p, w, i, src)
    BY <1>6 DEF EmplaceNoDtor
  <2>2. p \in Running /\ p.object = o.object /\ ~p.threw /\ p.index[v] = o.index[v]
    BY <1>1 DEF Running
  <2>3. Readable(p, src)
    BY <2>2 DEF Readable
  <2> HIDE DEF p
  <2>4. /\ q \in Running /\ Indexed(p, q, w, i)
        /\ q.threw => q.object = p.object
        /\ ~q.threw => Arrived(p, q, w, i, t, src)
    BY <2>1, <2>2, <2>3, DoEmplaceIs
  <2> HIDE DEF q
  <2>5. Arrived(p, q, w, i, t, src) => Arrived(o, q, w, i, t, src)
    BY <2>2 DEF Arrived, Read
  <2>. QED
    BY <1>1, <1>6, <2>2, <2>4, <2>5 DEF Indexed, Spared, q
<1>. QED
  BY <1>3, <1>4, <1>5, <1>6

\* When emplace throws, the old object is gone.
LEMMA EmplaceImplIs ==
  ASSUME NEW o \in Running, NEW w \in Who, NEW i \in Types, NEW src \in Sources, ~o.threw,
         o.index[w] # Npos, o.object[Other(w)] \in Stored, src.of \in {"none", Other(w)}
  PROVE  LET q == EmplaceImpl(o, w, i, src)
         IN  /\ q \in Running
             /\ q.threw => Spared(o, q, w, i) /\ q.object[w] = Raw
             /\ ~q.threw => Indexed(o, q, w, i) /\ Arrived(o, q, w, i, TraitOf[i], src)
<1> DEFINE p == Destroy(o, w)
           t == TraitOf[i]
           q == EmplaceNoDtor(p, w, i, src)
<1>1. Other(w) \in Who /\ "none" \notin Who
  BY TwoObjects DEF Who
<1>2. /\ p \in Running /\ p.index = o.index /\ ~p.threw
      /\ p.object[w] = Raw /\ p.object[Other(w)] = o.object[Other(w)]
  BY VariantDestroyIs
<1>3. EmplaceImpl(o, w, i, src) = q
  BY DEF EmplaceImpl, Reset
<1> HIDE DEF p
<1>4. Readable(p, src)
  BY <1>1, <1>2 DEF Readable
<1>5. /\ q \in Running
      /\ q.threw => Spared(p, q, w, i) /\ q.object = p.object
      /\ ~q.threw => Indexed(p, q, w, i) /\ Arrived(p, q, w, i, t, src)
  BY <1>2, <1>4, EmplaceNoDtorIs
<1> HIDE DEF q
<1>6. Indexed(p, q, w, i) /\ Arrived(p, q, w, i, t, src) => Indexed(o, q, w, i) /\ Arrived(o, q, w, i, t, src)
  BY <1>1, <1>2 DEF Indexed, Arrived, Read
<1>7. Spared(p, q, w, i) /\ q.object = p.object => Spared(o, q, w, i) /\ q.object[w] = Raw
  BY <1>2 DEF Spared
<1>. QED
  BY <1>3, <1>5, <1>6, <1>7

\* An assignment that throws has done nothing, or the old object is gone.
LEMMA AssignElemIs ==
  ASSUME NEW o \in Running, NEW w \in Who, NEW i \in Types, NEW src \in Sources, ~o.threw,
         o.index[w] # Npos, o.object[Other(w)] \in Stored, src.of \in {"none", Other(w)}
  PROVE  LET q == AssignElem(o, w, i, src)
         IN  /\ q \in Running
             /\ q.threw => /\ Spared(o, q, w, i)
                           /\ \/ q.object[w] = Raw
                              \/ q.object[w] = o.object[w] /\ q.index[w] = o.index[w]
             /\ ~q.threw => Indexed(o, q, w, i) /\ Arrived(o, q, w, i, TraitOf[i], src)
<1> DEFINE t == TraitOf[i]
           v == Other(w)
           q == AssignElem(o, w, i, src)
<1>1. v \in Who /\ v # w /\ "none" \notin Who
  BY TwoObjects DEF Who
<1>2. Readable(o, src)
  BY <1>1 DEF Readable
<1>3. CASE o.index[w] = i
  <2>1. q = Make(o, w, i, t, src)
    BY <1>3 DEF AssignElem
  <2>2. /\ q \in Running /\ q.index = o.index
        /\ q.threw => q.object = o.object
        /\ ~q.threw => Arrived(o, q, w, i, t, src)
    BY <1>2, <2>1, VariantMakeIs
  <2>. QED
    BY <1>3, <2>2 DEF Indexed, Spared
<1>4. CASE o.index[w] # i /\ (src.how = "move" \/ Nothrow(t, src.how) \/ ~Nothrow(t, "move"))
  <2>1. q = EmplaceImpl(o, w, i, src)
    BY <1>4 DEF AssignElem
  <2>. QED
    BY <2>1, EmplaceImplIs
<1>5. CASE ~(o.index[w] = i) /\ ~(o.index[w] # i /\ (src.how = "move" \/ Nothrow(t, src.how) \/ ~Nothrow(t, "move")))
  <2> DEFINE s == Step(o, t, src)
             temp == Temporary("move", src)
             made == EmplaceImpl(s, w, i, temp)
  <2>1. q = IF s.threw THEN s ELSE made
    BY <1>5 DEF AssignElem, Then
  <2>2. temp \in Sources /\ temp.how = "move" /\ temp.item = src.item /\ temp.of = "none" /\ src.how # "move"
    BY <1>5 DEF Temporary, Source, Sources, Ways
  <2>3. /\ s \in Running /\ s.index = o.index
        /\ s.threw => s.object = o.object
        /\ ~s.threw => \A u \in Who : s.object[u] = Read(o, t, src, u)
    BY <1>2, VariantStepIs
  <2> HIDE DEF s, temp
  <2>4. CASE s.threw
    BY <2>1, <2>3, <2>4 DEF Spared
  <2>5. CASE ~s.threw
    <3>1. s.object[v] = o.object[v]
      BY <1>1, <2>2, <2>3, <2>5 DEF Read
    <3>2. /\ made \in Running
          /\ made.threw => Spared(s, made, w, i) /\ made.object[w] = Raw
          /\ ~made.threw => Indexed(s, made, w, i) /\ Arrived(s, made, w, i, t, temp)
      BY <1>1, <2>2, <2>3, <2>5, <3>1, EmplaceImplIs
    <3> HIDE DEF made
    <3>3. ~made.threw => Indexed(o, made, w, i) /\ Arrived(o, made, w, i, t, src)
      BY <1>1, <2>2, <2>3, <3>1, <3>2 DEF Indexed, Arrived, Read
    <3>4. made.threw => Spared(o, made, w, i) /\ made.object[w] = Raw
      BY <2>3, <3>1, <3>2 DEF Spared
    <3>5. AssignElem(o, w, i, src) = made
      BY <2>1, <2>5
    <3>. QED
      BY <3>2, <3>3, <3>4, <3>5
  <2>. QED
    BY <2>4, <2>5
<1>. QED
  BY <1>3, <1>4, <1>5

-----------------------------------------------------------------------------
(* The calls of variant. *)

\* What a call has to come to, as Comes for expected, or a variant without an object.
Settled(q, w, want, strong) ==
  /\ q.index[w] \in Types
  /\ want[w] \in Seq(Stored)
  /\ \/ q.threw /\ q.object[w] = Raw
     \/ /\ q.object[w] \in Stored /\ q.object[w].alt = q.index[w]
        /\ IF q.threw THEN w \in strong => q.object[w] = storage[w] ELSE want[w] = <<q.object[w]>>

VariantComes(q, want, strong) ==
  /\ q.index \in [Who -> Types] /\ q.object \in [Who -> Stored \cup {Raw}] /\ q.threw \in BOOLEAN
  /\ \A w \in Who : Settled(q, w, want, strong)

VariantPromised == \E q, want, strong : VariantComes(q, want, strong) /\ Finished(q, want, strong)

LEMMA VariantEachComes ==
  ASSUME NEW q \in Running, NEW want, NEW strong, \A u \in Who : Settled(q, u, want, strong)
  PROVE  VariantComes(q, want, strong)
<1>1. /\ q.index \in [Who -> Types \cup {Npos}] /\ q.threw \in BOOLEAN
      /\ q.object \in [Who -> Stored \cup {Raw}]
  BY DEF Running
<1>2. \A u \in Who : q.index[u] \in Types
  BY DEF Settled
<1>3. q.index \in [Who -> Types]
  BY <1>1, <1>2
<1>. QED
  BY <1>1, <1>3 DEF VariantComes

\* An object of the type the index names.
LEMMA StoredSettles ==
  ASSUME NEW q, NEW u, NEW want, NEW strong,
         q.object[u] \in Stored, q.object[u].alt = q.index[u], want[u] \in Seq(Stored),
         IF q.threw THEN u \in strong => q.object[u] = storage[u] ELSE want[u] = <<q.object[u]>>
  PROVE  Settled(q, u, want, strong)
<1>1. q.object[u].alt \in Types
  BY DEF Stored
<1>. QED
  BY <1>1 DEF Settled

LEMMA VariantHereIs ==
  ASSUME VariantInv, NEW w \in Who
  PROVE  /\ index[w] \in Types /\ index[w] # Npos /\ storage[w] \in Stored /\ storage[w] # Raw
         /\ storage[w].item \in Item /\ storage[w].alt = index[w]
         /\ storage[w] = [alt |-> index[w], item |-> storage[w].item]
         /\ Content(w) = <<storage[w]>>
         /\ Leaves("copy", w) = <<storage[w]>>
         /\ Leaves("move", w) = <<[alt |-> index[w], item |-> Kept(TraitOf[index[w]], storage[w].item)]>>
<1>1. index[w] \in Types /\ storage[w] \in Stored /\ storage[w].alt = index[w]
  BY DEF VariantInv, VariantTypeOK, Named
<1>2. storage[w].item \in Item /\ storage[w] = [alt |-> index[w], item |-> storage[w].item]
  BY <1>1 DEF Stored
<1>3. index[w] # Npos
  <2>1. TraitOf \in Seq(Trait \ {"void"})
    BY DEF VariantInv, VariantAssumption
  <2>2. Types = 1..Len(TraitOf)
    BY <2>1 DEF Types
  <2>. QED
    BY <1>1, <2>2 DEF Npos
<1>4. storage[w] # Raw
  BY <1>1 DEF VariantInv, VariantAssumption
<1>5. Content(w) = <<storage[w]>>
  BY <1>4 DEF Content
<1>6. Leaves("copy", w) = <<storage[w]>>
  BY <1>4, <1>5 DEF Leaves
<1>7. Leaves("move", w) = Single(index[w], Kept(TraitOf[index[w]], storage[w].item))
  BY <1>1, <1>4 DEF Leaves
<1>. QED
  BY <1>1, <1>2, <1>3, <1>4, <1>5, <1>6, <1>7 DEF Single

LEMMA BeginIs ==
  ASSUME VariantInv, NEW f \in Nat
  PROVE  /\ Begin(f) \in Running /\ ~Begin(f).threw
         /\ Begin(f).index = index /\ Begin(f).object = storage
BY DEF VariantInv, VariantTypeOK, Begin, Running

LEMMA SingleIsStored ==
  ASSUME NEW i \in Types, NEW x \in Item
  PROVE  Single(i, x) \in Seq(Stored)
BY DEF Single, Stored

LEMMA OneIsSeq ==
  ASSUME NEW S, NEW x \in S
  PROVE  <<x>> \in Seq(S)
OBVIOUS

\* A call that put an object in w, and nothing threw.
LEMMA ArrivedComes ==
  ASSUME VariantInv, NEW o \in Running, NEW q \in Running, NEW w \in Who, NEW i \in Types, NEW t,
         NEW src \in Sources, NEW want, NEW strong,
         o.index[Other(w)] = index[Other(w)], o.object[Other(w)] = storage[Other(w)],
         ~q.threw, Indexed(o, q, w, i), Arrived(o, q, w, i, t, src),
         want[w] = Single(i, src.item), want[Other(w)] = <<Read(o, t, src, Other(w))>>
  PROVE  VariantComes(q, want, strong)
<1> DEFINE v == Other(w)
           read == Read(o, t, src, v)
<1>1. v \in Who /\ \A u \in Who : u = w \/ u = v
  BY TwoObjects
<1>2. storage[v] \in Stored /\ storage[v].alt = index[v]
  BY <1>1, VariantHereIs
<1>3. read \in Stored /\ read.alt = index[v]
  <2>1. CASE src.how = "move" /\ src.of = v
    <3>1. read = [alt |-> storage[v].alt, item |-> Kept(t, storage[v].item)]
      BY <2>1 DEF Read
    <3>2. storage[v].alt \in Types /\ Kept(t, storage[v].item) \in Item
      BY <1>2, KeptIsItem DEF Stored
    <3> HIDE DEF read
    <3>. QED
      BY <1>2, <3>1, <3>2 DEF Stored
  <2>2. CASE ~(src.how = "move" /\ src.of = v)
    BY <1>2, <2>2 DEF Read
  <2>. QED
    BY <2>1, <2>2
<1>4. /\ q.index[w] = i /\ q.object[w] = [alt |-> i, item |-> src.item] /\ q.object[w] \in Stored
      /\ q.index[v] = index[v] /\ q.object[v] = read
  BY DEF Indexed, Arrived
<1>5. want[v] = <<read>>
  OBVIOUS
<1> HIDE DEF read, v
<1>6. src.item \in Item
  BY DEF Sources
<1>7. /\ q.object[w].alt = q.index[w] /\ want[w] = <<q.object[w]>> /\ want[w] \in Seq(Stored)
  <2>1. q.object[w].alt = i
    BY <1>4
  <2>2. want[w] \in Seq(Stored)
    BY <1>6, SingleIsStored
  <2>. QED
    BY <1>4, <2>1, <2>2 DEF Single
<1>8. /\ q.object[v].alt = q.index[v] /\ want[v] = <<q.object[v]>> /\ want[v] \in Seq(Stored)
      /\ q.object[v] \in Stored
  BY <1>3, <1>4, <1>5
<1>9. Settled(q, w, want, strong) /\ Settled(q, v, want, strong)
  BY <1>4, <1>7, <1>8, StoredSettles
<1>. QED
  BY <1>1, <1>9, VariantEachComes

\* A call that threw and did nothing.
LEMMA UndoneComes ==
  ASSUME VariantInv, NEW q \in Running, NEW want, NEW strong,
         q.threw, q.index = index, q.object = storage, \A u \in Who : want[u] \in Seq(Stored)
  PROVE  VariantComes(q, want, strong)
<1>1. \A u \in Who : storage[u] \in Stored /\ storage[u].alt = index[u]
  BY VariantHereIs
<1>2. \A u \in Who : Settled(q, u, want, strong)
  BY <1>1, StoredSettles
<1>. QED
  BY <1>2, VariantEachComes

\* A call that threw and did nothing, or left no object in w.
LEMMA ThrownComes ==
  ASSUME VariantInv, NEW o \in Running, NEW q \in Running, NEW w \in Who, NEW i \in Types, NEW want, NEW strong,
         o.index = index, o.object[Other(w)] = storage[Other(w)],
         q.threw, Spared(o, q, w, i), \A u \in Who : want[u] \in Seq(Stored),
         q.object[w] = Raw \/ (q.object[w] = storage[w] /\ q.index[w] = index[w])
  PROVE  VariantComes(q, want, strong)
<1>1. Other(w) \in Who /\ \A u \in Who : u = w \/ u = Other(w)
  BY TwoObjects
<1>2. \A u \in Who : storage[u] \in Stored /\ storage[u].alt = index[u] /\ index[u] \in Types
  BY VariantHereIs
<1>3. Settled(q, Other(w), want, strong)
  <2> DEFINE v == Other(w)
  <2>1. q.object[v] = storage[v] /\ q.index[v] = index[v] /\ v \in Who
    BY <1>1 DEF Spared
  <2> HIDE DEF v
  <2>. QED
    BY <1>2, <2>1, StoredSettles DEF v
<1>4. Settled(q, w, want, strong)
  <2>1. CASE q.object[w] = Raw
    <3>1. q.index[w] \in Types
      BY <1>2 DEF Spared
    <3>. QED
      BY <2>1, <3>1 DEF Settled
  <2>2. CASE q.object[w] = storage[w] /\ q.index[w] = index[w]
    BY <1>2, <2>2, StoredSettles
  <2>. QED
    BY <2>1, <2>2
<1>5. \A u \in Who : Settled(q, u, want, strong)
  BY <1>1, <1>3, <1>4
<1>. QED
  BY <1>5, VariantEachComes

LEMMA ReadOfBegin ==
  ASSUME VariantInv, NEW f \in Nat, NEW v \in Who, NEW how \in {"copy", "move"}
  PROVE  /\ Operand(how, v) \in Sources /\ Operand(how, v).of = v
         /\ Operand(how, v).item = storage[v].item /\ Operand(how, v).how = how
         /\ Leaves(how, v) = <<Read(Begin(f), TraitOf[index[v]], Operand(how, v), v)>>
         /\ Leaves(how, v) \in Seq(Stored)
<1> DEFINE src == Operand(how, v)
<1>1. /\ storage[v].item \in Item /\ storage[v].alt = index[v] /\ storage[v] \in Stored /\ index[v] \in Types
      /\ Leaves("copy", v) = <<storage[v]>>
      /\ Leaves("move", v) = <<[alt |-> index[v], item |-> Kept(TraitOf[index[v]], storage[v].item)]>>
  BY VariantHereIs
<1>2. src \in Sources /\ src.of = v /\ src.item = storage[v].item /\ src.how = how
  BY <1>1 DEF Operand, Source, Sources, Ways
<1>3. Begin(f).object = storage
  BY BeginIs
<1> HIDE DEF src
<1>4. CASE how = "copy"
  <2>1. Read(Begin(f), TraitOf[index[v]], src, v) = storage[v]
    BY <1>2, <1>3, <1>4 DEF Read
  <2>2. Leaves(how, v) = <<storage[v]>> /\ Leaves(how, v) \in Seq(Stored)
    BY <1>1, <1>4, OneIsSeq
  <2>. QED
    BY <1>2, <2>1, <2>2 DEF src
<1>5. CASE how = "move"
  <2>1. Kept(TraitOf[index[v]], storage[v].item) \in Item
    BY <1>1, KeptIsItem
  <2>2. [alt |-> index[v], item |-> Kept(TraitOf[index[v]], storage[v].item)] \in Stored
    BY <1>1, <2>1 DEF Stored
  <2>3. Read(Begin(f), TraitOf[index[v]], src, v)
          = [alt |-> index[v], item |-> Kept(TraitOf[index[v]], storage[v].item)]
    BY <1>1, <1>2, <1>3, <1>5 DEF Read
  <2>4. Leaves(how, v) = <<[alt |-> index[v], item |-> Kept(TraitOf[index[v]], storage[v].item)]>>
    BY <1>1, <1>5
  <2>5. Leaves(how, v) \in Seq(Stored)
    BY <2>2, <2>4, OneIsSeq
  <2>. QED
    BY <1>2, <2>3, <2>4, <2>5 DEF src
<1>. QED
  BY <1>4, <1>5

LEMMA VariantAssignComes ==
  ASSUME VariantInv, NEW f \in Nat, NEW w \in Who, NEW i \in Types, NEW src \in Sources,
         src.of \in {"none", Other(w)}, NEW want,
         want[w] = Single(i, src.item),
         want[Other(w)] = <<Read(Begin(f), TraitOf[i], src, Other(w))>>,
         want[Other(w)] \in Seq(Stored)
  PROVE  VariantComes(AssignElem(Begin(f), w, i, src), want, Who)
<1> DEFINE o == Begin(f)
           q == AssignElem(o, w, i, src)
<1>1. Other(w) \in Who /\ \A u \in Who : u = w \/ u = Other(w)
  BY TwoObjects
<1>2. o \in Running /\ ~o.threw /\ o.index = index /\ o.object = storage
  BY BeginIs
<1>3. storage[Other(w)] \in Stored /\ index[w] # Npos
  BY <1>1, VariantHereIs
<1>4. want[Other(w)] = <<Read(o, TraitOf[i], src, Other(w))>>
  OBVIOUS
<1> HIDE DEF o
<1>5. /\ q \in Running
      /\ q.threw => /\ Spared(o, q, w, i)
                    /\ \/ q.object[w] = Raw
                       \/ q.object[w] = o.object[w] /\ q.index[w] = o.index[w]
      /\ ~q.threw => Indexed(o, q, w, i) /\ Arrived(o, q, w, i, TraitOf[i], src)
  BY <1>2, <1>3, AssignElemIs
<1>6. src.item \in Item
  BY DEF Sources
<1>7. \A u \in Who : want[u] \in Seq(Stored)
  BY <1>1, <1>6, SingleIsStored
<1> HIDE DEF q
<1>8. CASE q.threw
  BY <1>2, <1>5, <1>7, <1>8, ThrownComes DEF q, o
<1>9. CASE ~q.threw
  BY <1>2, <1>4, <1>5, <1>9, ArrivedComes DEF q, o
<1>. QED
  BY <1>8, <1>9

LEMMA EmplaceArgsPromised ==
  ASSUME VariantInv, EmplaceArgs
  PROVE  VariantPromised
<1>1. PICK f \in Fuel, w \in Who, i \in Types, x \in Value :
        Finished(EmplaceImpl(Begin(f), w, i, Argument(x)), Change(w, Single(i, x)), {Other(w)})
  BY DEF EmplaceArgs
<1> DEFINE o == Begin(f)
           v == Other(w)
           src == Argument(x)
           q == EmplaceImpl(o, w, i, src)
           want == Change(w, Single(i, x))
<1>2. f \in Nat /\ v \in Who /\ v # w /\ "none" \notin Who
  BY TwoObjects DEF Fuel, Who
<1>3. src \in Sources /\ src.how = "args" /\ src.of = "none" /\ src.item = x
  BY DEF Argument, Source, Sources, Ways, Item
<1>4. o \in Running /\ ~o.threw /\ o.index = index /\ o.object = storage
  BY <1>2, BeginIs
<1>5. storage[v] \in Stored /\ Content(v) = <<storage[v]>> /\ index[w] # Npos
  BY <1>2, VariantHereIs
<1>6. want[w] = Single(i, src.item) /\ want[v] = Content(v)
  BY <1>2, <1>3 DEF Change
<1> HIDE DEF o, src, want
<1>7. /\ q \in Running
      /\ q.threw => Spared(o, q, w, i) /\ q.object[w] = Raw
      /\ ~q.threw => Indexed(o, q, w, i) /\ Arrived(o, q, w, i, TraitOf[i], src)
  BY <1>3, <1>4, <1>5, EmplaceImplIs
<1>8. want[v] = <<Read(o, TraitOf[i], src, v)>>
  BY <1>3, <1>4, <1>5, <1>6 DEF Read
<1> HIDE DEF q
<1>9. VariantComes(q, want, {v})
  <2>1. CASE q.threw
    <3>1. src.item \in Item
      BY <1>3 DEF Sources
    <3>2. want[w] \in Seq(Stored) /\ want[v] \in Seq(Stored)
      <4>1. want[w] \in Seq(Stored)
        BY <1>6, <3>1, SingleIsStored
      <4>2. <<storage[v]>> \in Seq(Stored)
        BY <1>5, OneIsSeq
      <4>. QED
        BY <1>5, <1>6, <4>1, <4>2
    <3>. QED
      BY <1>4, <1>7, <2>1, <3>2, TwoObjects, ThrownComes
  <2>2. CASE ~q.threw
    BY <1>3, <1>4, <1>6, <1>7, <1>8, <2>2, ArrivedComes
  <2>. QED
    BY <2>1, <2>2
<1>. QED
  BY <1>1, <1>9 DEF q, o, src, want, VariantPromised

LEMMA AssignElementPromised ==
  ASSUME VariantInv, AssignElement
  PROVE  VariantPromised
<1>1. PICK f \in Fuel, w \in Who, i \in Types, x \in Value, how \in {"args", "copy", "move"} :
        Finished(AssignElem(Begin(f), w, i, Source(how, x, "none")), Change(w, Single(i, x)), Who)
  BY DEF AssignElement
<1> DEFINE src == Source(how, x, "none")
           want == Change(w, Single(i, x))
           v == Other(w)
<1>2. f \in Nat /\ v \in Who /\ v # w /\ "none" \notin Who
  BY TwoObjects DEF Fuel, Who
<1>3. src \in Sources /\ src.of = "none" /\ src.item = x
  BY DEF Source, Sources, Ways, Item
<1>4. want[w] = Single(i, src.item) /\ want[v] = <<storage[v]>> /\ want[v] \in Seq(Stored)
  <2>1. storage[v] \in Stored /\ Content(v) = <<storage[v]>>
    BY <1>2, VariantHereIs
  <2>2. want[w] = Single(i, src.item) /\ want[v] = Content(v)
    BY <1>2, <1>3 DEF Change
  <2>. QED
    BY <2>1, <2>2
<1>5. Read(Begin(f), TraitOf[i], src, v) = storage[v]
  BY <1>2, <1>3, BeginIs DEF Read
<1> HIDE DEF src, want
<1>6. VariantComes(AssignElem(Begin(f), w, i, src), want, Who)
  BY <1>2, <1>3, <1>4, <1>5, VariantAssignComes
<1>. QED
  BY <1>1, <1>6 DEF src, want, VariantPromised

LEMMA AssignVariantPromised ==
  ASSUME VariantInv, AssignVariant
  PROVE  VariantPromised
<1>1. PICK f \in Fuel, w \in Who, how \in {"copy", "move"} :
        Finished(AssignFrom(Begin(f), w, how),
                 [v \in Who |-> IF v = w THEN Content(Other(w)) ELSE Leaves(how, v)], Who)
  BY DEF AssignVariant
<1> DEFINE v == Other(w)
           i == index[v]
           src == Operand(how, v)
           want == [u \in Who |-> IF u = w THEN Content(v) ELSE Leaves(how, u)]
<1>2. f \in Nat /\ v \in Who /\ v # w
  BY TwoObjects DEF Fuel
<1>3. /\ i \in Types /\ i # Npos /\ storage[v] = [alt |-> i, item |-> storage[v].item]
      /\ Content(v) = <<storage[v]>>
  BY <1>2, VariantHereIs
<1>4. /\ src \in Sources /\ src.of = v /\ src.item = storage[v].item
      /\ Leaves(how, v) = <<Read(Begin(f), TraitOf[i], src, v)>> /\ Leaves(how, v) \in Seq(Stored)
  BY <1>2, ReadOfBegin
<1>5. want[w] = Content(v) /\ want[v] = Leaves(how, v)
  BY <1>2
<1>6. want[w] = Single(i, src.item)
  BY <1>3, <1>4, <1>5 DEF Single
<1>7. AssignFrom(Begin(f), w, how) = AssignElem(Begin(f), w, i, src)
  <2>1. Begin(f).index = index
    BY <1>2, BeginIs
  <2>. QED
    BY <1>3, <2>1 DEF AssignFrom
<1> HIDE DEF i, src, want
<1>8. VariantComes(AssignElem(Begin(f), w, i, src), want, Who)
  BY <1>2, <1>3, <1>4, <1>5, <1>6, VariantAssignComes
<1>. QED
  BY <1>1, <1>7, <1>8 DEF want, VariantPromised

\* Two of one type.
LEMMA VariantSwapObjectsComes ==
  ASSUME VariantInv, NEW f \in Nat, index["this"] = index["other"],
         NEW want, \A u \in Who : want[u] = Content(Other(u)),
         NEW strong, \A u \in strong : Nothrow(TraitOf[index["this"]], "move")
  PROVE  VariantComes(SwapObjects(Begin(f), index["this"], TraitOf[index["this"]]), want, strong)
<1> DEFINE o == Begin(f)
           i == index["this"]
           t == TraitOf[i]
           own == o.object["this"].item
           its == o.object["other"].item
           tmp == Source("move", own, "this")
           from == Source("move", its, "other")
           temp == Temporary("move", tmp)
           p == Step(o, t, tmp)
           r == Make(p, "this", i, t, from)
           s == Make(r, "other", i, t, temp)
           q == SwapObjects(o, i, t)
<1>1. q = IF p.threw THEN p ELSE IF r.threw THEN r ELSE s
  BY DEF SwapObjects, Then
<1>2. /\ o \in Running /\ ~o.threw /\ o.index = index /\ o.object = storage
      /\ "this" \in Who /\ "other" \in Who /\ "none" \notin Who
      /\ Other("this") = "other" /\ Other("other") = "this"
      /\ \A u \in Who : u = "this" \/ u = "other"
  BY BeginIs, TwoObjects DEF Who
<1>3. /\ i \in Types /\ index["other"] = i
      /\ storage["this"] \in Stored /\ storage["this"] = [alt |-> i, item |-> own] /\ own \in Item
      /\ storage["other"] \in Stored /\ storage["other"] = [alt |-> i, item |-> its] /\ its \in Item
      /\ want["this"] = <<storage["other"]>> /\ want["other"] = <<storage["this"]>>
  BY <1>2, VariantHereIs
<1>4. /\ tmp \in Sources /\ tmp.how = "move" /\ tmp.of = "this" /\ tmp.item = own
      /\ from \in Sources /\ from.how = "move" /\ from.of = "other" /\ from.item = its
      /\ temp \in Sources /\ temp.how = "move" /\ temp.of = "none" /\ temp.item = own
  BY <1>3 DEF Source, Temporary, Sources, Ways, Who
<1>5. Kept(t, own) \in Item /\ Kept(t, its) \in Item
  BY <1>3, KeptIsItem
<1>6. \A u \in Who : index[u] = i
  BY <1>2, <1>3
<1> HIDE DEF o, tmp, from, temp, i, t
<1>7. /\ p \in Running /\ p.index = index
      /\ p.threw => p.object = storage
      /\ ~p.threw => \A v \in Who : p.object[v] = Read(o, t, tmp, v)
      /\ Nothrow(t, "move") => ~p.threw
  BY ZenonT(60), <1>2, <1>3, <1>4, VariantStepIs DEF Readable
<1>8. ~p.threw => p.object["this"] = [alt |-> i, item |-> Kept(t, own)] /\ p.object["other"] = storage["other"]
  <2>1. storage["this"].alt = i /\ storage["this"].item = own
    BY <1>3
  <2>. QED
    BY <1>2, <1>4, <1>7, <2>1 DEF Read
<1> HIDE DEF p
<1>9. ASSUME ~p.threw
      PROVE  /\ r \in Running /\ r.index = index
             /\ r.threw => r.object = p.object
             /\ ~r.threw => /\ r.object["this"] = storage["other"]
                            /\ r.object["other"] = [alt |-> i, item |-> Kept(t, its)]
             /\ Nothrow(t, "move") => ~r.threw
  <2>1. Readable(p, from)
    BY <1>3, <1>4, <1>8, <1>9 DEF Readable
  <2>2. /\ r \in Running /\ r.index = p.index
        /\ r.threw => r.object = p.object
        /\ ~r.threw => Arrived(p, r, "this", i, t, from)
        /\ Nothrow(t, from.how) => ~r.threw
    BY <1>2, <1>3, <1>4, <1>7, <1>9, <2>1, VariantMakeIs
  <2>3. Read(p, t, from, "other") = [alt |-> i, item |-> Kept(t, its)]
    <3>1. p.object["other"].alt = i /\ p.object["other"].item = its
      BY <1>3, <1>8, <1>9
    <3>. QED
      BY <1>4, <3>1 DEF Read
  <2> HIDE DEF r
  <2>. QED
    BY <1>2, <1>3, <1>4, <1>7, <2>2, <2>3 DEF Arrived
<1> HIDE DEF r
<1>10. [alt |-> i, item |-> Kept(t, own)] \in Stored /\ [alt |-> i, item |-> Kept(t, its)] \in Stored
  BY <1>3, <1>5 DEF Stored
<1>11. ASSUME ~p.threw, ~r.threw
       PROVE  /\ s \in Running /\ s.index = index
              /\ s.threw => s.object = r.object
              /\ ~s.threw => s.object["other"] = storage["this"] /\ s.object["this"] = storage["other"]
              /\ Nothrow(t, "move") => ~s.threw
  <2>1. Readable(r, temp)
    BY <1>2, <1>4 DEF Readable
  <2>2. /\ s \in Running /\ s.index = r.index
        /\ s.threw => s.object = r.object
        /\ ~s.threw => Arrived(r, s, "other", i, t, temp)
        /\ Nothrow(t, temp.how) => ~s.threw
    BY <1>2, <1>3, <1>4, <1>9, <1>11, <2>1, VariantMakeIs
  <2>3. Read(r, t, temp, "this") = r.object["this"]
    BY <1>2, <1>4 DEF Read
  <2> HIDE DEF s
  <2>. QED
    BY <1>2, <1>3, <1>4, <1>9, <1>11, <2>2, <2>3 DEF Arrived
<1> HIDE DEF s
<1>12. q \in Running /\ q.index = index /\ q.threw \in BOOLEAN
  BY <1>1, <1>7, <1>9, <1>11 DEF Running
<1>13. \A u \in Who : q.object[u] \in Stored /\ q.object[u].alt = i
  <2>1. /\ storage["this"] \in Stored /\ storage["this"].alt = i
        /\ storage["other"] \in Stored /\ storage["other"].alt = i
        /\ [alt |-> i, item |-> Kept(t, own)].alt = i /\ [alt |-> i, item |-> Kept(t, its)].alt = i
    BY <1>3
  <2>2. CASE p.threw
    BY <1>1, <1>2, <1>7, <2>1, <2>2
  <2>3. CASE ~p.threw /\ r.threw
    BY <1>1, <1>2, <1>8, <1>9, <1>10, <2>1, <2>3
  <2>4. CASE ~p.threw /\ ~r.threw
    BY <1>1, <1>2, <1>9, <1>10, <1>11, <2>1, <2>4
  <2>. QED
    BY <2>2, <2>3, <2>4
<1>14. \A u \in Who : want[u] \in Seq(Stored)
  BY <1>2, <1>3, OneIsSeq
<1>15. ~q.threw => \A u \in Who : want[u] = <<q.object[u]>>
  BY <1>1, <1>2, <1>3, <1>11
<1>16. \A u \in strong : ~q.threw
  <2>1. Nothrow(t, "move") => ~q.threw
    BY <1>1, <1>7, <1>9, <1>11
  <2>. QED
    BY <2>1 DEF t, i
<1> HIDE DEF q
<1>17. \A u \in Who : Settled(q, u, want, strong)
  BY <1>6, <1>12, <1>13, <1>14, <1>15, <1>16, StoredSettles
<1>18. VariantComes(q, want, strong)
  BY <1>12, <1>17, VariantEachComes
<1>. QED
  BY <1>18 DEF q, o, t, i

\* Two of different types: the last two steps may throw with one object gone.
LEMMA SwapDifferentComes ==
  ASSUME VariantInv, NEW f \in Nat,
         NEW want, \A u \in Who : want[u] = Content(Other(u)),
         NEW strong, \A u \in strong : Nothrow(TraitOf[index["this"]], "move")
  PROVE  VariantComes(SwapDifferent(Begin(f), index["this"], index["other"]), want, strong)
<1> DEFINE o == Begin(f)
           i == index["this"]
           j == index["other"]
           own == storage["this"].item
           its == storage["other"].item
           tmp == Operand("move", "this")
           from == Operand("move", "other")
           temp == Temporary("move", tmp)
           p == Step(o, TraitOf[i], tmp)
           d == Destroy(p, "this")
           m == EmplaceNoDtor(d, "this", j, from)
           e == Destroy(m, "other")
           n == EmplaceNoDtor(e, "other", i, temp)
           q == SwapDifferent(o, i, j)
<1>1. q = IF p.threw THEN p ELSE IF m.threw THEN m ELSE n
  BY DEF SwapDifferent, Then
<1>2. /\ o \in Running /\ ~o.threw /\ o.index = index /\ o.object = storage
      /\ "this" \in Who /\ "other" \in Who /\ "none" \notin Who
      /\ Other("this") = "other" /\ Other("other") = "this"
      /\ \A u \in Who : u = "this" \/ u = "other"
  BY BeginIs, TwoObjects DEF Who
<1>3. /\ i \in Types /\ j \in Types
      /\ storage["this"] \in Stored /\ storage["this"] = [alt |-> i, item |-> own] /\ own \in Item
      /\ storage["other"] \in Stored /\ storage["other"] = [alt |-> j, item |-> its] /\ its \in Item
      /\ want["this"] = <<storage["other"]>> /\ want["other"] = <<storage["this"]>>
  BY <1>2, VariantHereIs
<1>4. /\ tmp \in Sources /\ tmp.how = "move" /\ tmp.of = "this" /\ tmp.item = own
      /\ from \in Sources /\ from.how = "move" /\ from.of = "other" /\ from.item = its
      /\ temp \in Sources /\ temp.how = "move" /\ temp.of = "none" /\ temp.item = own
  BY <1>3 DEF Operand, Source, Temporary, Sources, Ways, Who
<1> HIDE DEF o, tmp, from, temp
<1>5. /\ p \in Running /\ p.index = index
      /\ p.threw => p.object = storage
      /\ ~p.threw => p.object["other"] = storage["other"]
  <2>1. Readable(o, tmp)
    BY <1>2, <1>3, <1>4 DEF Readable
  <2>2. /\ p \in Running /\ p.index = o.index
        /\ p.threw => p.object = o.object
        /\ ~p.threw => \A v \in Who : p.object[v] = Read(o, TraitOf[i], tmp, v)
    BY <1>2, <1>4, <2>1, VariantStepIs
  <2>3. Read(o, TraitOf[i], tmp, "other") = storage["other"]
    BY <1>2, <1>4 DEF Read
  <2>. QED
    BY <1>2, <2>2, <2>3
<1>6. \A u \in Who : want[u] \in Seq(Stored)
  <2>1. <<storage["this"]>> \in Seq(Stored) /\ <<storage["other"]>> \in Seq(Stored)
    BY <1>3, OneIsSeq
  <2>. QED
    BY <1>2, <1>3, <2>1
<1> HIDE DEF p
<1>7. CASE p.threw
  <2>1. VariantComes(p, want, strong)
    BY <1>5, <1>6, <1>7, UndoneComes
  <2>. QED
    BY <1>1, <1>7, <2>1 DEF o
<1>8. ASSUME ~p.threw
      PROVE  /\ d \in Running /\ d.index = index /\ ~d.threw
             /\ d.object["this"] = Raw /\ d.object["other"] = storage["other"]
  BY <1>2, <1>5, <1>8, VariantDestroyIs
<1> HIDE DEF d
<1>9. ASSUME ~p.threw
      PROVE  /\ m \in Running
             /\ m.threw => Spared(d, m, "this", j) /\ m.object = d.object
             /\ ~m.threw => Indexed(d, m, "this", j) /\ Arrived(d, m, "this", j, TraitOf[j], from)
  <2>1. Readable(d, from)
    BY <1>3, <1>4, <1>8, <1>9 DEF Readable
  <2>. QED
    BY <1>2, <1>3, <1>4, <1>8, <1>9, <2>1, EmplaceNoDtorIs
<1>10. CASE ~p.threw /\ m.threw
  <2>1. d.object["other"] = storage["other"] /\ d.object["this"] = Raw
    BY <1>8, <1>10
  <2> HIDE DEF m
  <2>2. m.object["this"] = Raw
    BY <1>9, <1>10, <2>1
  <2>3. VariantComes(m, want, strong)
    BY <1>2, <1>3, <1>6, <1>8, <1>9, <1>10, <2>1, <2>2, ThrownComes
  <2>4. q = m
    BY <1>1, <1>10
  <2>. QED
    BY <2>3, <2>4 DEF o
<1>11. CASE ~p.threw /\ ~m.threw
  <2> HIDE DEF m
  <2>1. m \in Running /\ Indexed(d, m, "this", j) /\ Arrived(d, m, "this", j, TraitOf[j], from)
    BY <1>9, <1>11
  <2>2. /\ m.index["this"] = j /\ m.object["this"] = storage["other"]
        /\ m.index["other"] = j
    BY <1>2, <1>3, <1>4, <1>8, <1>11, <2>1 DEF Indexed, Arrived
  <2>3. /\ e \in Running /\ e.index = m.index /\ ~e.threw /\ e.object["this"] = storage["other"]
        /\ e.object["other"] = Raw
    BY <1>2, <1>11, <2>1, <2>2, VariantDestroyIs
  <2> HIDE DEF e
  <2>4. /\ n \in Running
        /\ n.threw => Spared(e, n, "other", i) /\ n.object = e.object
        /\ ~n.threw => Indexed(e, n, "other", i) /\ Arrived(e, n, "other", i, TraitOf[i], temp)
        /\ Nothrow(TraitOf[i], "move") => ~n.threw
    <3>1. Readable(e, temp)
      BY <1>2, <1>4 DEF Readable
    <3>. QED
      BY <1>2, <1>3, <1>4, <2>3, <3>1, EmplaceNoDtorIs
  <2> HIDE DEF n
  <2>5. n.index["this"] = j /\ n.object["this"] = storage["other"]
    <3>1. Read(e, TraitOf[i], temp, "this") = e.object["this"]
      BY <1>2, <1>4 DEF Read
    <3>. QED
      BY <1>2, <2>2, <2>3, <2>4, <3>1 DEF Indexed, Arrived, Spared
  <2>6. storage["this"].alt = i /\ storage["other"].alt = j
    BY <1>3
  <2>7. n.threw => "this" \notin strong
    BY <2>4 DEF i
  <2>8. Settled(n, "this", want, strong)
    BY <1>2, <1>3, <1>6, <2>5, <2>6, <2>7, StoredSettles
  <2>9. Settled(n, "other", want, strong)
    <3>1. CASE n.threw
      <4>1. n.object["other"] = Raw /\ n.index["other"] \in Types
        BY <1>2, <1>3, <2>2, <2>3, <2>4, <3>1 DEF Spared
      <4>. QED
        BY <1>2, <1>6, <3>1, <4>1 DEF Settled
    <3>2. CASE ~n.threw
      <4>1. n.index["other"] = i /\ n.object["other"] = storage["this"]
        BY <1>3, <1>4, <2>4, <3>2 DEF Indexed, Arrived
      <4>. QED
        BY <1>2, <1>3, <1>6, <2>6, <3>2, <4>1, StoredSettles
    <3>. QED
      BY <3>1, <3>2
  <2>10. VariantComes(n, want, strong)
    BY <1>2, <2>4, <2>8, <2>9, VariantEachComes
  <2>11. q = n
    BY <1>1, <1>11
  <2>. QED
    BY <2>10, <2>11 DEF o
<1>. QED
  BY <1>7, <1>10, <1>11

LEMMA SwapVariantsPromised ==
  ASSUME VariantInv, SwapVariants
  PROVE  VariantPromised
<1> DEFINE want == [v \in Who |-> Content(Other(v))]
           strong == {v \in Who : \A i \in {index[u] : u \in Who} \ {Npos} : Nothrow(TraitOf[i], "move")}
<1>1. PICK f \in Fuel : Finished(SwapImpl(Begin(f)), want, strong)
  BY DEF SwapVariants
<1>2. f \in Nat /\ "this" \in Who /\ "other" \in Who
  BY DEF Fuel, Who
<1>3. \A u \in Who : want[u] = Content(Other(u))
  OBVIOUS
<1>4. Begin(f).index = index /\ index["this"] # Npos /\ index["other"] # Npos
  BY <1>2, BeginIs, VariantHereIs
<1>5. \A u \in strong : Nothrow(TraitOf[index["this"]], "move")
  BY <1>2, <1>4
<1> HIDE DEF want, strong
<1>6. CASE index["this"] = index["other"]
  <2>1. SwapImpl(Begin(f)) = SwapObjects(Begin(f), index["this"], TraitOf[index["this"]])
    BY <1>4, <1>6 DEF SwapImpl
  <2>. QED
    BY <1>1, <1>2, <1>3, <1>5, <1>6, <2>1, VariantSwapObjectsComes DEF VariantPromised
<1>7. CASE index["this"] # index["other"]
  <2>1. SwapImpl(Begin(f)) = SwapDifferent(Begin(f), index["this"], index["other"])
    BY <1>4, <1>7 DEF SwapImpl
  <2>. QED
    BY <1>1, <1>2, <1>3, <1>5, <2>1, SwapDifferentComes DEF VariantPromised
<1>. QED
  BY <1>6, <1>7

\* Nothing is left of a constructor that throws.
LEMMA CreateVariantPromised ==
  ASSUME VariantInv, CreateVariant
  PROVE  VariantPromised
<1>1. PICK f \in Fuel, w \in Who, how \in {"args", "copy", "move"}, i \in Types, x \in Value :
        LET v == Other(w)
            o == Destroy(Begin(f), w)
            new == CASE how = "args" -> DoEmplace(o, w, i, Argument(x))
                     [] how # "args" /\ index[v] = Npos -> [o EXCEPT !.index[w] = Npos]
                     [] OTHER -> EmplaceNoDtor(o, w, index[v], Operand(how, v))
        IN  /\ ~new.threw
            /\ Finished(new, [u \in Who |-> CASE u = w /\ how = "args" -> Single(i, x)
                                              [] u = w /\ how # "args" -> Content(v)
                                              [] OTHER -> Leaves(how, v)], {})
  BY DEF CreateVariant
<1> DEFINE v == Other(w)
           o == Destroy(Begin(f), w)
           new == CASE how = "args" -> DoEmplace(o, w, i, Argument(x))
                    [] how # "args" /\ index[v] = Npos -> [o EXCEPT !.index[w] = Npos]
                    [] OTHER -> EmplaceNoDtor(o, w, index[v], Operand(how, v))
           want == [u \in Who |-> CASE u = w /\ how = "args" -> Single(i, x)
                                    [] u = w /\ how # "args" -> Content(v)
                                    [] OTHER -> Leaves(how, v)]
<1>2. ~new.threw /\ Finished(new, want, {})
  BY <1>1
<1>3. f \in Nat /\ v \in Who /\ v # w /\ "none" \notin Who
  BY TwoObjects DEF Fuel, Who
<1>4. o \in Running /\ ~o.threw /\ o.index = index /\ o.object[v] = storage[v]
  BY <1>3, BeginIs, VariantDestroyIs
<1>5. /\ index[v] \in Types /\ index[v] # Npos /\ storage[v] \in Stored
      /\ storage[v] = [alt |-> index[v], item |-> storage[v].item] /\ Content(v) = <<storage[v]>>
  BY <1>3, VariantHereIs
<1>6. want[v] = Leaves(how, v) /\ want[w] = IF how = "args" THEN Single(i, x) ELSE Content(v)
  BY <1>3
<1> HIDE DEF o, want
<1>7. CASE how = "args"
  <2> DEFINE src == Argument(x)
  <2>1. src \in Sources /\ src.how = "args" /\ src.of = "none" /\ src.item = x
    BY DEF Argument, Source, Sources, Ways, Item
  <2>2. new = DoEmplace(o, w, i, src)
    BY <1>7
  <2> HIDE DEF src, new
  <2>3. new \in Running /\ Indexed(o, new, w, i) /\ Arrived(o, new, w, i, TraitOf[i], src)
    <3>1. Readable(o, src)
      BY <2>1 DEF Readable
    <3>. QED
      BY <1>2, <1>4, <2>1, <2>2, <3>1, DoEmplaceIs
  <2>4. want[w] = Single(i, src.item) /\ want[v] = <<Read(o, TraitOf[i], src, v)>>
    <3>1. Leaves(how, v) = Content(v)
      BY <1>5, <1>7 DEF Leaves, VariantInv, VariantAssumption
    <3>. QED
      BY <1>4, <1>5, <1>6, <1>7, <2>1, <3>1 DEF Read
  <2>5. VariantComes(new, want, {})
    BY <1>2, <1>4, <2>1, <2>3, <2>4, ArrivedComes
  <2>. QED
    BY <1>2, <2>5 DEF VariantPromised
<1>8. CASE how \in {"copy", "move"}
  <2> DEFINE src == Operand(how, v)
             j == index[v]
  <2>1. /\ src \in Sources /\ src.of = v /\ src.item = storage[v].item
        /\ Leaves(how, v) = <<Read(Begin(f), TraitOf[j], src, v)>>
    BY <1>3, <1>8, ReadOfBegin
  <2>2. new = EmplaceNoDtor(o, w, j, src)
    BY <1>5, <1>8
  <2> HIDE DEF src, new
  <2>3. new \in Running /\ Indexed(o, new, w, j) /\ Arrived(o, new, w, j, TraitOf[j], src)
    <3>1. Readable(o, src)
      BY <1>4, <1>5, <2>1 DEF Readable
    <3>. QED
      BY <1>2, <1>4, <1>5, <2>1, <2>2, <3>1, EmplaceNoDtorIs
  <2>4. want[w] = Single(j, src.item) /\ want[v] = <<Read(o, TraitOf[j], src, v)>>
    <3>1. Read(Begin(f), TraitOf[j], src, v) = Read(o, TraitOf[j], src, v)
      BY <1>3, <1>4, BeginIs DEF Read
    <3>. QED
      BY <1>5, <1>6, <1>8, <2>1, <3>1 DEF Single
  <2>5. VariantComes(new, want, {})
    BY <1>2, <1>4, <1>5, <2>1, <2>3, <2>4, ArrivedComes
  <2>. QED
    BY <1>2, <2>5 DEF VariantPromised
<1>. QED
  BY <1>7, <1>8

LEMMA VariantStepPromised ==
  ASSUME VariantInv, VariantNext, lost = {}
  PROVE  VariantPromised
BY EmplaceArgsPromised, AssignElementPromised, AssignVariantPromised, SwapVariantsPromised,
   CreateVariantPromised DEF VariantNext, StayLost

-----------------------------------------------------------------------------
(* The theorems about variant. *)

LEMMA TypesAreNotNpos ==
  ASSUME VariantAssumption
  PROVE  Npos \notin Types /\ 1 \in Types
<1>1. TraitOf \in Seq(Trait \ {"void"}) /\ TraitOf # <<>>
  BY DEF VariantAssumption
<1> HIDE DEF VariantAssumption
<1>2. Types = 1..Len(TraitOf) /\ Len(TraitOf) # 0 /\ Len(TraitOf) \in Nat
  BY <1>1, EmptySeq DEF Types
<1>. QED
  BY <1>2 DEF Npos

LEMMA VariantInitInv == VariantAssumption /\ VariantInit => VariantInv /\ lost = {}
<1>. SUFFICES ASSUME VariantAssumption, VariantInit PROVE VariantInv /\ lost = {}
  OBVIOUS
<1>1. /\ index = [w \in Who |-> 1]
      /\ storage \in [Who -> [alt : {1}, item : Value]]
  BY DEF VariantInit
<1>2. 1 \in Types
  <2>1. TraitOf \in Seq(Trait \ {"void"}) /\ TraitOf # <<>>
    BY DEF VariantAssumption
  <2> HIDE DEF VariantAssumption
  <2>2. Types = 1..Len(TraitOf) /\ Len(TraitOf) # 0 /\ Len(TraitOf) \in Nat
    BY <2>1, EmptySeq DEF Types
  <2>. QED
    BY <2>2
<1>3. ASSUME NEW w \in Who
      PROVE  storage[w] \in Stored /\ storage[w].alt = 1
  <2>1. storage[w] \in [alt : {1}, item : Value]
    BY <1>1
  <2>. QED
    BY <1>2, <2>1 DEF Stored, Item
<1>4. storage \in [Who -> Stored]
  BY <1>1, <1>3
<1>5. index \in [Who -> Types] /\ \A w \in Who : index[w] = 1
  BY <1>1, <1>2
<1>. QED
  BY <1>3, <1>4, <1>5 DEF VariantInit, VariantInv, VariantTypeOK, Named

LEMMA SafeIsInv ==
  ASSUME VariantSafe
  PROVE  lost = {} => VariantInv
<1>1. ASSUME lost = {}
      PROVE  VariantInv
  <2>1. \A w \in Who : storage[w] \in Stored /\ storage[w].alt = index[w]
    BY <1>1 DEF VariantSafe
  <2>2. storage \in [Who -> Stored \cup {Raw}] /\ index \in [Who -> Types] /\ VariantAssumption
    BY DEF VariantSafe
  <2>3. storage \in [Who -> Stored]
    BY <2>1, <2>2
  <2>. QED
    BY <2>1, <2>2, <2>3 DEF VariantInv, VariantTypeOK, Named
<1>. QED
  BY <1>1

LEMMA InvIsSafe ==
  ASSUME VariantInv, lost = {}
  PROVE  VariantSafe
BY DEF VariantInv, VariantTypeOK, Named, VariantSafe

\* The variants that lose their object are those a call leaves without.
LEMMA LostAre ==
  ASSUME VariantInv, NEW q, NEW want, NEW strong, Finished(q, want, strong)
  PROVE  lost' = {w \in Who : q.threw /\ q.object[w] = Raw}
<1>1. \A w \in Who : Disturbed(q, w)
  BY VariantHereIs DEF Disturbed
<1>2. lost' = {w \in Who : q.threw /\ q.object[w] = Raw /\ Disturbed(q, w)}
  BY DEF Finished
<1>. QED
  BY <1>1, <1>2

LEMMA VariantPromisedSafe ==
  ASSUME VariantInv, VariantPromised
  PROVE  VariantSafe'
<1>1. PICK q, want, strong : VariantComes(q, want, strong) /\ Finished(q, want, strong)
  BY DEF VariantPromised
<1>2. index' = q.index /\ storage' = q.object
  BY <1>1 DEF Finished
<1>3. lost' = {w \in Who : q.threw /\ q.object[w] = Raw}
  BY <1>1, LostAre
<1>4. /\ q.index \in [Who -> Types] /\ q.object \in [Who -> Stored \cup {Raw}]
      /\ \A w \in Who : Settled(q, w, want, strong)
  BY <1>1 DEF VariantComes
<1>5. Raw \notin Stored /\ VariantAssumption
  BY DEF VariantInv, VariantAssumption
<1>6. \A w \in Who : IF w \in lost' THEN storage'[w] = Raw
                     ELSE storage'[w] \in Stored /\ storage'[w].alt = index'[w]
  BY <1>2, <1>3, <1>4 DEF Settled
<1>7. lost' \subseteq Who
  BY <1>3
<1>8. Types' = Types /\ Stored' = Stored /\ (VariantAssumption => VariantAssumption')
  BY DEF VariantAssumption, ThrowingAssumption, Stored, Types, Item
<1>. QED
  BY <1>2, <1>4, <1>5, <1>6, <1>7, <1>8 DEF VariantSafe

LEMMA VariantSpliceAll ==
  ASSUME NEW S, NEW s, Len(s) = 1, NEW t \in Seq(S)
  PROVE  ThisVariant!Splice(s, 0, 1, t) = t /\ ThatVariant!Splice(s, 0, 1, t) = t
<1>1. SubSeq(s, 1, 0) = <<>> /\ SubSeq(s, 0 + 1 + 1, Len(s)) = <<>>
  BY SubSeqEmpty
<1>2. <<>> \o t = t /\ t \o <<>> = t
  BY ConcatEmptySeq
<1>. QED
  BY <1>1, <1>2 DEF ThisVariant!Splice, ThatVariant!Splice

\* Each step is a call that returns or throws as Container promises, on each that has
\* an object.
LEMMA VariantPromisedCalls ==
  ASSUME VariantInv, VariantPromised
  PROVE  /\ "this" \in lost' \/ ThisVariant!Next
         /\ "other" \in lost' \/ ThatVariant!Next
<1>1. PICK q, want, strong : VariantComes(q, want, strong) /\ Finished(q, want, strong)
  BY DEF VariantPromised
<1> DEFINE Called(w) == [at |-> 0, cut |-> 1, put |-> want[w], strong |-> w \in strong, threw |-> q.threw]
<1>2. storage' = q.object /\ lastCall' = [w \in Who |-> Called(w)]
  <2>1. \A w \in Who : Len(Content(w)) = 1
    <3>1. ASSUME NEW w \in Who PROVE Len(Content(w)) = 1
      <4>1. Content(w) = <<storage[w]>>
        BY VariantHereIs
      <4>. QED
        BY <4>1
    <3>. QED
      BY <3>1
  <2>. QED
    BY <1>1, <2>1 DEF Finished
<1>3. "this" \in Who /\ "other" \in Who
  BY DEF Who
<1>0. lost' = {w \in Who : q.threw /\ q.object[w] = Raw}
  BY <1>1, LostAre
<1>4. ASSUME NEW w \in Who, w \notin lost'
      PROVE  /\ lastCall'[w] = Called(w)
             /\ q.threw \in BOOLEAN /\ want[w] \in Seq(Stored)
             /\ q.object[w] \in Stored
             /\ Content(w)' = <<q.object[w]>>
             /\ Content(w) = <<storage[w]>>
             /\ IF q.threw THEN w \in strong => q.object[w] = storage[w] ELSE want[w] = <<q.object[w]>>
             /\ ~q.threw => ThisVariant!Splice(Content(w), 0, 1, want[w]) = <<q.object[w]>>
                              /\ ThatVariant!Splice(Content(w), 0, 1, want[w]) = <<q.object[w]>>
  <2>1. /\ q.object[w] \in Stored /\ q.threw \in BOOLEAN /\ want[w] \in Seq(Stored)
        /\ IF q.threw THEN w \in strong => q.object[w] = storage[w] ELSE want[w] = <<q.object[w]>>
    BY <1>0, <1>1, <1>4 DEF VariantComes, Settled
  <2>2. Content(w)' = <<q.object[w]>>
    BY <1>2, <2>1 DEF Content, VariantInv, VariantAssumption
  <2>3. Content(w) = <<storage[w]>>
    BY VariantHereIs
  <2>4. ThisVariant!Splice(<<storage[w]>>, 0, 1, want[w]) = want[w] /\ ThatVariant!Splice(<<storage[w]>>, 0, 1, want[w]) = want[w]
    <3>1. Len(<<storage[w]>>) = 1
      OBVIOUS
    <3> DEFINE put == want[w]
               was == <<storage[w]>>
    <3>2. put \in Seq(Stored) /\ Len(was) = 1
      BY <2>1, <3>1
    <3> HIDE DEF put, was
    <3>3. ThisVariant!Splice(was, 0, 1, put) = put /\ ThatVariant!Splice(was, 0, 1, put) = put
      BY <3>2, VariantSpliceAll
    <3>. QED
      BY <3>3 DEF put, was
  <2>. QED
    BY <1>2, <2>1, <2>2, <2>3, <2>4
<1> HIDE DEF Called
<1>5. ASSUME NEW w \in Who, w \notin lost'
      PROVE  /\ Called(w).at = 0 /\ Called(w).cut = 1 /\ Called(w).put = want[w]
             /\ Called(w).strong = (w \in strong) /\ Called(w).threw = q.threw
             /\ Called(w) \in ThisVariant!Call /\ Called(w) \in ThatVariant!Call
  <2> DEFINE keeps == w \in strong
             put == want[w]
  <2>1. Called(w) = [at |-> 0, cut |-> 1, put |-> put, strong |-> keeps, threw |-> q.threw]
    BY DEF Called
  <2>2. keeps \in BOOLEAN /\ q.threw \in BOOLEAN /\ put \in Seq(Stored)
    BY <1>4, <1>5
  <2>3. Called(w).strong = keeps
    BY <2>1
  <2> HIDE DEF keeps, put
  <2>4. Called(w) \in ThisVariant!Call /\ Called(w) \in ThatVariant!Call
    BY <2>1, <2>2 DEF ThisVariant!Call, ThatVariant!Call
  <2>5. /\ Called(w).at = 0 /\ Called(w).cut = 1 /\ Called(w).put = put
        /\ Called(w).threw = q.threw
    BY <2>1
  <2>. QED
    BY <2>3, <2>4, <2>5 DEF keeps, put
<1>6. ASSUME "this" \notin lost'
      PROVE  ThisVariant!Next
  <2>1. lastCall'["this"] \in ThisVariant!Call
    BY <1>3, <1>4, <1>6, <1>5
  <2>2. CASE q.threw
    <3>1. lastCall'["this"].threw /\ (lastCall'["this"].strong => "this" \in strong)
      BY <1>3, <1>4, <1>6, <1>5, <2>2
    <3>2. /\ Content("this")' = <<q.object["this"]>> /\ q.object["this"] \in Stored
          /\ Content("this") = <<storage["this"]>>
          /\ "this" \in strong => q.object["this"] = storage["this"]
      BY <1>3, <1>4, <1>6, <2>2
    <3>3. ThisVariant!Throw
      <4>1. Content("this")' \in Seq(Stored)
        <5>1. \A x \in Stored : <<x>> \in Seq(Stored)
          OBVIOUS
        <5>. QED
          BY <3>2, <5>1, Zenon
      <4>2. lastCall'["this"].strong => Content("this")' = Content("this")
        BY <3>1, <3>2
      <4>. QED
        BY <3>1, <4>1, <4>2 DEF ThisVariant!Throw
    <3>. QED
      BY <2>1, <3>3 DEF ThisVariant!Next
  <2>3. CASE ~q.threw
    BY <1>3, <1>4, <1>6, <1>5, <2>1, <2>3 DEF ThisVariant!Next, ThisVariant!Return
  <2>. QED
    BY <2>2, <2>3
<1>7. ASSUME "other" \notin lost'
      PROVE  ThatVariant!Next
  <2>1. lastCall'["other"] \in ThatVariant!Call
    BY <1>3, <1>4, <1>7, <1>5
  <2>2. CASE q.threw
    <3>1. lastCall'["other"].threw /\ (lastCall'["other"].strong => "other" \in strong)
      BY <1>3, <1>4, <1>7, <1>5, <2>2
    <3>2. /\ Content("other")' = <<q.object["other"]>> /\ q.object["other"] \in Stored
          /\ Content("other") = <<storage["other"]>>
          /\ "other" \in strong => q.object["other"] = storage["other"]
      BY <1>3, <1>4, <1>7, <2>2
    <3>3. ThatVariant!Throw
      <4>1. Content("other")' \in Seq(Stored)
        <5>1. \A x \in Stored : <<x>> \in Seq(Stored)
          OBVIOUS
        <5>. QED
          BY <3>2, <5>1, Zenon
      <4>2. lastCall'["other"].strong => Content("other")' = Content("other")
        BY <3>1, <3>2
      <4>. QED
        BY <3>1, <4>1, <4>2 DEF ThatVariant!Throw
    <3>. QED
      BY <2>1, <3>3 DEF ThatVariant!Next
  <2>3. CASE ~q.threw
    BY <1>3, <1>4, <1>7, <1>5, <2>1, <2>3 DEF ThatVariant!Next, ThatVariant!Return
  <2>. QED
    BY <2>2, <2>3
<1>. QED
  BY <1>6, <1>7

\* Whatever is called on two variants of any types, and wherever a constructor
\* throws, each has an object of the type its index names, but one whose object was
\* destroyed in the call that threw (plg::variant, emplace_impl).
THEOREM VariantIsSafe == VariantAssumption /\ VariantSpec => []VariantSafe
<1>1. VariantAssumption /\ VariantInit => VariantSafe
  BY VariantInitInv, InvIsSafe
<1>2. VariantSafe /\ [VariantNext]_variantVars => VariantSafe'
  <2>1. ASSUME VariantSafe, VariantNext, lost = {}
        PROVE  VariantSafe'
    BY <2>1, SafeIsInv, VariantStepPromised, VariantPromisedSafe
  <2>2. ASSUME VariantSafe, UNCHANGED variantVars
        PROVE  VariantSafe'
    BY <2>2 DEF variantVars, VariantSafe, VariantAssumption, ThrowingAssumption, Stored, Types, Item
  <2>3. ASSUME VariantNext, lost # {}
        PROVE  UNCHANGED variantVars
    BY <2>3 DEF VariantNext, StayLost
  <2>. QED
    BY <2>1, <2>2, <2>3
<1>. QED
  BY <1>1, <1>2, PTL DEF VariantSpec

\* index() names the type of the object a variant has; only a variant whose call threw
\* after it had destroyed the object has a type and none (current_, emplace_no_dtor).
THEOREM VariantTellsObject == VariantAssumption /\ VariantSpec => []VariantIndexTellsObject
<1>1. VariantSafe => VariantIndexTellsObject
  <2>. SUFFICES ASSUME VariantSafe, NEW w \in Who
                PROVE  IF w \in lost THEN index[w] # Npos /\ storage[w] = Raw ELSE VariantIsSound(w)
    BY DEF VariantIndexTellsObject
  <2>1. VariantAssumption /\ index[w] \in Types /\ Raw \notin Stored
    BY DEF VariantSafe, VariantAssumption
  <2>2. index[w] # Npos
    BY <2>1, TypesAreNotNpos
  <2>. QED
    BY <2>1, <2>2 DEF VariantSafe, VariantIsSound
<1>. QED
  BY <1>1, VariantIsSafe, PTL

\* Every call on a variant replaces what it has by what the call says, or throws; an
\* assignment that throws has done nothing, nor has a swap whose objects move
\* without a throw, but to a variant whose object it had destroyed (operator=, swap).
THEOREM VariantRefinesContainer == VariantAssumption /\ VariantSpec => VariantIsContainer
<1>1. VariantAssumption /\ VariantInit => ThisVariant!Init /\ ThatVariant!Init
  <2>. SUFFICES ASSUME VariantAssumption, VariantInit
                PROVE  ThisVariant!Init /\ ThatVariant!Init
    OBVIOUS
  <2>1. "this" \in Who /\ "other" \in Who
    BY DEF Who
  <2>2. VariantInv
    BY VariantInitInv
  <2>3. \A w \in Who : Content(w) \in Seq(Stored)
    BY <2>2, VariantHereIs, OneIsSeq
  <2>4. \A w \in Who : lastCall[w] = ThisVariant!NoCall /\ lastCall[w] = ThatVariant!NoCall
    BY DEF VariantInit, ThisVariant!NoCall, ThatVariant!NoCall
  <2>. QED
    BY <2>1, <2>3, <2>4 DEF ThisVariant!Init, ThatVariant!Init
<1>2. VariantSafe /\ [VariantNext]_variantVars
        => /\ [ThisVariant!Next \/ "this" \in lost']_<<Content("this"), lastCall["this"]>>
           /\ [ThatVariant!Next \/ "other" \in lost']_<<Content("other"), lastCall["other"]>>
  <2>1. ASSUME VariantSafe, VariantNext, lost = {}
        PROVE  /\ ThisVariant!Next \/ "this" \in lost'
               /\ ThatVariant!Next \/ "other" \in lost'
    BY <2>1, SafeIsInv, VariantStepPromised, VariantPromisedCalls
  <2>2. ASSUME UNCHANGED variantVars
        PROVE  /\ UNCHANGED <<Content("this"), lastCall["this"]>>
               /\ UNCHANGED <<Content("other"), lastCall["other"]>>
    BY <2>2 DEF variantVars, Content
  <2>3. ASSUME VariantNext, lost # {}
        PROVE  UNCHANGED variantVars
    BY <2>3 DEF VariantNext, StayLost
  <2>. QED
    BY <2>1, <2>2, <2>3
<1>. QED
  BY <1>1, <1>2, VariantIsSafe, PTL DEF VariantSpec, VariantIsContainer

\* However late a constructor throws, the index names a type: current_ is npos only
\* until do_emplace_no_dtor has set it, before the constructor runs, so nothing is
\* left valueless_by_exception.
THEOREM VariantIsNeverValueless == VariantAssumption /\ VariantSpec => [](\A w \in Who : index[w] # Npos)
<1>1. VariantSafe => \A w \in Who : index[w] # Npos
  <2>. SUFFICES ASSUME VariantSafe, NEW w \in Who
                PROVE  index[w] # Npos
    OBVIOUS
  <2>1. VariantAssumption /\ index[w] \in Types
    BY DEF VariantSafe
  <2>. QED
    BY <2>1, TypesAreNotNpos
<1>. QED
  BY <1>1, VariantIsSafe, PTL

-----------------------------------------------------------------------------
(* The tree of unions. *)

\* Where Below leads in n steps.
Walked(x, n) ==
  LET place[k \in 0..n] == IF k = 0 THEN x ELSE Below(place[k - 1])
  IN  place[n]

\* g is the way there.
IsWay(g, x, n) == g = [k \in 0..n |-> IF k = 0 THEN x ELSE Below(g[k - 1])]

LEMMA WayExists ==
  ASSUME NEW x, NEW n \in Nat
  PROVE  \E g : IsWay(g, x, n)
<1> DEFINE S == {m \in Nat : \E g : IsWay(g, x, m)}
<1>1. 0 \in S
  <2> DEFINE g == [k \in 0..0 |-> x]
  <2>1. g = [k \in 0..0 |-> IF k = 0 THEN x ELSE Below(g[k - 1])]
    OBVIOUS
  <2>2. IsWay(g, x, 0)
    BY <2>1 DEF IsWay
  <2> HIDE DEF g
  <2> QED
    BY <2>2
<1>2. ASSUME NEW m \in S \cap Nat PROVE m + 1 \in S
  <2>1. PICK g : IsWay(g, x, m)
    OBVIOUS
  <2>2. \A k \in 0..m : g[k] = IF k = 0 THEN x ELSE Below(g[k - 1])
    BY <2>1 DEF IsWay
  <2> DEFINE h == [k \in 0..(m + 1) |-> IF k = m + 1 THEN Below(g[m]) ELSE g[k]]
  <2>3. ASSUME NEW k \in 0..(m + 1)
        PROVE  h[k] = IF k = 0 THEN x ELSE Below(h[k - 1])
    <3>1. CASE k = m + 1
      <4>1. k # 0 /\ k - 1 = m /\ m \in 0..(m + 1) /\ m # m + 1
        BY <3>1
      <4>2. h[k] = Below(g[m]) /\ h[m] = g[m]
        BY <3>1, <4>1
      <4> QED
        BY <4>1, <4>2
    <3>2. CASE k # m + 1
      <4>1. k \in 0..m
        BY <3>2
      <4>2. k # 0 => k - 1 \in 0..(m + 1) /\ k - 1 # m + 1
        BY <4>1
      <4>3. h[k] = g[k] /\ (k # 0 => h[k - 1] = g[k - 1])
        BY <3>2, <4>2
      <4> QED
        BY <4>1, <4>3, <2>2
    <3> QED
      BY <3>1, <3>2
  <2>4. h = [k \in 0..(m + 1) |-> h[k]]
    OBVIOUS
  <2> HIDE DEF h
  <2>5. h = [k \in 0..(m + 1) |-> IF k = 0 THEN x ELSE Below(h[k - 1])]
    BY <2>3, <2>4
  <2>6. IsWay(h, x, m + 1)
    BY <2>5 DEF IsWay
  <2> QED
    BY <2>6
<1>3. Nat \subseteq S
  <2> HIDE DEF S
  <2> QED
    BY <1>1, <1>2, Induction
<1> QED
  BY <1>3

LEMMA WalkedIs ==
  ASSUME NEW x, NEW n \in Nat
  PROVE  \E g : IsWay(g, x, n) /\ Walked(x, n) = g[n]
<1> DEFINE place == CHOOSE g : g = [k \in 0..n |-> IF k = 0 THEN x ELSE Below(g[k - 1])]
<1>1. \E g : g = [k \in 0..n |-> IF k = 0 THEN x ELSE Below(g[k - 1])]
  BY WayExists DEF IsWay
<1>2. place = [k \in 0..n |-> IF k = 0 THEN x ELSE Below(place[k - 1])]
  BY <1>1
<1>3. Walked(x, n) = place[n]
  BY DEF Walked
<1> HIDE DEF place
<1>4. IsWay(place, x, n)
  BY <1>2 DEF IsWay
<1> QED
  BY <1>3, <1>4

LEMMA WayIs ==
  ASSUME NEW x, NEW n \in Nat, NEW g, IsWay(g, x, n), NEW k \in 0..n
  PROVE  g[k] = Walked(x, k)
<1>1. \A j \in 0..n : g[j] = IF j = 0 THEN x ELSE Below(g[j - 1])
  BY DEF IsWay
<1>2. PICK h : IsWay(h, x, k) /\ Walked(x, k) = h[k]
  BY WalkedIs
<1>3. \A j \in 0..k : h[j] = IF j = 0 THEN x ELSE Below(h[j - 1])
  BY <1>2 DEF IsWay
<1> DEFINE S == {j \in Nat : j <= k => g[j] = h[j]}
<1>4. 0 \in S
  BY <1>1, <1>3
<1>5. ASSUME NEW j \in S \cap Nat PROVE j + 1 \in S
  <2>1. CASE j + 1 <= k
    <3>1. j + 1 \in 0..n /\ j + 1 \in 0..k /\ j + 1 # 0 /\ (j + 1) - 1 = j /\ j <= k
      BY <2>1
    <3>2. g[j + 1] = Below(g[j]) /\ h[j + 1] = Below(h[j])
      BY <3>1, <1>1, <1>3
    <3> QED
      BY <3>1, <3>2
  <2>2. CASE ~(j + 1 <= k)
    BY <2>2
  <2> QED
    BY <2>1, <2>2
<1>6. Nat \subseteq S
  <2> HIDE DEF S
  <2> QED
    BY <1>4, <1>5, Induction
<1> QED
  BY <1>2, <1>6

LEMMA WalkOn ==
  ASSUME NEW x, NEW n \in Nat
  PROVE  Walked(x, 0) = x /\ Walked(x, n + 1) = Below(Walked(x, n))
<1>1. Walked(x, 0) = x
  <2> DEFINE none == 0
  <2>1. none \in Nat /\ none \in 0..none
    OBVIOUS
  <2>2. PICK g : IsWay(g, x, none) /\ Walked(x, none) = g[none]
    BY <2>1, WalkedIs
  <2> QED
    BY <2>1, <2>2 DEF IsWay
<1>2. n + 1 \in Nat /\ n \in 0..(n + 1) /\ n + 1 \in 0..(n + 1) /\ n + 1 # 0 /\ (n + 1) - 1 = n
  OBVIOUS
<1>3. PICK g : IsWay(g, x, n + 1) /\ Walked(x, n + 1) = g[n + 1]
  BY <1>2, WalkedIs
<1>4. g[n + 1] = Below(g[n])
  BY <1>2, <1>3 DEF IsWay
<1>5. g[n] = Walked(x, n)
  BY <1>2, <1>3, WayIs
<1> QED
  BY <1>1, <1>3, <1>4, <1>5

\* The first step may be taken before.
LEMMA WalkFromBelow ==
  ASSUME NEW x, NEW n \in Nat
  PROVE  Walked(x, n + 1) = Walked(Below(x), n)
<1> DEFINE S == {k \in Nat : Walked(x, k + 1) = Walked(Below(x), k)}
<1>1. 0 \in S
  <2> DEFINE none == 0
  <2>1. none \in Nat
    OBVIOUS
  <2>2. Walked(x, none + 1) = Below(Walked(x, none)) /\ Walked(x, 0) = x /\ Walked(Below(x), 0) = Below(x)
    BY <2>1, WalkOn
  <2> QED
    BY <2>2
<1>2. ASSUME NEW k \in S \cap Nat PROVE k + 1 \in S
  <2>1. k + 1 \in Nat
    OBVIOUS
  <2>2. Walked(x, (k + 1) + 1) = Below(Walked(x, k + 1))
    BY <2>1, WalkOn
  <2>3. Walked(Below(x), k + 1) = Below(Walked(Below(x), k))
    BY WalkOn
  <2>4. Walked(x, k + 1) = Walked(Below(x), k)
    OBVIOUS
  <2> QED
    BY <2>1, <2>2, <2>3, <2>4
<1>3. Nat \subseteq S
  <2> HIDE DEF S
  <2> QED
    BY <1>1, <1>2, Induction
<1> QED
  BY <1>3

LEMMA WalkEnds ==
  ASSUME NEW x, Below(x) = x, NEW n \in Nat
  PROVE  Walked(x, n) = x
<1> DEFINE S == {k \in Nat : Walked(x, k) = x}
<1>1. 0 \in S
  BY WalkOn
<1>2. ASSUME NEW k \in S \cap Nat PROVE k + 1 \in S
  <2>1. Walked(x, k + 1) = Below(Walked(x, k)) /\ Walked(x, k) = x
    BY WalkOn
  <2> QED
    BY <2>1
<1>3. Nat \subseteq S
  <2> HIDE DEF S
  <2> QED
    BY <1>1, <1>2, Induction
<1> QED
  BY <1>3

\* The type get finds at a place.
Answer(end) == IF end.i = 0 THEN end.node.a ELSE end.node.b

At(node, i) == [node |-> node, i |-> i]

\* A union has the types after the first from of them, and as many steps as it
\* has types, or more, lead to each.
Holds(node, from) ==
  /\ node.size \in Nat \ {0}
  /\ \A i \in 0..(node.size - 1) : \A k \in Nat :
       k + 1 >= node.size => Answer(Walked(At(node, i), k)) = from + i + 1

LEMMA LeafHolds ==
  ASSUME NEW from \in Nat, NEW b, b # Raw => b = from + 2
  PROVE  Holds(Leaf(from + 1, b), from) /\ Leaf(from + 1, b).size = IF b = Raw THEN 1 ELSE 2
<1> DEFINE node == Leaf(from + 1, b)
<1>1. /\ node.leaf = TRUE /\ node.a = from + 1 /\ node.b = b
      /\ node.size = IF b = Raw THEN 1 ELSE 2
  BY DEF Leaf
<1> HIDE DEF node
<1>2. node.size \in Nat \ {0}
  BY <1>1
<1>3. ASSUME NEW i \in 0..(node.size - 1), NEW k \in Nat
      PROVE  Answer(Walked(At(node, i), k)) = from + i + 1
  <2>1. Below(At(node, i)) = At(node, i)
    BY <1>1 DEF Below, At
  <2>2. Walked(At(node, i), k) = At(node, i)
    BY <2>1, WalkEnds
  <2>3. Answer(At(node, i)) = IF i = 0 THEN node.a ELSE node.b
    BY DEF Answer, At
  <2>4. i = 0 \/ (i = 1 /\ b # Raw)
    BY <1>1
  <2>5. i = 0 => from + i + 1 = from + 1
    OBVIOUS
  <2>6. i = 1 => from + i + 1 = from + 2 /\ i # 0
    OBVIOUS
  <2> QED
    BY <1>1, <2>2, <2>3, <2>4, <2>5, <2>6
<1>4. Holds(node, from)
  BY <1>2, <1>3 DEF Holds
<1> QED
  BY <1>1, <1>4 DEF node

LEMMA NodeHolds ==
  ASSUME NEW from \in Nat, NEW a, Holds(a, from), NEW b, Holds(b, from + a.size)
  PROVE  Holds(Node(a, b), from) /\ Node(a, b).size = a.size + b.size
<1> DEFINE node == Node(a, b)
<1>1. node.leaf = FALSE /\ node.a = a /\ node.b = b /\ node.size = a.size + b.size
  BY DEF Node
<1> HIDE DEF node
<1>2. a.size \in Nat \ {0} /\ b.size \in Nat \ {0}
  BY DEF Holds
<1> DEFINE p == a.size
           q == b.size
<1>3. p \in Nat \ {0} /\ q \in Nat \ {0} /\ node.size = p + q
  BY <1>1, <1>2
<1> HIDE DEF p, q
<1>4. ASSUME NEW i \in 0..(p + q - 1), NEW k \in Nat, k + 1 >= p + q
      PROVE  Answer(Walked(At(node, i), k)) = from + i + 1
  <2>1. k - 1 \in Nat /\ (k - 1) + 1 = k
    BY <1>3, <1>4
  <2>2. Walked(At(node, i), k) = Walked(Below(At(node, i)), k - 1)
    <3> DEFINE m == k - 1
    <3>1. m \in Nat /\ m + 1 = k
      BY <2>1
    <3> HIDE DEF m
    <3>2. Walked(At(node, i), m + 1) = Walked(Below(At(node, i)), m)
      BY <3>1, WalkFromBelow
    <3> QED
      BY <3>1, <3>2 DEF m
  <2>3. CASE i < p
    <3>1. Below(At(node, i)) = At(a, i)
      BY <2>3, <1>1 DEF Below, At, p
    <3>2. i \in 0..(p - 1) /\ (k - 1) + 1 >= p
      BY <2>3, <1>3, <1>4
    <3>3. Answer(Walked(At(a, i), k - 1)) = from + i + 1
      BY <3>2, <2>1 DEF Holds, p
    <3> QED
      BY <2>2, <3>1, <3>3
  <2>4. CASE ~(i < p)
    <3>1. Below(At(node, i)) = At(b, i - p)
      BY <2>4, <1>1 DEF Below, At, p
    <3>2. i - p \in 0..(q - 1) /\ (k - 1) + 1 >= q
      BY <2>4, <1>3, <1>4
    <3>3. Answer(Walked(At(b, i - p), k - 1)) = (from + p) + (i - p) + 1
      BY <3>2, <2>1 DEF Holds, p, q
    <3>4. (from + p) + (i - p) + 1 = from + i + 1
      BY <1>3
    <3> QED
      BY <2>2, <3>1, <3>3, <3>4
  <2> QED
    BY <2>3, <2>4
<1>5. Holds(node, from)
  <2>1. node.size \in Nat \ {0}
    BY <1>3
  <2> QED
    BY <2>1, <1>3, <1>4 DEF Holds
<1> QED
  BY <1>1, <1>5 DEF node

\* nodes is a row of m unions that hold n types in their order.
Starts(off, nodes, m, n) ==
  /\ off \in [0..m -> Nat] /\ off[0] = 0 /\ off[m] = n
  /\ \A k \in 1..m : Holds(nodes[k], off[k - 1]) /\ off[k] = off[k - 1] + nodes[k].size
Row(nodes, m, n) ==
  /\ m \in Nat \ {0} /\ Len(nodes) = m
  /\ \E off : Starts(off, nodes, m, n)

LEMMA LengthIs ==
  ASSUME NEW m \in Nat, NEW f, f = [k \in 1..m |-> f[k]]
  PROVE  Len(f) = m
<1> DEFINE S == {f[k] : k \in 1..m}
<1>1. f \in [1..m -> S]
  OBVIOUS
<1> HIDE DEF S
<1> QED
  BY <1>1, FunctionIsSeq

\* Pairs, and one for an odd one.
LEMMA HalfIs ==
  ASSUME NEW m \in Nat \ {0}
  PROVE  LET h == (m + 1) \div 2
         IN  /\ h \in Nat \ {0} /\ (h = 1 \/ h < m)
             /\ (m = 2 * h \/ m = 2 * h - 1)
OBVIOUS

LEMMA FirstRowIs ==
  ASSUME NEW n \in Nat \ {0}, Raw \notin 1..n
  PROVE  Row(FirstPass([k \in 1..n |-> k]), (n + 1) \div 2, n)
<1> DEFINE types == [k \in 1..n |-> k]
           h == (n + 1) \div 2
           b(k) == IF 2 * k <= Len(types) THEN types[2 * k] ELSE Raw
           nodes == [k \in 1..h |-> Leaf(types[2 * k - 1], b(k))]
           off == [k \in 0..h |-> IF k = h THEN n ELSE 2 * k]
<1>1. h \in Nat \ {0} /\ (n = 2 * h \/ n = 2 * h - 1)
  BY HalfIs
<1>2. Len(types) = n
  OBVIOUS
<1>3. FirstPass([k \in 1..n |-> k]) = nodes
  BY <1>2 DEF FirstPass
<1> HIDE DEF h
<1>4. off \in [0..h -> Nat] /\ off[0] = 0 /\ off[h] = n
  BY <1>1
<1>5. ASSUME NEW k \in 1..h
      PROVE  Holds(nodes[k], off[k - 1]) /\ off[k] = off[k - 1] + nodes[k].size
  <2> DEFINE from == 2 * k - 2
             c == b(k)
  <2>1. from \in Nat /\ 2 * k - 1 = from + 1 /\ 2 * k = from + 2 /\ from + 1 \in 1..n
        /\ 2 * (k - 1) = from /\ k - 1 \in 0..h /\ k - 1 # h
    BY <1>1
  <2>2. off[k - 1] = from
    BY <2>1
  <2>3. types[2 * k - 1] = from + 1
    BY <2>1
  <2>4. nodes[k] = Leaf(from + 1, c)
    BY <2>3
  <2>5. CASE 2 * k <= n
    <3>1. from + 2 \in 1..n
      BY <2>1, <2>5
    <3>2. c = from + 2 /\ c # Raw
      BY <3>1, <2>1, <2>5, <1>2
    <3>3. off[k] = from + 2
      BY <2>1, <2>5, <1>1
    <3> HIDE DEF from, c, off, nodes
    <3>4. Holds(Leaf(from + 1, c), from) /\ Leaf(from + 1, c).size = 2
      BY <2>1, <3>2, LeafHolds
    <3> QED
      BY <2>2, <2>4, <3>3, <3>4
  <2>6. CASE ~(2 * k <= n)
    <3>1. c = Raw
      BY <2>6, <1>2
    <3>2. off[k] = from + 1
      BY <2>1, <2>6, <1>1
    <3> HIDE DEF from, c, off, nodes
    <3>4. Holds(Leaf(from + 1, c), from) /\ Leaf(from + 1, c).size = 1
      BY <2>1, <3>1, LeafHolds
    <3> QED
      BY <2>2, <2>4, <3>2, <3>4
  <2> QED
    BY <2>5, <2>6
<1>6. Len(nodes) = h
  <2>1. nodes = [k \in 1..h |-> nodes[k]]
    OBVIOUS
  <2> HIDE DEF nodes
  <2> QED
    BY <2>1, <1>1, LengthIs
<1> HIDE DEF nodes, off
<1>7. Starts(off, nodes, h, n)
  BY <1>4, <1>5 DEF Starts
<1>8. Row(nodes, h, n)
  BY <1>1, <1>6, <1>7 DEF Row
<1> QED
  BY <1>3, <1>8 DEF h

LEMMA NextRowIs ==
  ASSUME NEW m, NEW n \in Nat, NEW nodes, Row(nodes, m, n)
  PROVE  Row(Pass(nodes), (m + 1) \div 2, n)
<1> DEFINE h == (m + 1) \div 2
           next == [k \in 1..h |->
                      IF 2 * k <= m THEN Node(nodes[2 * k - 1], nodes[2 * k]) ELSE nodes[2 * k - 1]]
<1>1. m \in Nat \ {0} /\ Len(nodes) = m
  BY DEF Row
<1>2. PICK off : Starts(off, nodes, m, n)
  BY DEF Row
<1>3. h \in Nat \ {0} /\ (m = 2 * h \/ m = 2 * h - 1)
  BY <1>1, HalfIs
<1>4. Pass(nodes) = next
  BY <1>1 DEF Pass
<1> HIDE DEF h
<1> DEFINE to == [k \in 0..h |-> IF k = h THEN n ELSE off[2 * k]]
<1>5. off \in [0..m -> Nat] /\ off[0] = 0 /\ off[m] = n
  BY <1>2 DEF Starts
<1>6. ASSUME NEW k \in 1..m
      PROVE  Holds(nodes[k], off[k - 1]) /\ off[k] = off[k - 1] + nodes[k].size
  BY <1>2 DEF Starts
<1>7. to \in [0..h -> Nat] /\ to[0] = 0 /\ to[h] = n
  <2>1. ASSUME NEW k \in 0..h PROVE k # h => 2 * k \in 0..m
    BY <1>1, <1>3
  <2>2. 2 * 0 = 0 /\ 0 # h /\ 0 \in 0..h /\ h \in 0..h
    BY <1>3
  <2> QED
    BY <2>1, <2>2, <1>5
<1>8. ASSUME NEW k \in 1..h
      PROVE  Holds(next[k], to[k - 1]) /\ to[k] = to[k - 1] + next[k].size
  <2> DEFINE i == 2 * k - 1
             from == off[i - 1]
  <2>1. i \in 1..m /\ 2 * k = i + 1 /\ 2 * (k - 1) = i - 1 /\ k - 1 \in 0..h /\ k - 1 # h
    BY <1>1, <1>3
  <2>2. to[k - 1] = from
    BY <2>1
  <2>3. from \in Nat /\ Holds(nodes[i], from) /\ off[i] = from + nodes[i].size
    <3>1. i - 1 \in 0..m
      BY <2>1, <1>1
    <3> QED
      BY <3>1, <2>1, <1>5, <1>6
  <2>4. CASE 2 * k <= m
    <3>1. i + 1 \in 1..m /\ (i + 1) - 1 = i
      BY <2>1, <2>4, <1>1
    <3>2. next[k] = Node(nodes[i], nodes[i + 1])
      BY <2>1, <2>4
    <3>3. to[k] = off[i + 1]
      <4>1. to[k] = IF k = h THEN n ELSE off[2 * k]
        BY <1>3
      <4>2. k = h => 2 * k = m
        BY <2>4, <1>1, <1>3
      <4> HIDE DEF to, i
      <4> QED
        BY <4>1, <4>2, <2>1, <1>5
    <3> HIDE DEF i
    <3>4. Holds(nodes[i + 1], off[(i + 1) - 1]) /\ off[i + 1] = off[(i + 1) - 1] + nodes[i + 1].size
      BY <3>1, <1>6
    <3>5. Holds(nodes[i + 1], from + nodes[i].size) /\ off[i + 1] = from + nodes[i].size + nodes[i + 1].size
      BY <3>1, <3>4, <2>3
    <3> HIDE DEF from, to, next
    <3>6. Holds(Node(nodes[i], nodes[i + 1]), from)
          /\ Node(nodes[i], nodes[i + 1]).size = nodes[i].size + nodes[i + 1].size
      BY <3>5, <2>3, NodeHolds
    <3>7. nodes[i].size \in Nat /\ nodes[i + 1].size \in Nat
      BY <2>3, <3>5 DEF Holds
    <3>8. from + nodes[i].size + nodes[i + 1].size = from + (nodes[i].size + nodes[i + 1].size)
      BY <2>3, <3>7
    <3> QED
      BY <2>2, <3>2, <3>3, <3>5, <3>6, <3>8
  <2>5. CASE ~(2 * k <= m)
    <3>1. k = h /\ i = m
      BY <2>1, <2>5, <1>1, <1>3
    <3>2. next[k] = nodes[i] /\ to[k] = n /\ off[i] = n
      BY <2>5, <3>1, <1>5
    <3> QED
      BY <2>2, <2>3, <3>2
  <2> QED
    BY <2>4, <2>5
<1>9. Len(next) = h
  <2>1. next = [k \in 1..h |-> next[k]]
    OBVIOUS
  <2> HIDE DEF next
  <2> QED
    BY <2>1, <1>3, LengthIs
<1> HIDE DEF next, to
<1>10. Starts(to, next, h, n)
  BY <1>7, <1>8 DEF Starts
<1>11. Row(next, h, n)
  BY <1>3, <1>9, <1>10 DEF Row
<1> QED
  BY <1>4, <1>11 DEF h

\* Each pass is made of the row of the last.
ArePasses(row, types, n) ==
  row = [p \in 0..n |-> IF p = 0 THEN FirstPass(types) ELSE Pass(row[p - 1])]

LEMMA PassesExist ==
  ASSUME NEW types, NEW n \in Nat
  PROVE  \E row : ArePasses(row, types, n)
<1> DEFINE S == {m \in Nat : \E row : ArePasses(row, types, m)}
<1>1. 0 \in S
  <2> DEFINE g == [p \in 0..0 |-> FirstPass(types)]
  <2>1. g = [p \in 0..0 |-> IF p = 0 THEN FirstPass(types) ELSE Pass(g[p - 1])]
    OBVIOUS
  <2>2. ArePasses(g, types, 0)
    BY <2>1 DEF ArePasses
  <2> HIDE DEF g
  <2> QED
    BY <2>2
<1>2. ASSUME NEW m \in S \cap Nat PROVE m + 1 \in S
  <2>1. PICK g : ArePasses(g, types, m)
    OBVIOUS
  <2>2. \A p \in 0..m : g[p] = IF p = 0 THEN FirstPass(types) ELSE Pass(g[p - 1])
    BY <2>1 DEF ArePasses
  <2> DEFINE row == [p \in 0..(m + 1) |-> IF p = m + 1 THEN Pass(g[m]) ELSE g[p]]
  <2>3. ASSUME NEW p \in 0..(m + 1)
        PROVE  row[p] = IF p = 0 THEN FirstPass(types) ELSE Pass(row[p - 1])
    <3>1. CASE p = m + 1
      <4>1. p # 0 /\ p - 1 = m /\ m \in 0..(m + 1) /\ m # m + 1
        BY <3>1
      <4>2. row[p] = Pass(g[m]) /\ row[m] = g[m]
        BY <3>1, <4>1
      <4> QED
        BY <4>1, <4>2
    <3>2. CASE p # m + 1
      <4>1. p \in 0..m
        BY <3>2
      <4>2. p # 0 => p - 1 \in 0..(m + 1) /\ p - 1 # m + 1
        BY <4>1
      <4>3. row[p] = g[p] /\ (p # 0 => row[p - 1] = g[p - 1])
        BY <3>2, <4>2
      <4> QED
        BY <4>1, <4>3, <2>2
    <3> QED
      BY <3>1, <3>2
  <2>4. row = [p \in 0..(m + 1) |-> row[p]]
    OBVIOUS
  <2> HIDE DEF row
  <2>5. row = [p \in 0..(m + 1) |-> IF p = 0 THEN FirstPass(types) ELSE Pass(row[p - 1])]
    BY <2>3, <2>4
  <2>6. ArePasses(row, types, m + 1)
    BY <2>5 DEF ArePasses
  <2> QED
    BY <2>6
<1>3. Nat \subseteq S
  <2> HIDE DEF S
  <2> QED
    BY <1>1, <1>2, Induction
<1> QED
  BY <1>3

\* When there are as many passes as types, one union has them all.
LEMMA PassesEnd ==
  ASSUME NEW n \in Nat \ {0}, Raw \notin 1..n,
         NEW row, ArePasses(row, [k \in 1..n |-> k], n)
  PROVE  Row(row[n], 1, n)
<1> DEFINE types == [k \in 1..n |-> k]
           Narrow(m, p) == m = 1 \/ m + p <= n
           S == {p \in Nat : p <= n => \E m : Row(row[p], m, n) /\ Narrow(m, p)}
<1>1. \A p \in 0..n : row[p] = IF p = 0 THEN FirstPass(types) ELSE Pass(row[p - 1])
  BY DEF ArePasses
<1>2. 0 \in S
  <2> DEFINE h == (n + 1) \div 2
  <2>1. Row(FirstPass(types), h, n)
    BY FirstRowIs
  <2>2. Narrow(h, 0)
    <3>1. h \in Nat \ {0} /\ (h = 1 \/ h < n)
      BY HalfIs
    <3> HIDE DEF h
    <3> QED
      BY <3>1
  <2>3. row[0] = FirstPass(types)
    BY <1>1
  <2> HIDE DEF h, types, Narrow
  <2> QED
    BY <2>1, <2>2, <2>3
<1>3. ASSUME NEW p \in S \cap Nat PROVE p + 1 \in S
  <2>1. CASE p + 1 <= n
    <3>1. p <= n /\ p + 1 \in 0..n /\ p + 1 # 0 /\ (p + 1) - 1 = p
      BY <2>1
    <3>2. PICK m : Row(row[p], m, n) /\ Narrow(m, p)
      BY <3>1
    <3>3. row[p + 1] = Pass(row[p])
      BY <3>1, <1>1
    <3> DEFINE h == (m + 1) \div 2
    <3>4. Row(Pass(row[p]), h, n)
      BY <3>2, NextRowIs
    <3>5. m \in Nat \ {0} /\ h \in Nat \ {0} /\ (h = 1 \/ h < m)
      <4>1. m \in Nat \ {0}
        BY <3>2 DEF Row
      <4> QED
        BY <4>1, HalfIs
    <3> HIDE DEF h
    <3>6. Narrow(h, p + 1)
      BY <3>2, <3>5
    <3> HIDE DEF Narrow
    <3> QED
      BY <3>3, <3>4, <3>6
  <2>2. CASE ~(p + 1 <= n)
    BY <2>2
  <2> QED
    BY <2>1, <2>2
<1>4. Nat \subseteq S
  <2> HIDE DEF S
  <2> QED
    BY <1>2, <1>3, Induction
<1>5. PICK m : Row(row[n], m, n) /\ Narrow(m, n)
  BY <1>4
<1>6. m \in Nat \ {0}
  BY <1>5 DEF Row
<1>7. m = 1
  BY <1>5, <1>6
<1> QED
  BY <1>5, <1>7

LEMMA TreeIs ==
  ASSUME NEW n \in Nat \ {0}, Raw \notin 1..n
  PROVE  LET root == Tree([k \in 1..n |-> k])
         IN  Holds(root, 0) /\ root.size = n
<1> DEFINE types == [k \in 1..n |-> k]
           row == CHOOSE g : g = [p \in 0..n |-> IF p = 0 THEN FirstPass(types) ELSE Pass(g[p - 1])]
<1>1. Len(types) = n
  OBVIOUS
<1>2. Tree(types) = row[n][1]
  BY <1>1 DEF Tree
<1>3. ArePasses(row, types, n)
  <2>1. \E g : g = [p \in 0..n |-> IF p = 0 THEN FirstPass(types) ELSE Pass(g[p - 1])]
    BY PassesExist DEF ArePasses
  <2> QED
    BY <2>1 DEF ArePasses
<1> HIDE DEF row
<1>4. Row(row[n], 1, n)
  BY <1>3, PassesEnd
<1> DEFINE one == 1
           nodes == row[n]
<1> HIDE DEF nodes
<1>5. PICK off : Starts(off, nodes, one, n)
  BY <1>4 DEF Row, nodes
<1>6. off[0] = 0 /\ off[one] = n /\ Holds(nodes[one], off[0]) /\ off[one] = off[0] + nodes[one].size
  BY <1>5 DEF Starts
<1>7. Holds(nodes[1], 0) /\ n = 0 + nodes[1].size
  BY <1>6
<1>8. nodes[1].size = n
  BY <1>7 DEF Holds
<1> QED
  BY <1>2, <1>7, <1>8 DEF nodes

LEMMA GetIs ==
  ASSUME NEW node, node.size \in Nat, NEW i
  PROVE  Get(node, i) = Answer(Walked(At(node, i), node.size))
BY DEF Get, Answer, At, Walked

LEMMA OrderIsKept ==
  ASSUME NEW n \in Nat \ {0}, Raw \notin 1..n, NEW i \in 1..n
  PROVE  Get(Tree([k \in 1..n |-> k]), i - 1) = i
<1> DEFINE root == Tree([k \in 1..n |-> k])
<1>1. Holds(root, 0) /\ root.size = n
  BY TreeIs
<1> HIDE DEF root
<1> DEFINE j == i - 1
<1>2. j \in 0..(n - 1) /\ 0 + j + 1 = i /\ n \in Nat /\ n + 1 >= n
  OBVIOUS
<1> HIDE DEF j
<1>3. Get(root, j) = Answer(Walked(At(root, j), n))
  BY <1>1, <1>2, GetIs
<1>4. Answer(Walked(At(root, j), n)) = 0 + j + 1
  BY <1>1, <1>2 DEF Holds
<1> QED
  BY <1>2, <1>3, <1>4 DEF root, j

\* For any number of types, the tree the passes build has them in their order, so
\* that get<i> of a variant ends at the i-th, however deep it lies.
THEOREM TreeKeepsOrder ==
  ASSUME VariantTreeAssumption
  PROVE  VariantSpec => []VariantTreeKeepsOrder
<1>1. ASSUME NEW n \in 1..MaxTypes PROVE KeepsOrder[n]
  <2>1. n \in Nat \ {0} /\ Raw \notin 1..n
    BY DEF VariantTreeAssumption
  <2>2. \A i \in 1..n : Get(Tree([k \in 1..n |-> k]), i - 1) = i
    BY <2>1, OrderIsKept
  <2> QED
    BY <2>2 DEF KeepsOrder
<1>2. VariantSafe => VariantTreeKeepsOrder
  <2> SUFFICES ASSUME VariantSafe, NEW w \in Who, NEW n \in index[w]..MaxTypes PROVE KeepsOrder[n]
    BY DEF VariantTreeKeepsOrder
  <2>1. index[w] \in Nat \ {0}
    <3>1. TraitOf \in Seq(Trait \ {"void"}) /\ index[w] \in DOMAIN TraitOf
      BY DEF VariantSafe, VariantAssumption, Types
    <3> QED
      BY <3>1, SeqIs
  <2>2. n \in 1..MaxTypes
    BY <2>1 DEF VariantTreeAssumption
  <2> QED
    BY <2>2, <1>1
<1>3. VariantAssumption
  BY DEF VariantTreeAssumption
<1> QED
  BY <1>2, <1>3, VariantIsSafe, PTL

=============================================================================
