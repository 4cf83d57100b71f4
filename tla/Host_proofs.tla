------------------------------ MODULE Host_proofs ------------------------------
(***************************************************************************)
(* Proofs about the builder, its host and the merging of configurations,   *)
(* for any configurations, directories and log levels; about the registry  *)
(* of names, for any managers and any bound on their ids; and about the    *)
(* resolution of a manifest, for any well-formed manifests of any size: a  *)
(* name is one definition when it ends, and the search for cycles refuses  *)
(* what it should and nothing else.                                        *)
(***************************************************************************)
EXTENDS Manifest, Registrar, Host, Basics

-----------------------------------------------------------------------------
(* Paths. *)

\* What lexically_normal keeps of a path, name by name.
LEMMA NormalIsRecursive ==
  ASSUME NEW p \in Path
  PROVE  \E kept \in [0..Len(p) -> Path] :
           /\ kept[0] = <<>>
           /\ \A n \in 1..Len(p) :
                kept[n] = IF p[n] = Dot THEN kept[n - 1] ELSE Append(kept[n - 1], p[n])
           /\ Normal(p) = IF p # <<>> /\ kept[Len(p)] = <<>> THEN <<Dot>> ELSE kept[Len(p)]
<1> DEFINE Def(g) == [n \in 0..Len(p) |->
                        IF n = 0 THEN <<>> ELSE IF p[n] = Dot THEN g[n - 1] ELSE Append(g[n - 1], p[n])]
           kept == CHOOSE g : g = Def(g)
           Next1(n, x) == IF n + 1 \in 1..Len(p) /\ p[n + 1] # Dot THEN Append(x, p[n + 1]) ELSE x
           F == [n \in Nat |-> [x \in Path |-> Next1(n, x)]]
<1>1. Len(p) \in Nat /\ \A n \in 1..Len(p) : p[n] \in Text
  BY DEF Path
<1>2. <<>> \in Path
  BY DEF Path
<1>3. ASSUME NEW n \in Nat, NEW x \in Path PROVE Next1(n, x) \in Path
  <2>1. CASE n + 1 \in 1..Len(p) /\ p[n + 1] # Dot
    <3>1. p[n + 1] \in Text
      BY <1>1, <2>1
    <3>2. Append(x, p[n + 1]) \in Seq(Text)
      BY <3>1, AppendProperties DEF Path
    <3> QED
      BY <2>1, <3>2 DEF Path
  <2>2. CASE ~(n + 1 \in 1..Len(p) /\ p[n + 1] # Dot)
    BY <2>2
  <2> QED
    BY <2>1, <2>2
<1>4. F \in [Nat -> [Path -> Path]] /\ \A n \in Nat, x \in Path : F[n][x] = Next1(n, x)
  <2> HIDE DEF Next1
  <2> QED
    BY <1>3
<1>5. PICK f \in [Nat -> Path] : f[0] = <<>> /\ \A n \in Nat : f[n + 1] = F[n][f[n]]
  <2> HIDE DEF F, Def, kept
  <2>1. PICK g : IsRecursive(g, Path, <<>>, F)
    BY <1>2, <1>4, Recursion
  <2> QED
    BY <2>1 DEF IsRecursive
<1>6. \A n \in Nat : f[n + 1] = Next1(n, f[n])
  <2> HIDE DEF F, Next1
  <2> QED
    BY <1>4, <1>5
<1> DEFINE h == [n \in 0..Len(p) |-> f[n]]
<1>7. h \in [0..Len(p) -> Path] /\ h[0] = <<>>
  BY <1>1, <1>5
<1>8. ASSUME NEW n \in 1..Len(p)
      PROVE  h[n] = IF p[n] = Dot THEN h[n - 1] ELSE Append(h[n - 1], p[n])
  <2>1. n - 1 \in Nat /\ (n - 1) + 1 = n /\ n \in 0..Len(p) /\ n - 1 \in 0..Len(p)
    BY <1>1
  <2>2. f[n] = Next1(n - 1, f[n - 1])
    BY <2>1, <1>6
  <2> QED
    BY <2>1, <2>2
<1> HIDE DEF h, F
<1>9. h = Def(h)
  <2>1. ASSUME NEW n \in 0..Len(p)
        PROVE  h[n] = IF n = 0 THEN <<>> ELSE IF p[n] = Dot THEN h[n - 1] ELSE Append(h[n - 1], p[n])
    <3>1. n # 0 => n \in 1..Len(p)
      BY <1>1
    <3> QED
      BY <3>1, <1>7, <1>8
  <2>2. h = [n \in 0..Len(p) |-> h[n]]
    BY <1>7
  <2> QED
    BY <2>1, <2>2
<1> HIDE DEF Def
<1>10. kept = Def(kept)
  BY <1>9
<1> HIDE DEF kept
<1>11. kept = h
  <2> USE DEF Def
  <2> DEFINE S == {n \in Nat : n \in 0..Len(p) => kept[n] = h[n]}
  <2>1. 0 \in S
    BY <1>1, <1>9, <1>10
  <2>2. ASSUME NEW n \in S \cap Nat PROVE n + 1 \in S
    <3>1. n + 1 \in 0..Len(p) => n \in 0..Len(p) /\ (n + 1) - 1 = n /\ n + 1 # 0
      BY <1>1
    <3>2. n + 1 \in 0..Len(p) =>
            /\ kept[n + 1] = IF p[n + 1] = Dot THEN kept[n] ELSE Append(kept[n], p[n + 1])
            /\ h[n + 1] = IF p[n + 1] = Dot THEN h[n] ELSE Append(h[n], p[n + 1])
      BY ZenonT(60), <3>1, <1>9, <1>10
    <3> QED
      BY <3>1, <3>2
  <2>3. Nat \subseteq S
    <3> HIDE DEF S
    <3> QED
      BY <2>1, <2>2, Induction
  <2>4. \A n \in 0..Len(p) : kept[n] = h[n]
    BY <2>3
  <2>5. kept = [n \in 0..Len(p) |-> kept[n]]
    BY <1>10
  <2> QED
    BY <2>4, <2>5, <1>7
<1>12. Normal(p) = IF p # <<>> /\ kept[Len(p)] = <<>> THEN <<Dot>> ELSE kept[Len(p)]
  BY DEF Normal, kept, Def
<1> QED
  BY <1>7, <1>8, <1>11, <1>12

\* What lexically_normal drops from an absolute path leaves its root.
LEMMA NormalKeepsRoot ==
  ASSUME NEW p \in Path, IsAbsolute(p)
  PROVE  Normal(p) \in Path /\ IsAbsolute(Normal(p))
<1>1. Len(p) \in Nat /\ 1 \in 1..Len(p) /\ p[1] = Root /\ \A n \in 1..Len(p) : p[n] \in Text
  BY DEF IsAbsolute, Path
<1>2. PICK kept \in [0..Len(p) -> Path] :
           /\ kept[0] = <<>>
           /\ \A n \in 1..Len(p) :
                kept[n] = IF p[n] = Dot THEN kept[n - 1] ELSE Append(kept[n - 1], p[n])
           /\ Normal(p) = IF p # <<>> /\ kept[Len(p)] = <<>> THEN <<Dot>> ELSE kept[Len(p)]
  BY NormalIsRecursive
<1> DEFINE S == {n \in Nat : n + 1 \in 1..Len(p) => IsAbsolute(kept[n + 1])}
<1>3. 0 \in S
  <2>1. kept[1] = Append(<<>>, Root)
    <3>1. kept[1] = IF p[1] = Dot THEN kept[1 - 1] ELSE Append(kept[1 - 1], p[1])
      BY <1>1, <1>2
    <3>2. 1 - 1 = 0 /\ Root # Dot
      BY DEF Root, Dot
    <3> QED
      BY <3>1, <3>2, <1>1, <1>2
  <2>2. Append(<<>>, Root) # <<>> /\ Append(<<>>, Root)[1] = Root
    OBVIOUS
  <2> QED
    BY <2>1, <2>2 DEF IsAbsolute
<1>4. ASSUME NEW n \in Nat, IsAbsolute(kept[n + 1]), n + 2 \in 1..Len(p)
      PROVE  IsAbsolute(kept[n + 2])
  <2>1. n + 1 \in 0..Len(p) /\ (n + 2) - 1 = n + 1
    BY <1>1, <1>4
  <2>2. kept[n + 2] = IF p[n + 2] = Dot THEN kept[n + 1] ELSE Append(kept[n + 1], p[n + 2])
    BY <2>1, <1>2, <1>4
  <2>3. p[n + 2] \in Text /\ kept[n + 1] \in Path
    BY <2>1, <1>1, <1>2, <1>4
  <2>4. Append(kept[n + 1], p[n + 2]) # <<>> /\ Append(kept[n + 1], p[n + 2])[1] = kept[n + 1][1]
    <3>1. Len(kept[n + 1]) \in Nat /\ 1 \in 1..Len(kept[n + 1])
      BY <2>3, <1>4 DEF Path, IsAbsolute
    <3> QED
      BY <3>1, <2>3, AppendProperties DEF Path
  <2> QED
    BY <2>2, <2>4, <1>4 DEF IsAbsolute
<1>5. ASSUME NEW n \in S \cap Nat PROVE n + 1 \in S
  <2>1. (n + 1) + 1 = n + 2 /\ (n + 2 \in 1..Len(p) => n + 1 \in 1..Len(p))
    BY <1>1
  <2> QED
    BY <2>1, <1>4
<1>6. Nat \subseteq S
  <2> HIDE DEF S
  <2> QED
    BY <1>3, <1>5, Induction
<1>7. IsAbsolute(kept[Len(p)]) /\ kept[Len(p)] \in Path
  <2>1. Len(p) - 1 \in Nat /\ (Len(p) - 1) + 1 = Len(p) /\ Len(p) \in 1..Len(p)
    BY <1>1
  <2>2. Len(p) - 1 \in S
    BY <2>1, <1>6
  <2> QED
    BY <2>1, <2>2, <1>2
<1>8. kept[Len(p)] # <<>>
  BY <1>7 DEF IsAbsolute
<1> QED
  BY <1>2, <1>7, <1>8

LEMMA NameIsPath == \A name \in Text : <<name>> \in Path
  BY DEF Path

LEMMA NormalType ==
  ASSUME ConfigAssumption, NEW p \in Path
  PROVE  Normal(p) \in Path
<1>1. Len(p) \in Nat /\ <<Dot>> \in Path
  <2>1. Dot \in Text
    BY DEF ConfigAssumption
  <2> QED
    BY <2>1, NameIsPath DEF Path
<1>2. PICK kept \in [0..Len(p) -> Path] :
        Normal(p) = IF p # <<>> /\ kept[Len(p)] = <<>> THEN <<Dot>> ELSE kept[Len(p)]
  BY NormalIsRecursive
<1> QED
  BY <1>1, <1>2

LEMMA ResolveType ==
  ASSUME ConfigAssumption, NEW b \in Path, NEW p \in Path
  PROVE  Resolve(b, p) \in Path
<1>1. b \o p \in Path
  BY DEF Path
<1> QED
  BY <1>1, NormalType DEF Resolve

\* What has been taken relative to an absolute directory stays what it is.
LEMMA ResolveTwice ==
  ASSUME NEW b \in Path, IsAbsolute(b), NEW p \in Path, NEW base
  PROVE  Resolve(base, Resolve(b, p)) = Resolve(b, p)
<1>1. CASE p = <<>> \/ IsAbsolute(p)
  BY <1>1 DEF Resolve
<1>2. CASE p # <<>> /\ ~IsAbsolute(p)
  <2>1. b # <<>> /\ Resolve(b, p) = Normal(b \o p)
    BY <1>2 DEF Resolve, IsAbsolute
  <2>2. b \o p \in Path /\ IsAbsolute(b \o p)
    BY <2>1 DEF Path, IsAbsolute
  <2>3. IsAbsolute(Normal(b \o p))
    BY <2>2, NormalKeepsRoot
  <2> QED
    BY <2>1, <2>3 DEF Resolve
<1> QED
  BY <1>1, <1>2

-----------------------------------------------------------------------------
(* Merging. *)

LEMMA FreshType ==
  ASSUME ConfigAssumption
  PROVE  Fresh \in Configuration
<1>1. \A d \in Dir : <<d>> \in Path
  <2>1. Dir \subseteq Text
    BY DEF ConfigAssumption
  <2> QED
    BY <2>1, NameIsPath
<1>2. <<>> \in Path /\ Usual \in Text /\ Default \in Default..Override
  <2>1. <<>> \in Path
    BY DEF Path
  <2>2. Usual \in Text
    BY DEF ConfigAssumption
  <2>3. Default \in Default..Override
    BY DEF Default, Override
  <2> QED
    BY <2>1, <2>2, <2>3
<1>3. \A k \in Names : UsualNames(k) \in SUBSET Text
  <2>1. "disabled" \in Text /\ ".git" \in Text
    BY DEF ConfigAssumption
  <2> QED
    BY <2>1 DEF UsualNames
<1> QED
  BY <1>1, <1>2, <1>3 DEF Fresh, Configuration

\* What a merge takes from the other configuration, part by part.
Merged(m, c, o, s) ==
  /\ m.base = IF s >= c.source["paths"] /\ o.base # <<>> THEN o.base ELSE c.base
  /\ m.dirs = [d \in Dir |-> Resolve(m.base, IF s >= c.source["paths"] /\ HasCustomDir(o, d)
                                             THEN o.dirs[d] ELSE c.dirs[d])]
  /\ m.setting = [f \in Setting |-> IF s >= c.source[GroupOf(f)] /\ HasCustom(o, f)
                                    THEN o.setting[f] ELSE c.setting[f]]
  /\ m.names = [k \in Names |-> IF s >= c.source["security"] /\ HasNames(o, k)
                                THEN IF s = Override THEN o.names[k]
                                     ELSE c.names[k] \cup o.names[k]
                                ELSE c.names[k]]
  /\ m.source = [g \in Group |-> IF s >= c.source[g] /\ Changes(o, g) THEN s ELSE c.source[g]]
  /\ m = [base |-> m.base, dirs |-> m.dirs, setting |-> m.setting,
          names |-> m.names, source |-> m.source]

LEMMA MergeParts ==
  ASSUME NEW c, NEW o, NEW s, NEW m, m = MergeFrom(c, o, s)
  PROVE  Merged(m, c, o, s)
<1> DEFINE raw == [base |-> IF s >= c.source["paths"] /\ o.base # <<>> THEN o.base ELSE c.base,
                   dirs |-> [d \in Dir |-> IF s >= c.source["paths"] /\ HasCustomDir(o, d)
                                           THEN o.dirs[d] ELSE c.dirs[d]],
                   setting |-> [f \in Setting |-> IF s >= c.source[GroupOf(f)] /\ HasCustom(o, f)
                                                  THEN o.setting[f] ELSE c.setting[f]],
                   names |-> [k \in Names |-> IF s >= c.source["security"] /\ HasNames(o, k)
                                              THEN IF s = Override THEN o.names[k]
                                                   ELSE c.names[k] \cup o.names[k]
                                              ELSE c.names[k]],
                   source |-> [g \in Group |-> IF s >= c.source[g] /\ Changes(o, g)
                                               THEN s ELSE c.source[g]]]
           D == [d \in Dir |-> Resolve(raw.base, raw.dirs[d])]
<1>1. m = [raw EXCEPT !.dirs = D]
  BY DEF MergeFrom, ResolveRelativePaths
<1>2. m = [base |-> raw.base, dirs |-> D, setting |-> raw.setting, names |-> raw.names,
           source |-> raw.source]
  BY <1>1
<1>3. /\ m.base = raw.base /\ m.dirs = D /\ m.setting = raw.setting /\ m.names = raw.names
      /\ m.source = raw.source
  <2> HIDE DEF raw, D
  <2> QED
    BY <1>2
<1>4. \A d \in Dir : raw.dirs[d] = IF s >= c.source["paths"] /\ HasCustomDir(o, d)
                                   THEN o.dirs[d] ELSE c.dirs[d]
  OBVIOUS
<1>5. m.dirs = [d \in Dir |-> Resolve(m.base, IF s >= c.source["paths"] /\ HasCustomDir(o, d)
                                             THEN o.dirs[d] ELSE c.dirs[d])]
  <2> HIDE DEF raw
  <2> QED
    BY <1>3, <1>4
<1>6. /\ raw.base = IF s >= c.source["paths"] /\ o.base # <<>> THEN o.base ELSE c.base
      /\ raw.setting = [f \in Setting |-> IF s >= c.source[GroupOf(f)] /\ HasCustom(o, f)
                                          THEN o.setting[f] ELSE c.setting[f]]
      /\ raw.names = [k \in Names |-> IF s >= c.source["security"] /\ HasNames(o, k)
                                      THEN IF s = Override THEN o.names[k]
                                           ELSE c.names[k] \cup o.names[k]
                                      ELSE c.names[k]]
      /\ raw.source = [g \in Group |-> IF s >= c.source[g] /\ Changes(o, g) THEN s ELSE c.source[g]]
  OBVIOUS
<1>7. m = [base |-> m.base, dirs |-> m.dirs, setting |-> m.setting,
           names |-> m.names, source |-> m.source]
  <2> HIDE DEF raw, D
  <2> QED
    BY <1>2, <1>3
<1> HIDE DEF raw
<1> QED
  BY <1>3, <1>5, <1>6, <1>7 DEF Merged

LEMMA MergeType ==
  ASSUME ConfigAssumption, NEW c \in Configuration, NEW o \in Configuration, NEW s \in Default..Override
  PROVE  MergeFrom(c, o, s) \in Configuration
<1> DEFINE m == MergeFrom(c, o, s)
<1>0. Merged(m, c, o, s)
  BY MergeParts
<1> HIDE DEF m
<1>1. /\ c.base \in Path /\ o.base \in Path
      /\ \A d \in Dir : c.dirs[d] \in Path /\ o.dirs[d] \in Path
      /\ \A f \in Setting : c.setting[f] \in Text /\ o.setting[f] \in Text
      /\ \A k \in Names : c.names[k] \in SUBSET Text /\ o.names[k] \in SUBSET Text
      /\ \A g \in Group : c.source[g] \in Default..Override
  BY DEF Configuration
<1>2. m.base \in Path
  BY <1>1, <1>0 DEF Merged
<1>3. m.dirs \in [Dir -> Path]
  BY <1>1, <1>2, <1>0, ResolveType DEF Merged
<1>4. m.setting \in [Setting -> Text]
  BY <1>1, <1>0 DEF Merged
<1>5. m.names \in [Names -> SUBSET Text]
  BY <1>1, <1>0 DEF Merged
<1>6. m.source \in [Group -> Default..Override]
  BY <1>1, <1>0 DEF Merged
<1>7. m \in Configuration
  BY <1>2, <1>3, <1>4, <1>5, <1>6, <1>0 DEF Configuration, Merged
<1> QED
  BY <1>7 DEF m

-----------------------------------------------------------------------------
(* The stages of Build. *)

\* The builder as its operations leave it: only the directories, the base directory
\* and the log level are overridden.
BuilderOK ==
  /\ builder \in [file : Given \cup {NotGiven, Broken}, base : Given \cup {NotGiven},
                  overrides : Configuration, hasPaths : BOOLEAN]
  /\ builder.overrides.names = Fresh.names
  /\ ~builder.hasPaths => builder.overrides.base = <<>>

\* The sources that Build merges.
Merges == <<builder.file, builder.base, IF builder.hasPaths THEN builder.overrides ELSE NotGiven>>
MergedBy == {i \in DOMAIN Merges : Merges[i] # NotGiven}

LEMMA MergesAreGiven ==
  ASSUME HostAssumption, BuilderOK, builder.file # Broken
  PROVE  /\ Merges = <<builder.file, builder.base,
                       IF builder.hasPaths THEN builder.overrides ELSE NotGiven>>
         /\ MergedBy \subseteq 1..3
         /\ \A i \in MergedBy : Merges[i] \in Configuration
         /\ 1 \in MergedBy <=> builder.file # NotGiven
         /\ 2 \in MergedBy <=> builder.base # NotGiven
         /\ 3 \in MergedBy <=> builder.hasPaths
         /\ 3 \in MergedBy => \A k \in Names : Merges[3].names[k] = UsualNames(k)
<1>1. DOMAIN Merges = 1..3
  BY DEF Merges
<1>2. /\ Merges[1] = builder.file /\ Merges[2] = builder.base
      /\ Merges[3] = IF builder.hasPaths THEN builder.overrides ELSE NotGiven
  BY DEF Merges
<1>3. /\ builder.file \in Given \cup {NotGiven} /\ builder.base \in Given \cup {NotGiven}
      /\ builder.overrides \in Configuration /\ builder.hasPaths \in BOOLEAN
  BY DEF BuilderOK
<1>4. NotGiven \notin Configuration /\ Given \subseteq Configuration
  BY DEF HostAssumption
<1>5. \A i \in 1..3 : i = 1 \/ i = 2 \/ i = 3
  OBVIOUS
<1>6. \A k \in Names : builder.overrides.names[k] = UsualNames(k)
  BY DEF BuilderOK, Fresh
<1>7. \A i \in MergedBy : Merges[i] \in Configuration
  BY <1>1, <1>2, <1>3, <1>4, <1>5 DEF MergedBy
<1>8. /\ 1 \in MergedBy <=> builder.file # NotGiven
      /\ 2 \in MergedBy <=> builder.base # NotGiven
  BY <1>1, <1>2 DEF MergedBy
<1>9. 3 \in MergedBy <=> builder.hasPaths
  BY <1>1, <1>2, <1>3, <1>4 DEF MergedBy
<1>10. 3 \in MergedBy => \A k \in Names : Merges[3].names[k] = UsualNames(k)
  BY <1>2, <1>6, <1>9
<1>11. MergedBy \subseteq 1..3
  BY <1>1 DEF MergedBy
<1> QED
  BY <1>7, <1>8, <1>9, <1>10, <1>11 DEF Merges

LEMMA SourcesAre ==
  ASSUME HostAssumption, BuilderOK, builder.file # Broken
  PROVE  /\ GivenBy \subseteq 1..3 /\ MergedBy \subseteq GivenBy
         /\ \A i \in MergedBy : Merges[i] = Sources[i]
         /\ \A i \in GivenBy : Sources[i] \in Configuration
         /\ \A i \in GivenBy \ MergedBy :
              i = Override /\ ~builder.hasPaths /\ Sources[i] = builder.overrides
<1>1. DOMAIN Sources = 1..3 /\ DOMAIN Merges = 1..3
  BY DEF Sources, Merges
<1>2. /\ Sources[1] = builder.file /\ Sources[2] = builder.base /\ Sources[3] = builder.overrides
      /\ Merges[1] = builder.file /\ Merges[2] = builder.base
      /\ Merges[3] = IF builder.hasPaths THEN builder.overrides ELSE NotGiven
  BY DEF Sources, Merges
<1>3. /\ builder.file \in Given \cup {NotGiven} /\ builder.base \in Given \cup {NotGiven}
      /\ builder.overrides \in Configuration /\ builder.hasPaths \in BOOLEAN
  BY DEF BuilderOK
<1>4. NotGiven \notin Configuration /\ Given \subseteq Configuration
  BY DEF HostAssumption
<1>5. \A i \in 1..3 : i = 1 \/ i = 2 \/ i = 3
  OBVIOUS
<1>6. MergedBy \subseteq GivenBy /\ \A i \in MergedBy : Merges[i] = Sources[i]
  BY <1>1, <1>2, <1>3, <1>4, <1>5 DEF MergedBy, GivenBy
<1>7. \A i \in GivenBy : Sources[i] \in Configuration
  BY <1>1, <1>2, <1>3, <1>4, <1>5 DEF GivenBy
<1>8. \A i \in GivenBy \ MergedBy :
        i = Override /\ ~builder.hasPaths /\ Sources[i] = builder.overrides
  BY <1>1, <1>2, <1>3, <1>4, <1>5 DEF MergedBy, GivenBy, Override
<1> QED
  BY <1>1, <1>6, <1>7, <1>8 DEF GivenBy

LEMMA GivenAreTyped ==
  ASSUME HostAssumption, BuilderOK, builder.file # Broken
  PROVE  /\ GivenBases \subseteq Path \ {<<>>}
         /\ \A d \in Dir : GivenPlaces(d) \subseteq Path
         /\ \A i \in MergedBy : Merges[i].base \in GivenBases \cup {<<>>}
         /\ \A i \in MergedBy, d \in Dir : Merges[i].dirs[d] \in GivenPlaces(d)
<1>1. CurrentPath \in Path /\ ConfigAssumption
  BY DEF HostAssumption
<1>2. \A i \in GivenBy : Sources[i].base \in Path /\ \A d \in Dir : Sources[i].dirs[d] \in Path
  BY SourcesAre DEF Configuration
<1>3. \A d \in Dir : <<d>> \in Path
  BY <1>1, NameIsPath DEF ConfigAssumption
<1>4. GivenBases \subseteq Path \ {<<>>}
  BY <1>1, <1>2 DEF GivenBases
<1>5. \A d \in Dir : GivenPlaces(d) \subseteq Path
  BY <1>2, <1>3 DEF GivenPlaces
<1>6. \A i \in GivenBy : Sources[i].base \in GivenBases \cup {<<>>}
  BY DEF GivenBases
<1>7. \A i \in GivenBy, d \in Dir : Sources[i].dirs[d] \in GivenPlaces(d)
  BY DEF GivenPlaces
<1> QED
  BY <1>4, <1>5, <1>6, <1>7, SourcesAre

\* Where a directory may be when the sources up to s have been merged.
After(d, s) ==
  CASE s = 0 -> GivenPlaces(d)
    [] s = 1 -> PerhapsTaken(GivenPlaces(d))
    [] s = 2 -> PerhapsTaken(PerhapsTaken(GivenPlaces(d)))
    [] s = 3 -> PerhapsTaken(PerhapsTaken(PerhapsTaken(GivenPlaces(d))))

LEMMA AfterIs ==
  ASSUME NEW d, NEW s \in 1..3
  PROVE  /\ GivenPlaces(d) \subseteq After(d, s - 1)
         /\ After(d, s - 1) \subseteq After(d, s)
         /\ \A base \in GivenBases \cup {<<>>}, x \in After(d, s - 1) : Resolve(base, x) \in After(d, s)
<1>1. After(d, s) = PerhapsTaken(After(d, s - 1))
  <2>1. s = 1 \/ s = 2 \/ s = 3
    OBVIOUS
  <2> QED
    BY <2>1 DEF After
<1>2. GivenPlaces(d) \subseteq After(d, s - 1)
  <2>1. s - 1 = 0 \/ s - 1 = 1 \/ s - 1 = 2
    OBVIOUS
  <2>2. \A S : S \subseteq PerhapsTaken(S)
    BY DEF PerhapsTaken
  <2>3. After(d, 0) = GivenPlaces(d) /\ After(d, 1) = PerhapsTaken(GivenPlaces(d))
        /\ After(d, 2) = PerhapsTaken(PerhapsTaken(GivenPlaces(d)))
    BY DEF After
  <2>4. /\ GivenPlaces(d) \subseteq After(d, 0) /\ After(d, 0) \subseteq After(d, 1)
        /\ After(d, 1) \subseteq After(d, 2)
    BY <2>2, <2>3
  <2> QED
    BY <2>1, <2>4
<1>3. ASSUME NEW base \in GivenBases \cup {<<>>}, NEW x \in After(d, s - 1)
      PROVE  Resolve(base, x) \in PerhapsTaken(After(d, s - 1))
  <2>1. CASE base = <<>>
    BY <2>1 DEF Resolve, PerhapsTaken
  <2>2. CASE base \in GivenBases
    BY <2>2 DEF Taken, PerhapsTaken
  <2> QED
    BY <2>1, <2>2
<1> QED
  BY <1>1, <1>2, <1>3 DEF PerhapsTaken

\* A directory as it was given, or taken relative to a base directory once.
Placed(x, d) ==
  x \in GivenPlaces(d) \/ \E b \in GivenBases, p \in GivenPlaces(d) : x = Resolve(b, p)

LEMMA ResolvePlaced ==
  ASSUME HostAssumption, BuilderOK, builder.file # Broken,
         \A b \in GivenBases : IsAbsolute(b), NEW d \in Dir, NEW x, Placed(x, d)
  PROVE  /\ \A base \in GivenBases \cup {<<>>} : Placed(Resolve(base, x), d)
         /\ \A base \in GivenBases : \E b \in GivenBases, p \in GivenPlaces(d) :
              Resolve(base, x) = Resolve(b, p)
<1>1. Resolve(<<>>, x) = x
  BY DEF Resolve
<1>2. ASSUME NEW base \in GivenBases
      PROVE  \E b \in GivenBases, p \in GivenPlaces(d) : Resolve(base, x) = Resolve(b, p)
  <2>1. CASE x \in GivenPlaces(d)
    BY <2>1
  <2>2. CASE \E b \in GivenBases, p \in GivenPlaces(d) : x = Resolve(b, p)
    <3>1. PICK b \in GivenBases, p \in GivenPlaces(d) : x = Resolve(b, p)
      BY <2>2
    <3>2. b \in Path /\ IsAbsolute(b) /\ p \in Path
      BY GivenAreTyped
    <3>3. Resolve(base, x) = Resolve(b, p)
      BY <3>1, <3>2, ResolveTwice
    <3> QED
      BY <3>3
  <2> QED
    BY <2>1, <2>2 DEF Placed
<1> QED
  BY <1>1, <1>2 DEF Placed

-----------------------------------------------------------------------------
(* Those that set something, among the sources merged so far. *)

Setters(f, s) == {i \in MergedBy : i <= s /\ HasCustom(Merges[i], f)}
BaseSetters(s) == {i \in MergedBy : i <= s /\ Merges[i].base # <<>>}

LEMMA MaxOfNone == Max({Default} \cup {}) = Default
  BY DEF Max, Default

LEMMA MaxOfLast ==
  ASSUME NEW X, NEW s \in 1..3, \A x \in X : x \in Nat /\ x < s
  PROVE  Max({Default} \cup (X \cup {s})) = s
<1> DEFINE Y == {Default} \cup (X \cup {s})
<1>1. s \in Y /\ \A y \in Y : y \in Nat /\ s >= y
  BY DEF Default
<1>2. \A x \in Y : (\A y \in Y : x >= y) => x = s
  BY <1>1
<1> HIDE DEF Y
<1>3. Max(Y) = s
  BY <1>1, <1>2 DEF Max
<1> QED
  BY <1>3 DEF Y

LEMMA MaxIsIn ==
  ASSUME NEW X, X \subseteq 1..3
  PROVE  Max({Default} \cup X) \in {Default} \cup X
<1> DEFINE Y == {Default} \cup X
<1>1. Y \subseteq 0..3 /\ 0 \in Y
  BY DEF Default
<1> HIDE DEF Y
<1>2. \E x \in Y : \A y \in Y : x >= y
  <2>1. CASE 3 \in Y
    BY <1>1, <2>1
  <2>2. CASE 3 \notin Y /\ 2 \in Y
    BY <1>1, <2>2
  <2>3. CASE 3 \notin Y /\ 2 \notin Y /\ 1 \in Y
    BY <1>1, <2>3
  <2>4. CASE 3 \notin Y /\ 2 \notin Y /\ 1 \notin Y
    BY <1>1, <2>4
  <2> QED
    BY <2>1, <2>2, <2>3, <2>4
<1>3. Max(Y) \in Y
  BY <1>2 DEF Max
<1> QED
  BY <1>3 DEF Y

\* What a configuration is when the sources up to s have been merged into it.
Upto(c, s) ==
  /\ c \in Configuration
  /\ \A g \in Group : c.source[g] <= s
  /\ \A f \in Setting :
       LET highest == Max({Default} \cup Setters(f, s))
       IN  c.setting[f] = IF highest = Default THEN Usual ELSE Merges[highest].setting[f]
  /\ LET highest == Max({Default} \cup BaseSetters(s))
     IN  c.base = IF highest = Default THEN <<>> ELSE Merges[highest].base
  /\ \A k \in Names :
       c.names[k] = UNION ({UsualNames(k)} \cup {Merges[i].names[k] : i \in {j \in MergedBy : j <= s}})
  /\ c.base \in GivenBases \cup {<<>>}
  /\ (\A b \in GivenBases : IsAbsolute(b)) => \A d \in Dir : Placed(c.dirs[d], d)
  /\ \A d \in Dir : c.dirs[d] \in After(d, s)

LEMMA NothingMerged ==
  ASSUME HostAssumption, BuilderOK, builder.file # Broken
  PROVE  Upto(Fresh, Default)
<1>1. MergedBy \subseteq 1..3
  BY MergesAreGiven
<1>2. /\ \A f \in Setting : Setters(f, Default) = {}
      /\ BaseSetters(Default) = {} /\ {j \in MergedBy : j <= Default} = {}
  <2>1. \A i \in MergedBy : ~(i <= Default)
    BY <1>1 DEF Default
  <2>2. \A f \in Setting : Setters(f, Default) = {}
    BY <2>1 DEF Setters
  <2>3. BaseSetters(Default) = {}
    BY <2>1 DEF BaseSetters
  <2> QED
    BY <2>1, <2>2, <2>3
<1>3. Max({Default} \cup {}) = Default
  BY MaxOfNone
<1>4. /\ Fresh.base = <<>> /\ \A d \in Dir : Fresh.dirs[d] = <<d>>
      /\ \A f \in Setting : Fresh.setting[f] = Usual
      /\ \A k \in Names : Fresh.names[k] = UsualNames(k)
      /\ \A g \in Group : Fresh.source[g] = Default
  BY DEF Fresh
<1>5. Fresh \in Configuration
  BY FreshType DEF HostAssumption
<1>6. \A d \in Dir : Placed(Fresh.dirs[d], d)
  BY <1>4 DEF Placed, GivenPlaces
<1>7. \A k \in Names : Fresh.names[k] =
        UNION ({UsualNames(k)} \cup {Merges[i].names[k] : i \in {}})
  BY <1>4
<1>8. \A g \in Group : Fresh.source[g] <= Default
  BY <1>4 DEF Default
<1>9. \A d \in Dir : Fresh.dirs[d] \in After(d, Default)
  <2>1. \A d : After(d, Default) = GivenPlaces(d)
    BY DEF After, Default
  <2>2. \A d : <<d>> \in GivenPlaces(d)
    BY DEF GivenPlaces
  <2> QED
    BY <1>4, <2>1, <2>2
<1> QED
  BY <1>2, <1>3, <1>4, <1>5, <1>6, <1>7, <1>8, <1>9 DEF Upto

LEMMA NotGivenMerged ==
  ASSUME HostAssumption, BuilderOK, builder.file # Broken,
         NEW s \in 1..3, s \notin MergedBy, NEW c, Upto(c, s - 1)
  PROVE  Upto(c, s)
<1>1. MergedBy \subseteq 1..3
  BY MergesAreGiven
<1>2. \A i \in MergedBy : i <= s <=> i <= s - 1
  BY <1>1
<1>3. /\ \A f : Setters(f, s) = Setters(f, s - 1)
      /\ BaseSetters(s) = BaseSetters(s - 1)
      /\ {j \in MergedBy : j <= s} = {j \in MergedBy : j <= s - 1}
  BY <1>2 DEF Setters, BaseSetters
<1>4. \A g \in Group : c.source[g] <= s
  <2>1. \A g \in Group : c.source[g] \in Default..Override
    BY DEF Upto, Configuration
  <2> QED
    BY <2>1 DEF Upto, Default, Override
<1>5. ASSUME NEW f \in Setting
      PROVE  LET highest == Max({Default} \cup Setters(f, s))
             IN  c.setting[f] = IF highest = Default THEN Usual ELSE Merges[highest].setting[f]
  <2>1. Setters(f, s) = Setters(f, s - 1)
    BY <1>3
  <2> QED
    BY <2>1 DEF Upto
<1>6. LET highest == Max({Default} \cup BaseSetters(s))
      IN  c.base = IF highest = Default THEN <<>> ELSE Merges[highest].base
  BY <1>3 DEF Upto
<1>7. \A k \in Names :
        c.names[k] = UNION ({UsualNames(k)} \cup {Merges[i].names[k] : i \in {j \in MergedBy : j <= s}})
  BY <1>3 DEF Upto
<1>8. /\ c \in Configuration
      /\ c.base \in GivenBases \cup {<<>>}
      /\ (\A b \in GivenBases : IsAbsolute(b)) => \A d \in Dir : Placed(c.dirs[d], d)
  BY DEF Upto
<1>9. \A d \in Dir : c.dirs[d] \in After(d, s)
  <2>1. \A d \in Dir : c.dirs[d] \in After(d, s - 1)
    BY DEF Upto
  <2> QED
    BY <2>1, AfterIs
<1> QED
  BY <1>4, <1>5, <1>6, <1>7, <1>8, <1>9 DEF Upto

LEMMA GivenMerged ==
  ASSUME HostAssumption, BuilderOK, builder.file # Broken,
         NEW s \in 1..3, s \in MergedBy, NEW c, Upto(c, s - 1)
  PROVE  Upto(MergeFrom(c, Merges[s], s), s)
<1> DEFINE o == Merges[s]
           m == MergeFrom(c, o, s)
<1>1. MergedBy \subseteq 1..3 /\ o \in Configuration
  BY MergesAreGiven
<1>2. c \in Configuration /\ s \in Default..Override
  BY DEF Upto, Default, Override
<1>3. m \in Configuration
  BY <1>1, <1>2, MergeType DEF HostAssumption
<1>4. Merged(m, c, o, s)
  BY MergeParts
<1> HIDE DEF m, o
<1>5. \A g \in Group : c.source[g] \in Default..Override /\ c.source[g] <= s - 1 /\ s >= c.source[g]
  BY <1>2 DEF Upto, Configuration, Default, Override
<1>6. "paths" \in Group /\ "security" \in Group /\ \A f \in Setting : GroupOf(f) \in Group
  BY DEF Group, GroupOf
<1>7. \A i \in MergedBy : i <= s <=> (i <= s - 1 \/ i = s)
  BY <1>1
<1>8. \A g \in Group : m.source[g] <= s
  BY <1>4, <1>5 DEF Merged, Default, Override
<1>9. ASSUME NEW f \in Setting
      PROVE  LET highest == Max({Default} \cup Setters(f, s))
             IN  m.setting[f] = IF highest = Default THEN Usual ELSE Merges[highest].setting[f]
  <2>1. m.setting[f] = IF HasCustom(o, f) THEN o.setting[f] ELSE c.setting[f]
    BY <1>4, <1>5, <1>6 DEF Merged
  <2>2. CASE HasCustom(o, f)
    <3>1. Setters(f, s) = Setters(f, s - 1) \cup {s}
      BY <1>7, <2>2 DEF Setters, o
    <3>2. \A x \in Setters(f, s - 1) : x \in Nat /\ x < s
      BY <1>1 DEF Setters
    <3>3. Max({Default} \cup Setters(f, s)) = s
      BY <3>1, <3>2, MaxOfLast
    <3> QED
      BY <3>3, <2>1, <2>2 DEF o, Default
  <2>3. CASE ~HasCustom(o, f)
    <3>1. Setters(f, s) = Setters(f, s - 1)
      BY <1>7, <2>3 DEF Setters, o
    <3> QED
      BY <3>1, <2>1, <2>3 DEF Upto
  <2> QED
    BY <2>2, <2>3
<1>10. LET highest == Max({Default} \cup BaseSetters(s))
       IN  m.base = IF highest = Default THEN <<>> ELSE Merges[highest].base
  <2>1. m.base = IF o.base # <<>> THEN o.base ELSE c.base
    BY <1>4, <1>5, <1>6 DEF Merged
  <2>2. CASE o.base # <<>>
    <3>1. BaseSetters(s) = BaseSetters(s - 1) \cup {s}
      BY <1>7, <2>2 DEF BaseSetters, o
    <3>2. \A x \in BaseSetters(s - 1) : x \in Nat /\ x < s
      <4>1. \A x \in BaseSetters(s - 1) : x \in MergedBy /\ x <= s - 1
        BY DEF BaseSetters
      <4>2. \A x \in MergedBy : x \in 1..3
        BY <1>1
      <4>3. \A x \in 1..3 : x <= s - 1 => x \in Nat /\ x < s
        OBVIOUS
      <4> QED
        BY <4>1, <4>2, <4>3, Zenon
    <3>3. Max({Default} \cup BaseSetters(s)) = s
      BY <3>1, <3>2, MaxOfLast
    <3> QED
      BY <3>3, <2>1, <2>2 DEF o, Default
  <2>3. CASE o.base = <<>>
    <3>1. BaseSetters(s) = BaseSetters(s - 1)
      BY <1>7, <2>3 DEF BaseSetters, o
    <3> QED
      BY <3>1, <2>1, <2>3 DEF Upto
  <2> QED
    BY <2>2, <2>3
<1>11. ASSUME NEW k \in Names
       PROVE  m.names[k] = UNION ({UsualNames(k)} \cup
                                  {Merges[i].names[k] : i \in {j \in MergedBy : j <= s}})
  <2> DEFINE All(t) == UNION ({UsualNames(k)} \cup
                              {Merges[i].names[k] : i \in {j \in MergedBy : j <= t}})
  <2>1. c.names[k] = All(s - 1)
    BY DEF Upto
  <2>2. All(s) = All(s - 1) \cup o.names[k]
    BY <1>7 DEF o
  <2>3. UsualNames(k) \subseteq All(s - 1)
    OBVIOUS
  <2> HIDE DEF All
  <2>4. m.names[k] = IF HasNames(o, k) THEN IF s = Override THEN o.names[k]
                                            ELSE c.names[k] \cup o.names[k]
                     ELSE c.names[k]
    BY <1>4, <1>5, <1>6 DEF Merged
  <2>5. s = Override => ~HasNames(o, k)
    BY MergesAreGiven DEF HasNames, Override, o
  <2>6. ~HasNames(o, k) => o.names[k] = UsualNames(k)
    BY DEF HasNames
  <2>7. m.names[k] = All(s)
    BY <2>1, <2>2, <2>3, <2>4, <2>5, <2>6
  <2> QED
    BY <2>7 DEF All
<1>12. m.base \in GivenBases \cup {<<>>}
  <2>1. o.base \in GivenBases \cup {<<>>}
    BY GivenAreTyped DEF o
  <2> QED
    BY <2>1, <1>4 DEF Merged, Upto
<1>13. ASSUME \A b \in GivenBases : IsAbsolute(b), NEW d \in Dir
       PROVE  Placed(m.dirs[d], d)
  <2>1. PICK x \in {o.dirs[d], c.dirs[d]} : m.dirs[d] = Resolve(m.base, x)
    BY <1>4 DEF Merged
  <2>2. Placed(o.dirs[d], d) /\ Placed(c.dirs[d], d)
    BY <1>13, GivenAreTyped DEF Placed, Upto, o
  <2>3. Placed(x, d)
    BY <2>2
  <2> QED
    BY <2>1, <2>3, <1>12, <1>13, ResolvePlaced
<1>14. ASSUME NEW d \in Dir
       PROVE  m.dirs[d] \in After(d, s)
  <2>1. PICK x \in {o.dirs[d], c.dirs[d]} : m.dirs[d] = Resolve(m.base, x)
    BY <1>4 DEF Merged
  <2>2. o.dirs[d] \in GivenPlaces(d) /\ c.dirs[d] \in After(d, s - 1)
    BY GivenAreTyped DEF Upto, o
  <2>3. x \in After(d, s - 1)
    BY <2>2, AfterIs
  <2>4. \A base \in GivenBases \cup {<<>>}, y \in After(d, s - 1) : Resolve(base, y) \in After(d, s)
    BY AfterIs
  <2>5. Resolve(m.base, x) \in After(d, s)
    BY <2>3, <2>4, <1>12, Zenon
  <2> QED
    BY <2>1, <2>5
<1>15. Upto(m, s)
  BY <1>3, <1>8, <1>9, <1>10, <1>11, <1>12, <1>13, <1>14 DEF Upto
<1> QED
  BY <1>15 DEF m, o

\* What Build makes is what the sources say.
LEMMA FinalIsUpto ==
  ASSUME HostAssumption, BuilderOK, builder.file # Broken
  PROVE  \E c : /\ Upto(c, 3)
                /\ FinalConfig = ResolveRelativePaths(
                     [c EXCEPT !.base = IF @ = <<>> THEN CurrentPath ELSE @])
<1> DEFINE c1 == Merge(Fresh, builder.file, File)
           c2 == Merge(c1, builder.base, Builder)
           c3 == IF builder.hasPaths THEN MergeFrom(c2, builder.overrides, Override) ELSE c2
<1>1. /\ Merges[1] = builder.file /\ Merges[2] = builder.base
      /\ builder.hasPaths => Merges[3] = builder.overrides
  BY DEF Merges
<1>2. /\ 1 - 1 = Default /\ 2 - 1 = File /\ 3 - 1 = Builder
      /\ File = 1 /\ Builder = 2 /\ Override = 3
  BY DEF Default, File, Builder, Override
<1>3. Upto(c1, 1)
  <2>1. Upto(Fresh, 1 - 1)
    BY <1>2, NothingMerged
  <2>2. CASE 1 \in MergedBy
    <3>1. c1 = MergeFrom(Fresh, Merges[1], 1)
      BY <2>2, <1>1, <1>2, MergesAreGiven DEF Merge
    <3> QED
      BY <3>1, <2>1, <2>2, GivenMerged
  <2>3. CASE 1 \notin MergedBy
    <3>1. c1 = Fresh
      BY <2>3, MergesAreGiven DEF Merge
    <3> QED
      BY <3>1, <2>1, <2>3, NotGivenMerged
  <2> QED
    BY <2>2, <2>3
<1> HIDE DEF c1
<1>4. Upto(c2, 2)
  <2>1. Upto(c1, 2 - 1)
    BY <1>3
  <2>2. CASE 2 \in MergedBy
    <3>1. c2 = MergeFrom(c1, Merges[2], 2)
      BY <2>2, <1>1, <1>2, MergesAreGiven DEF Merge
    <3> QED
      BY <3>1, <2>1, <2>2, GivenMerged
  <2>3. CASE 2 \notin MergedBy
    <3>1. c2 = c1
      BY <2>3, MergesAreGiven DEF Merge
    <3> QED
      BY <3>1, <2>1, <2>3, NotGivenMerged
  <2> QED
    BY <2>2, <2>3
<1> HIDE DEF c2
<1>5. Upto(c3, 3)
  <2>1. Upto(c2, 3 - 1)
    BY <1>4
  <2>2. CASE 3 \in MergedBy
    <3>1. c3 = MergeFrom(c2, Merges[3], 3)
      BY <2>2, <1>1, <1>2, MergesAreGiven
    <3> QED
      BY <3>1, <2>1, <2>2, GivenMerged
  <2>3. CASE 3 \notin MergedBy
    <3>1. c3 = c2
      BY <2>3, MergesAreGiven
    <3> QED
      BY <3>1, <2>1, <2>3, NotGivenMerged
  <2> QED
    BY <2>2, <2>3
<1>6. FinalConfig = ResolveRelativePaths([c3 EXCEPT !.base = IF @ = <<>> THEN CurrentPath ELSE @])
  BY DEF FinalConfig, c1, c2
<1> HIDE DEF c3
<1> QED
  BY <1>5, <1>6

\* What it does to the last configuration: the directories are resolved once more.
LEMMA FinalParts ==
  ASSUME HostAssumption, BuilderOK, builder.file # Broken
  PROVE  \E c : /\ Upto(c, 3)
                /\ FinalConfig.base = IF c.base = <<>> THEN CurrentPath ELSE c.base
                /\ FinalConfig.dirs = [d \in Dir |-> Resolve(FinalConfig.base, c.dirs[d])]
                /\ FinalConfig.setting = c.setting /\ FinalConfig.names = c.names
                /\ FinalConfig \in Configuration
<1>1. PICK c : /\ Upto(c, 3)
               /\ FinalConfig = ResolveRelativePaths(
                    [c EXCEPT !.base = IF @ = <<>> THEN CurrentPath ELSE @])
  BY FinalIsUpto
<1> DEFINE base == IF c.base = <<>> THEN CurrentPath ELSE c.base
           dirs == [d \in Dir |-> Resolve(base, c.dirs[d])]
<1>2. c \in Configuration
  BY <1>1 DEF Upto
<1>3. c = [base |-> c.base, dirs |-> c.dirs, setting |-> c.setting,
           names |-> c.names, source |-> c.source]
  BY <1>2 DEF Configuration
<1>4. [c EXCEPT !.base = IF @ = <<>> THEN CurrentPath ELSE @] =
        [base |-> base, dirs |-> c.dirs, setting |-> c.setting,
         names |-> c.names, source |-> c.source]
  BY <1>3
<1>5. FinalConfig = [base |-> base, dirs |-> dirs, setting |-> c.setting,
                     names |-> c.names, source |-> c.source]
  BY <1>1, <1>4 DEF ResolveRelativePaths
<1>6. base \in Path /\ dirs \in [Dir -> Path]
  <2>1. base \in Path /\ ConfigAssumption /\ \A d \in Dir : c.dirs[d] \in Path
    BY <1>2 DEF Configuration, HostAssumption
  <2> HIDE DEF base
  <2> QED
    BY <2>1, ResolveType
<1>7. FinalConfig \in Configuration
  <2>1. /\ c.setting \in [Setting -> Text] /\ c.names \in [Names -> SUBSET Text]
        /\ c.source \in [Group -> Default..Override]
    BY <1>2 DEF Configuration
  <2> HIDE DEF base, dirs
  <2> QED
    BY <2>1, <1>5, <1>6 DEF Configuration
<1>8. /\ FinalConfig.base = base /\ FinalConfig.dirs = dirs /\ FinalConfig.setting = c.setting
      /\ FinalConfig.names = c.names
  <2> HIDE DEF base, dirs
  <2> QED
    BY <1>5
<1> QED
  BY ZenonT(60), <1>1, <1>7, <1>8

-----------------------------------------------------------------------------
(* The inductive invariant. *)

HostInv ==
  /\ HostAssumption
  /\ BuilderOK
  /\ life \in {"building", "built", "gone", "aborted"}
  /\ config \in Configuration
  /\ initialized \in BOOLEAN /\ running \in BOOLEAN /\ exists \subseteq Path
  /\ life = "built" => builder.file # Broken /\ config = FinalConfig
  /\ life \in {"building", "gone"} => ~running

LEMMA WithKeeps ==
  ASSUME HostInv, NEW b, With(b),
         b \in [file : Given \cup {NotGiven, Broken}, base : Given \cup {NotGiven},
                overrides : Configuration, hasPaths : BOOLEAN],
         b.overrides.names = Fresh.names, ~b.hasPaths => b.overrides.base = <<>>
  PROVE  HostInv'
<1>1. BuilderOK'
  BY DEF With, BuilderOK
<1>2. life = "building" /\ UNCHANGED <<life, config, initialized, running, exists>>
  BY DEF With, Built
<1> QED
  BY <1>1, <1>2 DEF HostInv, HostAssumption

LEMMA HostStep ==
  ASSUME HostInv, [HostNext]_hostVars
  PROVE  HostInv'
<1>1. /\ BuilderOK /\ HostAssumption
      /\ builder \in [file : Given \cup {NotGiven, Broken}, base : Given \cup {NotGiven},
                      overrides : Configuration, hasPaths : BOOLEAN]
      /\ builder.overrides \in Configuration
      /\ builder.overrides.names = Fresh.names
      /\ ~builder.hasPaths => builder.overrides.base = <<>>
  BY DEF HostInv, BuilderOK
<1>2. Given \subseteq Configuration /\ BaseDirs \subseteq Path /\ Severities \subseteq Text
  BY <1>1 DEF HostAssumption
<1>3. CASE WithBaseDir
  <2>1. PICK dir \in BaseDirs : With([builder EXCEPT !.overrides.base = dir, !.hasPaths = TRUE])
    BY <1>3 DEF WithBaseDir
  <2>2. [builder.overrides EXCEPT !.base = dir] \in Configuration
    BY <1>1, <1>2 DEF Configuration
  <2>3. [builder.overrides EXCEPT !.base = dir].names = Fresh.names
    BY <1>1 DEF Configuration
  <2> QED
    BY <1>1, <2>1, <2>2, <2>3, WithKeeps
<1>4. CASE WithPaths
  <2>1. PICK c \in Given :
          With([builder EXCEPT !.overrides.base = c.base, !.overrides.dirs = c.dirs, !.hasPaths = TRUE])
    BY <1>4 DEF WithPaths
  <2>2. [builder.overrides EXCEPT !.base = c.base, !.dirs = c.dirs] \in Configuration
    BY <1>1, <1>2 DEF Configuration
  <2>3. [builder.overrides EXCEPT !.base = c.base, !.dirs = c.dirs].names = Fresh.names
    BY <1>1 DEF Configuration
  <2> QED
    BY <1>1, <2>1, <2>2, <2>3, WithKeeps
<1>5. CASE WithConfigFile
  <2>1. PICK c \in Given \cup {Broken} : With([builder EXCEPT !.file = c])
    BY <1>5 DEF WithConfigFile
  <2> QED
    BY <1>1, <2>1, WithKeeps
<1>6. CASE WithConfig
  <2>1. PICK c \in Given : With([builder EXCEPT !.base = c])
    BY <1>6 DEF WithConfig
  <2> QED
    BY <1>1, <2>1, WithKeeps
<1>7. CASE WithLogger
  <2>1. PICK level \in Severities : With([builder EXCEPT !.overrides.setting["severity"] = level])
    BY <1>7 DEF WithLogger
  <2>2. [builder.overrides EXCEPT !.setting["severity"] = level] \in Configuration
    BY <1>1, <1>2 DEF Configuration
  <2>3. /\ [builder.overrides EXCEPT !.setting["severity"] = level].names = Fresh.names
        /\ [builder.overrides EXCEPT !.setting["severity"] = level].base = builder.overrides.base
    BY <1>1 DEF Configuration
  <2> QED
    BY <1>1, <2>1, <2>2, <2>3, WithKeeps
<1>8. CASE Build
  <2>1. BuilderOK' /\ builder' = builder
    BY <1>1, <1>8 DEF Build, BuilderOK
  <2>2. CASE builder.file # Broken /\ ConfigValidates(FinalConfig)
    <3>1. FinalConfig \in Configuration
      BY <1>1, <2>2, FinalParts
    <3>2. FinalConfig' = FinalConfig
      BY <2>1 DEF FinalConfig
    <3>3. life' = "built" /\ config' = FinalConfig
      BY <1>8, <2>2 DEF Build
    <3>4. UNCHANGED <<initialized, running, exists>>
      BY <1>8 DEF Build
    <3> QED
      BY <2>1, <2>2, <3>1, <3>2, <3>3, <3>4, <1>1 DEF HostInv, HostAssumption
  <2>3. CASE ~(builder.file # Broken /\ ConfigValidates(FinalConfig))
    <3>1. life = "building" /\ UNCHANGED <<life, config, initialized, running, exists>>
      BY <1>8, <2>3 DEF Build
    <3> QED
      BY <2>1, <3>1 DEF HostInv, HostAssumption
  <2> QED
    BY <2>2, <2>3
<1>9. ASSUME UNCHANGED builder
      PROVE  BuilderOK' /\ (FinalConfig' = FinalConfig)
  BY <1>1, <1>9 DEF BuilderOK, FinalConfig
<1>10. CASE Initialize
  <2>1. \A d \in Dir : config.dirs[d] \in Path
    BY DEF HostInv, Configuration
  <2>2. exists' \subseteq Path
    BY <1>10, <2>1 DEF Initialize, HostInv
  <2> QED
    BY <1>9, <1>10, <2>2 DEF Initialize, HostInv, HostAssumption
<1>11. CASE InitializeManager
  BY <1>9, <1>11 DEF InitializeManager, HostInv, HostAssumption
<1>12. CASE Terminate
  BY <1>9, <1>12 DEF Terminate, HostInv, HostAssumption
<1>13. CASE TerminateManager
  BY <1>9, <1>13 DEF TerminateManager, HostInv, HostAssumption
<1>14. CASE Drop
  BY <1>9, <1>14 DEF Drop, HostInv, HostAssumption
<1>15. CASE HostOver \/ UNCHANGED hostVars
  BY <1>9, <1>15 DEF HostOver, hostVars, HostInv, HostAssumption
<1> QED
  BY <1>3, <1>4, <1>5, <1>6, <1>7, <1>8, <1>10, <1>11, <1>12, <1>13, <1>14, <1>15 DEF HostNext

LEMMA HostStart ==
  ASSUME HostAssumption, HostInit
  PROVE  HostInv
<1>1. Fresh \in Configuration
  BY FreshType DEF HostAssumption
<1>2. BuilderOK
  <2>1. builder = [file |-> NotGiven, base |-> NotGiven, overrides |-> Fresh, hasPaths |-> FALSE]
    BY DEF HostInit
  <2>2. Fresh.base = <<>>
    BY DEF Fresh
  <2> QED
    BY <1>1, <2>1, <2>2 DEF BuilderOK
<1> QED
  BY <1>1, <1>2 DEF HostInit, HostInv, HostAssumption

\* PlugifyBuilder and Plugify: the builder keeps what it may be given apart from what it
\* overrides, a built host has the configuration that follows from its sources, and
\* no manager runs before there is a host or after it has gone.
THEOREM HostIsInv == HostAssumption /\ HostSpec => []HostInv
<1>1. HostAssumption /\ HostInit => HostInv
  BY HostStart
<1>2. HostInv /\ [HostNext]_hostVars => HostInv'
  BY HostStep
<1> QED
  BY <1>1, <1>2, PTL DEF HostSpec

\* PlugifyBuilder::Build: whatever was given, in any order and by any of the sources,
\* each setting, the base directory and the names are those of the right one, but for
\* a log level that is overridden when no path is.
THEOREM SettingsAreOfHighest == HostAssumption /\ HostSpec => []BuiltFromHighest
<1>1. ASSUME HostInv, life = "built" PROVE BuiltFromHighest
  <2>1. HostAssumption /\ BuilderOK /\ builder.file # Broken /\ config = FinalConfig
    BY <1>1 DEF HostInv
  <2>2. PICK c : /\ Upto(c, 3)
                 /\ config.base = IF c.base = <<>> THEN CurrentPath ELSE c.base
                 /\ config.setting = c.setting /\ config.names = c.names
    BY <2>1, FinalParts
  <2>3. \A i \in MergedBy : i <= 3
    BY <2>1, MergesAreGiven
  <2>4. /\ MergedBy \subseteq GivenBy
        /\ \A i \in MergedBy : Merges[i] = Sources[i]
        /\ \A i \in GivenBy \ MergedBy : ~builder.hasPaths /\ Sources[i] = builder.overrides
    BY <2>1, SourcesAre
  <2>5. ASSUME NEW f \in Setting, ~Overlooked(f)
        PROVE  LET highest == Max({Default} \cup {i \in GivenBy : HasCustom(Sources[i], f)})
               IN  config.setting[f] = IF highest = Default THEN Usual
                                       ELSE Sources[highest].setting[f]
    <3>1. Setters(f, 3) = {i \in GivenBy : HasCustom(Sources[i], f)}
      BY <2>3, <2>4, <2>5 DEF Setters, Overlooked
    <3>2. DEFINE highest == Max({Default} \cup Setters(f, 3))
    <3>3. c.setting[f] = IF highest = Default THEN Usual ELSE Merges[highest].setting[f]
      BY <2>2 DEF Upto
    <3>4. highest \in {Default} \cup Setters(f, 3)
      BY <2>1, MaxIsIn, MergesAreGiven DEF Setters
    <3>5. highest # Default => Merges[highest] = Sources[highest]
      BY <2>4, <3>4 DEF Setters
    <3>6. config.setting[f] = IF highest = Default THEN Usual ELSE Sources[highest].setting[f]
      BY <2>2, <3>3, <3>5
    <3> QED
      BY <3>1, <3>6
  <2>6. LET highest == Max({Default} \cup {i \in GivenBy : Sources[i].base # <<>>})
        IN  config.base = IF highest = Default THEN CurrentPath ELSE Sources[highest].base
    <3>1. BaseSetters(3) = {i \in GivenBy : Sources[i].base # <<>>}
      BY <2>1, <2>3, <2>4 DEF BaseSetters, BuilderOK
    <3>2. DEFINE highest == Max({Default} \cup BaseSetters(3))
    <3>3. c.base = IF highest = Default THEN <<>> ELSE Merges[highest].base
      BY <2>2 DEF Upto
    <3>4. highest # Default => highest \in BaseSetters(3)
      <4>1. highest \in {Default} \cup BaseSetters(3)
        BY <2>1, MaxIsIn, MergesAreGiven DEF BaseSetters
      <4> QED
        BY <4>1
    <3>5. highest # Default => Merges[highest].base # <<>> /\ Merges[highest] = Sources[highest]
      BY <2>4, <3>4 DEF BaseSetters
    <3>6. config.base = IF highest = Default THEN CurrentPath ELSE Sources[highest].base
      BY <2>2, <3>3, <3>5
    <3> QED
      BY <3>1, <3>6
  <2>7. ASSUME NEW k \in Names
        PROVE  config.names[k] = UNION ({UsualNames(k)} \cup {Sources[i].names[k] : i \in GivenBy})
    <3> DEFINE merged == UNION ({UsualNames(k)} \cup {Merges[i].names[k] : i \in MergedBy})
               given == UNION ({UsualNames(k)} \cup {Sources[i].names[k] : i \in GivenBy})
    <3>1. {j \in MergedBy : j <= 3} = MergedBy
      BY <2>3
    <3>2. config.names[k] = merged
      BY <2>2, <3>1 DEF Upto
    <3>3. builder.overrides.names[k] = UsualNames(k)
      BY <2>1 DEF BuilderOK, Fresh
    <3>4. \A i \in GivenBy : Sources[i].names[k] \subseteq merged
      <4>1. ASSUME NEW i \in GivenBy PROVE Sources[i].names[k] \subseteq merged
        <5>1. CASE i \in MergedBy
          BY <2>4, <5>1
        <5>2. CASE i \notin MergedBy
          BY <2>4, <3>3, <5>2
        <5> QED
          BY <5>1, <5>2
      <4> QED
        BY <4>1
    <3>5. \A i \in MergedBy : Merges[i].names[k] \subseteq given
      BY <2>4
    <3>6. merged = given
      BY <3>4, <3>5
    <3> QED
      BY <3>2, <3>6
  <2> QED
    BY <2>5, <2>6, <2>7 DEF BuiltFromHighest
<1>2. HostInv => BuiltFromHighest
  BY <1>1 DEF BuiltFromHighest
<1> QED
  BY <1>2, HostIsInv, PTL

\* Config::MergeFrom and Config::Paths::ResolveRelativePaths: a directory is one that
\* was given, taken relative to base directories that were given: to one when those
\* are absolute, although every merge and Build itself resolve it again, and to one
\* more for each merge otherwise.
THEOREM DirsAreFromGiven == HostAssumption /\ HostSpec => []DirsFromGiven
<1>1. ASSUME HostInv, life = "built", NEW d \in Dir
      PROVE  config.dirs[d] \in IF \A base \in GivenBases : IsAbsolute(base) THEN Taken(GivenPlaces(d))
                                ELSE Taken(PerhapsTaken(PerhapsTaken(PerhapsTaken(GivenPlaces(d)))))
  <2>1. HostAssumption /\ BuilderOK /\ builder.file # Broken /\ config = FinalConfig
    BY <1>1 DEF HostInv
  <2>2. PICK c : /\ Upto(c, 3)
                 /\ config.base = IF c.base = <<>> THEN CurrentPath ELSE c.base
                 /\ config.dirs = [e \in Dir |-> Resolve(config.base, c.dirs[e])]
    BY <2>1, FinalParts
  <2>3. config.base \in GivenBases
    <3>1. CurrentPath \in GivenBases
      BY <2>1 DEF GivenBases, HostAssumption, IsAbsolute
    <3>2. c.base \in GivenBases \cup {<<>>}
      BY <2>2 DEF Upto
    <3> QED
      BY <2>2, <3>1, <3>2
  <2>4. config.dirs[d] = Resolve(config.base, c.dirs[d])
    BY <2>2
  <2>5. CASE \A base \in GivenBases : IsAbsolute(base)
    <3>1. Placed(c.dirs[d], d)
      BY <2>2, <2>5 DEF Upto
    <3>2. \E b \in GivenBases, p \in GivenPlaces(d) : config.dirs[d] = Resolve(b, p)
      BY <2>1, <2>3, <2>4, <2>5, <3>1, ResolvePlaced
    <3> QED
      BY <2>5, <3>2 DEF Taken
  <2>6. CASE ~(\A base \in GivenBases : IsAbsolute(base))
    <3>1. c.dirs[d] \in PerhapsTaken(PerhapsTaken(PerhapsTaken(GivenPlaces(d))))
      BY <2>2 DEF Upto, After
    <3> QED
      BY <2>3, <2>4, <2>6, <3>1 DEF Taken
  <2> QED
    BY <2>5, <2>6
<1>2. HostInv => DirsFromGiven
  BY <1>1 DEF DirsFromGiven
<1> QED
  BY <1>2, HostIsInv, PTL

-----------------------------------------------------------------------------
(* The registry. *)

RegistrarOK ==
  /\ DOMAIN registry = Id
  /\ DOMAIN extensions = Managers

\* What the registry has of an id: of one that two managers name, or did until one
\* of them dropped it, a name it has or none; of any other its name.
Kept(i) ==
  IF i \in shared
  THEN registry[i] = Unnamed \/ \E m \in Naming(i) : registry[i] = extensions[m][i]
  ELSE /\ \A m, k \in Naming(i) : m = k
       /\ Naming(i) = {} => registry[i] = Unnamed
       /\ \A m \in Naming(i) : registry[i] = extensions[m][i]

\* A step that leaves the names of an id alone.
LEMMA UntouchedIsKept ==
  ASSUME NEW i \in Id, Kept(i), Share, Naming(i)' = Naming(i), registry'[i] = registry[i],
         \A k \in Naming(i) : extensions'[k][i] = extensions[k][i]
  PROVE  Kept(i)'
<1>1. i \in shared' <=> (\E m, k \in Naming(i) : m # k) \/ (i \in shared /\ Naming(i) # {})
  BY DEF Share
<1>2. Kept(i)' <=>
        IF i \in shared'
        THEN registry[i] = Unnamed \/ \E m \in Naming(i) : registry[i] = extensions[m][i]
        ELSE /\ \A m, k \in Naming(i) : m = k
             /\ Naming(i) = {} => registry[i] = Unnamed
             /\ \A m \in Naming(i) : registry[i] = extensions[m][i]
  BY DEF Kept
<1> QED
  BY <1>1, <1>2 DEF Kept

\* The extensions of m go, and m takes its names out of the registry.
LEMMA DroppedIsKept ==
  ASSUME RegistrarOK, NEW i \in Id, Kept(i), Share, NEW m \in Managers, NEW f,
         extensions' = [extensions EXCEPT ![m] = f], \A j \in DOMAIN f : f[j] = Unnamed,
         registry' = Unregistered(m)
  PROVE  Kept(i)'
<1>1. \A k \in Managers : extensions'[k] = IF k = m THEN f ELSE extensions[k]
  BY DEF RegistrarOK
<1>2. Naming(i)' = Naming(i) \ {m}
  BY <1>1 DEF Naming
<1>3. \A k \in Naming(i)' : extensions'[k][i] = extensions[k][i]
  BY <1>1, <1>2 DEF Naming
<1>4. registry'[i] = IF m \in Naming(i) THEN Unnamed ELSE registry[i]
  BY DEF Unregistered, Naming
<1>5. CASE m \notin Naming(i)
  <2>1. Naming(i)' = Naming(i) /\ registry'[i] = registry[i]
    BY <1>2, <1>4, <1>5
  <2>2. \A k \in Naming(i) : extensions'[k][i] = extensions[k][i]
    BY <1>3, <2>1
  <2> QED
    BY <2>1, <2>2, UntouchedIsKept
<1>6. CASE m \in Naming(i)
  <2>1. registry'[i] = Unnamed
    BY <1>4, <1>6
  <2>2. i \notin shared' => Naming(i)' = {}
    <3>1. CASE i \in shared
      BY <3>1 DEF Share
    <3>2. CASE i \notin shared
      BY <3>2, <1>2, <1>6 DEF Kept
    <3> QED
      BY <3>1, <3>2
  <2> QED
    BY <2>1, <2>2 DEF Kept
<1> QED
  BY <1>5, <1>6

\* An extension of m gets its manifest, and its name goes to the registry.
LEMMA NamedIsKept ==
  ASSUME RegistrarOK, NEW i \in Id, Kept(i), Share, NEW m \in Managers,
         NEW j \in DOMAIN extensions[m], NEW name, name # Unnamed,
         extensions' = [extensions EXCEPT ![m][j] = name],
         registry' = [registry EXCEPT ![j] = name]
  PROVE  Kept(i)'
<1>1. \A k \in Managers : extensions'[k] = IF k = m THEN [extensions[m] EXCEPT ![j] = name]
                                           ELSE extensions[k]
  BY DEF RegistrarOK
<1>2. /\ \A k \in Managers : DOMAIN extensions'[k] = DOMAIN extensions[k]
      /\ \A k \in Managers \ {m} : extensions'[k] = extensions[k]
      /\ extensions'[m][j] = name
      /\ \A h \in DOMAIN extensions[m] \ {j} : extensions'[m][h] = extensions[m][h]
  BY <1>1
<1>3. registry'[i] = IF i = j THEN name ELSE registry[i]
  BY DEF RegistrarOK
<1>4. CASE i = j
  <2>1. Naming(i)' = Naming(i) \cup {m}
    BY <1>2, <1>4 DEF Naming
  <2>2. registry'[i] = extensions'[m][i]
    BY <1>2, <1>3, <1>4
  <2>3. i \notin shared' => Naming(i)' = {m}
    BY <2>1 DEF Share
  <2> QED
    BY <2>1, <2>2, <2>3 DEF Kept
<1>5. CASE i # j
  <2>1. Naming(i)' = Naming(i)
    BY <1>2, <1>5 DEF Naming
  <2>2. \A k \in Naming(i) : extensions'[k][i] = extensions[k][i]
    BY <1>2, <1>5 DEF Naming
  <2> QED
    BY <1>3, <1>5, <2>1, <2>2, UntouchedIsKept
<1> QED
  BY <1>4, <1>5

LEMMA RegistrarStep ==
  ASSUME RegistrarAssumption, RegistrarOK, \A i \in Id : Kept(i), [RegistrarNext]_registrar
  PROVE  RegistrarOK' /\ \A i \in Id : Kept(i)'
<1>1. CASE UNCHANGED registrar
  <2>1. RegistrarOK'
    BY <1>1 DEF registrar, RegistrarOK
  <2>2. \A i \in Id : Naming(i)' = Naming(i)
    BY <1>1 DEF registrar, Naming
  <2> QED
    BY <1>1, <2>1, <2>2 DEF registrar, Kept
<1>2. ASSUME NEW m \in Managers, Discover(m)
      PROVE  RegistrarOK' /\ \A i \in Id : Kept(i)'
  <2>1. PICK n \in 0..(MaxId + 1) :
          /\ extensions' = [extensions EXCEPT ![m] = [i \in 0..(n - 1) |-> Unnamed]]
          /\ registry' = Unregistered(m)
          /\ Share
    BY <1>2 DEF Discover
  <2>2. RegistrarOK'
    BY <2>1 DEF RegistrarOK, Unregistered
  <2> DEFINE f == [i \in 0..(n - 1) |-> Unnamed]
  <2>3. \A j \in DOMAIN f : f[j] = Unnamed
    OBVIOUS
  <2>4. extensions' = [extensions EXCEPT ![m] = f]
    BY <2>1
  <2> HIDE DEF f
  <2> QED
    BY <2>1, <2>2, <2>3, <2>4, DroppedIsKept
<1>3. ASSUME NEW m \in Managers, SetManifest(m)
      PROVE  RegistrarOK' /\ \A i \in Id : Kept(i)'
  <2>1. PICK i \in DOMAIN extensions[m], name \in ExtensionName :
          /\ extensions' = [extensions EXCEPT ![m][i] = name]
          /\ registry' = [registry EXCEPT ![i] = name]
          /\ Share
    BY <1>3 DEF SetManifest
  <2>2. name # Unnamed
    BY DEF RegistrarAssumption
  <2>3. RegistrarOK'
    BY <2>1 DEF RegistrarOK
  <2> QED
    BY <2>1, <2>2, <2>3, NamedIsKept
<1>4. ASSUME NEW m \in Managers, Destroy(m)
      PROVE  RegistrarOK' /\ \A i \in Id : Kept(i)'
  <2>1. /\ extensions' = [extensions EXCEPT ![m] = [i \in {} |-> Unnamed]]
        /\ registry' = Unregistered(m)
        /\ Share
    BY <1>4 DEF Destroy
  <2>2. RegistrarOK'
    BY <2>1 DEF RegistrarOK, Unregistered
  <2> DEFINE f == [i \in {} |-> Unnamed]
  <2>3. \A j \in DOMAIN f : f[j] = Unnamed
    OBVIOUS
  <2>4. extensions' = [extensions EXCEPT ![m] = f]
    BY <2>1
  <2> HIDE DEF f
  <2> QED
    BY <2>1, <2>2, <2>3, <2>4, DroppedIsKept
<1> QED
  BY <1>1, <1>2, <1>3, <1>4 DEF RegistrarNext

\* Registrar::Registrar and Registrar::~Registrar, for any managers: the registry has
\* the name of an extension until it goes, and none of one that is gone, unless two
\* managers gave the id to extensions with manifests: then one of the names, or none.
THEOREM RegistryNames ==
  ASSUME RegistrarAssumption
  PROVE  RegistrarSpec => []RegistryNamesExtensions
<1> DEFINE Inv == RegistrarOK /\ \A i \in Id : Kept(i)
<1>1. RegistrarInit => Inv
  <2>1. SUFFICES ASSUME RegistrarInit PROVE Inv
    OBVIOUS
  <2>2. RegistrarOK /\ shared = {} /\ \A i \in Id : registry[i] = Unnamed
    BY <2>1 DEF RegistrarInit, RegistrarOK
  <2>3. \A m \in Managers : DOMAIN extensions[m] = {}
    BY <2>1 DEF RegistrarInit
  <2>4. \A i \in Id : Naming(i) = {}
    BY <2>3 DEF Naming
  <2> QED
    BY <2>2, <2>4 DEF Kept
<1>2. Inv /\ [RegistrarNext]_registrar => Inv'
  BY RegistrarStep
<1>3. Inv => RegistryNamesExtensions
  <2>1. SUFFICES ASSUME Inv, NEW i \in Id
                 PROVE  LET names == {extensions[m][i] : m \in Naming(i)}
                        IN  IF i \in shared THEN registry[i] \in names \cup {Unnamed}
                            ELSE IF names = {} THEN registry[i] = Unnamed ELSE names = {registry[i]}
    BY DEF RegistryNamesExtensions
  <2> DEFINE names == {extensions[m][i] : m \in Naming(i)}
  <2>2. Kept(i)
    BY <2>1
  <2>3. CASE i \in shared
    <3>1. registry[i] \in names \cup {Unnamed}
      BY <2>2, <2>3 DEF Kept
    <3> QED
      BY <2>3, <3>1
  <2>4. CASE i \notin shared /\ names = {}
    <3>1. Naming(i) = {}
      BY <2>4
    <3> QED
      BY <2>2, <2>4, <3>1 DEF Kept
  <2>5. CASE i \notin shared /\ names # {}
    <3>1. PICK m \in Naming(i) : TRUE
      BY <2>5
    <3>2. \A k \in Naming(i) : registry[i] = extensions[k][i]
      BY <2>2, <2>5 DEF Kept
    <3>3. names = {registry[i]}
      BY <3>1, <3>2
    <3> QED
      BY <2>5, <3>3
  <2> QED
    BY <2>3, <2>4, <2>5
<1> QED
  BY <1>1, <1>2, <1>3, PTL DEF RegistrarSpec

-----------------------------------------------------------------------------
(* Manifests: the invariant of the passes up to Publish. *)

Fields == {"kind", "name", "function", "body", "properties"}
PropertyFields == {"type", "kind", "name", "def"}
Properties(o) == object[o].properties

\* Objects stay well-formed: a property that gets another definition gets one of
\* the same kind.
ObjectsOK ==
  /\ IsFiniteSet(Objects) /\ None \notin Objects
  /\ \A o \in Objects :
       /\ DOMAIN object[o] = Fields
       /\ object[o].kind \in Kind => object[o].name \in Name \cup {None}
       /\ object[o].kind = "enum" => DOMAIN Properties(o) = {}
       /\ \E n \in Nat : DOMAIN Properties(o) = 1..n
       /\ \A i \in DOMAIN Properties(o) :
            /\ DOMAIN Property(o, i) = PropertyFields
            /\ Property(o, i).kind \in Kind /\ Property(o, i).name \in Name \cup {None}
            /\ Property(o, i).def # None =>
                 /\ Property(o, i).name = None /\ Property(o, i).def \in Objects
                 /\ object[Property(o, i).def].kind = Property(o, i).kind

RootsOK ==
  /\ methods \in Seq(Objects) /\ declared \in Seq(Objects)
  /\ \A o \in Range(methods) : object[o].kind \notin Kind
  /\ \A o \in Range(declared) : object[o].kind \in Kind

\* The definition of a name has that name.
TableOK ==
  /\ DOMAIN table = Kind
  /\ \A k \in Kind :
       /\ DOMAIN table[k] = Name
       /\ \A n \in Name : table[k][n] # None =>
            /\ table[k][n] \in Objects
            /\ object[table[k][n]].kind = k /\ object[table[k][n]].name = n

\* The declared definitions passed so far are those of the table.
DeclaredOK ==
  phase = "declare" =>
    /\ next \in Nat \ {0}
    /\ InTables = {declared[i] : i \in {j \in DOMAIN declared : j < next}}

\* What is kept of a manifest: the methods, and the definitions of the table.
KeptObjects == Range(methods) \cup InTables

Walking == phase = "collect" => todo \in Seq(Objects \X (Nat \ {0}))

\* A property of an object that is kept refers to a definition of the table, or has
\* yet to be walked.
Waiting(o, i) == \E t \in Range(todo) : t[1] = o /\ t[2] <= i
Walked ==
  phase \notin {"declare", "conflict"} =>
    \A o \in KeptObjects : \A i \in DOMAIN Properties(o) :
      \/ Property(o, i).def \in InTables \cup {None}
      \/ phase = "collect" /\ Waiting(o, i)

\* An object that is kept has names only while it is to be linked.
LinkedOK ==
  /\ phase = "link" =>
       /\ unlinked \subseteq KeptObjects
       /\ \A o \in KeptObjects \ unlinked : \A i \in DOMAIN Properties(o) : Property(o, i).name = None
  /\ phase \in {"cycles", "cyclic", "resolved", "valid", "invalid"} =>
       \A o \in KeptObjects : \A i \in DOMAIN Properties(o) : Property(o, i).name = None

PublishedOK == phase \in {"resolved", "valid", "invalid"} => Range(declared) = InTables

IInv == ObjectsOK /\ RootsOK /\ TableOK /\ DeclaredOK /\ Walking /\ Walked /\ LinkedOK /\ PublishedOK

-----------------------------------------------------------------------------
(* The invariant of DetectCycles. *)

\* The prototypes a prototype refers to.
Edge(d, e) == \E i \in DOMAIN Properties(d) :
  Property(d, i).kind = "prototype" /\ Property(d, i).def = e /\ e # None

Detecting == phase \in {"cycles", "cyclic"}
Detected == phase \in {"resolved", "valid", "invalid"}

MarksOK ==
  /\ DOMAIN marks = Objects
  /\ phase \in {"declare", "collect", "link"} => path = <<>> /\ \A o \in Objects : marks[o] = "Unvisited"
  /\ \A d \in Objects : marks[d] \in {"Unvisited", "OnStack", "Done"}

\* The path has what is on the stack, each once.
PathOK ==
  Detecting =>
    /\ path \in Seq(Prototypes \X (Nat \ {0}))
    /\ \A d \in Prototypes : marks[d] = "OnStack" <=> \E k \in DOMAIN path : path[k][1] = d
    /\ \A k, l \in DOMAIN path : path[k][1] = path[l][1] => k = l

\* What a visit has passed is done, except for the prototype it is in.
Passed ==
  Detecting =>
    \A k \in DOMAIN path : \A i \in DOMAIN Properties(path[k][1]) :
      LET p == Property(path[k][1], i)
      IN  i < path[k][2] /\ p.kind = "prototype" /\ p.def # None =>
            \/ marks[p.def] = "Done"
            \/ k + 1 \in DOMAIN path /\ p.def = path[k + 1][1]

\* From a prototype that is done no search leads to one that is not.
DoneClosed ==
  Detecting \/ Detected =>
    \A d \in Prototypes : \A e \in Objects :
      marks[d] = "Done" /\ Edge(d, e) => marks[e] = "Done"

DoneAcyclic == \A d \in Prototypes : marks[d] = "Done" => ~Reaches(d, d)

\* The path is one.
PathReaches ==
  Detecting => \A k, l \in DOMAIN path : k < l => Reaches(path[k][1], path[l][1])

AllDone == Detected => \A d \in Prototypes : marks[d] = "Done"

CycleRefused == phase = "cyclic" => \E d \in Prototypes : Reaches(d, d)

SearchInv ==
  /\ MarksOK /\ PathOK /\ Passed /\ DoneClosed /\ DoneAcyclic /\ PathReaches
  /\ AllDone /\ CycleRefused

-----------------------------------------------------------------------------
(* Lemmas about sequences. *)

LEMMA RangeOfHead ==
  ASSUME NEW S, NEW s \in Seq(S), s # <<>>
  PROVE  /\ Head(s) \in S /\ Tail(s) \in Seq(S)
         /\ Range(s) = {Head(s)} \cup Range(Tail(s))
<1>1. /\ Len(s) \in Nat \ {0} /\ DOMAIN s = 1..Len(s) /\ Head(s) = s[1]
      /\ Head(s) \in S /\ Tail(s) \in Seq(S)
      /\ Len(Tail(s)) = Len(s) - 1 /\ \A i \in 1..(Len(s) - 1) : Tail(s)[i] = s[i + 1]
  OBVIOUS
<1>2. DOMAIN Tail(s) = 1..(Len(s) - 1)
  BY <1>1
<1>3. ASSUME NEW x \in Range(s) PROVE x \in {Head(s)} \cup Range(Tail(s))
  <2>1. PICK i \in 1..Len(s) : s[i] = x
    BY <1>1 DEF Range
  <2>2. CASE i = 1
    BY <2>1, <2>2, <1>1
  <2>3. CASE i # 1
    <3>1. i - 1 \in DOMAIN Tail(s) /\ Tail(s)[i - 1] = x
      BY <2>1, <2>3, <1>1, <1>2
    <3>. QED
      BY <3>1 DEF Range
  <2>. QED
    BY <2>2, <2>3
<1>4. ASSUME NEW x \in Range(Tail(s)) PROVE x \in Range(s)
  <2>1. PICK i \in 1..(Len(s) - 1) : Tail(s)[i] = x
    BY <1>2 DEF Range
  <2>2. i + 1 \in DOMAIN s /\ s[i + 1] = x
    BY <2>1, <1>1
  <2>. QED
    BY <2>2 DEF Range
<1>5. Head(s) \in Range(s)
  BY <1>1 DEF Range
<1>. QED
  BY <1>1, <1>3, <1>4, <1>5

LEMMA RangeOfConcat ==
  ASSUME NEW S, NEW s \in Seq(S), NEW t \in Seq(S)
  PROVE  s \o t \in Seq(S) /\ Range(s \o t) = Range(s) \cup Range(t)
<1> DEFINE u == s \o t
<1>1. /\ u \in Seq(S) /\ Len(u) = Len(s) + Len(t)
      /\ \A i \in 1..Len(u) : u[i] = IF i <= Len(s) THEN s[i] ELSE t[i - Len(s)]
  BY ConcatProperties
<1>2. /\ Len(s) \in Nat /\ DOMAIN s = 1..Len(s)
      /\ Len(t) \in Nat /\ DOMAIN t = 1..Len(t)
      /\ DOMAIN u = 1..Len(u)
  BY <1>1, LenProperties
<1> HIDE DEF u
<1>3. ASSUME NEW x \in Range(u) PROVE x \in Range(s) \cup Range(t)
  <2>1. PICK i \in 1..Len(u) : u[i] = x
    BY <1>2 DEF Range
  <2>2. CASE i <= Len(s)
    BY <2>1, <2>2, <1>1, <1>2 DEF Range
  <2>3. CASE ~(i <= Len(s))
    <3>1. i - Len(s) \in DOMAIN t /\ t[i - Len(s)] = x
      BY <2>1, <2>3, <1>1, <1>2
    <3>. QED
      BY <3>1 DEF Range
  <2>. QED
    BY <2>2, <2>3
<1>4. ASSUME NEW x \in Range(s) PROVE x \in Range(u)
  <2>1. PICK i \in 1..Len(s) : s[i] = x
    BY <1>2 DEF Range
  <2>2. i \in DOMAIN u /\ u[i] = x
    BY <2>1, <1>1, <1>2
  <2>. QED
    BY <2>2 DEF Range
<1>5. ASSUME NEW x \in Range(t) PROVE x \in Range(u)
  <2>1. PICK i \in 1..Len(t) : t[i] = x
    BY <1>2 DEF Range
  <2>2. i + Len(s) \in DOMAIN u /\ u[i + Len(s)] = x
    BY SMTT(30), <2>1, <1>1, <1>2
  <2>. QED
    BY <2>2 DEF Range
<1>. QED
  BY <1>1, <1>3, <1>4, <1>5 DEF u

LEMMA RangeOfOne ==
  ASSUME NEW S, NEW x \in S
  PROVE  <<x>> \in Seq(S) /\ Range(<<x>>) = {x}
<1>1. DOMAIN <<x>> = {1} /\ <<x>>[1] = x
  OBVIOUS
<1>. QED
  BY <1>1 DEF Range

LEMMA RangeOfPush ==
  ASSUME NEW S, NEW x \in S, NEW t \in Seq(S)
  PROVE  <<x>> \o t \in Seq(S) /\ Range(<<x>> \o t) = {x} \cup Range(t)
<1> DEFINE s == <<x>>
<1>1. s \in Seq(S) /\ Range(s) = {x}
  BY RangeOfOne
<1> HIDE DEF s
<1>2. s \o t \in Seq(S) /\ Range(s \o t) = Range(s) \cup Range(t)
  BY <1>1, RangeOfConcat
<1>. QED
  BY <1>1, <1>2 DEF s

\* The definitions of a table are published once each.
LEMMA RangeOfSetToSeq ==
  ASSUME NEW S, IsFiniteSet(S)
  PROVE  SetToSeq(S) \in Seq(S) /\ Range(SetToSeq(S)) = S
<1> DEFINE n == Cardinality(S)
<1>1. n \in Nat
  BY FS_CardinalityType
<1>2. PICK g : g \in Bijection(1..n, S)
  BY FS_CardinalityType DEF ExistsBijection
<1>3. \E f \in [1..n -> S] : IsInjective(f)
  BY <1>2 DEF Bijection, Injection, IsInjective
<1>4. SetToSeq(S) \in [1..n -> S] /\ IsInjective(SetToSeq(S))
  BY <1>3 DEF SetToSeq
<1>5. SetToSeq(S) \in Injection(1..n, S)
  BY <1>4 DEF Injection
<1>6. IsFiniteSet(1..n) /\ Cardinality(1..n) = n
  BY <1>1, FS_Interval
<1>7. SetToSeq(S) \in Surjection(1..n, S)
  BY <1>5, <1>6, FS_Injection
<1>. QED
  BY <1>1, <1>4, <1>7 DEF Surjection, Range

-----------------------------------------------------------------------------
(* Lemmas about the table and the objects. *)

LEMMA InTablesIs ==
  ASSUME TableOK
  PROVE  \A x : x \in InTables <=> x # None /\ \E k \in Kind : \E n \in Name : table[k][n] = x
  BY DEF TableOK, InTables, Range

LEMMA InTableIsOwn ==
  ASSUME TableOK, NEW d \in InTables
  PROVE  /\ d \in Objects /\ d # None /\ object[d].kind \in Kind /\ object[d].name \in Name
         /\ InTable(d) = d
<1>1. PICK k \in Kind, n \in Name : table[k][n] = d /\ d # None
  BY InTablesIs
<1>. QED
  BY <1>1 DEF TableOK, InTable

LEMMA PrototypesAre ==
  ASSUME TableOK
  PROVE  Prototypes = {d \in InTables : object[d].kind = "prototype"}
<1>1. ASSUME NEW d \in Prototypes PROVE d \in InTables /\ object[d].kind = "prototype"
  <2>1. PICK n \in Name : table["prototype"][n] = d /\ d # None
    BY DEF Prototypes, Range, TableOK, Kind
  <2>. QED
    BY <2>1, InTablesIs DEF TableOK, Kind
<1>2. ASSUME NEW d \in InTables, object[d].kind = "prototype" PROVE d \in Prototypes
  <2>1. PICK k \in Kind, n \in Name : table[k][n] = d /\ d # None
    BY InTablesIs
  <2>2. k = "prototype"
    BY <2>1, <1>2 DEF TableOK
  <2>. QED
    BY <2>1, <2>2 DEF Prototypes, Range, TableOK
<1>. QED
  BY <1>1, <1>2

LEMMA KeptAreObjects ==
  ASSUME RootsOK, TableOK, NEW o \in KeptObjects
  PROVE  o \in Objects
<1>1. CASE o \in InTables
  BY <1>1, InTableIsOwn
<1>2. CASE o \in Range(methods)
  BY <1>2 DEF RootsOK, Range
<1>. QED
  BY <1>1, <1>2 DEF KeptObjects

\* What Register does to the table.
LEMMA RegisterIs ==
  ASSUME TableOK, None \notin Objects, NEW d \in Objects, object[d].kind \in Kind,
         object[d].name \in Name, Register(d)
  PROVE  /\ First(d) \in Objects /\ First(d) # None
         /\ object[First(d)].kind = object[d].kind /\ object[First(d)].name = object[d].name
         /\ DOMAIN table' = Kind /\ \A k \in Kind : DOMAIN table'[k] = Name
         /\ \A k \in Kind : \A n \in Name :
              table'[k][n] = IF k = object[d].kind /\ n = object[d].name THEN First(d) ELSE table[k][n]
         /\ InTables' = InTables \cup {First(d)}
         /\ ~Introduced(d) => InTables' = InTables
         /\ Introduced(d) => First(d) = d
<1> DEFINE K == object[d].kind
           N == object[d].name
<1>1. InTable(d) = table[K][N] /\ (InTable(d) # None => InTable(d) \in Objects
        /\ object[InTable(d)].kind = K /\ object[InTable(d)].name = N)
  BY DEF InTable, TableOK
<1>2. /\ First(d) \in Objects /\ First(d) # None
      /\ object[First(d)].kind = K /\ object[First(d)].name = N
  BY <1>1 DEF First
<1>3. table' = [table EXCEPT ![K][N] = IF @ = None THEN d ELSE @]
  BY DEF Register
<1>4. DOMAIN table' = Kind /\ \A k \in Kind : DOMAIN table'[k] = Name
  BY <1>3 DEF TableOK
<1>5. \A k \in Kind : \A n \in Name :
        table'[k][n] = IF k = K /\ n = N THEN First(d) ELSE table[k][n]
  BY <1>1, <1>3 DEF TableOK, First
<1>6. \A x : x \in InTables' <=> x # None /\ \E k \in Kind : \E n \in Name : table'[k][n] = x
  BY <1>4 DEF InTables, Range
<1>7. \A x : x \in InTables <=> x # None /\ \E k \in Kind : \E n \in Name : table[k][n] = x
  BY InTablesIs
<1>8. InTables' = InTables \cup {First(d)}
  <2>1. ASSUME NEW x \in InTables' PROVE x \in InTables \cup {First(d)}
    BY <1>5, <1>6, <1>7
  <2>2. First(d) \in InTables'
    BY <1>2, <1>5, <1>6
  <2>3. ASSUME NEW x \in InTables PROVE x \in InTables'
    <3>1. PICK k \in Kind, n \in Name : table[k][n] = x /\ x # None
      BY <1>7
    <3>2. table'[k][n] = x
      BY <3>1, <1>5, <1>1 DEF First
    <3>. QED
      BY <3>1, <3>2, <1>6
  <2>. QED
    BY <2>1, <2>2, <2>3
<1>9. ASSUME ~Introduced(d) PROVE First(d) \in InTables
  BY <1>1, <1>7, <1>9 DEF Introduced, First
<1>. QED
  BY <1>2, <1>4, <1>5, <1>8, <1>9 DEF Introduced, First

\* A step that gives objects other properties keeps what is known of them.
Reshaped ==
  /\ DOMAIN object' = Objects
  /\ \A o \in Objects :
       /\ DOMAIN object'[o] = Fields
       /\ object'[o].kind = object[o].kind /\ object'[o].name = object[o].name
       /\ DOMAIN object'[o].properties = DOMAIN Properties(o)
       /\ \A i \in DOMAIN Properties(o) :
            LET p == object'[o].properties[i]
            IN  /\ DOMAIN p = PropertyFields
                /\ p.kind = Property(o, i).kind /\ p.name \in Name \cup {None}
                /\ p.def # None => /\ p.name = None /\ p.def \in Objects
                                   /\ object[p.def].kind = p.kind

LEMMA ReshapedKeeps ==
  ASSUME ObjectsOK, Reshaped
  PROVE  /\ ObjectsOK'
         /\ RootsOK /\ UNCHANGED <<methods, declared>> => RootsOK'
         /\ TableOK /\ UNCHANGED table => TableOK'
<1>1. Objects' = Objects
  BY DEF Reshaped, Objects
<1>2. \A o \in Objects : \A i \in DOMAIN Properties(o) :
        Property(o, i)' = object'[o].properties[i]
  BY DEF Property
<1>3. \A o \in Objects : DOMAIN Properties(o)' = DOMAIN Properties(o)
  BY DEF Properties, Reshaped
<1>4. ASSUME NEW o \in Objects, NEW i \in DOMAIN Properties(o)
      PROVE  /\ DOMAIN Property(o, i)' = PropertyFields
             /\ Property(o, i)'.kind \in Kind /\ Property(o, i)'.name \in Name \cup {None}
             /\ Property(o, i)'.def # None =>
                  /\ Property(o, i)'.name = None /\ Property(o, i)'.def \in Objects
                  /\ object'[Property(o, i)'.def].kind = Property(o, i)'.kind
  BY <1>2 DEF Reshaped, ObjectsOK
<1>5. ASSUME NEW o \in Objects
      PROVE  /\ DOMAIN object'[o] = Fields
             /\ object'[o].kind \in Kind => object'[o].name \in Name \cup {None}
             /\ object'[o].kind = "enum" => DOMAIN Properties(o)' = {}
             /\ \E n \in Nat : DOMAIN Properties(o)' = 1..n
  BY <1>3 DEF Reshaped, ObjectsOK
<1>6. ObjectsOK'
  BY <1>1, <1>3, <1>4, <1>5 DEF ObjectsOK
<1>7. RootsOK /\ UNCHANGED <<methods, declared>> => RootsOK'
  <2>1. SUFFICES ASSUME RootsOK, UNCHANGED <<methods, declared>> PROVE RootsOK'
    OBVIOUS
  <2>2. Range(methods) \subseteq Objects /\ Range(declared) \subseteq Objects
    BY <2>1 DEF RootsOK, Range
  <2>. QED
    BY <2>1, <2>2, <1>1 DEF RootsOK, Reshaped
<1>8. TableOK /\ UNCHANGED table => TableOK'
  BY <1>1 DEF TableOK, Reshaped
<1>. QED
  BY <1>6, <1>7, <1>8

LEMMA UnchangedObjects ==
  ASSUME ObjectsOK, UNCHANGED object
  PROVE  ObjectsOK' /\ Objects' = Objects
  BY DEF ObjectsOK, Objects, Properties, Property

-----------------------------------------------------------------------------
(* Each step keeps the invariant. *)

LEMMA InvInit ==
  ASSUME ManifestAssumption, Init
  PROVE  IInv
<1>1. PICK m \in Written :
        /\ object = m.object /\ declared = m.declared /\ methods = m.methods
        /\ table = [k \in Kind |-> [n \in Name |-> None]]
        /\ next = 1 /\ phase = "declare"
  BY DEF Init
<1>2. WellFormed(m) /\ None \notin Name
  BY DEF ManifestAssumption
<1>3. /\ IsFiniteSet(Objects) /\ None \notin Objects
      /\ methods \in Seq(Objects) /\ declared \in Seq(Objects)
      /\ \A o \in Range(methods) : object[o].kind \notin Kind
      /\ \A o \in Range(declared) : object[o].kind \in Kind
  BY SMTT(30), <1>1, <1>2 DEF WellFormed, Objects
<1>4. ASSUME NEW o \in Objects
      PROVE  /\ DOMAIN object[o] = Fields
             /\ object[o].kind \in Kind => object[o].name \in Name \cup {None}
             /\ object[o].kind = "enum" => DOMAIN Properties(o) = {}
             /\ \E n \in Nat : DOMAIN Properties(o) = 1..n
             /\ \A i \in DOMAIN Properties(o) :
                  /\ DOMAIN Property(o, i) = PropertyFields
                  /\ Property(o, i).kind \in Kind /\ Property(o, i).name \in Name \cup {None}
                  /\ Property(o, i).def # None =>
                       /\ Property(o, i).name = None /\ Property(o, i).def \in Objects
                       /\ object[Property(o, i).def].kind = Property(o, i).kind
  <2>1. o \in DOMAIN m.object /\ Properties(o) = m.object[o].properties
        /\ \A i : Property(o, i) = m.object[o].properties[i]
    BY <1>1 DEF Objects, Properties, Property
  <2>2. Properties(o) \in Seq(Range(Properties(o)))
    BY <1>2, <2>1 DEF WellFormed
  <2>3. DOMAIN Properties(o) = 1..Len(Properties(o)) /\ Len(Properties(o)) \in Nat
    BY <2>2
  <2>4. /\ DOMAIN object[o] = Fields
        /\ object[o].kind \in Kind => object[o].name \in Name \cup {None}
        /\ object[o].kind = "enum" => DOMAIN Properties(o) = {}
    BY <1>1, <1>2, <2>1 DEF WellFormed, Fields
  <2>5. ASSUME NEW i \in DOMAIN Properties(o)
        PROVE  /\ DOMAIN Property(o, i) = PropertyFields
               /\ Property(o, i).kind \in Kind /\ Property(o, i).name \in Name \cup {None}
               /\ Property(o, i).def # None =>
                    /\ Property(o, i).name = None /\ Property(o, i).def \in Objects
                    /\ object[Property(o, i).def].kind = Property(o, i).kind
    <3>1. i \in DOMAIN m.object[o].properties
      BY <2>1
    <3>2. /\ DOMAIN m.object[o].properties[i] = PropertyFields
          /\ m.object[o].properties[i].kind \in Kind
          /\ m.object[o].properties[i].name \in Name \cup {None}
          /\ m.object[o].properties[i].def # None =>
               /\ m.object[o].properties[i].name = None
               /\ m.object[o].properties[i].def \in DOMAIN m.object
               /\ m.object[m.object[o].properties[i].def].kind = m.object[o].properties[i].kind
      BY <1>2, <2>1, <3>1 DEF WellFormed, PropertyFields
    <3>. QED
      BY <1>1, <2>1, <3>2 DEF Objects
  <2>. QED
    BY Zenon, <2>3, <2>4, <2>5
<1>5. TableOK
  BY <1>1 DEF TableOK
<1>6. InTables = {}
  BY <1>1, <1>5, InTablesIs
<1>7. DeclaredOK
  BY <1>1, <1>3, <1>6 DEF DeclaredOK
<1>. QED
  BY <1>1, <1>3, <1>4, <1>5, <1>7
  DEF IInv, ObjectsOK, RootsOK, Walking, Walked, LinkedOK, PublishedOK

\* A step that changes neither objects nor the table keeps what is known of them.
LEMMA QuietKeeps ==
  ASSUME ObjectsOK, TableOK, UNCHANGED <<object, table, methods>>
  PROVE  /\ ObjectsOK' /\ TableOK' /\ Objects' = Objects
         /\ InTables' = InTables /\ KeptObjects' = KeptObjects
         /\ \A o : Properties(o)' = Properties(o)
         /\ \A o, i : Property(o, i)' = Property(o, i)
         /\ RootsOK /\ UNCHANGED declared => RootsOK'
<1>1. Objects' = Objects /\ InTables' = InTables
  BY DEF Objects, InTables
<1>2. RootsOK /\ UNCHANGED declared => RootsOK'
  BY <1>1 DEF RootsOK
<1>. QED
  BY <1>1, <1>2, UnchangedObjects DEF TableOK, KeptObjects, Properties, Property

LEMMA InvDeclare ==
  ASSUME IInv, Declare
  PROVE  IInv'
<1> DEFINE d == declared[next]
<1>1. /\ phase = "declare" /\ next \in DOMAIN declared /\ UNCHANGED <<object, methods, todo>>
      /\ ObjectsOK /\ RootsOK /\ TableOK /\ DeclaredOK
  BY DEF Declare, IInv
<1>2. CASE Refused(d)
  <2>1. phase' = "conflict" /\ UNCHANGED <<table, declared>>
    BY <1>2 DEF Declare
  <2>2. ObjectsOK' /\ RootsOK' /\ TableOK'
    BY <1>1, <2>1, QuietKeeps
  <2>. QED
    BY <2>1, <2>2 DEF IInv, DeclaredOK, Walking, Walked, LinkedOK, PublishedOK
<1>3. CASE ~Refused(d)
  <2>1. /\ Register(d) /\ declared' = [declared EXCEPT ![next] = First(d)]
        /\ next' = next + 1 /\ UNCHANGED phase
    BY <1>3 DEF Declare
  <2>2. d \in Range(declared)
    BY <1>1 DEF Range
  <2>3. d \in Objects /\ object[d].kind \in Kind /\ object[d].name \in Name /\ None \notin Objects
    <3>1. d \in Objects /\ object[d].kind \in Kind
      BY <1>1, <2>2 DEF RootsOK
    <3>. QED
      BY <1>1, <1>3, <3>1 DEF ObjectsOK, Refused
  <2>4. /\ First(d) \in Objects /\ First(d) # None
        /\ object[First(d)].kind = object[d].kind /\ object[First(d)].name = object[d].name
        /\ DOMAIN table' = Kind /\ \A k \in Kind : DOMAIN table'[k] = Name
        /\ \A k \in Kind : \A n \in Name :
             table'[k][n] = IF k = object[d].kind /\ n = object[d].name THEN First(d) ELSE table[k][n]
        /\ InTables' = InTables \cup {First(d)}
    BY <1>1, <2>1, <2>3, RegisterIs
  <2>5. ObjectsOK' /\ Objects' = Objects
    BY <1>1, UnchangedObjects
  <2>6. TableOK'
    BY <1>1, <2>4, <2>5 DEF TableOK
  <2>7. /\ declared \in Seq(Objects) /\ declared' \in Seq(Objects) /\ DOMAIN declared' = DOMAIN declared
        /\ \A j \in DOMAIN declared : declared'[j] = IF j = next THEN First(d) ELSE declared[j]
        /\ DOMAIN declared \subseteq Nat
    <3>1. declared \in Seq(Objects)
      BY <1>1 DEF RootsOK
    <3>2. declared' \in Seq(Objects) /\ DOMAIN declared' = DOMAIN declared
      BY <3>1, <2>1, <2>4, <1>1, ExceptSeq
    <3>3. DOMAIN declared = 1..Len(declared) /\ Len(declared) \in Nat
      BY <3>1
    <3>. QED
      BY <3>1, <3>2, <3>3, <2>1
  <2>8. \A o \in Range(declared') : object[o].kind \in Kind
    BY <1>1, <2>3, <2>4, <2>7 DEF RootsOK, Range
  <2>9. RootsOK'
    BY <1>1, <2>5, <2>7, <2>8 DEF RootsOK
  <2>10. DeclaredOK'
    <3>1. next \in Nat \ {0} /\ InTables = {declared[i] : i \in {j \in DOMAIN declared : j < next}}
      BY <1>1 DEF DeclaredOK
    <3>2. {j \in DOMAIN declared' : j < next + 1} = {j \in DOMAIN declared : j < next} \cup {next}
      BY <1>1, <2>7, <3>1
    <3>3. {declared'[i] : i \in {j \in DOMAIN declared' : j < next + 1}} = InTables \cup {First(d)}
      BY <1>1, <2>7, <3>1, <3>2
    <3>. QED
      BY <2>1, <2>4, <3>1, <3>3 DEF DeclaredOK
  <2>. QED
    BY <1>1, <2>1, <2>5, <2>6, <2>9, <2>10 DEF IInv, Walking, Walked, LinkedOK, PublishedOK
<1>. QED
  BY <1>2, <1>3

LEMMA InvStartCollecting ==
  ASSUME IInv, StartCollecting
  PROVE  IInv'
<1> DEFINE roots == methods \o declared
<1>1. /\ phase = "declare" /\ next \notin DOMAIN declared /\ phase' = "collect"
      /\ todo' = [k \in DOMAIN roots |-> <<roots[k], 1>>]
      /\ UNCHANGED <<object, methods, table, declared>>
      /\ ObjectsOK /\ RootsOK /\ TableOK /\ DeclaredOK
  BY DEF StartCollecting, IInv
<1>2. /\ ObjectsOK' /\ TableOK' /\ RootsOK' /\ Objects' = Objects
      /\ KeptObjects' = KeptObjects
      /\ \A o : Properties(o)' = Properties(o)
  BY <1>1, QuietKeeps
<1>3. roots \in Seq(Objects) /\ Range(roots) = Range(methods) \cup Range(declared)
  BY <1>1, RangeOfConcat DEF RootsOK
<1>4. todo' \in Seq(Objects \X (Nat \ {0})) /\ DOMAIN todo' = DOMAIN roots
  <2>1. roots \in [1..Len(roots) -> Objects] /\ Len(roots) \in Nat
    BY <1>3, LenProperties
  <2>2. todo' \in [1..Len(roots) -> Objects \X (Nat \ {0})]
    <3>1. DOMAIN roots = 1..Len(roots) /\ \A k \in 1..Len(roots) : roots[k] \in Objects
      BY <2>1
    <3>. QED
      BY <1>1, <3>1
  <2>. QED
    BY <1>1, <2>1, <2>2, SeqDef
<1>5. KeptObjects \subseteq Range(roots)
  BY <1>1, <1>3 DEF KeptObjects, DeclaredOK, Range
<1>6. ASSUME NEW o \in KeptObjects, NEW i \in DOMAIN Properties(o)
      PROVE  Waiting(o, i)'
  <2>1. PICK k \in DOMAIN roots : roots[k] = o
    BY <1>5 DEF Range
  <2>2. todo'[k] = <<o, 1>> /\ k \in DOMAIN todo'
    BY <1>1, <1>4, <2>1
  <2>3. <<o, 1>> \in Range(todo')
    BY <2>2 DEF Range
  <2>4. o \in Objects
    BY <1>3, <1>5 DEF Range
  <2>5. i \in Nat \ {0}
    BY <1>1, <2>4 DEF ObjectsOK
  <2>. QED
    BY <2>3, <2>5 DEF Waiting
<1>7. Walked'
  BY <1>1, <1>2, <1>6 DEF Walked
<1>. QED
  BY <1>1, <1>2, <1>4, <1>7 DEF IInv, DeclaredOK, Walking, LinkedOK, PublishedOK

LEMMA InvCollect ==
  ASSUME IInv, Collect
  PROVE  IInv'
<1> DEFINE o == Head(todo)[1]
           i == Head(todo)[2]
           d == Property(o, i).def
           rest == <<<<o, i + 1>>>> \o Tail(todo)
           Frames == Objects \X (Nat \ {0})
<1> HIDE DEF Frames, o, i, d, rest
<1>1. /\ phase = "collect" /\ todo # <<>> /\ UNCHANGED <<declared, methods>>
      /\ ObjectsOK /\ RootsOK /\ TableOK /\ todo \in Seq(Frames) /\ Walked
  BY Zenon DEF Collect, IInv, Walking, Frames
<1>2. /\ Head(todo) \in Frames /\ Tail(todo) \in Seq(Frames)
      /\ Range(todo) = {Head(todo)} \cup Range(Tail(todo))
  <2>1. todo \in Seq(Frames) /\ todo # <<>>
    BY <1>1
  <2>. QED
    BY <2>1, RangeOfHead, Zenon
<1>3. o \in Objects /\ i \in Nat \ {0} /\ Head(todo) = <<o, i>>
  BY <1>2 DEF Frames, o, i
<1>12. /\ i \notin DOMAIN Properties(o) => todo' = Tail(todo) /\ UNCHANGED <<object, table, phase>>
       /\ i \in DOMAIN Properties(o) /\ d = None => todo' = rest /\ UNCHANGED <<object, table, phase>>
       /\ i \in DOMAIN Properties(o) /\ d # None /\ Refused(d) =>
            phase' = "conflict" /\ UNCHANGED <<object, table, todo>>
       /\ i \in DOMAIN Properties(o) /\ d # None /\ ~Refused(d) =>
            /\ Register(d) /\ UNCHANGED phase
            /\ object' = [object EXCEPT ![o].properties[i].def = First(d)]
            /\ todo' = (IF Introduced(d) THEN <<<<d, 1>>>> ELSE <<>>) \o rest
  BY Zenon DEF Collect, Properties, o, i, d, rest
<1>4. rest \in Seq(Frames) /\ Range(rest) = {<<o, i + 1>>} \cup Range(Tail(todo))
  <2> DEFINE later == <<o, i + 1>>
             behind == Tail(todo)
  <2>1. later \in Frames /\ behind \in Seq(Frames)
    BY <1>2, <1>3 DEF Frames
  <2> HIDE DEF later, behind
  <2>2. <<later>> \o behind \in Seq(Frames)
        /\ Range(<<later>> \o behind) = {later} \cup Range(behind)
    BY <2>1, RangeOfPush
  <2>. QED
    BY <2>2 DEF later, behind, rest
<1>5. ASSUME NEW q \in KeptObjects, NEW j \in DOMAIN Properties(q)
      PROVE  \/ Property(q, j).def \in InTables \cup {None}
             \/ \E t \in Range(Tail(todo)) : t[1] = q /\ t[2] <= j
             \/ q = o /\ i = j
             \/ q = o /\ i + 1 <= j
  <2>1. Property(q, j).def \in InTables \cup {None} \/ Waiting(q, j)
    BY <1>1 DEF Walked
  <2>2. q \in Objects
    BY <1>1, KeptAreObjects
  <2>3. j \in Nat
    BY <1>1, <2>2 DEF ObjectsOK
  <2>. QED
    BY <2>1, <2>3, <1>2, <1>3 DEF Waiting
<1> HIDE DEF rest
<1>6. CASE i \notin DOMAIN Properties(o)
  <2>1. todo' = Tail(todo) /\ UNCHANGED <<object, table, phase>>
    BY <1>6, <1>12
  <2>2. /\ ObjectsOK' /\ TableOK' /\ RootsOK' /\ Objects' = Objects
        /\ InTables' = InTables /\ KeptObjects' = KeptObjects
        /\ \A q : Properties(q)' = Properties(q) /\ \A j : Property(q, j)' = Property(q, j)
    BY <1>1, <2>1, QuietKeeps
  <2>3. \A j \in DOMAIN Properties(o) : ~(i <= j)
    BY <1>1, <1>3, <1>6 DEF ObjectsOK
  <2>4. ASSUME NEW q \in KeptObjects, NEW j \in DOMAIN Properties(q)
        PROVE  Property(q, j).def \in InTables \cup {None} \/ Waiting(q, j)'
    <3>1. ~(q = o /\ i + 1 <= j) /\ ~(q = o /\ i = j)
      <4>1. j \in Nat
        BY <1>1, KeptAreObjects DEF ObjectsOK
      <4>. QED
        BY <1>3, <2>3, <4>1
    <3>2. Range(todo') = Range(Tail(todo))
      BY <2>1
    <3>3. \/ Property(q, j).def \in InTables \cup {None}
          \/ \E t \in Range(Tail(todo)) : t[1] = q /\ t[2] <= j
      BY <1>5, <3>1
    <3>. QED
      BY <3>2, <3>3 DEF Waiting
  <2>5. Walked'
    BY <1>1, <2>1, <2>2, <2>4 DEF Walked
  <2>. QED
    BY <1>1, <1>2, <2>1, <2>2, <2>5 DEF IInv, DeclaredOK, Walking, LinkedOK, PublishedOK, Frames
<1>7. CASE i \in DOMAIN Properties(o) /\ d = None
  <2>1. todo' = rest /\ UNCHANGED <<object, table, phase>>
    BY <1>7, <1>12
  <2>2. /\ ObjectsOK' /\ TableOK' /\ RootsOK' /\ Objects' = Objects
        /\ InTables' = InTables /\ KeptObjects' = KeptObjects
        /\ \A q : Properties(q)' = Properties(q) /\ \A j : Property(q, j)' = Property(q, j)
    BY <1>1, <2>1, QuietKeeps
  <2>3. ASSUME NEW q \in KeptObjects, NEW j \in DOMAIN Properties(q)
        PROVE  Property(q, j).def \in InTables \cup {None} \/ Waiting(q, j)'
    <3>1. Range(Tail(todo)) \cup {<<o, i + 1>>} \subseteq Range(todo')
      BY <1>4, <2>1
    <3>2. \/ Property(q, j).def \in InTables \cup {None}
          \/ \E t \in Range(Tail(todo)) : t[1] = q /\ t[2] <= j
          \/ q = o /\ i + 1 <= j
      BY <1>5, <1>7 DEF d
    <3>. QED
      BY <3>1, <3>2 DEF Waiting
  <2>4. Walked'
    BY <1>1, <2>1, <2>2, <2>3 DEF Walked
  <2>. QED
    BY <1>1, <1>4, <2>1, <2>2, <2>4 DEF IInv, DeclaredOK, Walking, LinkedOK, PublishedOK, Frames
<1>8. CASE i \in DOMAIN Properties(o) /\ d # None /\ Refused(d)
  <2>1. phase' = "conflict" /\ UNCHANGED <<object, table, todo>>
    BY <1>8, <1>12
  <2>2. ObjectsOK' /\ RootsOK' /\ TableOK'
    BY <1>1, <2>1, QuietKeeps
  <2>. QED
    BY <2>1, <2>2 DEF IInv, DeclaredOK, Walking, Walked, LinkedOK, PublishedOK
<1>9. CASE i \in DOMAIN Properties(o) /\ d # None /\ ~Refused(d)
  <2>1. /\ Register(d) /\ UNCHANGED phase
        /\ object' = [object EXCEPT ![o].properties[i].def = First(d)]
        /\ todo' = (IF Introduced(d) THEN <<<<d, 1>>>> ELSE <<>>) \o rest
    BY <1>9, <1>12
  <2>2. /\ Property(o, i).name = None /\ Property(o, i).kind \in Kind
        /\ DOMAIN Property(o, i) = PropertyFields /\ DOMAIN object[o] = Fields
        /\ object[d].kind = Property(o, i).kind /\ d \in Objects /\ object[d].name \in Name
        /\ None \notin Objects
    <3>1. /\ Property(o, i).name = None /\ Property(o, i).kind \in Kind
          /\ DOMAIN Property(o, i) = PropertyFields /\ DOMAIN object[o] = Fields
          /\ object[d].kind = Property(o, i).kind /\ d \in Objects /\ None \notin Objects
      BY <1>1, <1>3, <1>9 DEF ObjectsOK, d
    <3>. QED
      BY <1>1, <1>9, <3>1 DEF ObjectsOK, Refused
  <2>3. /\ First(d) \in Objects /\ First(d) # None
        /\ object[First(d)].kind = object[d].kind /\ object[First(d)].name = object[d].name
        /\ DOMAIN table' = Kind /\ \A k \in Kind : DOMAIN table'[k] = Name
        /\ \A k \in Kind : \A n \in Name :
             table'[k][n] = IF k = object[d].kind /\ n = object[d].name THEN First(d) ELSE table[k][n]
        /\ InTables' = InTables \cup {First(d)}
        /\ ~Introduced(d) => InTables' = InTables
        /\ Introduced(d) => First(d) = d
    BY <1>1, <2>1, <2>2, RegisterIs
  <2>4. /\ DOMAIN object' = Objects
        /\ \A q \in Objects : q # o => object'[q] = object[q]
        /\ DOMAIN object'[o] = Fields
        /\ object'[o].kind = object[o].kind /\ object'[o].name = object[o].name
        /\ object'[o].properties = [Properties(o) EXCEPT ![i].def = First(d)]
    BY <1>3, <2>1, <2>2 DEF Objects, Fields, Properties
  <2>5. /\ DOMAIN object'[o].properties = DOMAIN Properties(o)
        /\ \A j \in DOMAIN Properties(o) : j # i => object'[o].properties[j] = Property(o, j)
        /\ DOMAIN object'[o].properties[i] = PropertyFields
        /\ object'[o].properties[i].def = First(d)
        /\ object'[o].properties[i].name = None
        /\ object'[o].properties[i].kind = Property(o, i).kind
    BY <1>9, <2>2, <2>4 DEF Properties, Property, PropertyFields
  <2>6. Reshaped
    <3>1. ASSUME NEW q \in Objects, NEW j \in DOMAIN Properties(q)
          PROVE  LET p == object'[q].properties[j]
                 IN  /\ DOMAIN p = PropertyFields
                     /\ p.kind = Property(q, j).kind /\ p.name \in Name \cup {None}
                     /\ p.def # None => /\ p.name = None /\ p.def \in Objects
                                        /\ object[p.def].kind = p.kind
      <4>1. CASE q = o /\ j = i
        BY <4>1, <2>2, <2>3, <2>5
      <4>2. CASE ~(q = o /\ j = i)
        <5>1. object'[q].properties[j] = Property(q, j)
          BY <4>2, <2>4, <2>5 DEF Property, Properties
        <5>. QED
          BY <5>1, <1>1 DEF ObjectsOK
      <4>. QED
        BY <4>1, <4>2
    <3>2. ASSUME NEW q \in Objects
          PROVE  /\ DOMAIN object'[q] = Fields
                 /\ object'[q].kind = object[q].kind /\ object'[q].name = object[q].name
                 /\ DOMAIN object'[q].properties = DOMAIN Properties(q)
      <4>1. CASE q = o
        BY <4>1, <2>4, <2>5
      <4>2. CASE q # o
        BY <4>2, <2>4, <1>1 DEF Properties, ObjectsOK
      <4>. QED
        BY <4>1, <4>2
    <3>. QED
      BY <3>1, <3>2, <2>4 DEF Reshaped
  <2>7. ObjectsOK' /\ RootsOK' /\ Objects' = Objects
    BY <1>1, <2>4, <2>6, ReshapedKeeps DEF Objects
  <2>8. TableOK'
    BY <1>1, <2>3, <2>6, <2>7 DEF TableOK, Reshaped
  <2>9. /\ KeptObjects' = KeptObjects \cup {First(d)}
        /\ \A q \in KeptObjects' : q \in KeptObjects \/ (Introduced(d) /\ q = d)
    BY <1>1, <2>3 DEF KeptObjects
  <2>10. /\ todo' \in Seq(Frames)
         /\ Range(todo') = Range(rest) \cup (IF Introduced(d) THEN {<<d, 1>>} ELSE {})
    <3>1. CASE Introduced(d)
      <4>1. <<d, 1>> \in Frames
        BY <2>2 DEF Frames
      <4>2. /\ <<<<d, 1>>>> \o rest \in Seq(Frames)
            /\ Range(<<<<d, 1>>>> \o rest) = {<<d, 1>>} \cup Range(rest)
        BY <1>4, <4>1, RangeOfPush
      <4>. QED
        BY <2>1, <3>1, <4>2
    <3>2. CASE ~Introduced(d)
      <4>1. todo' = <<>> \o rest
        BY <2>1, <3>2
      <4>2. todo' = rest
        BY <1>4, <4>1
      <4>. QED
        BY <1>4, <3>2, <4>2
    <3>. QED
      BY <3>1, <3>2
  <2>11. ASSUME NEW q \in KeptObjects', NEW j \in DOMAIN Properties(q)'
         PROVE  Property(q, j)'.def \in InTables' \cup {None} \/ Waiting(q, j)'
    <3>1. q \in Objects /\ j \in DOMAIN Properties(q) /\ j \in Nat \ {0}
      <4>1. q \in Objects
        BY <1>1, <2>2, <2>9, KeptAreObjects
      <4>. QED
        BY <1>1, <2>6, <4>1 DEF Reshaped, Properties, ObjectsOK
    <3>2. CASE q = o /\ j = i
      BY <2>3, <2>5, <3>2 DEF Property
    <3>3. CASE ~(q = o /\ j = i) /\ q \in KeptObjects
      <4>1. Property(q, j)' = Property(q, j)
        BY <2>4, <2>5, <3>1, <3>3 DEF Property, Properties
      <4>2. Range(Tail(todo)) \cup {<<o, i + 1>>} \subseteq Range(todo')
        BY <1>4, <2>10
      <4>3. \/ Property(q, j).def \in InTables \cup {None}
            \/ \E t \in Range(Tail(todo)) : t[1] = q /\ t[2] <= j
            \/ q = o /\ i + 1 <= j
        BY <1>5, <3>1, <3>3
      <4>4. CASE Property(q, j).def \in InTables \cup {None}
        BY <2>3, <4>1, <4>4
      <4>. QED
        BY <4>2, <4>3, <4>4 DEF Waiting
    <3>4. CASE Introduced(d) /\ q = d
      <4>1. <<d, 1>> \in Range(todo')
        BY <2>10, <3>4
      <4>. QED
        BY <3>1, <3>4, <4>1 DEF Waiting
    <3>. QED
      BY <2>9, <3>2, <3>3, <3>4
  <2>12. Walked'
    BY <1>1, <2>1, <2>11 DEF Walked
  <2>. QED
    BY <1>1, <2>1, <2>7, <2>8, <2>10, <2>12
    DEF IInv, DeclaredOK, Walking, LinkedOK, PublishedOK, Frames
<1>. QED
  <2>1. \/ i \notin DOMAIN Properties(o)
        \/ i \in DOMAIN Properties(o) /\ d = None
        \/ i \in DOMAIN Properties(o) /\ d # None /\ Refused(d)
        \/ i \in DOMAIN Properties(o) /\ d # None /\ ~Refused(d)
    BY ZenonT(60)
  <2>. QED
    BY <2>1, <1>6, <1>7, <1>8, <1>9

LEMMA InvStartLinking ==
  ASSUME IInv, StartLinking
  PROVE  IInv'
<1>1. /\ phase = "collect" /\ todo = <<>> /\ unlinked' = InTables \cup Range(methods)
      /\ phase' = "link" /\ UNCHANGED <<object, declared, methods, table>>
      /\ ObjectsOK /\ RootsOK /\ TableOK /\ Walked
  BY DEF StartLinking, IInv
<1>2. /\ ObjectsOK' /\ TableOK' /\ RootsOK'
      /\ InTables' = InTables /\ KeptObjects' = KeptObjects
      /\ \A q : Properties(q)' = Properties(q) /\ \A j : Property(q, j)' = Property(q, j)
  BY <1>1, QuietKeeps
<1>3. \A q, j : ~Waiting(q, j)
  BY <1>1 DEF Waiting, Range
<1>4. Walked'
  BY <1>1, <1>2, <1>3 DEF Walked
<1>5. unlinked' = KeptObjects
  BY <1>1 DEF KeptObjects
<1>. QED
  BY <1>1, <1>2, <1>4, <1>5 DEF IInv, DeclaredOK, Walking, LinkedOK, PublishedOK

LEMMA InvLink ==
  ASSUME IInv, Link
  PROVE  IInv'
<1>1. /\ phase = "link" /\ UNCHANGED <<declared, methods, table>>
      /\ ObjectsOK /\ RootsOK /\ TableOK /\ Walked /\ LinkedOK
  BY ZenonT(60) DEF Link, IInv
<1> DEFINE Named(o) == {p \in Range(object[o].properties) : p.def = None /\ p.name # None}
           Linked(o, p) == IF p \in Named(o) THEN [p EXCEPT !.name = None, !.def = table[p.kind][p.name]]
                           ELSE p
<1>2. PICK o \in unlinked :
        IF \E p \in Named(o) : table[p.kind][p.name] = None
        THEN phase' = "unknown" /\ UNCHANGED <<object, unlinked>>
        ELSE /\ object' = [object EXCEPT ![o].properties = [i \in DOMAIN @ |-> Linked(o, @[i])]]
             /\ unlinked' = unlinked \ {o}
             /\ UNCHANGED phase
  BY ZenonT(60) DEF Link
<1>3. o \in KeptObjects /\ o \in Objects
  BY Zenon, <1>1, <1>2, KeptAreObjects DEF LinkedOK
<1>4. CASE \E p \in Named(o) : table[p.kind][p.name] = None
  <2>1. phase' = "unknown" /\ UNCHANGED <<object, unlinked>>
    BY Zenon, <1>2, <1>4
  <2>2. /\ ObjectsOK' /\ TableOK' /\ RootsOK'
        /\ InTables' = InTables /\ KeptObjects' = KeptObjects
        /\ \A q : Properties(q)' = Properties(q) /\ \A j : Property(q, j)' = Property(q, j)
    BY <1>1, <2>1, QuietKeeps
  <2>3. Walked'
    BY SMTT(30), <1>1, <2>1, <2>2 DEF Walked
  <2>. QED
    BY SMTT(30), <2>1, <2>2, <2>3 DEF IInv, DeclaredOK, Walking, LinkedOK, PublishedOK
<1>5. CASE ~\E p \in Named(o) : table[p.kind][p.name] = None
  <2>1. /\ object' = [object EXCEPT ![o].properties = [i \in DOMAIN @ |-> Linked(o, @[i])]]
        /\ unlinked' = unlinked \ {o} /\ UNCHANGED phase
    BY Zenon, <1>2, <1>5
  <2>2. /\ DOMAIN object[o] = Fields
        /\ \A i \in DOMAIN Properties(o) :
             /\ DOMAIN Property(o, i) = PropertyFields
             /\ Property(o, i).kind \in Kind /\ Property(o, i).name \in Name \cup {None}
             /\ Property(o, i).def # None =>
                  /\ Property(o, i).name = None /\ Property(o, i).def \in Objects
                  /\ object[Property(o, i).def].kind = Property(o, i).kind
    BY <1>1, <1>3 DEF ObjectsOK
  <2>3. /\ DOMAIN object' = Objects
        /\ \A q \in Objects : q # o => object'[q] = object[q]
        /\ DOMAIN object'[o] = Fields
        /\ object'[o].kind = object[o].kind /\ object'[o].name = object[o].name
        /\ object'[o].properties = [i \in DOMAIN Properties(o) |-> Linked(o, Property(o, i))]
    BY <1>3, <2>1, <2>2 DEF Objects, Fields, Properties, Property
  <2>4. ASSUME NEW i \in DOMAIN Properties(o)
        PROVE  LET p == object'[o].properties[i]
               IN  /\ DOMAIN p = PropertyFields /\ p.kind = Property(o, i).kind /\ p.name = None
                   /\ p.def # None => p.def \in Objects /\ object[p.def].kind = p.kind
                   /\ p.def \in InTables \cup {None} \/ p.def = Property(o, i).def
    <3> DEFINE p == Property(o, i)
    <3>1. object'[o].properties[i] = Linked(o, p)
      BY <2>3
    <3>2. p \in Range(object[o].properties)
      BY DEF Property, Properties, Range
    <3>3. CASE p \in Named(o)
      <4>1. Linked(o, p) = [p EXCEPT !.name = None, !.def = table[p.kind][p.name]]
        BY <3>3
      <4>2. p.kind \in Kind /\ p.name \in Name /\ DOMAIN p = PropertyFields
        BY <2>2, <3>3
      <4>3. table[p.kind][p.name] # None
        BY <1>5, <3>3
      <4>4. table[p.kind][p.name] \in InTables
        BY <1>1, <4>2, <4>3, InTablesIs
      <4>5. table[p.kind][p.name] \in Objects /\ object[table[p.kind][p.name]].kind = p.kind
        BY <1>1, <4>2, <4>3 DEF TableOK
      <4> DEFINE q == Linked(o, p)
      <4>6. DOMAIN q = PropertyFields /\ q.kind = p.kind /\ q.name = None
            /\ q.def = table[p.kind][p.name]
        BY <4>1, <4>2 DEF PropertyFields
      <4>. QED
        BY <3>1, <4>4, <4>5, <4>6
    <3>4. CASE p \notin Named(o)
      <4>1. Linked(o, p) = p
        BY <3>4
      <4>2. p.name = None
        BY <2>2, <3>2, <3>4
      <4>. QED
        BY <2>2, <3>1, <4>1, <4>2
    <3>. QED
      BY <3>3, <3>4
  <2>5. Reshaped
    <3>1. ASSUME NEW q \in Objects, NEW i \in DOMAIN Properties(q)
          PROVE  LET p == object'[q].properties[i]
                 IN  /\ DOMAIN p = PropertyFields
                     /\ p.kind = Property(q, i).kind /\ p.name \in Name \cup {None}
                     /\ p.def # None => /\ p.name = None /\ p.def \in Objects
                                        /\ object[p.def].kind = p.kind
      <4>1. CASE q = o
        BY <2>4, <4>1
      <4>2. CASE q # o
        <5>1. object'[q].properties[i] = Property(q, i)
          BY <2>3, <4>2 DEF Property
        <5>. QED
          BY SMTT(30), <1>1, <5>1 DEF ObjectsOK
      <4>. QED
        BY <4>1, <4>2
    <3>2. ASSUME NEW q \in Objects
          PROVE  /\ DOMAIN object'[q] = Fields
                 /\ object'[q].kind = object[q].kind /\ object'[q].name = object[q].name
                 /\ DOMAIN object'[q].properties = DOMAIN Properties(q)
      <4>1. CASE q = o
        BY <2>3, <4>1
      <4>2. CASE q # o
        BY <1>1, <2>3, <4>2 DEF Properties, ObjectsOK
      <4>. QED
        BY <4>1, <4>2
    <3>. QED
      BY <2>3, <3>1, <3>2 DEF Reshaped
  <2>6. ObjectsOK' /\ RootsOK' /\ TableOK'
    BY <1>1, <2>5, ReshapedKeeps
  <2>7. InTables' = InTables /\ KeptObjects' = KeptObjects
    BY <1>1 DEF InTables, KeptObjects
  <2>8. ASSUME NEW q \in KeptObjects, NEW i \in DOMAIN Properties(q)'
        PROVE  /\ Property(q, i)'.def \in InTables \cup {None}
               /\ q \notin unlinked' => Property(q, i)'.name = None
    <3>1. q \in Objects /\ i \in DOMAIN Properties(q)
      BY <1>1, <2>5, KeptAreObjects DEF Reshaped, Properties
    <3>2. Property(q, i).def \in InTables \cup {None}
      BY <1>1, <3>1 DEF Walked
    <3>3. CASE q = o
      BY <2>4, <3>1, <3>2, <3>3 DEF Property
    <3>4. CASE q # o
      <4>1. Property(q, i)' = Property(q, i)
        BY ZenonT(60), <2>3, <3>1, <3>4 DEF Property
      <4>2. q \notin unlinked' => Property(q, i).name = None
        BY ZenonT(60), <1>1, <2>1, <3>1, <3>4 DEF LinkedOK
      <4>. QED
        BY SMTT(30), <3>2, <4>1, <4>2
    <3>. QED
      BY <3>3, <3>4
  <2>9. Walked'
    BY ZenonT(60), <1>1, <2>1, <2>7, <2>8 DEF Walked
  <2>10. LinkedOK'
    BY Zenon, <1>1, <2>1, <2>7, <2>8 DEF LinkedOK
  <2>. QED
    BY ZenonT(60), <1>1, <2>1, <2>6, <2>9, <2>10 DEF IInv, DeclaredOK, Walking, PublishedOK
<1>. QED
  BY SMTT(30), <1>4, <1>5

\* The steps of DetectCycles and Validate.
LEMMA InvSearch ==
  ASSUME IInv, UNCHANGED <<object, declared, methods, table>>,
         phase' \in {"cycles", "cyclic", "valid", "invalid"},
         \/ phase = "link" /\ unlinked = {} /\ phase' = "cycles"
         \/ phase = "cycles" /\ phase' \in {"cycles", "cyclic"}
         \/ phase = "resolved"
  PROVE  IInv'
<1>1. ObjectsOK /\ RootsOK /\ TableOK /\ Walked /\ LinkedOK /\ PublishedOK
  BY DEF IInv
<1>2. /\ ObjectsOK' /\ TableOK' /\ RootsOK'
      /\ InTables' = InTables /\ KeptObjects' = KeptObjects
      /\ \A q : Properties(q)' = Properties(q) /\ \A j : Property(q, j)' = Property(q, j)
  BY <1>1, QuietKeeps
<1>3. Walked'
  BY <1>1, <1>2 DEF Walked
<1>4. LinkedOK'
  BY <1>1, <1>2 DEF LinkedOK
<1>5. PublishedOK'
  BY <1>1, <1>2 DEF PublishedOK
<1>. QED
  BY <1>2, <1>3, <1>4, <1>5 DEF IInv, DeclaredOK, Walking

LEMMA InvPublish ==
  ASSUME IInv, Publish
  PROVE  IInv'
<1>1. /\ phase = "cycles" /\ phase' = "resolved" /\ declared' = SetToSeq(InTables)
      /\ UNCHANGED <<object, methods, table>>
      /\ ObjectsOK /\ RootsOK /\ TableOK /\ Walked /\ LinkedOK
  BY DEF Publish, IInv
<1>2. /\ ObjectsOK' /\ TableOK' /\ Objects' = Objects
      /\ InTables' = InTables /\ KeptObjects' = KeptObjects
      /\ \A q : Properties(q)' = Properties(q) /\ \A j : Property(q, j)' = Property(q, j)
  BY <1>1, QuietKeeps
<1>3. InTables \subseteq Objects /\ IsFiniteSet(InTables) /\ \A d \in InTables : object[d].kind \in Kind
  <2>1. \A d \in InTables : d \in Objects /\ object[d].kind \in Kind
    BY <1>1, InTableIsOwn
  <2>2. IsFiniteSet(InTables)
    BY <1>1, <2>1, FS_Subset DEF ObjectsOK
  <2>. QED
    BY <2>1, <2>2
<1>4. declared' \in Seq(InTables) /\ Range(declared') = InTables
  BY <1>1, <1>3, RangeOfSetToSeq
<1>5. declared' \in Seq(Objects)
  BY <1>3, <1>4
<1>6. RootsOK'
  BY <1>1, <1>2, <1>3, <1>4, <1>5 DEF RootsOK
<1>7. Walked'
  BY <1>1, <1>2 DEF Walked
<1>8. LinkedOK'
  BY <1>1, <1>2 DEF LinkedOK
<1>9. PublishedOK'
  BY <1>2, <1>4 DEF PublishedOK
<1>. QED
  BY <1>1, <1>2, <1>6, <1>7, <1>8, <1>9 DEF IInv, DeclaredOK, Walking

LEMMA InvStutter ==
  ASSUME IInv, UNCHANGED vars
  PROVE  IInv'
<1>1. ObjectsOK' /\ TableOK' /\ RootsOK' /\ Objects' = Objects
      /\ InTables' = InTables /\ KeptObjects' = KeptObjects
      /\ \A q : Properties(q)' = Properties(q) /\ \A j : Property(q, j)' = Property(q, j)
  BY QuietKeeps DEF IInv, vars
<1>2. UNCHANGED vars
  OBVIOUS
<1>3. \A q, j : Waiting(q, j)' <=> Waiting(q, j)
  BY <1>2 DEF Waiting, vars
<1>. QED
  BY <1>1, <1>2, <1>3 DEF IInv, DeclaredOK, Walking, Walked, LinkedOK, PublishedOK, vars

LEMMA InvNext ==
  ASSUME IInv, [Next]_vars
  PROVE  IInv'
<1>1. CASE StartDetecting
  BY <1>1, InvSearch DEF StartDetecting
<1>2. CASE Visit
  BY <1>2, InvSearch DEF Visit
<1>3. CASE Descend
  <2>1. phase = "cycles" /\ phase' \in {"cycles", "cyclic"} /\ UNCHANGED <<object, declared, methods, table>>
    BY <1>3 DEF Descend
  <2>. QED
    BY <2>1, InvSearch
<1>4. CASE Validate
  <2>1. phase = "resolved" /\ phase' \in {"valid", "invalid"} /\ UNCHANGED <<object, declared, methods, table>>
    BY <1>4 DEF Validate
  <2>. QED
    BY <2>1, InvSearch
<1>5. CASE Over \/ UNCHANGED vars
  BY <1>5, InvStutter DEF Over
<1>. QED
  BY <1>1, <1>2, <1>3, <1>4, <1>5, InvDeclare, InvStartCollecting, InvCollect, InvStartLinking,
     InvLink, InvPublish DEF Next, Step

-----------------------------------------------------------------------------
(* What the passes come to. *)

\* What an object that is kept refers to, from the end of Collect on.
LEMMA KeptRefersKept ==
  ASSUME IInv, phase \notin {"declare", "conflict", "collect"}, NEW o \in KeptObjects
  PROVE  Refers(o) \subseteq InTables
<1>1. SUFFICES ASSUME NEW q \in Refers(o) PROVE q \in InTables
  OBVIOUS
<1>2. PICK i \in DOMAIN object[o].properties : object[o].properties[i].def = q /\ q # None
  BY DEF Refers, Range
<1>3. i \in DOMAIN Properties(o) /\ Property(o, i).def = q
  BY <1>2 DEF Properties, Property
<1>. QED
  BY <1>2, <1>3 DEF IInv, Walked

\* A method or definition of the table reaches definitions of the table only.
LEMMA KeptReachesKept ==
  ASSUME IInv, phase \notin {"declare", "conflict", "collect"},
         NEW o \in KeptObjects, NEW q, Reaches(o, q)
  PROVE  q \in InTables
<1>1. InTables \in SUBSET Objects
  BY InTableIsOwn DEF IInv
<1>2. Refers(o) \subseteq InTables /\ \A x \in InTables : Refers(x) \subseteq InTables
  BY KeptRefersKept DEF KeptObjects
<1>. QED
  BY <1>1, <1>2 DEF Reaches

LEMMA IInvOneDefinition ==
  ASSUME IInv
  PROVE  OneDefinitionPerName
<1> DEFINE roots == Range(methods) \cup Range(declared)
           all == roots \cup {o \in Objects : \E r \in roots : Reaches(r, o)}
<1>1. SUFFICES ASSUME phase \in {"resolved", "valid", "invalid"}, NEW o \in all
               PROVE  /\ o \in Range(methods) \/ (o \in Range(declared) /\ InTable(o) = o)
                      /\ \A p \in Range(object[o].properties) : p.name = None
  BY DEF OneDefinitionPerName
<1>2. Range(declared) = InTables /\ roots = KeptObjects
  BY <1>1 DEF IInv, PublishedOK, KeptObjects
<1>3. o \in KeptObjects
  <2>1. CASE o \in roots
    BY <1>2, <2>1
  <2>2. CASE \E r \in roots : Reaches(r, o)
    BY <1>1, <1>2, <2>2, KeptReachesKept DEF KeptObjects
  <2>. QED
    BY <2>1, <2>2
<1>4. o \in Range(methods) \/ (o \in Range(declared) /\ InTable(o) = o)
  BY <1>2, <1>3, InTableIsOwn DEF KeptObjects, IInv
<1>5. ASSUME NEW p \in Range(object[o].properties) PROVE p.name = None
  <2>1. PICK i \in DOMAIN object[o].properties : object[o].properties[i] = p
    BY DEF Range
  <2>2. i \in DOMAIN Properties(o) /\ Property(o, i) = p
    BY <2>1 DEF Properties, Property
  <2>. QED
    BY <1>1, <1>3, <2>2 DEF IInv, LinkedOK
<1>. QED
  BY <1>4, <1>5

\* Resolve: the objects, the table and the lists of a manifest keep to the invariant
\* of Register, Collect and Link through every pass.
THEOREM ManifestInv == ManifestAssumption /\ Spec => []IInv
<1>1. ManifestAssumption /\ Init => IInv
  BY InvInit
<1>2. IInv /\ [Next]_vars => IInv'
  BY InvNext
<1>. QED
  BY <1>1, <1>2, PTL DEF Spec

\* TypeTable: whatever the methods and definitions of a resolved manifest refer to,
\* however far down, is the one definition published under its name.
THEOREM NamesAreOneDefinition == ManifestAssumption /\ Spec => []OneDefinitionPerName
<1>1. IInv => OneDefinitionPerName
  BY SMTT(30), IInvOneDefinition
<1>. QED
  BY <1>1, ManifestInv, PTL

-----------------------------------------------------------------------------
(* DetectCycles: what the search knows of the prototypes it has passed. *)

LEMMA EndOfPath ==
  ASSUME NEW S, NEW s \in Seq(S), s # <<>>
  PROVE  /\ Len(s) \in Nat \ {0} /\ DOMAIN s = 1..Len(s)
         /\ Last(s) = s[Len(s)] /\ Last(s) \in S
         /\ Front(s) \in Seq(S) /\ DOMAIN Front(s) = 1..(Len(s) - 1)
         /\ \A k \in 1..(Len(s) - 1) : Front(s)[k] = s[k]
         /\ \A x \in S :
              LET t == Append(Front(s), x)
              IN  /\ t \in Seq(S) /\ DOMAIN t = 1..Len(s) /\ t[Len(s)] = x /\ t # <<>>
                  /\ \A k \in 1..(Len(s) - 1) : t[k] = s[k]
<1>1. Len(s) \in Nat \ {0} /\ DOMAIN s = 1..Len(s)
  OBVIOUS
<1>2. /\ Front(s) \in Seq(S) /\ Len(Front(s)) = Len(s) - 1
      /\ \A k \in 1..(Len(s) - 1) : Front(s)[k] = s[k]
  <2>1. /\ SubSeq(s, 1, Len(s) - 1) \in Seq(S)
        /\ Len(SubSeq(s, 1, Len(s) - 1)) = Len(s) - 1
        /\ \A k \in 1..(Len(s) - 1) : SubSeq(s, 1, Len(s) - 1)[k] = s[k]
    BY <1>1, SubSeqProperties
  <2>. QED
    BY <2>1 DEF Front
<1>3. Last(s) = s[Len(s)] /\ s[Len(s)] \in S
  BY <1>1 DEF Last
<1> DEFINE f == Front(s)
<1>4. f \in Seq(S) /\ Len(f) = Len(s) - 1 /\ \A k \in 1..(Len(s) - 1) : f[k] = s[k]
  BY <1>2
<1> HIDE DEF f
<1>5. DOMAIN f = 1..(Len(s) - 1)
  BY SMTT(30), <1>4
<1>6. ASSUME NEW x \in S
      PROVE  /\ Append(f, x) \in Seq(S) /\ DOMAIN Append(f, x) = 1..Len(s)
             /\ Append(f, x)[Len(s)] = x /\ Append(f, x) # <<>>
             /\ \A k \in 1..(Len(s) - 1) : Append(f, x)[k] = s[k]
  <2>1. /\ Append(f, x) \in Seq(S) /\ Len(Append(f, x)) = Len(s)
        /\ \A k \in 1..Len(f) : Append(f, x)[k] = f[k]
        /\ Append(f, x)[Len(s)] = x
    <3>1. /\ Append(f, x) \in Seq(S) /\ Len(Append(f, x)) = Len(f) + 1
          /\ \A k \in 1..Len(f) : Append(f, x)[k] = f[k]
          /\ Append(f, x)[Len(f) + 1] = x
      BY <1>4, AppendProperties
    <3>2. Len(f) + 1 = Len(s)
      BY <1>1, <1>4
    <3>. QED
      BY <3>1, <3>2
  <2>2. DOMAIN Append(f, x) = 1..Len(s)
    BY <2>1
  <2>. QED
    BY Zenon, <1>1, <1>4, <2>1, <2>2
<1>. QED
  BY Zenon, <1>1, <1>3, <1>4, <1>5, <1>6 DEF f

LEMMA ReachesReferred ==
  ASSUME NEW o, NEW q \in Refers(o)
  PROVE  Reaches(o, q)
BY DEF Reaches

LEMMA ReachesOn ==
  ASSUME NEW o, NEW x, NEW q \in Refers(x), Reaches(o, x)
  PROVE  Reaches(o, q)
BY DEF Reaches

LEMMA ReferredByProperty ==
  ASSUME NEW o, NEW i \in DOMAIN Properties(o), Property(o, i).def # None
  PROVE  Property(o, i).def \in Refers(o)
BY DEF Refers, Range, Properties, Property

LEMMA SameReaches ==
  ASSUME UNCHANGED object
  PROVE  \A o, q : Reaches(o, q)' <=> Reaches(o, q)
BY DEF Reaches, Refers, Objects

\* From a linked prototype an edge leads to a prototype of the table.
LEMMA EdgeToPrototype ==
  ASSUME IInv, phase \notin {"declare", "conflict", "collect"},
         NEW d \in Prototypes, NEW i \in DOMAIN Properties(d),
         Property(d, i).kind = "prototype", Property(d, i).def # None
  PROVE  Property(d, i).def \in Prototypes
<1>1. d \in InTables /\ d \in Objects
  BY PrototypesAre, InTableIsOwn DEF IInv
<1>2. Property(d, i).def \in InTables
  BY <1>1, KeptRefersKept, ReferredByProperty DEF KeptObjects
<1>3. object[Property(d, i).def].kind = "prototype"
  BY <1>1 DEF IInv, ObjectsOK
<1>. QED
  BY <1>2, <1>3, PrototypesAre DEF IInv

\* A search that begins at a prototype whose edges all lead to what is done does not
\* come back to it.
LEMMA PassedIsAcyclic ==
  ASSUME IInv, DoneClosed, Detecting, NEW d \in Prototypes, marks[d] # "Done",
         \A e \in Objects : Edge(d, e) => marks[e] = "Done"
  PROVE  ~Reaches(d, d)
<1> DEFINE X == {e \in InTables : object[e].kind = "enum" \/ marks[e] = "Done"}
<1>1. /\ \A e \in InTables : e \in Objects /\ object[e].kind \in Kind
      /\ phase \notin {"declare", "conflict", "collect"}
  BY InTableIsOwn DEF IInv, Detecting
<1>2. d \in InTables /\ object[d].kind = "prototype"
  BY PrototypesAre DEF IInv
<1>3. ASSUME NEW x \in InTables,
             object[x].kind # "enum" => \A e \in Objects : Edge(x, e) => marks[e] = "Done"
      PROVE  Refers(x) \subseteq X
  <2>1. SUFFICES ASSUME NEW q \in Refers(x) PROVE q \in X
    OBVIOUS
  <2>2. q \in InTables
    BY <1>1, KeptRefersKept DEF KeptObjects
  <2>3. PICK i \in DOMAIN object[x].properties : object[x].properties[i].def = q /\ q # None
    BY DEF Refers, Range
  <2>4. i \in DOMAIN Properties(x) /\ Property(x, i).def = q
    BY <2>3 DEF Properties, Property
  <2>5. object[q].kind = Property(x, i).kind /\ object[x].kind # "enum"
    BY <1>1, <2>3, <2>4 DEF IInv, ObjectsOK
  <2>6. CASE object[q].kind = "enum"
    BY <2>2, <2>6
  <2>7. CASE object[q].kind = "prototype"
    <3>1. Edge(x, q)
      BY <2>3, <2>4, <2>5, <2>7 DEF Edge
    <3>. QED
      BY <1>1, <1>3, <2>2, <2>5, <3>1
  <2>. QED
    BY <1>1, <2>2, <2>6, <2>7 DEF Kind
<1>4. Refers(d) \subseteq X
  BY <1>2, <1>3
<1>5. ASSUME NEW x \in X PROVE Refers(x) \subseteq X
  <2>1. ASSUME object[x].kind # "enum" PROVE \A e \in Objects : Edge(x, e) => marks[e] = "Done"
    <3>1. x \in Prototypes /\ marks[x] = "Done"
      BY <1>1, <2>1, PrototypesAre DEF IInv, Kind
    <3>. QED
      BY <3>1 DEF DoneClosed
  <2>. QED
    BY <1>3, <2>1
<1>6. X \in SUBSET Objects /\ d \notin X
  BY <1>1, <1>2
<1>. QED
  BY <1>4, <1>5, <1>6 DEF Reaches

-----------------------------------------------------------------------------
(* Each step keeps what DetectCycles knows. *)

LEMMA SearchInit ==
  ASSUME ManifestAssumption, Init
  PROVE  SearchInv
<1>1. /\ phase = "declare" /\ path = <<>> /\ DOMAIN marks = Objects
      /\ \A o \in Objects : marks[o] = "Unvisited"
  BY DEF Init, Objects
<1>2. \A d \in Prototypes : d \in Objects
  BY InvInit, PrototypesAre, InTableIsOwn DEF IInv
<1>. QED
  BY <1>1, <1>2 DEF SearchInv, MarksOK, PathOK, Passed, DoneClosed, DoneAcyclic, PathReaches,
     AllDone, CycleRefused, Detecting, Detected

\* The passes before DetectCycles.
LEMMA SearchEarly ==
  ASSUME IInv', SearchInv, UNCHANGED <<marks, path>>, Objects' = Objects,
         phase \in {"declare", "collect", "link"},
         phase' \in {"declare", "collect", "link", "conflict", "unknown", "cycles"}
  PROVE  SearchInv'
<1>1. /\ path' = <<>> /\ DOMAIN marks' = Objects'
      /\ \A o \in Objects' : marks'[o] = "Unvisited"
  BY DEF SearchInv, MarksOK
<1>2. \A d \in Prototypes' : d \in Objects'
  <2>1. SUFFICES ASSUME NEW d \in Prototypes' PROVE d \in Objects'
    OBVIOUS
  <2>2. TableOK'
    BY DEF IInv
  <2>3. PICK n \in Name : table'["prototype"][n] = d /\ d # None
    BY <2>2 DEF Prototypes, Range, TableOK, Kind
  <2>. QED
    BY <2>2, <2>3 DEF TableOK, Kind
<1>3. \A d \in Prototypes' : marks'[d] = "Unvisited"
  BY <1>1, <1>2
<1>4. path' \in Seq(Prototypes' \X (Nat \ {0})) /\ DOMAIN path' = {}
  BY <1>1
<1>5. MarksOK' /\ PathOK' /\ Passed'
  BY <1>1, <1>3, <1>4 DEF MarksOK, PathOK, Passed
<1>6. DoneClosed' /\ DoneAcyclic' /\ PathReaches'
  BY <1>3, <1>4 DEF DoneClosed, DoneAcyclic, PathReaches
<1>. QED
  BY <1>5, <1>6 DEF SearchInv, AllDone, CycleRefused, Detected

\* A step that leaves the search alone.
LEMMA SearchQuiet ==
  ASSUME SearchInv, UNCHANGED <<object, table, marks, path>>,
         phase' = phase \/ (Detected /\ Detected')
  PROVE  SearchInv'
<1>1. /\ Objects' = Objects /\ Prototypes' = Prototypes
      /\ \A d : Properties(d)' = Properties(d) /\ \A i : Property(d, i)' = Property(d, i)
      /\ \A o, q : Reaches(o, q)' <=> Reaches(o, q)
      /\ \A d, e : Edge(d, e)' <=> Edge(d, e)
  BY SameReaches DEF Objects, Prototypes, Properties, Property, Edge
<1>2. /\ Detecting' <=> Detecting
      /\ Detected' <=> Detected
      /\ phase' = "cyclic" <=> phase = "cyclic"
      /\ phase' \in {"declare", "collect", "link"} => phase' = phase
  BY DEF Detecting, Detected
<1>3. MarksOK' /\ PathOK'
  BY <1>1, <1>2 DEF SearchInv, MarksOK, PathOK
<1>4. Passed' /\ DoneClosed'
  BY <1>1, <1>2 DEF SearchInv, Passed, DoneClosed
<1>5. DoneAcyclic' /\ PathReaches' /\ AllDone' /\ CycleRefused'
  BY <1>1, <1>2 DEF SearchInv, DoneAcyclic, PathReaches, AllDone, CycleRefused
<1>. QED
  BY <1>3, <1>4, <1>5 DEF SearchInv

LEMMA SearchVisit ==
  ASSUME IInv, SearchInv, Visit
  PROVE  SearchInv'
<1>1. PICK d \in Prototypes :
        /\ phase = "cycles" /\ path = <<>> /\ marks[d] = "Unvisited"
        /\ marks' = [marks EXCEPT ![d] = "OnStack"] /\ path' = Append(<<>>, <<d, 1>>)
        /\ UNCHANGED <<object, table, phase>>
  BY DEF Visit, Enter
<1>2. /\ Objects' = Objects /\ Prototypes' = Prototypes
      /\ \A e : Properties(e)' = Properties(e) /\ \A i : Property(e, i)' = Property(e, i)
      /\ \A o, q : Reaches(o, q)' <=> Reaches(o, q)
      /\ \A e, f : Edge(e, f)' <=> Edge(e, f)
  BY <1>1, SameReaches DEF Objects, Prototypes, Properties, Property, Edge
<1>3. /\ DOMAIN marks = Objects /\ Prototypes \subseteq Objects /\ Detecting
      /\ \A e \in Objects : marks[e] \in {"Unvisited", "OnStack", "Done"}
      /\ \A e \in Prototypes : marks[e] # "OnStack"
  <2>1. \A e \in Prototypes : e \in Objects
    BY PrototypesAre, InTableIsOwn DEF IInv
  <2>. QED
    BY <1>1, <2>1 DEF SearchInv, MarksOK, PathOK, Detecting
<1>4. DOMAIN marks' = Objects /\ marks'[d] = "OnStack" /\ \A e \in Objects : e # d => marks'[e] = marks[e]
  BY <1>1, <1>3
<1>5. path' \in Seq(Prototypes \X (Nat \ {0})) /\ DOMAIN path' = {1} /\ path'[1] = <<d, 1>>
  BY <1>1
<1>6. MarksOK' /\ PathOK'
  BY <1>1, <1>2, <1>3, <1>4, <1>5 DEF MarksOK, PathOK
<1>7. Passed'
  <2>1. ASSUME NEW i \in DOMAIN Properties(d) PROVE ~(i < 1)
    BY <1>3 DEF IInv, ObjectsOK
  <2>. QED
    BY <1>2, <1>5, <2>1 DEF Passed
<1>8. DoneClosed' /\ DoneAcyclic' /\ PathReaches'
  BY <1>1, <1>2, <1>3, <1>4, <1>5 DEF SearchInv, DoneClosed, DoneAcyclic, PathReaches
<1>. QED
  BY <1>1, <1>6, <1>7, <1>8 DEF SearchInv, AllDone, CycleRefused, Detected

LEMMA SearchDescend ==
  ASSUME IInv, SearchInv, Descend
  PROVE  SearchInv'
<1> DEFINE S == Prototypes \X (Nat \ {0})
           n == Len(path)
           d == Last(path)[1]
           i == Last(path)[2]
           up == Front(path)
           passed == Append(up, <<d, i + 1>>)
           p == Property(d, i)
           e == p.def
<1>1. phase = "cycles" /\ path # <<>> /\ Detecting /\ UNCHANGED <<object, table>>
  BY DEF Descend, Detecting
<1>2. /\ Objects' = Objects /\ Prototypes' = Prototypes
      /\ \A x : Properties(x)' = Properties(x) /\ \A j : Property(x, j)' = Property(x, j)
      /\ \A o, q : Reaches(o, q)' <=> Reaches(o, q)
      /\ \A x, y : Edge(x, y)' <=> Edge(x, y)
  BY <1>1, SameReaches DEF Objects, Prototypes, Properties, Property, Edge
<1>3. /\ DOMAIN marks = Objects
      /\ \A x \in Objects : marks[x] \in {"Unvisited", "OnStack", "Done"}
      /\ \A x \in Prototypes : x \in Objects
  BY PrototypesAre, InTableIsOwn DEF IInv, SearchInv, MarksOK
<1>4. /\ path \in Seq(S)
      /\ \A x \in Prototypes : marks[x] = "OnStack" <=> \E k \in DOMAIN path : path[k][1] = x
      /\ \A k, l \in DOMAIN path : path[k][1] = path[l][1] => k = l
  BY <1>1 DEF SearchInv, PathOK
<1> HIDE DEF S
<1>5. /\ n \in Nat \ {0} /\ DOMAIN path = 1..n /\ path[n] = Last(path) /\ Last(path) \in S
      /\ up \in Seq(S) /\ DOMAIN up = 1..(n - 1) /\ \A k \in 1..(n - 1) : up[k] = path[k]
      /\ \A k \in 1..n : path[k] \in S
  BY <1>1, <1>4, EndOfPath
<1>6. d \in Prototypes /\ i \in Nat \ {0} /\ Last(path) = <<d, i>> /\ d \in Objects
  <2>1. Last(path) \in S
    BY <1>5
  <2>. QED
    BY <1>3, <2>1 DEF S
<1>7. <<d, i + 1>> \in S
  BY <1>6 DEF S
<1>8. /\ passed \in Seq(S) /\ DOMAIN passed = 1..n /\ passed[n] = <<d, i + 1>>
      /\ \A k \in 1..(n - 1) : passed[k] = path[k]
  <2> DEFINE later == <<d, i + 1>>
  <2>1. later \in S
    BY <1>7
  <2> HIDE DEF later
  <2>2. LET t == Append(up, later)
        IN  /\ t \in Seq(S) /\ DOMAIN t = 1..n /\ t[n] = later
            /\ \A k \in 1..(n - 1) : t[k] = path[k]
    BY <1>1, <1>4, <2>1, EndOfPath
  <2>. QED
    BY <2>2 DEF later
<1>9. /\ path[n][1] = d /\ path[n][2] = i /\ n \in DOMAIN path /\ marks[d] = "OnStack"
  <2>1. path[n] = Last(path) /\ n \in DOMAIN path
    BY <1>5
  <2>. QED
    BY <1>4, <1>6, <2>1
<1>10. \A x \in Prototypes : \A j \in DOMAIN Properties(x) : j \in Nat \ {0}
  BY <1>3 DEF IInv, ObjectsOK
<1>11. \A k \in 1..n : path[k][1] \in Prototypes /\ path[k][2] \in Nat \ {0}
  BY <1>5 DEF S
<1>12. ASSUME NEW k \in 1..n, NEW j \in DOMAIN Properties(path[k][1]), j < path[k][2],
              Property(path[k][1], j).kind = "prototype", Property(path[k][1], j).def # None
       PROVE  \/ marks[Property(path[k][1], j).def] = "Done"
              \/ k + 1 \in 1..n /\ Property(path[k][1], j).def = path[k + 1][1]
  BY <1>1, <1>5, <1>12 DEF SearchInv, Passed
<1>13. \A k, l \in 1..n : k < l => Reaches(path[k][1], path[l][1])
  BY <1>1, <1>5 DEF SearchInv, PathReaches
<1>14. /\ \A x \in Prototypes : \A y \in Objects : marks[x] = "Done" /\ Edge(x, y) => marks[y] = "Done"
       /\ \A x \in Prototypes : marks[x] = "Done" => ~Reaches(x, x)
  BY <1>1 DEF SearchInv, DoneClosed, DoneAcyclic
<1> HIDE DEF n, d, i, up, passed
<1>15. CASE i \notin DOMAIN Properties(d)
  <2>1. marks' = [marks EXCEPT ![d] = "Done"] /\ path' = up /\ phase' = phase
    BY <1>15 DEF Descend, d, i, up, Properties
  <2>2. /\ DOMAIN marks' = Objects /\ marks'[d] = "Done"
        /\ \A x \in Objects : x # d => marks'[x] = marks[x]
    BY <1>3, <1>6, <2>1
  <2>3. \A x \in Objects : marks[x] = "Done" => marks'[x] = "Done"
    BY <2>2
  <2>4. MarksOK'
    BY <1>1, <1>2, <1>3, <2>1, <2>2 DEF MarksOK
  <2>5. PathOK'
    <3>1. ASSUME NEW x \in Prototypes
          PROVE  marks'[x] = "OnStack" <=> \E k \in DOMAIN path' : path'[k][1] = x
      <4>1. CASE x = d
        <5>1. ASSUME NEW k \in 1..(n - 1) PROVE path[k][1] # d
          BY <1>4, <1>5, <1>9
        <5>. QED
          BY <1>5, <2>1, <2>2, <4>1, <5>1
      <4>2. CASE x # d
        BY <1>3, <1>4, <1>5, <1>9, <2>1, <2>2, <4>2
      <4>. QED
        BY <4>1, <4>2
    <3>2. \A k, l \in DOMAIN path' : path'[k][1] = path'[l][1] => k = l
      BY <1>4, <1>5, <2>1
    <3>. QED
      BY <1>2, <1>5, <2>1, <3>1, <3>2 DEF PathOK, S
  <2>6. Passed'
    <3>1. ASSUME NEW k \in 1..(n - 1), NEW j \in DOMAIN Properties(path[k][1]), j < path[k][2],
                 Property(path[k][1], j).kind = "prototype", Property(path[k][1], j).def # None
          PROVE  \/ marks'[Property(path[k][1], j).def] = "Done"
                 \/ k + 1 \in 1..(n - 1) /\ Property(path[k][1], j).def = path[k + 1][1]
      <4>1. k \in 1..n
        BY <1>5
      <4>2. Property(path[k][1], j).def \in Objects
        BY <1>3, <1>11, <3>1, <4>1 DEF IInv, ObjectsOK
      <4>3. CASE marks[Property(path[k][1], j).def] = "Done"
        BY <2>3, <4>2, <4>3
      <4>4. CASE k + 1 \in 1..n /\ Property(path[k][1], j).def = path[k + 1][1]
        <5>1. CASE k + 1 = n
          BY <1>9, <2>2, <4>4, <5>1
        <5>2. CASE k + 1 # n
          BY <1>5, <4>4, <5>2
        <5>. QED
          BY <5>1, <5>2
      <4>. QED
        BY <1>12, <3>1, <4>1, <4>3, <4>4
    <3>2. DOMAIN path' = 1..(n - 1) /\ \A k \in 1..(n - 1) : path'[k] = path[k]
      BY <1>5, <2>1
    <3>. QED
      BY <1>2, <3>1, <3>2 DEF Passed
  <2>7. \A y \in Objects : Edge(d, y) => marks[y] = "Done"
    <3>1. SUFFICES ASSUME NEW y \in Objects, NEW j \in DOMAIN Properties(d),
                          Property(d, j).kind = "prototype", Property(d, j).def = y, y # None
                   PROVE  marks[y] = "Done"
      BY DEF Edge
    <3>2. j < i
      <4>1. PICK m \in Nat : DOMAIN Properties(d) = 1..m
        BY <1>6 DEF IInv, ObjectsOK
      <4>. QED
        BY <1>6, <1>15, <4>1
    <3>. QED
      BY <1>5, <1>9, <1>12, <3>1, <3>2
  <2>8. DoneClosed'
    BY <1>2, <1>3, <1>14, <2>2, <2>3, <2>7 DEF DoneClosed
  <2>9. ~Reaches(d, d)
    BY <1>1, <1>6, <1>9, <2>7, PassedIsAcyclic DEF SearchInv
  <2>10. DoneAcyclic'
    BY <1>2, <1>3, <1>14, <2>2, <2>9 DEF DoneAcyclic
  <2>11. PathReaches'
    BY <1>2, <1>5, <1>13, <2>1 DEF PathReaches
  <2>. QED
    BY <1>1, <2>1, <2>4, <2>5, <2>6, <2>8, <2>10, <2>11 DEF SearchInv, AllDone, CycleRefused, Detected
<1>16. CASE i \in DOMAIN Properties(d) /\ (p.kind # "prototype" \/ e = None \/ marks[e] = "Done")
  <2>1. path' = passed /\ UNCHANGED <<marks, phase>>
    BY <1>16 DEF Descend, d, i, up, passed, Properties
  <2>2. \A k \in 1..n : path'[k][1] = path[k][1]
    BY <1>5, <1>8, <1>9, <2>1
  <2>3. MarksOK'
    BY <1>1, <1>2, <1>3, <2>1 DEF MarksOK
  <2>4. PathOK'
    <3>1. path' \in Seq(S) /\ DOMAIN path' = DOMAIN path
      BY <1>5, <1>8, <2>1
    <3>2. \A k \in DOMAIN path : path'[k][1] = path[k][1]
      BY <1>5, <2>2
    <3>3. \A x \in Prototypes : marks'[x] = "OnStack" <=> \E k \in DOMAIN path' : path'[k][1] = x
      BY <1>4, <2>1, <3>1, <3>2
    <3>4. \A k, l \in DOMAIN path' : path'[k][1] = path'[l][1] => k = l
      BY <1>4, <3>1, <3>2
    <3>. QED
      BY <1>2, <3>1, <3>3, <3>4 DEF PathOK, S
  <2>5. ASSUME NEW k \in 1..n, NEW j \in DOMAIN Properties(path[k][1]), j < path'[k][2],
               Property(path[k][1], j).kind = "prototype", Property(path[k][1], j).def # None
        PROVE  \/ marks[Property(path[k][1], j).def] = "Done"
               \/ k + 1 \in 1..n /\ Property(path[k][1], j).def = path[k + 1][1]
    <3>1. CASE j < path[k][2]
      BY <1>12, <2>5, <3>1
    <3>2. CASE ~(j < path[k][2])
      <4>1. k = n
        BY <1>5, <1>8, <2>1, <2>5, <3>2
      <4>2. j = i
        BY <1>6, <1>8, <1>9, <1>10, <2>1, <2>5, <3>2, <4>1
      <4>. QED
        BY <1>9, <1>16, <2>5, <4>1, <4>2
    <3>. QED
      BY <3>1, <3>2
  <2>6. Passed'
    BY <1>2, <1>8, <2>1, <2>2, <2>5 DEF Passed
  <2>7. DoneClosed' /\ DoneAcyclic'
    BY <1>2, <1>14, <2>1 DEF DoneClosed, DoneAcyclic
  <2>8. PathReaches'
    BY <1>2, <1>8, <1>13, <2>1, <2>2 DEF PathReaches
  <2>. QED
    BY <1>1, <2>1, <2>3, <2>4, <2>6, <2>7, <2>8 DEF SearchInv, AllDone, CycleRefused, Detected
<1>17. CASE i \in DOMAIN Properties(d) /\ p.kind = "prototype" /\ e # None /\ marks[e] # "Done"
  <2>1. e \in Prototypes /\ e \in Objects /\ e \in Refers(d)
    BY <1>1, <1>3, <1>6, <1>17, EdgeToPrototype, ReferredByProperty
  <2>2. \A k \in 1..n : Reaches(path[k][1], e)
    <3>1. ASSUME NEW k \in 1..n PROVE Reaches(path[k][1], e)
      <4>1. CASE k = n
        BY <1>9, <2>1, <4>1, ReachesReferred
      <4>2. CASE k # n
        <5>1. Reaches(path[k][1], d)
          BY <1>5, <1>9, <1>13, <4>2
        <5>. QED
          BY <2>1, <5>1, ReachesOn
      <4>. QED
        BY <4>1, <4>2
    <3>. QED
      BY <3>1
  <2>3. CASE marks[e] = "OnStack"
    <3>1. phase' = "cyclic" /\ UNCHANGED <<marks, path>>
      BY <1>17, <2>3 DEF Descend, d, i, Properties
    <3>2. \E x \in Prototypes : Reaches(x, x)
      <4>1. PICK k \in DOMAIN path : path[k][1] = e
        BY <1>4, <2>1, <2>3
      <4>2. k \in 1..n
        BY <1>5
      <4>3. Reaches(path[k][1], e)
        BY <2>2, <4>2
      <4>. QED
        BY <2>1, <4>1, <4>3
    <3>3. MarksOK'
      BY <1>2, <1>3, <3>1 DEF MarksOK
    <3>4. PathOK'
      BY <1>2, <1>4, <3>1 DEF PathOK, S
    <3>5. Passed'
      BY <1>1, <1>2, <3>1 DEF Passed, SearchInv
    <3>6. DoneClosed' /\ DoneAcyclic'
      BY <1>2, <1>14, <3>1 DEF DoneClosed, DoneAcyclic
    <3>7. PathReaches'
      BY <1>1, <1>2, <3>1 DEF PathReaches, SearchInv
    <3>8. CycleRefused'
      BY <1>2, <3>2 DEF CycleRefused
    <3>. QED
      BY <3>1, <3>3, <3>4, <3>5, <3>6, <3>7, <3>8 DEF SearchInv, AllDone, Detected
  <2>4. CASE marks[e] = "Unvisited"
    <3>1. /\ marks' = [marks EXCEPT ![e] = "OnStack"] /\ path' = Append(passed, <<e, 1>>)
          /\ phase' = phase
      BY <1>17, <2>4 DEF Descend, Enter, d, i, up, passed, Properties
    <3>2. /\ DOMAIN marks' = Objects /\ marks'[e] = "OnStack"
          /\ \A x \in Objects : x # e => marks'[x] = marks[x]
      BY <1>3, <2>1, <3>1
    <3>3. <<e, 1>> \in S
      BY <2>1 DEF S
    <3>4. /\ path' \in Seq(S) /\ DOMAIN path' = 1..(n + 1) /\ path'[n + 1] = <<e, 1>>
          /\ \A k \in 1..n : path'[k] = passed[k]
      <4>1. Len(passed) = n
        BY <1>5, <1>8
      <4>2. /\ path' \in Seq(S) /\ Len(path') = Len(passed) + 1 /\ path'[Len(passed) + 1] = <<e, 1>>
            /\ \A k \in 1..Len(passed) : path'[k] = passed[k]
        BY <1>8, <3>1, <3>3, AppendProperties
      <4>. QED
        BY <4>1, <4>2
    <3>5. \A k \in 1..n : path'[k][1] = path[k][1]
      BY <1>5, <1>8, <1>9, <3>4
    <3>6. \A k \in 1..n : path[k][1] # e
      BY <1>4, <1>5, <1>11, <2>1, <2>4
    <3>7. MarksOK'
      BY <1>1, <1>2, <1>3, <3>1, <3>2 DEF MarksOK
    <3>8. PathOK'
      <4>1. ASSUME NEW x \in Prototypes
            PROVE  marks'[x] = "OnStack" <=> \E k \in DOMAIN path' : path'[k][1] = x
        <5>1. CASE x = e
          BY <1>5, <3>2, <3>4, <5>1
        <5>2. CASE x # e
          <6>1. (\E k \in DOMAIN path' : path'[k][1] = x) <=> \E k \in 1..n : path[k][1] = x
            <7>1. 1..n \subseteq DOMAIN path'
              BY <1>5, <3>4
            <7>2. ASSUME NEW k \in DOMAIN path', path'[k][1] = x PROVE k \in 1..n
              BY <1>5, <3>4, <5>2, <7>2
            <7>. QED
              BY <3>5, <7>1, <7>2
          <6>. QED
            BY <1>3, <1>4, <1>5, <3>2, <5>2, <6>1
        <5>. QED
          BY <5>1, <5>2
      <4>2. ASSUME NEW k \in 1..(n + 1), NEW l \in 1..(n + 1), path'[k][1] = path'[l][1] PROVE k = l
        <5>1. (k \in 1..n \/ k = n + 1) /\ (l \in 1..n \/ l = n + 1)
          BY <1>5
        <5>2. path'[n + 1][1] = e
          BY <3>4
        <5>. QED
          BY SMTT(30), <1>4, <1>5, <3>5, <3>6, <4>2, <5>1, <5>2
      <4>. QED
        BY <1>2, <3>4, <4>1, <4>2 DEF PathOK, S
    <3>9. Passed'
      <4>1. ASSUME NEW k \in 1..(n + 1), NEW j \in DOMAIN Properties(path'[k][1]), j < path'[k][2],
                   Property(path'[k][1], j).kind = "prototype", Property(path'[k][1], j).def # None
            PROVE  \/ marks'[Property(path'[k][1], j).def] = "Done"
                   \/ k + 1 \in 1..(n + 1) /\ Property(path'[k][1], j).def = path'[k + 1][1]
        <5>1. CASE k = n + 1
          BY <1>10, <2>1, <3>4, <4>1, <5>1
        <5>2. CASE k # n + 1
          <6>1. k \in 1..n /\ path'[k][1] = path[k][1] /\ k + 1 \in 1..(n + 1)
            BY <1>5, <3>5, <5>2
          <6>2. path[k][1] \in Prototypes /\ j \in Nat \ {0}
            BY <1>10, <1>11, <4>1, <6>1
          <6>3. CASE j < path[k][2]
            <7>1. CASE marks[Property(path[k][1], j).def] = "Done"
              <8>1. Property(path[k][1], j).def \in Objects
                BY <1>3, <4>1, <6>1, <6>2 DEF IInv, ObjectsOK
              <8>. QED
                BY <2>4, <3>2, <6>1, <7>1, <8>1
            <7>2. CASE k + 1 \in 1..n /\ Property(path[k][1], j).def = path[k + 1][1]
              BY <3>5, <6>1, <7>2
            <7>. QED
              BY <1>12, <4>1, <6>1, <6>3, <7>1, <7>2
          <6>4. CASE ~(j < path[k][2])
            <7>1. k = n /\ j = i
              <8>1. k = n
                BY SMTT(30), <1>5, <1>8, <3>4, <4>1, <6>1, <6>4
              <8>2. path'[n][2] = i + 1 /\ path[n][2] = i
                BY <1>5, <1>8, <1>9, <3>4
              <8>. QED
                BY <1>6, <4>1, <6>2, <6>4, <8>1, <8>2
            <7>2. Property(path[k][1], j).def = e
              BY <1>9, <7>1
            <7>. QED
              BY <3>4, <6>1, <7>1, <7>2
          <6>. QED
            BY <6>3, <6>4
        <5>. QED
          BY <5>1, <5>2
      <4>. QED
        BY <1>2, <3>4, <4>1 DEF Passed
    <3>10. DoneClosed'
      BY <1>2, <1>3, <1>14, <2>4, <3>2 DEF DoneClosed
    <3>11. DoneAcyclic'
      BY <1>2, <1>3, <1>14, <3>2 DEF DoneAcyclic
    <3>12. PathReaches'
      <4>1. ASSUME NEW k \in 1..(n + 1), NEW l \in 1..(n + 1), k < l
            PROVE  Reaches(path'[k][1], path'[l][1])
        <5>1. k \in 1..n /\ path'[k][1] = path[k][1]
          BY <1>5, <3>5, <4>1
        <5>2. CASE l = n + 1
          BY <2>2, <3>4, <5>1, <5>2
        <5>3. CASE l # n + 1
          <6>1. l \in 1..n /\ path'[l][1] = path[l][1]
            BY <1>5, <3>5, <5>3
          <6>. QED
            BY <1>13, <4>1, <5>1, <6>1
        <5>. QED
          BY <5>2, <5>3
      <4>. QED
        BY <1>2, <3>4, <4>1 DEF PathReaches
    <3>. QED
      BY <1>1, <3>1, <3>7, <3>8, <3>9, <3>10, <3>11, <3>12 DEF SearchInv, AllDone, CycleRefused, Detected
  <2>. QED
    BY <1>3, <1>17, <2>1, <2>3, <2>4
<1>. QED
  BY <1>15, <1>16, <1>17

LEMMA SearchPublish ==
  ASSUME IInv, SearchInv, Publish
  PROVE  SearchInv'
<1>1. /\ phase = "cycles" /\ path = <<>> /\ \A d \in Prototypes : marks[d] # "Unvisited"
      /\ phase' = "resolved" /\ UNCHANGED <<object, table, marks, path>> /\ Detecting
  BY DEF Publish, Detecting
<1>2. /\ Objects' = Objects /\ Prototypes' = Prototypes
      /\ \A o, q : Reaches(o, q)' <=> Reaches(o, q)
      /\ \A x, y : Edge(x, y)' <=> Edge(x, y)
  BY <1>1, SameReaches DEF Objects, Prototypes, Properties, Property, Edge
<1>3. \A d \in Prototypes : d \in Objects
  BY PrototypesAre, InTableIsOwn DEF IInv
<1>4. \A d \in Prototypes : marks[d] = "Done"
  BY <1>1, <1>3 DEF SearchInv, MarksOK, PathOK
<1>5. MarksOK' /\ AllDone'
  BY <1>1, <1>2, <1>4 DEF SearchInv, MarksOK, AllDone
<1>6. DoneClosed' /\ DoneAcyclic'
  BY <1>1, <1>2 DEF SearchInv, DoneClosed, DoneAcyclic
<1>. QED
  BY <1>1, <1>5, <1>6 DEF SearchInv, PathOK, Passed, PathReaches, CycleRefused, Detecting

LEMMA SearchNext ==
  ASSUME IInv, SearchInv, [Next]_vars
  PROVE  SearchInv'
<1>1. IInv'
  BY InvNext
<1>2. CASE Declare
  BY <1>1, <1>2, SearchEarly DEF Declare, Objects
<1>3. CASE StartCollecting \/ StartLinking \/ StartDetecting
  BY <1>1, <1>3, SearchEarly DEF StartCollecting, StartLinking, StartDetecting, Objects
<1>4. CASE Collect
  <2>1. /\ phase = "collect" /\ UNCHANGED <<marks, path>> /\ Objects' = Objects
        /\ phase' \in {"collect", "conflict"}
    BY <1>4 DEF Collect, Objects
  <2>. QED
    BY SMTT(30), <1>1, <2>1, SearchEarly
<1>5. CASE Link
  <2>1. /\ phase = "link" /\ UNCHANGED <<marks, path>> /\ Objects' = Objects
        /\ phase' \in {"link", "unknown"}
    BY Zenon, <1>5 DEF Link, Objects
  <2>. QED
    BY SMTT(30), <1>1, <2>1, SearchEarly
<1>6. CASE Validate
  <2>1. /\ Detected /\ Detected' /\ UNCHANGED <<object, table, marks, path>>
    BY <1>6 DEF Validate, Detected
  <2>. QED
    BY <2>1, SearchQuiet
<1>7. CASE Over \/ UNCHANGED vars
  BY <1>7, SearchQuiet DEF Over, vars
<1>. QED
  BY <1>2, <1>3, <1>4, <1>5, <1>6, <1>7, SearchVisit, SearchDescend, SearchPublish DEF Next, Step

\* DetectCycles: the marks and the path of the search, and what they say of the
\* prototypes that are done.
THEOREM ManifestSearch == ManifestAssumption /\ Spec => []SearchInv
<1>1. ManifestAssumption /\ Init => SearchInv
  BY SearchInit
<1>2. IInv /\ SearchInv /\ [Next]_vars => SearchInv'
  BY SearchNext
<1>. QED
  BY <1>1, <1>2, ManifestInv, PTL DEF Spec

\* DetectCycles: a prototype that can reach itself is refused, wherever the visit
\* began, and a manifest is refused for a cycle only when it has one.
THEOREM CyclesAreRefused == ManifestAssumption /\ Spec => []CyclesAreFound
<1>1. SearchInv => CyclesAreFound
  BY DEF SearchInv, AllDone, DoneAcyclic, CycleRefused, Detected, CyclesAreFound
<1>. QED
  BY <1>1, ManifestSearch, PTL

=============================================================================
