------------------------ MODULE CandidatePatchProofs ------------------------
(***************************************************************************)
(* Proofs about CandidatePatch for every repository, every set of           *)
(* authorized intervals and every response.                                *)
(***************************************************************************)
EXTENDS CandidatePatch, TLAPS

Spans == {span \in Nat \X Nat : span[1] <= span[2]}

\* What the other parts need of the types.
ShapeInv ==
  /\ updated \in [Paths -> Seq(Line)]
  /\ intervals \in [Paths -> Seq(Spans)]
  /\ origin \in [Paths -> Paths]
  /\ status \in {"editing", "refused", "repaired", "unbuildable", "built"}

\* Every path in use is known, and every new one has its place.
RoomInv ==
  /\ \A p \in Tracked : origin[p] = p
  /\ created \cap Tracked = {}
  /\ status = "editing" =>
       /\ Tracked \cup created \cup Present(updated) \subseteq taken
       /\ taken \subseteq Paths
       /\ \A p \in Present(updated) \ Tracked : \A q \in taken \ {p} : ~Clash(p, q)
  /\ NewPathsHaveRoom

Fixed(p) == {k \in DOMAIN Sources[p] : ~Authorized(p, k)}

\* The lines that must stay are there, next to each other and at the ends.
KeptIn(lines, p) ==
  \A k \in Fixed(p) : \E i \in DOMAIN lines :
    /\ lines[i] = [text |-> Sources[p][k], from |-> k]
    /\ k = 1 => i = 1
    /\ k = Len(Sources[p]) => i = Len(lines)
    /\ k + 1 \in Fixed(p) => i < Len(lines) /\ lines[i + 1].from = k + 1

OrderedIn(lines) ==
  \A i, j \in DOMAIN lines :
    i < j /\ lines[i].from > 0 /\ lines[j].from > 0 => lines[i].from < lines[j].from

In(span, i) == span[1] <= i /\ i <= span[2]

CoveredIn(lines, spans, p) ==
  \A i \in DOMAIN lines :
    (\E n \in DOMAIN spans : In(spans[n], i)) <=> lines[i].from = 0 \/ Authorized(p, lines[i].from)

LinesInv ==
  \A p \in Carried :
    /\ KeptIn(updated[p], origin[p])
    /\ OrderedIn(updated[p])
    /\ status = "editing" => CoveredIn(updated[p], intervals[p], origin[p])

EditInv == ShapeInv /\ RoomInv /\ LinesInv

----------------------------------------------------------------------------
(* The arithmetic of one edit.                                             *)

LEMMA FunctionIsSequence ==
  ASSUME NEW S, NEW n \in Nat, NEW f \in [1..n -> S]
  PROVE  f \in Seq(S) /\ Len(f) = n
OBVIOUS

\* An interval covers the lines above and below an edit that it covered before,
\* wherever they are now.
LEMMA ShiftKeeps ==
  ASSUME NEW span \in Spans,
         NEW first \in Nat \ {0}, NEW size \in Nat \ {0}, NEW length \in Nat \ {0}
  PROVE  /\ Shifted(span, first, size, length) \in Spans
         /\ \A i \in Nat :
              /\ i < first => (In(Shifted(span, first, size, length), i) <=> In(span, i))
              /\ i >= first + length =>
                   (In(Shifted(span, first, size, length), i) <=> In(span, i - length + size))
<1>1. PICK s \in Nat, e \in Nat : span = <<s, e>> /\ s <= e
  BY DEF Spans
<1>2. CASE e < first
  <2>1. Shifted(span, first, size, length) = <<s, e>>
    BY <1>1, <1>2 DEF Shifted
  <2>2. ASSUME NEW i \in Nat, i >= first + length
        PROVE  (s <= i /\ i <= e) <=> (s <= i - length + size /\ i - length + size <= e)
    BY <1>2, <2>2
  <2> QED BY <1>1, <2>1, <2>2 DEF In, Spans
<1>3. CASE ~(e < first) /\ first + size - 1 < s
  <2> DEFINE low == s + length - size
             high == e + length - size
  <2>1. Shifted(span, first, size, length) = <<low, high>>
    BY <1>1, <1>3 DEF Shifted
  <2>2. low \in Nat /\ high \in Nat /\ low <= high
    BY <1>1, <1>3
  <2>3. ASSUME NEW i \in Nat, i < first
        PROVE  (low <= i /\ i <= high) <=> (s <= i /\ i <= e)
    BY <1>3, <2>3
  <2>4. ASSUME NEW i \in Nat, i >= first + length
        PROVE  (low <= i /\ i <= high) <=> (s <= i - length + size /\ i - length + size <= e)
    BY <1>3, <2>4
  <2> HIDE DEF low, high
  <2> QED BY <1>1, <2>1, <2>2, <2>3, <2>4 DEF In, Spans
<1>4. CASE ~(e < first) /\ ~(first + size - 1 < s)
  <2> DEFINE low == IF s < first THEN s ELSE first
             high == IF e + length - size < first + length - 1
                       THEN first + length - 1 ELSE e + length - size
  <2>1. Shifted(span, first, size, length) = <<low, high>>
    BY <1>1, <1>4 DEF Shifted
  <2>2. low \in Nat /\ high \in Nat /\ low <= high
    OBVIOUS
  <2>3. ASSUME NEW i \in Nat, i < first
        PROVE  (low <= i /\ i <= high) <=> (s <= i /\ i <= e)
    BY <1>4, <2>3
  <2>4. ASSUME NEW i \in Nat, i >= first + length
        PROVE  (low <= i /\ i <= high) <=> (s <= i - length + size /\ i - length + size <= e)
    BY <1>4, <2>4
  <2> HIDE DEF low, high
  <2> QED BY <1>1, <2>1, <2>2, <2>3, <2>4 DEF In, Spans
<1> QED BY <1>2, <1>3, <1>4

\* An interval around the edit covers the lines it has written.
LEMMA ShiftGrows ==
  ASSUME NEW span \in Spans,
         NEW first \in Nat \ {0}, NEW size \in Nat \ {0}, NEW length \in Nat \ {0},
         NEW i \in Nat, first <= i, i < first + length,
         span[1] <= first, first + size - 1 <= span[2]
  PROVE  In(Shifted(span, first, size, length), i)
BY DEF Shifted, In, Spans

\* What becomes of a file is a file.
LEMMA SpliceLines ==
  ASSUME NEW lines \in Seq(Line), NEW new \in Seq(Line),
         NEW first \in Nat \ {0}, NEW size \in Nat \ {0},
         first + size <= Len(lines) + 1, Len(new) > 0
  PROVE  /\ Splice(lines, first, size, new) \in Seq(Line)
         /\ Len(Splice(lines, first, size, new)) = Len(lines) - size + Len(new)
<1> DEFINE n == Len(lines) - size + Len(new)
<1>1. n \in Nat /\ Len(lines) \in Nat /\ Len(new) \in Nat
  OBVIOUS
<1>2. ASSUME NEW i \in 1..n
      PROVE  /\ i < first => i \in 1..Len(lines)
             /\ first <= i /\ i < first + Len(new) => i - first + 1 \in 1..Len(new)
             /\ first + Len(new) <= i => i - Len(new) + size \in 1..Len(lines)
  BY <1>1
<1>3. Splice(lines, first, size, new) \in [1..n -> Line]
  BY <1>2 DEF Splice
<1>4. Splice(lines, first, size, new) \in Seq(Line)
  BY <1>1, <1>3
<1>5. DOMAIN Splice(lines, first, size, new) = 1..n
  BY <1>3
<1>6. Len(Splice(lines, first, size, new)) = n
  BY <1>1, <1>4, <1>5
<1> QED BY <1>4, <1>6

\* Lines that make room for a text are a file.
LEMMA SpliceIsFile ==
  ASSUME NEW lines \in Seq(Line), NEW new \in Seq(Line),
         NEW first \in Nat \ {0}, NEW size \in Nat \ {0},
         first + size <= Len(lines) + 1, Len(new) > 0
  PROVE  Splice(lines, first, size, new) \in Seq(Line) \ {<<>>}
<1>1. /\ Splice(lines, first, size, new) \in Seq(Line)
      /\ Len(Splice(lines, first, size, new)) = Len(lines) - size + Len(new)
  BY SpliceLines
<1>2. Len(lines) - size + Len(new) > 0
  OBVIOUS
<1> QED BY <1>1, <1>2

\* An edit inside an interval leaves the lines that must stay, the order, and the
\* authorization as they were.
LEMMA SpliceKeeps ==
  ASSUME NEW p \in Paths, NEW lines \in Seq(Line), NEW spans \in Seq(Spans),
         NEW new \in Seq(Line), Len(new) > 0, \A k \in DOMAIN new : new[k].from = 0,
         NEW first \in Nat \ {0}, NEW size \in Nat \ {0}, first + size <= Len(lines) + 1,
         Inside(spans, first, first + size - 1),
         KeptIn(lines, p), OrderedIn(lines), CoveredIn(lines, spans, p)
  PROVE  /\ KeptIn(Splice(lines, first, size, new), p)
         /\ OrderedIn(Splice(lines, first, size, new))
         /\ CoveredIn(Splice(lines, first, size, new), Shift(spans, first, size, Len(new)), p)
         /\ Shift(spans, first, size, Len(new)) \in Seq(Spans)
<1> DEFINE after == Splice(lines, first, size, new)
           moved == Shift(spans, first, size, Len(new))
           n == Len(lines) - size + Len(new)
\* Where a line that is not replaced goes.
           To(i) == IF i < first THEN i ELSE i - size + Len(new)
<1>n. Len(lines) \in Nat /\ Len(new) \in Nat \ {0} /\ n \in Nat
  OBVIOUS
<1>a. /\ after \in Seq(Line) /\ Len(after) = n
      /\ \A i \in 1..n :
           /\ i < first => after[i] = lines[i]
           /\ first <= i /\ i < first + Len(new) => after[i] = new[i - first + 1]
           /\ first + Len(new) <= i => after[i] = lines[i - Len(new) + size]
  <2>1. after \in Seq(Line) /\ Len(after) = n
    BY SpliceLines
  <2>2. ASSUME NEW i \in 1..n
        PROVE  /\ i < first => after[i] = lines[i]
               /\ first <= i /\ i < first + Len(new) => after[i] = new[i - first + 1]
               /\ first + Len(new) <= i => after[i] = lines[i - Len(new) + size]
    BY <1>n DEF Splice
  <2> QED BY <2>1, <2>2
<1>d. DOMAIN after = 1..n /\ DOMAIN lines = 1..Len(lines) /\ DOMAIN new = 1..Len(new)
  BY <1>a, <1>n
<1>m. /\ DOMAIN moved = DOMAIN spans
      /\ \A k \in DOMAIN spans :
           spans[k] \in Spans /\ moved[k] = Shifted(spans[k], first, size, Len(new))
  BY DEF Shift
<1>s. Sources[p] \in Seq(Texts) /\ \A k \in Fixed(p) : k \in Nat \ {0} /\ ~Authorized(p, k)
  BY TreeAssumption DEF Fixed, Sources
<1> HIDE DEF after, moved
\* No line that must stay is replaced.
<1>1. ASSUME NEW i \in 1..Len(lines), NEW k \in Fixed(p), lines[i].from = k
      PROVE  i < first \/ first + size <= i
  <2>1. ~(\E m \in DOMAIN spans : In(spans[m], i))
    BY <1>1, <1>s, <1>d DEF CoveredIn
  <2>2. PICK m \in DOMAIN spans : spans[m][1] <= first /\ first + size - 1 <= spans[m][2]
    BY DEF Inside
  <2>3. ~(spans[m][1] <= i /\ i <= spans[m][2])
    BY <2>1 DEF In
  <2>4. spans[m][1] \in Nat /\ spans[m][2] \in Nat
    BY <1>m DEF Spans
  <2> QED BY <2>2, <2>3, <2>4
<1>2. ASSUME NEW i \in 1..Len(lines), i < first \/ first + size <= i
      PROVE  To(i) \in 1..n /\ after[To(i)] = lines[i]
  <2>1. CASE i < first
    BY <1>a, <1>n, <2>1
  <2>2. CASE first + size <= i
    <3>1. /\ To(i) \in 1..n /\ first + Len(new) <= To(i)
          /\ To(i) - Len(new) + size = i
      BY <1>n, <2>2
    <3> QED BY <1>a, <3>1
  <2> QED BY <1>2, <2>1, <2>2
\* Where a line comes from.
<1>3. ASSUME NEW j \in 1..n
      PROVE  \/ after[j].from = 0 /\ first <= j /\ j < first + Len(new)
             \/ \E i \in 1..Len(lines) :
                  /\ i < first \/ first + size <= i
                  /\ j = To(i) /\ after[j] = lines[i]
  <2>1. CASE j < first
    BY <1>a, <1>n, <2>1
  <2>2. CASE first <= j /\ j < first + Len(new)
    <3>1. j - first + 1 \in 1..Len(new)
      BY <1>n, <2>2
    <3> QED BY <1>a, <1>d, <2>2, <3>1
  <2>3. CASE first + Len(new) <= j
    <3>1. /\ j - Len(new) + size \in 1..Len(lines) /\ first + size <= j - Len(new) + size
          /\ To(j - Len(new) + size) = j
      BY <1>n, <2>3
    <3> QED BY <1>a, <2>3, <3>1
  <2> QED BY <1>n, <2>1, <2>2, <2>3
<1>4. KeptIn(after, p)
  <2> SUFFICES ASSUME NEW k \in Fixed(p)
               PROVE  \E j \in DOMAIN after :
                        /\ after[j] = [text |-> Sources[p][k], from |-> k]
                        /\ k = 1 => j = 1
                        /\ k = Len(Sources[p]) => j = Len(after)
                        /\ k + 1 \in Fixed(p) => j < Len(after) /\ after[j + 1].from = k + 1
    BY DEF KeptIn
  <2>1. PICK i \in 1..Len(lines) :
          /\ lines[i] = [text |-> Sources[p][k], from |-> k]
          /\ k = 1 => i = 1
          /\ k = Len(Sources[p]) => i = Len(lines)
          /\ k + 1 \in Fixed(p) => i < Len(lines) /\ lines[i + 1].from = k + 1
    BY <1>d DEF KeptIn
  <2>2. i < first \/ first + size <= i
    BY <1>1, <2>1
  <2>3. To(i) \in 1..n /\ after[To(i)] = lines[i]
    BY <1>2, <2>2
  <2>4. k = 1 => To(i) = 1
    BY <2>1, <2>2, <1>n
  <2>5. k = Len(Sources[p]) => To(i) = n
    <3> SUFFICES ASSUME k = Len(Sources[p]) PROVE To(i) = n
      OBVIOUS
    <3>1. i = Len(lines)
      BY <2>1
    <3>2. ~(i < first)
      BY <3>1, <1>n
    <3> QED BY <3>1, <3>2, <1>n
  <2>6. k + 1 \in Fixed(p) => To(i) < n /\ after[To(i) + 1].from = k + 1
    <3> SUFFICES ASSUME k + 1 \in Fixed(p) PROVE To(i) < n /\ after[To(i) + 1].from = k + 1
      OBVIOUS
    <3>1. i + 1 \in 1..Len(lines) /\ lines[i + 1].from = k + 1
      BY <2>1
    <3>2. i + 1 < first \/ first + size <= i + 1
      BY <1>1, <3>1
    <3>3. To(i + 1) \in 1..n /\ after[To(i + 1)] = lines[i + 1]
      BY <1>2, <3>1, <3>2
    <3>4. To(i + 1) = To(i) + 1
      BY <2>2, <3>2, <1>n
    <3>5. To(i) \in Int
      BY <2>3
    <3> HIDE DEF To
    <3>6. To(i) < n
      BY <3>3, <3>4, <3>5, <1>n
    <3> QED BY <3>1, <3>3, <3>4, <3>6
  <2> HIDE DEF To
  <2> QED BY <2>1, <2>3, <2>4, <2>5, <2>6, <1>a, <1>d
\* A line with a number comes from a line that was not replaced.
<1>5. ASSUME NEW j \in 1..n, after[j].from > 0
      PROVE  \E i \in 1..Len(lines) :
               /\ i < first \/ first + size <= i
               /\ j = To(i) /\ after[j] = lines[i]
  <2>1. after[j].from # 0
    BY <1>5
  <2> HIDE DEF To
  <2> QED BY <1>3, <2>1
<1>6. OrderedIn(after)
  <2> SUFFICES ASSUME NEW j \in 1..n, NEW m \in 1..n, j < m,
                      after[j].from > 0, after[m].from > 0
               PROVE  after[j].from < after[m].from
    BY <1>d DEF OrderedIn
  <2>1. PICK a \in 1..Len(lines) :
          (a < first \/ first + size <= a) /\ j = To(a) /\ after[j] = lines[a]
    BY <1>5
  <2>2. PICK b \in 1..Len(lines) :
          (b < first \/ first + size <= b) /\ m = To(b) /\ after[m] = lines[b]
    BY <1>5
  <2>3. a < b
    BY <2>1, <2>2, <1>n
  <2> HIDE DEF To
  <2> QED BY <2>1, <2>2, <2>3, <1>d DEF OrderedIn
<1>7. moved \in Seq(Spans)
  <2>1. \A k \in DOMAIN spans : moved[k] \in Spans
    BY <1>m, <1>n, ShiftKeeps
  <2>2. DOMAIN spans = 1..Len(spans) /\ Len(spans) \in Nat
    OBVIOUS
  <2>3. moved = [k \in 1..Len(spans) |-> moved[k]]
    BY <2>2 DEF moved, Shift
  <2>4. moved \in [1..Len(spans) -> Spans]
    BY <2>1, <2>2, <2>3
  <2> QED BY <2>2, <2>4, FunctionIsSequence
<1>8. CoveredIn(after, moved, p)
  <2> SUFFICES ASSUME NEW j \in 1..n
               PROVE  (\E k \in DOMAIN moved : In(moved[k], j)) <=>
                        after[j].from = 0 \/ Authorized(p, after[j].from)
    BY <1>d DEF CoveredIn
  <2>1. CASE after[j].from = 0 /\ first <= j /\ j < first + Len(new)
    <3>1. PICK k \in DOMAIN spans : spans[k][1] <= first /\ first + size - 1 <= spans[k][2]
      BY DEF Inside
    <3>2. spans[k] \in Spans /\ j \in Nat
      BY <1>m, <1>n
    <3>3. In(Shifted(spans[k], first, size, Len(new)), j)
      BY <3>1, <3>2, <2>1, <1>n, ShiftGrows
    <3> QED BY <2>1, <3>3, <1>m
  <2>2. ASSUME NEW i \in 1..Len(lines), i < first \/ first + size <= i,
               j = To(i), after[j] = lines[i]
        PROVE  (\E k \in DOMAIN moved : In(moved[k], j)) <=>
                 after[j].from = 0 \/ Authorized(p, after[j].from)
    <3>1. ASSUME NEW k \in DOMAIN spans PROVE In(moved[k], j) <=> In(spans[k], i)
      <4>0. spans[k] \in Spans /\ i \in Nat /\ j \in Nat
        BY <1>m, <1>n
      <4>1. CASE i < first
        <5>1. j = i
          BY <4>1, <2>2
        <5>2. In(Shifted(spans[k], first, size, Len(new)), i) <=> In(spans[k], i)
          BY <4>0, <4>1, <1>n, ShiftKeeps
        <5> QED BY <5>1, <5>2, <1>m
      <4>2. CASE first + size <= i
        <5>0. j = i - size + Len(new)
          BY <4>2, <2>2
        <5>1. j >= first + Len(new) /\ j - Len(new) + size = i
          BY <4>2, <5>0, <1>n
        <5>2. In(Shifted(spans[k], first, size, Len(new)), j) <=> In(spans[k], j - Len(new) + size)
          BY <4>0, <5>1, <1>n, ShiftKeeps
        <5> QED BY <5>1, <5>2, <1>m
      <4> QED BY <2>2, <4>1, <4>2
    <3> QED BY <2>2, <3>1, <1>m, <1>d DEF CoveredIn
  <2> QED BY <1>3, <2>1, <2>2
<1> QED BY <1>4, <1>6, <1>7, <1>8 DEF after, moved

----------------------------------------------------------------------------
(* The steps.                                                              *)

LEMMA ClashIsSymmetric ==
  /\ \A p : Clash(p, p)
  /\ \A p, q : Clash(p, q) => Clash(q, p)
BY DEF Clash

\* A path that is fresh is not in use.
LEMMA FreshIsNew ==
  ASSUME NEW p, Fresh(p)
  PROVE  p \notin taken
BY ClashIsSymmetric DEF Fresh

\* Only localized files have a source, and all of them are tracked.
LEMMA SourcesAreTracked ==
  ASSUME NEW p \in Paths
  PROVE  /\ Sources[p] \in Seq(Texts)
         /\ Sources[p] # <<>> => p \in Tracked
BY TreeAssumption, EditsAssumption DEF Sources, Tracked, Present

LEMMA WrittenLines ==
  ASSUME NEW texts \in Seq(Texts), texts # <<>>
  PROVE  /\ Written(texts) \in Seq(Line)
         /\ Written(texts) # <<>>
         /\ Len(Written(texts)) = Len(texts) /\ Len(texts) > 0
         /\ \A k \in DOMAIN Written(texts) : Written(texts)[k].from = 0
<1>1. DOMAIN texts = 1..Len(texts) /\ Len(texts) \in Nat /\ Len(texts) > 0
  OBVIOUS
<1>2. Written(texts) \in [1..Len(texts) -> Line]
  BY <1>1 DEF Written, Line
<1>3. Written(texts) \in Seq(Line)
  BY <1>1, <1>2
<1>4. Len(Written(texts)) = Len(texts)
  BY <1>1, <1>2, <1>3
<1> QED BY <1>1, <1>2, <1>3, <1>4 DEF Written

LEMMA OriginalLines ==
  ASSUME NEW texts \in Seq(Texts)
  PROVE  /\ Original(texts) \in Seq(Line)
         /\ Original(texts) # <<>> => texts # <<>>
         /\ Len(Original(texts)) = Len(texts)
         /\ DOMAIN Original(texts) = 1..Len(texts)
         /\ \A k \in 1..Len(texts) : Original(texts)[k] = [text |-> texts[k], from |-> k]
<1>1. DOMAIN texts = 1..Len(texts) /\ Len(texts) \in Nat
  OBVIOUS
<1>2. Original(texts) \in [1..Len(texts) -> Line]
  BY <1>1 DEF Original, Line
<1>3. Original(texts) \in Seq(Line)
  BY <1>1, <1>2
<1>4. Len(Original(texts)) = Len(texts)
  BY <1>1, <1>2, <1>3
<1> QED BY <1>1, <1>2, <1>3, <1>4 DEF Original

\* A sequence is one of whatever all its elements are.
LEMMA SequenceOfMembers ==
  ASSUME NEW S, NEW T, NEW s \in Seq(S), \A n \in DOMAIN s : s[n] \in T
  PROVE  s \in Seq(T)
<1>1. Len(s) \in Nat /\ DOMAIN s = 1..Len(s) /\ s = [n \in 1..Len(s) |-> s[n]]
  OBVIOUS
<1>2. s \in [1..Len(s) -> T]
  BY <1>1
<1> QED BY <1>1, <1>2

LEMMA InitRight == Init => EditInv
<1> SUFFICES ASSUME Init PROVE EditInv
  OBVIOUS
<1>1. \A p \in Paths : updated[p] = Original(Sources[p]) /\ Sources[p] \in Seq(Texts)
  BY SourcesAreTracked DEF Init
<1>2. Allowed \in [Paths -> Seq(Spans)]
  <2>1. ASSUME NEW p \in Paths PROVE Allowed[p] \in Seq(Spans)
    <3>1. Allowed[p] \in Seq(Nat \X Nat)
      BY EditsAssumption
    <3>2. \A n \in DOMAIN Allowed[p] : Allowed[p][n] \in Spans
      BY <3>1, EditsAssumption DEF Spans
    <3> QED BY <3>1, <3>2, SequenceOfMembers
  <2> QED BY <2>1, EditsAssumption
<1>3. ShapeInv
  BY <1>1, <1>2, OriginalLines DEF Init, ShapeInv
<1>4. Present(updated) \subseteq Tracked
  BY <1>1, OriginalLines, SourcesAreTracked DEF Present
<1>5. RoomInv
  <2>1. Tracked \subseteq Paths
    BY TreeAssumption DEF Tracked, Present
  <2> QED BY <1>4, <2>1 DEF Init, RoomInv, NewPathsHaveRoom
<1>6. LinesInv
  <2> SUFFICES ASSUME NEW p \in Carried
               PROVE  /\ KeptIn(updated[p], p)
                      /\ OrderedIn(updated[p])
                      /\ CoveredIn(updated[p], intervals[p], p)
    BY DEF LinesInv, Init, Carried, Present
  <2>1. /\ p \in Paths /\ Sources[p] \in Seq(Texts)
        /\ DOMAIN Sources[p] = 1..Len(Sources[p]) /\ Len(Sources[p]) \in Nat
    BY <1>1 DEF Carried, Present
  <2>2. /\ DOMAIN updated[p] = 1..Len(Sources[p])
        /\ Len(updated[p]) = Len(Sources[p])
        /\ \A k \in 1..Len(Sources[p]) : updated[p][k] = [text |-> Sources[p][k], from |-> k]
    BY <1>1, <2>1, OriginalLines
  <2>b. ASSUME NEW k \in 1..Len(Sources[p]) PROVE updated[p][k].from = k
    <3>1. updated[p][k] = [text |-> Sources[p][k], from |-> k]
      BY <2>2
    <3> QED BY <3>1
  <2>3. KeptIn(updated[p], p)
    <3> SUFFICES ASSUME NEW k \in Fixed(p)
                 PROVE  /\ k \in DOMAIN updated[p]
                        /\ updated[p][k] = [text |-> Sources[p][k], from |-> k]
                        /\ k = Len(Sources[p]) => k = Len(updated[p])
                        /\ k + 1 \in Fixed(p) =>
                             k < Len(updated[p]) /\ updated[p][k + 1].from = k + 1
      BY DEF KeptIn
    <3>1. k \in 1..Len(Sources[p])
      BY <2>1 DEF Fixed
    <3>2. k + 1 \in Fixed(p) => k + 1 \in 1..Len(Sources[p])
      BY <2>1 DEF Fixed
    <3>3. k + 1 \in Fixed(p) => k < Len(updated[p])
      BY <2>1, <2>2, <3>1, <3>2
    <3>4. k + 1 \in Fixed(p) => updated[p][k + 1].from = k + 1
      BY <2>b, <3>2
    <3>5. k \in DOMAIN updated[p] /\ updated[p][k] = [text |-> Sources[p][k], from |-> k]
      BY <2>2, <3>1
    <3>6. k = Len(Sources[p]) => k = Len(updated[p])
      BY <2>2
    <3> QED BY <3>3, <3>4, <3>5, <3>6
  <2>a. \A k \in DOMAIN updated[p] : k \in Nat \ {0} /\ updated[p][k].from = k
    BY <2>1, <2>2, <2>b
  <2>4. OrderedIn(updated[p])
    BY <2>a DEF OrderedIn
  <2>5. CoveredIn(updated[p], intervals[p], p)
    <3>1. intervals[p] = Allowed[p]
      BY DEF Init
    <3>2. ASSUME NEW i \in DOMAIN updated[p]
          PROVE  (\E n \in DOMAIN Allowed[p] : In(Allowed[p][n], i)) <=>
                   updated[p][i].from = 0 \/ Authorized(p, updated[p][i].from)
      <4>1. updated[p][i].from = i /\ i # 0
        BY <2>a
      <4> QED BY <4>1 DEF In, Authorized
    <3> QED BY <3>1, <3>2 DEF CoveredIn
  <2> QED BY <2>3, <2>4, <2>5
<1> QED BY <1>3, <1>5, <1>6 DEF EditInv

\* A new text stands where the block occurs, and there is room for the block.
LEMMA EligiblePlaces ==
  ASSUME NEW p \in Paths, NEW search \in Searches, NEW first \in Eligible(p, search),
         updated[p] \in Seq(Line)
  PROVE  /\ first \in Nat \ {0}
         /\ Len(search) \in Nat \ {0}
         /\ first + Len(search) <= Len(updated[p]) + 1
         /\ p \in created \/ Inside(intervals[p], first, first + Len(search) - 1)
<1>1. Len(search) \in Nat \ {0}
  BY EditsAssumption
<1>2. first \in 1..Len(updated[p]) /\ Occurs(updated[p], search, first)
  BY DEF Eligible, Occurrences
<1>3. p \in created \/ Inside(intervals[p], first, first + Len(search) - 1)
  BY DEF Eligible
<1> QED BY <1>1, <1>2, <1>3 DEF Occurs

LEMMA ReplaceKeeps ==
  ASSUME EditInv, NEW p \in Paths, NEW s \in Searches, NEW r \in Replacements,
         Replace(p, s, r)
  PROVE  EditInv'
<1>1. PICK first \in Eligible(p, s) :
        /\ updated' = [updated EXCEPT ![p] = Splice(@, first, Len(s), Written(r))]
        /\ intervals' = IF p \in created THEN intervals
                        ELSE [intervals EXCEPT ![p] = Shift(@, first, Len(s), Len(r))]
  BY DEF Replace
<1>2. /\ status = "editing" /\ updated[p] # <<>>
      /\ UNCHANGED <<taken, created, renamed, structural, origin, patch, status>>
  BY DEF Replace, CanReplace, Parsed
<1>3. updated[p] \in Seq(Line) /\ intervals[p] \in Seq(Spans) /\ origin[p] \in Paths
  BY DEF EditInv, ShapeInv
<1>4. /\ Written(r) \in Seq(Line) /\ Len(Written(r)) = Len(r) /\ Len(Written(r)) > 0
      /\ \A k \in DOMAIN Written(r) : Written(r)[k].from = 0
  BY EditsAssumption, WrittenLines
<1>5. /\ first \in Nat \ {0} /\ Len(s) \in Nat \ {0}
      /\ first + Len(s) <= Len(updated[p]) + 1
      /\ p \in created \/ Inside(intervals[p], first, first + Len(s) - 1)
  BY <1>3, EligiblePlaces
<1> DEFINE after == Splice(updated[p], first, Len(s), Written(r))
           moved == Shift(intervals[p], first, Len(s), Len(r))
<1>6. after \in Seq(Line) /\ after # <<>>
  BY <1>3, <1>4, <1>5, SpliceIsFile
<1>7. ASSUME p \in Carried
      PROVE  /\ KeptIn(after, origin[p]) /\ OrderedIn(after)
             /\ CoveredIn(after, moved, origin[p])
             /\ moved \in Seq(Spans)
  <2>1. /\ KeptIn(updated[p], origin[p]) /\ OrderedIn(updated[p])
        /\ CoveredIn(updated[p], intervals[p], origin[p])
    BY <1>2, <1>7 DEF EditInv, LinesInv
  <2>2. Inside(intervals[p], first, first + Len(s) - 1)
    BY <1>5, <1>7 DEF Carried
  <2> QED BY <2>1, <2>2, <1>3, <1>4, <1>5, SpliceKeeps
<1>8. updated' = [updated EXCEPT ![p] = after]
  BY <1>1
<1>9. p \notin created => p \in Carried /\ intervals' = [intervals EXCEPT ![p] = moved]
  BY <1>1, <1>2 DEF Carried, Present
<1> HIDE DEF after, moved
<1>10. /\ updated'[p] = after
       /\ \A q \in Paths \ {p} : updated'[q] = updated[q] /\ intervals'[q] = intervals[q]
       /\ p \notin created => intervals'[p] = moved
  BY <1>1, <1>8, <1>9 DEF EditInv, ShapeInv
<1>11. ShapeInv'
  BY <1>1, <1>2, <1>6, <1>7, <1>8, <1>9 DEF EditInv, ShapeInv
<1>12. Present(updated') = Present(updated)
  BY <1>2, <1>6, <1>10 DEF Present
<1>13. RoomInv'
  BY <1>2, <1>12 DEF EditInv, RoomInv, NewPathsHaveRoom
<1>14. LinesInv'
  <2> SUFFICES ASSUME NEW q \in Carried'
               PROVE  /\ KeptIn(updated'[q], origin[q])
                      /\ OrderedIn(updated'[q])
                      /\ CoveredIn(updated'[q], intervals'[q], origin[q])
    BY <1>2 DEF LinesInv
  <2>1. q \in Carried /\ q \in Paths
    BY <1>2, <1>12 DEF Carried, Present
  <2>2. CASE q = p
    BY <2>1, <2>2, <1>7, <1>10 DEF Carried
  <2>3. CASE q # p
    BY <2>1, <2>3, <1>2, <1>10 DEF EditInv, LinesInv
  <2> QED BY <2>2, <2>3
<1> QED BY <1>11, <1>13, <1>14 DEF EditInv

LEMMA CreateKeeps ==
  ASSUME EditInv, NEW p \in Targets, NEW content \in Replacements, Create(p, content)
  PROVE  EditInv'
<1>1. /\ status = "editing" /\ p \in Paths /\ updated[p] = <<>> /\ Fresh(p)
      /\ updated' = [updated EXCEPT ![p] = Written(Ended(content))]
      /\ taken' = taken \cup {p} /\ created' = created \cup {p}
      /\ UNCHANGED <<intervals, renamed, structural, origin, patch, status>>
  BY EditsAssumption DEF Create, CanCreate, Parsed
<1>2. p \notin taken
  BY <1>1, FreshIsNew
<1>3. Written(Ended(content)) \in Seq(Line) /\ Written(Ended(content)) # <<>>
  <2>1. content \in Seq(Texts) /\ content # <<>>
    BY EditsAssumption
  <2>2. Ended(content) \in Seq(Texts) /\ Ended(content) # <<>>
    BY <2>1, TreeAssumption DEF Ended
  <2> QED BY <2>2, WrittenLines
<1>4. ShapeInv'
  BY <1>1, <1>3 DEF EditInv, ShapeInv
<1>5. \A q \in Paths \ {p} : updated'[q] = updated[q]
  BY <1>1 DEF EditInv, ShapeInv
<1>6. Present(updated') = Present(updated) \cup {p} /\ p \notin Present(updated)
  BY <1>1, <1>3, <1>5 DEF Present, EditInv, ShapeInv
<1>7. RoomInv'
  <2>1. /\ Tracked \cup created \cup Present(updated) \subseteq taken
        /\ taken \subseteq Paths
        /\ \A q \in Tracked : origin[q] = q
        /\ created \cap Tracked = {}
        /\ \A q \in Present(updated) \ Tracked : \A other \in taken \ {q} : ~Clash(q, other)
    BY <1>1 DEF EditInv, RoomInv
  <2>2. Tracked \cup created' \cup Present(updated') \subseteq taken' /\ taken' \subseteq Paths
    BY <1>1, <1>6, <2>1
  <2>3. created' \cap Tracked = {}
    BY <1>1, <1>2, <2>1
  <2>4. ASSUME NEW q \in Present(updated') \ Tracked, NEW other \in taken' \ {q}
        PROVE  ~Clash(q, other)
    <3>1. CASE q = p
      BY <3>1, <1>1 DEF Fresh
    <3>2. CASE q # p /\ other = p
      <4>1. q \in taken
        BY <3>2, <1>6, <2>1
      <4>2. ~Clash(p, q)
        BY <4>1, <1>1 DEF Fresh
      <4> QED BY <4>2, <3>2, ClashIsSymmetric
    <3>3. CASE q # p /\ other # p
      BY <3>3, <1>1, <1>6, <2>1
    <3> QED BY <3>1, <3>2, <3>3
  <2> QED BY <1>1, <2>1, <2>2, <2>3, <2>4 DEF RoomInv, NewPathsHaveRoom
<1>8. LinesInv'
  <2>1. \A q \in Carried' : q \in Carried /\ q \in Paths \ {p}
    BY <1>1, <1>6 DEF Carried, Present
  <2> QED BY <2>1, <1>1, <1>5 DEF EditInv, LinesInv
<1> QED BY <1>4, <1>7, <1>8 DEF EditInv

LEMMA DeleteKeeps ==
  ASSUME EditInv, NEW p \in Paths, Delete(p)
  PROVE  EditInv'
<1>1. /\ status = "editing"
      /\ updated' = [updated EXCEPT ![p] = <<>>]
      /\ UNCHANGED <<intervals, taken, created, renamed, origin, patch, status>>
  BY DEF Delete, Parsed
<1>2. ShapeInv'
  BY <1>1 DEF EditInv, ShapeInv
<1>3. updated'[p] = <<>> /\ \A q \in Paths \ {p} : updated'[q] = updated[q]
  BY <1>1 DEF EditInv, ShapeInv
<1>4. Present(updated') = Present(updated) \ {p}
  BY <1>3 DEF Present
<1>5. RoomInv'
  BY <1>1, <1>4 DEF EditInv, RoomInv, NewPathsHaveRoom
<1>6. LinesInv'
  <2>1. \A q \in Carried' : q \in Carried /\ q \in Paths \ {p}
    BY <1>1, <1>4 DEF Carried, Present
  <2> QED BY <2>1, <1>1, <1>3 DEF EditInv, LinesInv
<1> QED BY <1>2, <1>5, <1>6 DEF EditInv

LEMMA RenameKeeps ==
  ASSUME EditInv, NEW p \in Paths, NEW q \in Targets, Rename(p, q)
  PROVE  EditInv'
<1>1. /\ status = "editing" /\ q \in Paths /\ Fresh(q)
      /\ Sources[p] # <<>> /\ updated[p] # <<>>
      /\ updated' = [updated EXCEPT ![q] = updated[p], ![p] = <<>>]
      /\ intervals' = [intervals EXCEPT ![q] = intervals[p]]
      /\ taken' = taken \cup {q}
      /\ origin' = [origin EXCEPT ![q] = p]
      /\ UNCHANGED <<created, patch, status>>
  BY EditsAssumption DEF Rename, CanMove, Parsed
<1>2. q \notin taken
  BY <1>1, FreshIsNew
<1>3. p \in Tracked
  BY <1>1, SourcesAreTracked
<1>4. /\ Tracked \cup created \cup Present(updated) \subseteq taken
      /\ taken \subseteq Paths
      /\ \A k \in Tracked : origin[k] = k
      /\ created \cap Tracked = {}
      /\ \A k \in Present(updated) \ Tracked : \A other \in taken \ {k} : ~Clash(k, other)
  BY <1>1 DEF EditInv, RoomInv
<1>5. p # q /\ p \in Carried /\ origin[p] = p
  BY <1>1, <1>2, <1>3, <1>4 DEF Carried, Present
<1>6. ShapeInv'
  <2>1. /\ updated \in [Paths -> Seq(Line)] /\ intervals \in [Paths -> Seq(Spans)]
        /\ origin \in [Paths -> Paths]
    BY DEF EditInv, ShapeInv
  <2>2. updated[p] \in Seq(Line) /\ <<>> \in Seq(Line)
    BY <2>1
  <2>3. updated' \in [Paths -> Seq(Line)]
    BY <1>1, <2>1, <2>2
  <2>4. intervals' \in [Paths -> Seq(Spans)] /\ origin' \in [Paths -> Paths]
    BY <1>1, <2>1
  <2> QED BY <1>1, <2>3, <2>4 DEF ShapeInv
<1>7. /\ updated'[p] = <<>> /\ updated'[q] = updated[p]
      /\ intervals'[q] = intervals[p] /\ origin'[q] = p
      /\ \A k \in Paths \ {p, q} : updated'[k] = updated[k]
      /\ \A k \in Paths \ {q} : intervals'[k] = intervals[k] /\ origin'[k] = origin[k]
  BY <1>1, <1>5 DEF EditInv, ShapeInv
<1>8. Present(updated') = (Present(updated) \ {p}) \cup {q}
  BY <1>1, <1>5, <1>7 DEF Present
<1>9. RoomInv'
  <2>1. Tracked \cup created' \cup Present(updated') \subseteq taken' /\ taken' \subseteq Paths
    BY <1>1, <1>4, <1>8
  <2>2. \A k \in Tracked : origin'[k] = k
    BY <1>2, <1>4, <1>7
  <2>3. ASSUME NEW k \in Present(updated') \ Tracked, NEW other \in taken' \ {k}
        PROVE  ~Clash(k, other)
    <3>1. CASE k = q
      BY <3>1, <1>1 DEF Fresh
    <3>2. CASE k # q /\ other = q
      <4>1. k \in taken
        BY <3>2, <1>4, <1>8
      <4>2. ~Clash(q, k)
        BY <4>1, <1>1 DEF Fresh
      <4> QED BY <4>2, <3>2, ClashIsSymmetric
    <3>3. CASE k # q /\ other # q
      BY <3>3, <1>1, <1>4, <1>8
    <3> QED BY <3>1, <3>2, <3>3
  <2> QED BY <1>1, <1>4, <2>1, <2>2, <2>3 DEF RoomInv, NewPathsHaveRoom
<1>10. LinesInv'
  <2> SUFFICES ASSUME NEW k \in Carried'
               PROVE  /\ KeptIn(updated'[k], origin'[k])
                      /\ OrderedIn(updated'[k])
                      /\ CoveredIn(updated'[k], intervals'[k], origin'[k])
    BY DEF LinesInv
  <2>1. CASE k = q
    BY <2>1, <1>1, <1>5, <1>7 DEF EditInv, LinesInv
  <2>2. CASE k # q
    <3>1. k \in Carried /\ k \in Paths \ {p, q}
      BY <2>2, <1>1, <1>8 DEF Carried, Present
    <3> QED BY <3>1, <1>1, <1>7 DEF EditInv, LinesInv
  <2> QED BY <2>1, <2>2
<1> QED BY <1>6, <1>9, <1>10 DEF EditInv

\* The end of the response, and every step after it, leaves the files alone.
LEMMA EndKeeps ==
  ASSUME EditInv, UNCHANGED <<updated, created, origin>>,
         intervals' \in [Paths -> Seq(Spans)],
         status' \in {"refused", "repaired", "unbuildable", "built"}
  PROVE  EditInv'
<1>1. ShapeInv'
  BY DEF EditInv, ShapeInv
<1>2. RoomInv'
  BY DEF EditInv, RoomInv, NewPathsHaveRoom
<1>3. LinesInv'
  BY DEF EditInv, LinesInv, Carried
<1> QED BY <1>1, <1>2, <1>3 DEF EditInv

\* EditInv reads the variables of the edits alone.
LEMMA StutterKeeps ==
  ASSUME EditInv, UNCHANGED <<updated, created, origin, intervals, taken, status>>
  PROVE  EditInv'
<1>1. ShapeInv'
  BY DEF EditInv, ShapeInv
<1>2. RoomInv'
  BY DEF EditInv, RoomInv, NewPathsHaveRoom
<1>3. LinesInv'
  BY DEF EditInv, LinesInv, Carried
<1> QED BY <1>1, <1>2, <1>3 DEF EditInv

LEMMA StepKeeps ==
  ASSUME EditInv, [CandidateNext]_vars
  PROVE  EditInv'
<1>1. ASSUME NEW p \in Paths, NEW s \in Searches, NEW r \in Replacements, Replace(p, s, r)
      PROVE  EditInv'
  BY <1>1, ReplaceKeeps
<1>2. ASSUME NEW p \in Targets, NEW r \in Replacements, Create(p, r)
      PROVE  EditInv'
  BY <1>2, CreateKeeps
<1>3. ASSUME NEW p \in Paths, Delete(p)
      PROVE  EditInv'
  BY <1>3, DeleteKeeps
<1>4. ASSUME NEW p \in Paths, NEW q \in Targets, Rename(p, q)
      PROVE  EditInv'
  BY <1>4, RenameKeeps
<1>5. CASE Refuse
  BY <1>5, EndKeeps DEF Refuse, locals, repair, EditInv, ShapeInv
<1>6. CASE Finish
  <2>1. intervals' \in [Paths -> Seq(Spans)]
    BY <1>6 DEF Finish
  <2> QED BY <1>6, <2>1, EndKeeps DEF Finish
<1>7. CASE BuildDiff
  BY <1>7, EndKeeps DEF BuildDiff, locals, repair, EditInv, ShapeInv
<1>8. CASE status = "built" /\ WS!WorkspaceStep /\ UNCHANGED <<locals, repair, status>>
  BY <1>8, StutterKeeps DEF locals, repair
<1>9. CASE UNCHANGED vars
  BY <1>9, StutterKeeps DEF vars, editVars, locals, repair
<1> QED BY <1>1, <1>2, <1>3, <1>4, <1>5, <1>6, <1>7, <1>8, <1>9 DEF CandidateNext, EditStep

----------------------------------------------------------------------------
(* The theorems.                                                           *)

\* The inductive invariant: types, room for new paths, and the lines of every file
\* that comes from a localized one with their authorization.
THEOREM EditInvariant == Spec => []EditInv
<1>1. CandidateInit => EditInv
  BY InitRight DEF CandidateInit
<1>2. EditInv /\ [CandidateNext]_vars => EditInv'
  BY StepKeeps
<1> QED BY <1>1, <1>2, PTL DEF Spec

\* Authorization moves with the text, for every file, interval and sequence of edits
\* (the shifting of normalized_intervals).
THEOREM AuthorizationAlwaysMoves == Spec => []AuthorizationMovesWithText
<1>1. EditInv => AuthorizationMovesWithText
  BY DEF EditInv, LinesInv, CoveredIn, In, AuthorizationMovesWithText, Covered
<1> QED BY <1>1, EditInvariant, PTL

\* What localization has not authorized stays, whatever a response asks for
\* (apply_search_replace_edits).
THEOREM UnauthorizedLinesAlwaysStay == Spec => []UnauthorizedLinesStay
<1>1. EditInv => UnauthorizedLinesStay
  BY DEF EditInv, LinesInv, KeptIn, OrderedIn, Fixed, UnauthorizedLinesStay
<1> QED BY <1>1, EditInvariant, PTL

\* New paths have room, for every tree and every order of creations, deletions and
\* renames (_require_new_path).
THEOREM NewPathsAlwaysHaveRoom == Spec => []NewPathsHaveRoom
<1>1. EditInv => NewPathsHaveRoom
  BY DEF EditInv, RoomInv
<1> QED BY <1>1, EditInvariant, PTL

----------------------------------------------------------------------------
(* The patch of a repair.                                                  *)

\* A rename takes a localized file and fills a path the tree does not have; no two
\* renames share an end.
PairsInv ==
  /\ renamed \subseteq Paths \X Paths
  /\ \A pair \in renamed :
       /\ Sources[pair[1]] # <<>> /\ updated[pair[1]] = <<>>
       /\ pair[2] \notin Tracked /\ updated[pair[2]] # <<>>
       /\ pair[1] \in changed /\ pair[2] \in changed
  /\ \A a, b \in renamed : a[1] = b[1] \/ a[2] = b[2] => a = b

\* The changed paths are those whose text is not the one in the tree, and at the end
\* of a response only those.
ChangesInv ==
  /\ changed \subseteq Paths
  /\ \A p \in Tracked : Sources[p] = <<>> => updated[p] = <<>>
  /\ \A p \in changed : Sources[p] # <<>> \/ updated[p] # <<>>
  /\ status # "refused" => \A p \in Paths \ changed : TextOf(updated[p]) = Sources[p]
  /\ status \in {"repaired", "built"} => changed # {} /\ \A p \in changed : Differs(p)
  /\ status = "built" => patch = Chunks
  /\ status # "unbuildable"

DiffInv == PairsInv /\ ChangesInv

\* The text of lines is empty only where there are no lines.
LEMMA TextOfLines ==
  ASSUME NEW lines \in Seq(Line)
  PROVE  TextOf(lines) = <<>> <=> lines = <<>>
<1>1. DOMAIN lines = 1..Len(lines) /\ Len(lines) \in Nat
  OBVIOUS
<1>2. DOMAIN TextOf(lines) = 1..Len(lines)
  BY <1>1 DEF TextOf
<1>3. ASSUME lines # <<>> PROVE TextOf(lines) # <<>>
  <2>1. 1 \in DOMAIN TextOf(lines)
    BY <1>1, <1>2, <1>3
  <2>2. DOMAIN <<>> = 1..0
    OBVIOUS
  <2> QED BY <2>1, <2>2
<1>4. ASSUME lines = <<>> PROVE TextOf(lines) = <<>>
  BY <1>4 DEF TextOf
<1> QED BY <1>3, <1>4

LEMMA TextOfOriginal ==
  ASSUME NEW texts \in Seq(Texts)
  PROVE  TextOf(Original(texts)) = texts
<1>1. DOMAIN texts = 1..Len(texts) /\ texts = [n \in 1..Len(texts) |-> texts[n]]
  OBVIOUS
<1>2. /\ DOMAIN Original(texts) = 1..Len(texts)
      /\ \A k \in 1..Len(texts) : Original(texts)[k] = [text |-> texts[k], from |-> k]
  BY OriginalLines
<1>3. \A k \in 1..Len(texts) : Original(texts)[k].text = texts[k]
  BY <1>2
<1>4. TextOf(Original(texts)) = [n \in 1..Len(texts) |-> texts[n]]
  BY <1>2, <1>3 DEF TextOf
<1> QED BY <1>1, <1>4

LEMMA InitDiff == Init => DiffInv
<1> SUFFICES ASSUME Init PROVE DiffInv
  OBVIOUS
<1>1. \A p \in Paths : updated[p] = Original(Sources[p]) /\ Sources[p] \in Seq(Texts)
  BY SourcesAreTracked DEF Init
<1>2. \A p \in Paths : TextOf(updated[p]) = Sources[p]
  BY <1>1, TextOfOriginal
<1>3. \A p \in Paths : Sources[p] = <<>> => updated[p] = <<>>
  BY <1>1, OriginalLines
<1>4. Tracked \subseteq Paths
  BY TreeAssumption DEF Tracked, Present
<1> QED BY <1>2, <1>3, <1>4 DEF Init, DiffInv, PairsInv, ChangesInv

\* One path gets other lines, or loses them, and counts as changed.
LEMMA WriteKeepsDiff ==
  ASSUME EditInv, DiffInv, status = "editing",
         NEW p \in Paths, NEW lines \in Seq(Line),
         updated' = [updated EXCEPT ![p] = lines],
         changed' = changed \cup {p},
         UNCHANGED <<renamed, status>>,
         Sources[p] # <<>> \/ (lines # <<>> /\ p \notin Tracked),
         \A pair \in renamed : p # pair[1] /\ (p = pair[2] => lines # <<>>)
  PROVE  DiffInv'
<1>1. updated'[p] = lines /\ \A q \in Paths \ {p} : updated'[q] = updated[q]
  BY DEF EditInv, ShapeInv
<1>2. Tracked \subseteq Paths
  BY TreeAssumption DEF Tracked, Present
<1>3. PairsInv'
  <2>1. \A pair \in renamed : pair[1] \in Paths /\ pair[2] \in Paths
    BY DEF DiffInv, PairsInv
  <2>2. ASSUME NEW pair \in renamed
        PROVE  updated'[pair[1]] = <<>> /\ updated'[pair[2]] # <<>>
    BY <1>1, <2>1 DEF DiffInv, PairsInv
  <2> QED BY <2>1, <2>2 DEF DiffInv, PairsInv
<1>4. ChangesInv'
  BY <1>1, <1>2 DEF DiffInv, ChangesInv
<1> QED BY <1>3, <1>4 DEF DiffInv

LEMMA ReplaceKeepsDiff ==
  ASSUME EditInv, DiffInv, NEW p \in Paths, NEW s \in Searches, NEW r \in Replacements,
         Replace(p, s, r)
  PROVE  DiffInv'
<1>1. PICK first \in Eligible(p, s) :
        updated' = [updated EXCEPT ![p] = Splice(@, first, Len(s), Written(r))]
  BY DEF Replace
<1>2. /\ status = "editing" /\ updated[p] # <<>>
      /\ changed' = changed \cup {p}
      /\ UNCHANGED <<renamed, status>>
  BY DEF Replace, CanReplace, Parsed
<1>3. updated[p] \in Seq(Line)
  BY DEF EditInv, ShapeInv
<1>4. /\ Written(r) \in Seq(Line) /\ Len(Written(r)) > 0
      /\ first \in Nat \ {0} /\ Len(s) \in Nat \ {0}
      /\ first + Len(s) <= Len(updated[p]) + 1
  BY <1>3, EditsAssumption, WrittenLines, EligiblePlaces
<1> DEFINE after == Splice(updated[p], first, Len(s), Written(r))
<1>5. after \in Seq(Line) /\ after # <<>>
  BY <1>3, <1>4, SpliceIsFile
<1>6. updated' = [updated EXCEPT ![p] = after]
  BY <1>1
<1> HIDE DEF after
<1>7. Sources[p] # <<>> \/ (after # <<>> /\ p \notin Tracked)
  BY <1>2, <1>5 DEF DiffInv, ChangesInv
<1>8. \A pair \in renamed : p # pair[1] /\ (p = pair[2] => after # <<>>)
  BY <1>2, <1>5 DEF DiffInv, PairsInv
<1> QED BY <1>2, <1>5, <1>6, <1>7, <1>8, WriteKeepsDiff

LEMMA CreateKeepsDiff ==
  ASSUME EditInv, DiffInv, NEW p \in Targets, NEW content \in Replacements, Create(p, content)
  PROVE  DiffInv'
<1>1. /\ status = "editing" /\ p \in Paths /\ Fresh(p)
      /\ updated' = [updated EXCEPT ![p] = Written(Ended(content))]
      /\ changed' = changed \cup {p}
      /\ UNCHANGED <<renamed, status>>
  BY EditsAssumption DEF Create, CanCreate, Parsed
<1>2. Written(Ended(content)) \in Seq(Line) /\ Written(Ended(content)) # <<>>
  <2>1. content \in Seq(Texts) /\ content # <<>>
    BY EditsAssumption
  <2>2. Ended(content) \in Seq(Texts) /\ Ended(content) # <<>>
    BY <2>1, TreeAssumption DEF Ended
  <2> QED BY <2>2, WrittenLines
<1>3. p \notin Tracked
  BY <1>1, FreshIsNew DEF EditInv, RoomInv
<1>4. \A pair \in renamed : p # pair[1]
  BY <1>3, SourcesAreTracked DEF DiffInv, PairsInv
<1> QED BY <1>1, <1>2, <1>3, <1>4, WriteKeepsDiff

LEMMA DeleteKeepsDiff ==
  ASSUME EditInv, DiffInv, NEW p \in Paths, Delete(p)
  PROVE  DiffInv'
<1>1. /\ status = "editing" /\ Sources[p] # <<>> /\ updated[p] # <<>>
      /\ updated' = [updated EXCEPT ![p] = <<>>]
      /\ changed' = changed \cup {p}
      /\ UNCHANGED <<renamed, status>>
  BY DEF Delete, CanMove, Parsed
<1>2. \A pair \in renamed : p # pair[1] /\ (p = pair[2] => <<>> # <<>>)
  BY <1>1, SourcesAreTracked DEF DiffInv, PairsInv
<1>3. <<>> \in Seq(Line)
  OBVIOUS
<1> QED BY <1>1, <1>2, <1>3, WriteKeepsDiff

LEMMA RenameKeepsDiff ==
  ASSUME EditInv, DiffInv, NEW p \in Paths, NEW q \in Targets, Rename(p, q)
  PROVE  DiffInv'
<1>1. /\ status = "editing" /\ q \in Paths /\ Fresh(q)
      /\ Sources[p] # <<>> /\ updated[p] # <<>>
      /\ updated' = [updated EXCEPT ![q] = updated[p], ![p] = <<>>]
      /\ renamed' = renamed \cup {<<p, q>>}
      /\ changed' = changed \cup {p, q}
      /\ UNCHANGED status
  BY EditsAssumption DEF Rename, CanMove, Parsed
<1>2. q \notin taken /\ Tracked \cup Present(updated) \subseteq taken
  BY <1>1, FreshIsNew DEF EditInv, RoomInv
<1>3. p # q /\ p \in Tracked /\ q \notin Tracked /\ updated[q] = <<>>
  BY <1>1, <1>2, SourcesAreTracked DEF Present
<1>4. /\ updated'[p] = <<>> /\ updated'[q] = updated[p]
      /\ \A k \in Paths \ {p, q} : updated'[k] = updated[k]
  BY <1>1, <1>3 DEF EditInv, ShapeInv
<1>5. ASSUME NEW pair \in renamed
      PROVE  /\ pair[1] \in Paths \ {p, q} /\ pair[2] \in Paths \ {p, q}
             /\ Sources[pair[1]] # <<>> /\ updated'[pair[1]] = <<>>
             /\ pair[2] \notin Tracked /\ updated'[pair[2]] # <<>>
             /\ pair[1] \in changed' /\ pair[2] \in changed'
  <2>1. /\ pair[1] \in Paths /\ pair[2] \in Paths
        /\ Sources[pair[1]] # <<>> /\ updated[pair[1]] = <<>>
        /\ pair[2] \notin Tracked /\ updated[pair[2]] # <<>>
        /\ pair[1] \in changed /\ pair[2] \in changed
    BY DEF DiffInv, PairsInv
  <2>2. pair[1] \in Tracked
    BY <2>1, SourcesAreTracked
  <2>3. pair[1] \notin {p, q} /\ pair[2] \notin {p, q}
    BY <2>1, <2>2, <1>1, <1>3
  <2> QED BY <2>1, <2>3, <1>1, <1>4
<1>6. PairsInv'
  <2>1. renamed' \subseteq Paths \X Paths
    BY <1>1 DEF DiffInv, PairsInv
  <2>2. ASSUME NEW pair \in renamed'
        PROVE  /\ Sources[pair[1]] # <<>> /\ updated'[pair[1]] = <<>>
               /\ pair[2] \notin Tracked /\ updated'[pair[2]] # <<>>
               /\ pair[1] \in changed' /\ pair[2] \in changed'
    <3>1. CASE pair \in renamed
      BY <3>1, <1>5
    <3>2. CASE pair = <<p, q>>
      BY <3>2, <1>1, <1>3, <1>4
    <3> QED BY <3>1, <3>2, <1>1
  <2>3. ASSUME NEW a \in renamed', NEW b \in renamed', a[1] = b[1] \/ a[2] = b[2]
        PROVE  a = b
    <3>1. CASE a \in renamed /\ b \in renamed
      BY <3>1, <2>3 DEF DiffInv, PairsInv
    <3>2. CASE a = <<p, q>> /\ b = <<p, q>>
      BY <3>2
    <3>3. CASE a = <<p, q>> /\ b \in renamed
      BY <3>3, <2>3, <1>5
    <3>4. CASE a \in renamed /\ b = <<p, q>>
      BY <3>4, <2>3, <1>5
    <3> QED BY <3>1, <3>2, <3>3, <3>4, <1>1
  <2> QED BY <2>1, <2>2, <2>3 DEF PairsInv
<1>7. ChangesInv'
  <2>1. changed' \subseteq Paths
    BY <1>1 DEF DiffInv, ChangesInv
  <2>2. ASSUME NEW k \in Tracked, Sources[k] = <<>> PROVE updated'[k] = <<>>
    <3>1. k \in Paths \ {p, q}
      BY <2>2, <1>1, <1>3, TreeAssumption DEF Tracked, Present
    <3> QED BY <3>1, <2>2, <1>4 DEF DiffInv, ChangesInv
  <2>3. ASSUME NEW k \in changed' PROVE Sources[k] # <<>> \/ updated'[k] # <<>>
    <3>1. CASE k \in {p, q}
      BY <3>1, <1>1, <1>4
    <3>2. CASE k \notin {p, q}
      BY <3>2, <1>1, <1>4, <2>1 DEF DiffInv, ChangesInv
    <3> QED BY <3>1, <3>2
  <2>4. ASSUME NEW k \in Paths \ changed' PROVE TextOf(updated'[k]) = Sources[k]
    BY <1>1, <1>4 DEF DiffInv, ChangesInv
  <2> QED BY <2>1, <2>2, <2>3, <2>4, <1>1 DEF ChangesInv
<1> QED BY <1>6, <1>7 DEF DiffInv

\* Only what differs from the tree stays changed; both ends of a rename differ.
LEMMA FinishKeepsDiff ==
  ASSUME EditInv, DiffInv, Finish
  PROVE  DiffInv'
<1> DEFINE real == {p \in changed : Differs(p)}
<1>1. /\ status = "editing"
      /\ changed' = real
      /\ status' = IF real = {} THEN "refused" ELSE "repaired"
      /\ UNCHANGED <<updated, renamed>>
  BY DEF Finish
<1>2. ASSUME NEW pair \in renamed PROVE pair[1] \in real /\ pair[2] \in real
  <2>1. /\ pair[1] \in changed /\ updated[pair[1]] = <<>>
        /\ pair[2] \in changed /\ pair[2] \notin Tracked /\ pair[2] \in Paths
    BY DEF DiffInv, PairsInv
  <2>2. Sources[pair[2]] = <<>>
    BY <2>1, SourcesAreTracked
  <2> QED BY <2>1, <2>2 DEF Differs
<1>3. PairsInv'
  BY <1>1, <1>2 DEF DiffInv, PairsInv
<1>4. ASSUME NEW p \in Paths \ real PROVE TextOf(updated[p]) = Sources[p]
  BY <1>1 DEF DiffInv, ChangesInv, Differs
<1>5. ASSUME NEW p \in real PROVE p \in changed /\ Differs(p) /\ Differs(p)'
  BY <1>1 DEF Differs
<1> HIDE DEF real
<1>6. ChangesInv'
  BY <1>1, <1>4, <1>5 DEF DiffInv, ChangesInv
<1> QED BY <1>3, <1>6 DEF DiffInv

\* Where the lines of a path go, and that nothing else goes there.
LEMMA DestinationOfPath ==
  ASSUME DiffInv, NEW p \in Paths
  PROVE  /\ Destination(p) \in Paths
         /\ \A q \in Paths : <<p, q>> \in renamed => Destination(p) = q
         /\ Destination(p) # p =>
              /\ <<p, Destination(p)>> \in renamed
              /\ Destination(p) \notin Tracked /\ updated[Destination(p)] # <<>>
              /\ Sources[Destination(p)] = <<>>
              /\ Sources[p] # <<>> /\ updated[p] = <<>>
              /\ p \in changed /\ Destination(p) \in changed
<1>1. CASE \E q \in Paths : <<p, q>> \in renamed
  <2>1. Destination(p) \in Paths /\ <<p, Destination(p)>> \in renamed
    BY <1>1 DEF Destination
  <2>2. \A q \in Paths : <<p, q>> \in renamed => Destination(p) = q
    <3> SUFFICES ASSUME NEW q \in Paths, <<p, q>> \in renamed PROVE Destination(p) = q
      OBVIOUS
    <3> DEFINE a == <<p, Destination(p)>>
               b == <<p, q>>
    <3>1. a \in renamed /\ b \in renamed /\ a[1] = b[1]
      BY <2>1
    <3>2. a = b
      BY <3>1 DEF DiffInv, PairsInv
    <3> QED BY <3>2
  <2> DEFINE pair == <<p, Destination(p)>>
  <2>3. pair \in renamed /\ pair[1] = p /\ pair[2] = Destination(p)
    BY <2>1
  <2> HIDE DEF pair
  <2>4. /\ Sources[p] # <<>> /\ updated[p] = <<>>
        /\ Destination(p) \notin Tracked /\ updated[Destination(p)] # <<>>
        /\ p \in changed /\ Destination(p) \in changed
    BY <2>3 DEF DiffInv, PairsInv
  <2>5. Sources[Destination(p)] = <<>>
    BY <2>1, <2>4, SourcesAreTracked
  <2> QED BY <2>1, <2>2, <2>4, <2>5
<1>2. CASE ~\E q \in Paths : <<p, q>> \in renamed
  BY <1>2 DEF Destination
<1> QED BY <1>1, <1>2

\* The files a difference is taken of.
Differing == (Present(Sources) \cup Present(updated)) \ Destinations

\* The snapshots always fit the renames.
LEMMA NeverMismatch ==
  ASSUME DiffInv
  PROVE  ~Mismatch
<1>1. ASSUME NEW pair \in renamed
      PROVE  /\ Sources[pair[1]] # <<>> /\ updated[pair[1]] = <<>>
             /\ Sources[pair[2]] = <<>> /\ updated[pair[2]] # <<>>
  BY SourcesAreTracked DEF DiffInv, PairsInv
<1>2. \A a, b \in renamed : a # b => a[1] # b[1] /\ a[2] # b[2]
  BY DEF DiffInv, PairsInv
<1> QED BY <1>1, <1>2 DEF Mismatch

\* A difference of the patch: its ends and texts.
LEMMA ChunkOfPatch ==
  ASSUME DiffInv, NEW c \in Chunks
  PROVE  /\ c.path \in Differing /\ c.path \in Paths
         /\ c.target = Destination(c.path) /\ c.target \in Paths
         /\ c.old = Sources[c.path]
         /\ c.new = TextOf(updated[c.target])
         /\ c.old # c.new \/ c.path # c.target
<1>1. PICK p \in Differing : c = Difference(p) /\ (c.old # c.new \/ c.path # c.target)
  BY DEF Chunks, Differing
<1>2. p \in Paths
  BY DEF Differing, Present
<1>3. /\ c.path = p /\ c.target = Destination(p)
      /\ c.old = Sources[p] /\ c.new = TextOf(updated[Destination(p)])
  BY <1>1 DEF Difference
<1> QED BY <1>1, <1>2, <1>3, DestinationOfPath

\* The patch touches the changed paths and nothing else.
LEMMA PatchTouchesChanges ==
  ASSUME EditInv, DiffInv, status \in {"repaired", "built"}
  PROVE  Footprint(Chunks) = changed
<1>0. updated \in [Paths -> Seq(Line)]
  BY DEF EditInv, ShapeInv
<1>1. ASSUME NEW c \in Chunks PROVE c.path \in changed /\ c.target \in changed
  <2>1. CASE c.target = c.path
    <3>1. Sources[c.path] # TextOf(updated[c.path])
      BY <2>1, ChunkOfPatch
    <3> QED BY <2>1, <3>1, ChunkOfPatch DEF DiffInv, ChangesInv
  <2>2. CASE c.target # c.path
    <3>1. c.path \in Paths /\ c.target = Destination(c.path)
      BY ChunkOfPatch
    <3>2. c.path \in changed /\ Destination(c.path) \in changed
      BY <2>2, <3>1, DestinationOfPath
    <3> QED BY <3>1, <3>2
  <2> QED BY <2>1, <2>2
<1>2. ASSUME NEW p \in changed PROVE \E c \in Chunks : p = c.path \/ p = c.target
  <2>0. p \in Paths /\ Differs(p) /\ (Sources[p] # <<>> \/ updated[p] # <<>>)
    BY DEF DiffInv, ChangesInv
  <2>1. CASE p \in Destinations
    <3>1. PICK pair \in renamed : pair[2] = p
      BY <2>1 DEF Destinations
    <3>2. PICK r \in Paths : pair = <<r, p>>
      BY <3>1 DEF DiffInv, PairsInv
    <3>3. Sources[r] # <<>>
      BY <3>1, <3>2 DEF DiffInv, PairsInv
    <3>4. r \notin Destinations
      <4>1. \A other \in renamed : other[2] \notin Tracked
        BY DEF DiffInv, PairsInv
      <4>2. r \in Tracked
        BY <3>3, SourcesAreTracked
      <4> QED BY <4>1, <4>2 DEF Destinations
    <3>5. r \in Differing
      BY <3>3, <3>4 DEF Differing, Present
    <3>6. Destination(r) = p
      <4>1. <<r, p>> \in renamed
        BY <3>2
      <4>2. \A q \in Paths : <<r, q>> \in renamed => Destination(r) = q
        BY DestinationOfPath
      <4> QED BY <4>1, <4>2, <2>0
    <3>7. p # r
      BY <2>1, <3>4
    <3>8. Difference(r) \in Chunks
      BY <3>5, <3>6, <3>7 DEF Chunks, Difference, Differing
    <3> QED BY <3>6, <3>8 DEF Difference
  <2>2. CASE p \notin Destinations
    <3>1. p \in Differing
      BY <2>0, <2>2 DEF Differing, Present
    <3>2. Sources[p] # TextOf(updated[Destination(p)]) \/ p # Destination(p)
      <4> SUFFICES ASSUME p = Destination(p) PROVE Sources[p] # TextOf(updated[p])
        OBVIOUS
      <4>1. updated[p] \in Seq(Line)
        BY <1>0, <2>0
      <4>2. TextOf(updated[p]) = <<>> <=> updated[p] = <<>>
        BY <4>1, TextOfLines
      <4> QED BY <2>0, <4>2 DEF Differs
    <3>3. Difference(p) \in Chunks
      BY <3>1, <3>2 DEF Chunks, Difference, Differing
    <3> QED BY <3>3 DEF Difference
  <2> QED BY <2>1, <2>2
<1> QED BY <1>1, <1>2 DEF Footprint

\* A repair has a patch.
LEMMA BuildDiffKeepsDiff ==
  ASSUME EditInv, DiffInv, BuildDiff
  PROVE  DiffInv'
<1>1. /\ status = "repaired"
      /\ patch' = IF Mismatch THEN {} ELSE Chunks
      /\ status' = IF patch' = {} THEN "unbuildable" ELSE "built"
      /\ UNCHANGED <<updated, renamed, changed>>
  BY DEF BuildDiff, repair
<1>2. Footprint(Chunks) = changed /\ changed # {}
  BY <1>1, PatchTouchesChanges DEF DiffInv, ChangesInv
<1>3. Chunks # {}
  BY <1>2 DEF Footprint
<1>4. patch' = Chunks /\ status' = "built"
  BY <1>1, <1>3, NeverMismatch
<1>5. Chunks' = Chunks
  BY <1>1 DEF Chunks, Difference, Destination, Destinations, Present
<1>6. PairsInv'
  BY <1>1 DEF DiffInv, PairsInv
<1>7. ChangesInv'
  BY <1>1, <1>4, <1>5 DEF DiffInv, ChangesInv, Differs
<1> QED BY <1>6, <1>7 DEF DiffInv

LEMMA StutterKeepsDiff ==
  ASSUME DiffInv, UNCHANGED <<updated, renamed, changed, patch>>,
         status' = status \/ status' = "refused"
  PROVE  DiffInv'
<1>1. Chunks' = Chunks
  BY DEF Chunks, Difference, Destination, Destinations, Present
<1>2. PairsInv'
  BY DEF DiffInv, PairsInv
<1>3. ChangesInv'
  BY <1>1 DEF DiffInv, ChangesInv, Differs
<1> QED BY <1>2, <1>3 DEF DiffInv

LEMMA StepKeepsDiff ==
  ASSUME EditInv, DiffInv, [CandidateNext]_vars
  PROVE  DiffInv'
<1>1. ASSUME NEW p \in Paths, NEW s \in Searches, NEW r \in Replacements, Replace(p, s, r)
      PROVE  DiffInv'
  BY <1>1, ReplaceKeepsDiff
<1>2. ASSUME NEW p \in Targets, NEW r \in Replacements, Create(p, r)
      PROVE  DiffInv'
  BY <1>2, CreateKeepsDiff
<1>3. ASSUME NEW p \in Paths, Delete(p)
      PROVE  DiffInv'
  BY <1>3, DeleteKeepsDiff
<1>4. ASSUME NEW p \in Paths, NEW q \in Targets, Rename(p, q)
      PROVE  DiffInv'
  BY <1>4, RenameKeepsDiff
<1>5. CASE Refuse
  BY <1>5, StutterKeepsDiff DEF Refuse, repair
<1>6. CASE Finish
  BY <1>6, FinishKeepsDiff
<1>7. CASE BuildDiff
  BY <1>7, BuildDiffKeepsDiff
<1>8. CASE status = "built" /\ WS!WorkspaceStep /\ UNCHANGED <<locals, repair, status>>
  BY <1>8, StutterKeepsDiff DEF WS!WorkspaceStep, repair
<1>9. CASE UNCHANGED vars
  BY <1>9, StutterKeepsDiff DEF vars, editVars, repair
<1> QED BY <1>1, <1>2, <1>3, <1>4, <1>5, <1>6, <1>7, <1>8, <1>9 DEF CandidateNext, EditStep

\* The patch of a repair, applied to the tree, is the repair.
LEMMA PatchedIsRepaired ==
  ASSUME EditInv, DiffInv, status \in {"repaired", "built"}
  PROVE  Patched(Tree, Chunks) = Repaired
<1>0. updated \in [Paths -> Seq(Line)]
  BY DEF EditInv, ShapeInv
<1> DEFINE Result(p) ==
       IF \E c \in Chunks : c.target = p
         THEN (CHOOSE c \in Chunks : c.target = p).new
         ELSE IF \E c \in Chunks : c.path = p THEN <<>> ELSE Tree[p]
           Wanted(p) == IF p \in Visible \cup Present(updated) THEN TextOf(updated[p]) ELSE Tree[p]
<1>1. ASSUME NEW p \in Paths PROVE Result(p) = Wanted(p)
  <2>0. TextOf(updated[p]) = <<>> <=> updated[p] = <<>>
    BY <1>0, TextOfLines
  <2>s. p \in Visible \/ Sources[p] = <<>>
    BY DEF Sources
  <2>1. CASE \E c \in Chunks : c.target = p
    <3> DEFINE d == CHOOSE c \in Chunks : c.target = p
    <3>1. d \in Chunks /\ d.target = p
      BY <2>1
    <3>2. Result(p) = d.new
      BY <2>1
    <3> HIDE DEF d
    <3>3. d.new = TextOf(updated[p])
      BY <3>1, ChunkOfPatch
    <3>4. p \in Visible \cup Present(updated)
      <4>1. CASE d.path = p
        BY <4>1, <3>1, <2>s, ChunkOfPatch DEF Differing, Present
      <4>2. CASE d.path # p
        <5>0. d.path \in Paths /\ p = Destination(d.path)
          BY <3>1, ChunkOfPatch
        <5>1. updated[p] # <<>>
          BY <4>2, <5>0, DestinationOfPath
        <5> QED BY <5>1 DEF Present
      <4> QED BY <4>1, <4>2
    <3> QED BY <3>2, <3>3, <3>4
  <2>2. CASE ~(\E c \in Chunks : c.target = p) /\ (\E c \in Chunks : c.path = p)
    <3>1. PICK c \in Chunks : c.path = p /\ c.target # p
      BY <2>2
    <3>2. Sources[p] # <<>> /\ updated[p] = <<>>
      BY <3>1, ChunkOfPatch, DestinationOfPath
    <3>3. Wanted(p) = <<>>
      BY <3>2, <2>0, <2>s
    <3>4. Result(p) = <<>>
      BY <2>2
    <3> QED BY <3>3, <3>4
  <2>3. CASE ~(\E c \in Chunks : c.target = p) /\ ~(\E c \in Chunks : c.path = p)
    <3>1. p \notin changed
      BY <2>3, PatchTouchesChanges DEF Footprint
    <3>2. TextOf(updated[p]) = Sources[p]
      BY <3>1 DEF DiffInv, ChangesInv
    <3>3. Wanted(p) = Tree[p]
      BY <3>2, <2>0, <2>s DEF Present, Sources
    <3>4. Result(p) = Tree[p]
      BY <2>3
    <3> QED BY <3>3, <3>4
  <2> QED BY <2>1, <2>2, <2>3
<1>2. Patched(Tree, Chunks) = [p \in Paths |-> Result(p)]
  BY DEF Patched
<1>3. Repaired = [p \in Paths |-> Wanted(p)]
  BY DEF Repaired
<1> HIDE DEF Result, Wanted
<1> QED BY <1>1, <1>2, <1>3

\* The inductive invariant of the patch.
THEOREM DiffInvariant == Spec => []DiffInv
<1>1. CandidateInit => DiffInv
  BY InitDiff DEF CandidateInit
<1>2. EditInv /\ DiffInv /\ [CandidateNext]_vars => DiffInv'
  BY StepKeepsDiff
<1> QED BY <1>1, <1>2, EditInvariant, PTL DEF Spec

\* A repair always has its patch, and the patch is the repair, whatever edits of a
\* response undo, delete and rename (build_unified_diff).
THEOREM PatchIsAlwaysTheRepair == Spec => []PatchIsTheRepair
<1>1. EditInv /\ DiffInv => PatchIsTheRepair
  <2> SUFFICES ASSUME EditInv, DiffInv PROVE PatchIsTheRepair
    OBVIOUS
  <2>1. status # "unbuildable"
    BY DEF DiffInv, ChangesInv
  <2>2. ASSUME status = "built"
        PROVE  Footprint(patch) = changed /\ Patched(Tree, patch) = Repaired
    <3>1. patch = Chunks
      BY <2>2 DEF DiffInv, ChangesInv
    <3>2. Footprint(Chunks) = changed /\ Patched(Tree, Chunks) = Repaired
      BY <2>2, PatchTouchesChanges, PatchedIsRepaired
    <3> QED BY <3>1, <3>2
  <2> QED BY <2>1, <2>2 DEF PatchIsTheRepair, Repaired
<1> QED BY <1>1, EditInvariant, DiffInvariant, PTL

----------------------------------------------------------------------------
(* The attempt in the workspace.                                           *)

BeforePatch == {"disconnect", "examine", "record", "open", "inspect", "check", "apply"}

\* The base commit before the patch is in, the repair behind it.
CheckoutInv ==
  /\ status # "built" => stage = "absent" /\ result = "none"
  /\ stage \in BeforePatch => checkout = Tree
  /\ stage \in WS!Applying \cup {"done"} => attempted
  /\ stage = "compare" => checkout = Repaired /\ changed \cap dirty = {}
  /\ result = "applied" =>
       /\ attempted /\ stage \in {"done", "close", "stuck", "gone"}
       /\ checkout = Repaired /\ changed \cap dirty = {}

\* The workspace sees the tree the edits see.
LEMMA SameTree ==
  /\ WS!Tracked = Tracked /\ WS!Present(Tree) = Present(Tree)
  /\ \A p : WS!Fold(p) = Fold(p)
  /\ \A p, q : WS!Under(p, q) <=> Under(p, q)
  /\ \A p : WS!Safe(p) <=> Safe(p)
BY DEF WS!Tracked, Tracked, WS!Present, Present, WS!Fold, Fold, WS!Under, Under, WS!Safe, Safe

\* git apply leaves the repair, and only where nobody else has written.
LEMMA AppliedPatch ==
  ASSUME EditInv, DiffInv, CheckoutInv, status = "built", stage = "apply", WS!Fits
  PROVE  WS!After = Repaired /\ changed \cap dirty = {}
<1>1. patch = Chunks /\ checkout = Tree
  BY DEF DiffInv, ChangesInv, CheckoutInv, BeforePatch
<1>2. WS!Footprint = Footprint(Chunks) /\ Footprint(Chunks) = changed
  BY <1>1, PatchTouchesChanges DEF WS!Footprint, Footprint
<1>3. Patched(Tree, Chunks) = Repaired
  BY PatchedIsRepaired
<1>4. ASSUME NEW p \in Paths
      PROVE  (\E c \in Chunks : c.target = p) \/
               (p \in WS!Footprint <=> \E c \in Chunks : c.path = p)
  BY <1>2 DEF Footprint
<1>5. WS!After = Patched(Tree, Chunks)
  BY <1>1, <1>4 DEF WS!After, Patched
<1>6. \A p \in changed : p \notin dirty
  BY <1>2 DEF WS!Fits, WS!Disturbed
<1> QED BY <1>3, <1>5, <1>6

LEMMA WorkspaceKeepsCheckout ==
  ASSUME EditInv, DiffInv, CheckoutInv, status = "built", WS!WorkspaceStep,
         UNCHANGED <<locals, repair, status>>
  PROVE  CheckoutInv'
<1> USE DEF CheckoutInv, BeforePatch, WS!Applying, WS!Creating, WS!Proceed, WS!Answer, WS!Removing
<1>0. /\ changed' = changed /\ status' = "built"
      /\ Repaired' = Repaired
  BY DEF repair, Repaired, Present
<1>1. CASE WS!Allocate \/ WS!AllocateFails \/ WS!Clone \/ WS!Detach \/ WS!Disconnect
           \/ WS!Record \/ WS!CreateFails
  BY <1>0, <1>1 DEF WS!Allocate, WS!AllocateFails, WS!Clone, WS!Detach, WS!Disconnect,
                    WS!Record, WS!CreateFails
<1>2. CASE WS!Examine
  BY <1>0, <1>2 DEF WS!Examine
<1>3. CASE WS!BeginAttempt
  BY <1>0, <1>3 DEF WS!BeginAttempt, WS!Pristine
<1>4. CASE WS!RefuseAttempt
  BY <1>0, <1>4 DEF WS!RefuseAttempt
<1>5. CASE WS!Inspect
  BY <1>0, <1>5 DEF WS!Inspect
<1>6. CASE WS!CheckPatch
  BY <1>0, <1>6 DEF WS!CheckPatch
<1>7. CASE WS!ApplyPatch
  <2>1. CASE WS!Fits
    BY <1>0, <1>7, <2>1, AppliedPatch DEF WS!ApplyPatch
  <2>2. CASE ~WS!Fits
    BY <1>0, <1>7, <2>2 DEF WS!ApplyPatch
  <2> QED BY <2>1, <2>2
<1>8. CASE WS!ApplyBreaks
  BY <1>0, <1>8 DEF WS!ApplyBreaks
<1>9. CASE WS!Compare
  BY <1>0, <1>9 DEF WS!Compare
<1>10. CASE WS!AttemptFails
  BY <1>0, <1>10 DEF WS!AttemptFails
<1>11. CASE WS!BeginClose \/ WS!RemoveEntry \/ WS!RemoveMarker \/ WS!RemoveDirectory
            \/ WS!RemovalFails
  BY <1>0, <1>11 DEF WS!BeginClose, WS!RemoveEntry, WS!RemoveMarker, WS!RemoveDirectory,
                     WS!RemovalFails
<1>12. CASE WS!Disturb
  BY <1>0, <1>12 DEF WS!Disturb
<1> QED
  BY <1>1, <1>2, <1>3, <1>4, <1>5, <1>6, <1>7, <1>8, <1>9, <1>10, <1>11, <1>12
  DEF WS!WorkspaceStep

LEMMA StepKeepsCheckout ==
  ASSUME EditInv, DiffInv, CheckoutInv, [CandidateNext]_vars
  PROVE  CheckoutInv'
<1>1. CASE EditStep /\ UNCHANGED workspaceVars
  <2>1. status # "built"
    BY <1>1 DEF EditStep, Replace, Create, Delete, Rename, Refuse, Finish, BuildDiff, Parsed
  <2>2. stage' = "absent" /\ result' = "none"
    BY <1>1, <2>1 DEF workspaceVars, CheckoutInv
  <2> QED BY <2>2 DEF CheckoutInv, BeforePatch, WS!Applying
<1>2. CASE status = "built" /\ WS!WorkspaceStep /\ UNCHANGED <<locals, repair, status>>
  BY <1>2, WorkspaceKeepsCheckout
<1>3. CASE UNCHANGED vars
  BY <1>3 DEF vars, editVars, repair, workspaceVars, CheckoutInv, Repaired, Present, WS!Applying
<1> QED BY <1>1, <1>2, <1>3 DEF CandidateNext

\* The inductive invariant of the attempt.
THEOREM CheckoutInvariant == Spec => []CheckoutInv
<1>1. CandidateInit => CheckoutInv
  BY DEF CandidateInit, Init, WS!WorkspaceInit, CheckoutInv, BeforePatch, WS!Applying
<1>2. EditInv /\ DiffInv /\ CheckoutInv /\ [CandidateNext]_vars => CheckoutInv'
  BY StepKeepsCheckout
<1> QED BY <1>1, <1>2, EditInvariant, DiffInvariant, PTL DEF Spec

\* "applied" stands for the repair and nothing else, wherever git breaks and whatever
\* other programs write into the checkout before the patch is in (apply_candidate).
THEOREM AppliedIsAlwaysTheRepair == Spec => []AppliedIsTheRepair
<1>1. CheckoutInv => AppliedIsTheRepair
  BY DEF CheckoutInv, AppliedIsTheRepair
<1> QED BY <1>1, CheckoutInvariant, PTL

\* Folding the names of paths keeps which path lies under which.
LEMMA FoldKeepsUnder ==
  ASSUME NEW p \in Paths, NEW q \in Paths, Under(q, p)
  PROVE  Under(Fold(q), Fold(p))
<1>1. p \in Seq(DOMAIN CaseFold) /\ q \in Seq(DOMAIN CaseFold)
  BY TreeAssumption
<1>2. Len(p) \in Nat /\ Len(q) \in Nat /\ Len(p) < Len(q) /\ SubSeq(q, 1, Len(p)) = p
  BY <1>1 DEF Under
<1> DEFINE Folded == {CaseFold[name] : name \in DOMAIN CaseFold}
<1>3. ASSUME NEW s \in Seq(DOMAIN CaseFold)
      PROVE  /\ Fold(s) \in Seq(Folded) /\ Len(Fold(s)) = Len(s)
             /\ \A n \in 1..Len(s) : Fold(s)[n] = CaseFold[s[n]]
  <2>1. DOMAIN s = 1..Len(s) /\ Len(s) \in Nat /\ \A n \in 1..Len(s) : s[n] \in DOMAIN CaseFold
    OBVIOUS
  <2>2. Fold(s) \in [1..Len(s) -> Folded]
    BY <2>1 DEF Fold
  <2> HIDE DEF Folded
  <2>3. Fold(s) \in Seq(Folded) /\ Len(Fold(s)) = Len(s)
    BY <2>1, <2>2, FunctionIsSequence
  <2> QED BY <2>1, <2>3 DEF Fold
<1> HIDE DEF Folded
<1>4. \A n \in 1..Len(p) : q[n] = p[n]
  BY <1>1, <1>2
<1>5. \A n \in 1..Len(p) : Fold(q)[n] = Fold(p)[n]
  BY <1>1, <1>2, <1>3, <1>4
<1>6. SubSeq(Fold(q), 1, Len(Fold(p))) = Fold(p)
  BY <1>1, <1>2, <1>3, <1>5
<1> QED BY <1>1, <1>2, <1>3, <1>6 DEF Under

\* A path the repair adds can be made in a checkout nobody else has written to.
LEMMA NewPathIsCreatable ==
  ASSUME EditInv, NEW p \in Paths, p \notin Tracked, updated[p] # <<>>, dirty = {}
  PROVE  WS!Creatable(p)
<1>1. \A q \in Tracked : ~Clash(p, q)
  BY DEF EditInv, RoomInv, NewPathsHaveRoom, Present
<1>2. Tracked \subseteq Paths
  BY TreeAssumption DEF Tracked, Present
<1>3. ASSUME NEW q \in Tracked
      PROVE  Fold(p) # Fold(q) /\ ~Under(Fold(p), Fold(q)) /\ ~Under(q, p)
  <2>1. Fold(p) # Fold(q) /\ ~Under(Fold(p), Fold(q)) /\ ~Under(Fold(q), Fold(p))
    BY <1>1 DEF Clash
  <2> QED BY <1>2, <2>1, FoldKeepsUnder
<1>4. ~WS!Disturbed(p)
  BY DEF WS!Disturbed
<1> QED BY <1>3, <1>4, SameTree DEF WS!Creatable

\* What a file of the patch meets in the tree.
LEMMA ChunkInTree ==
  ASSUME EditInv, DiffInv, NEW c \in Chunks
  PROVE  /\ c.path \in Paths /\ c.target \in Paths
         /\ Tree[c.path] = c.old
         /\ c.old = <<>> => c.path \notin Tracked /\ updated[c.path] # <<>>
         /\ c.old # <<>> => c.path \in Present(Tree)
         /\ c.target # c.path =>
              c.target \notin Tracked /\ updated[c.target] # <<>> /\ Tree[c.target] = <<>>
<1>1. /\ c.path \in Differing /\ c.path \in Paths
      /\ c.target = Destination(c.path) /\ c.target \in Paths
      /\ c.old = Sources[c.path]
  BY ChunkOfPatch
<1>2. \A p \in Paths : p \notin Tracked => Tree[p] = <<>>
  BY DEF Tracked, Present
<1>3. ASSUME c.old = <<>> PROVE c.path \notin Tracked /\ updated[c.path] # <<>>
  <2>1. updated[c.path] # <<>>
    BY <1>1, <1>3 DEF Differing, Present
  <2> QED BY <1>1, <1>3, <2>1 DEF DiffInv, ChangesInv
<1>4. ASSUME c.old # <<>> PROVE c.path \in Present(Tree) /\ Tree[c.path] = c.old
  BY <1>1, <1>4 DEF Sources, Present
<1>5. ASSUME c.target # c.path
      PROVE  c.target \notin Tracked /\ updated[c.target] # <<>> /\ Tree[c.target] = <<>>
  <2>1. c.target \notin Tracked /\ updated[c.target] # <<>>
    BY <1>1, <1>5, DestinationOfPath
  <2> QED BY <1>1, <1>2, <2>1
<1> QED BY <1>1, <1>2, <1>3, <1>4, <1>5

\* The names of a patch are safe exactly if those of the files it adds are.
LEMMA SafePatch ==
  ASSUME EditInv, DiffInv, status = "built"
  PROVE  (\A c \in Chunks : Safe(c.path) /\ Safe(c.target))
           <=> (\A p \in Present(updated) \ Tracked : Safe(p))
<1>1. ASSUME \A c \in Chunks : Safe(c.path) /\ Safe(c.target),
             NEW p \in Present(updated) \ Tracked
      PROVE  Safe(p)
  <2>1. p \in Paths /\ updated[p] # <<>> /\ updated[p] \in Seq(Line)
    BY <1>1 DEF Present, EditInv, ShapeInv
  <2>2. Sources[p] = <<>>
    BY <1>1, <2>1 DEF Sources, Tracked, Present
  <2>3. TextOf(updated[p]) # <<>>
    BY <2>1, TextOfLines
  <2>4. p \in changed
    BY <2>1, <2>2, <2>3 DEF DiffInv, ChangesInv
  <2>5. p \in Footprint(Chunks)
    BY <2>4, PatchTouchesChanges
  <2> QED BY <1>1, <2>5 DEF Footprint
<1>2. ASSUME \A p \in Present(updated) \ Tracked : Safe(p), NEW c \in Chunks
      PROVE  Safe(c.path) /\ Safe(c.target)
  <2>1. c.path \in Tracked \/ c.path \in Present(updated) \ Tracked
    BY ChunkInTree DEF Tracked, Present
  <2>2. c.target = c.path \/ c.target \in Present(updated) \ Tracked
    BY ChunkInTree DEF Present
  <2> QED BY <1>2, <2>1, <2>2, TreeAssumption
<1> QED BY <1>1, <1>2

\* The rules of edits.py for new paths and those of local_git.py agree, whatever tree,
\* links, cases and directories there are, on everything but names: in a checkout nobody
\* else has written to, a repair is lost as a patch error exactly if it adds a path with
\* a name no checkout may hold.
THEOREM RepairsAlwaysFit == Spec => []RepairsFitWorkspaces
<1>1. EditInv /\ DiffInv /\ CheckoutInv => RepairsFitWorkspaces
  <2> SUFFICES ASSUME EditInv, DiffInv, CheckoutInv, dirty = {}
               PROVE  /\ stage = "inspect" =>
                           /\ patch # {}
                           /\ (\A change \in patch : WS!Acceptable(change))
                                <=> (\A p \in Present(updated) \ Tracked : Safe(p))
                      /\ stage \in {"check", "apply"} => WS!Fits
    BY DEF RepairsFitWorkspaces
  <2>0. stage # "absent" =>
          /\ status = "built" /\ patch = Chunks
          /\ changed # {} /\ Footprint(Chunks) = changed
    BY PatchTouchesChanges DEF CheckoutInv, DiffInv, ChangesInv
  <2>1. ASSUME stage = "inspect"
        PROVE  /\ patch # {}
               /\ (\A change \in patch : WS!Acceptable(change))
                    <=> (\A p \in Present(updated) \ Tracked : Safe(p))
    <3>1. patch = Chunks /\ patch # {}
      BY <2>0, <2>1 DEF Footprint
    <3>2. ASSUME NEW change \in Chunks
          PROVE  WS!Acceptable(change) <=> Safe(change.path) /\ Safe(change.target)
      <4>1. change.old = <<>> => WS!Creatable(change.path)
        BY ChunkInTree, NewPathIsCreatable
      <4>2. change.old # <<>> => change.path \in WS!Present(Tree)
        BY ChunkInTree, SameTree
      <4>3. change.target # change.path => WS!Creatable(change.target)
        BY ChunkInTree, NewPathIsCreatable
      <4> QED BY <4>1, <4>2, <4>3, SameTree DEF WS!Acceptable
    <3>3. (\A change \in Chunks : WS!Acceptable(change))
            <=> (\A c \in Chunks : Safe(c.path) /\ Safe(c.target))
      BY <3>2
    <3>4. status = "built"
      BY <2>0, <2>1
    <3> QED BY <3>1, <3>3, <3>4, SafePatch
  <2>2. ASSUME stage \in {"check", "apply"} PROVE WS!Fits
    <3>1. patch = Chunks /\ checkout = Tree
      BY <2>0, <2>2 DEF CheckoutInv, BeforePatch
    <3>2. \A p \in WS!Footprint : ~WS!Disturbed(p)
      BY DEF WS!Disturbed
    <3>3. \A c \in patch : checkout[c.path] = c.old
                           /\ (c.target # c.path => checkout[c.target] = <<>>)
      BY <3>1, ChunkInTree
    <3> QED BY <3>2, <3>3 DEF WS!Fits
  <2> QED BY <2>1, <2>2
<1> QED BY <1>1, EditInvariant, DiffInvariant, CheckoutInvariant, PTL

----------------------------------------------------------------------------
(* The owned directory.                                                    *)

\* The marker is there before anything else is made.
MarkerInv == MarkerGoesLast /\ (stage \in WS!Creating => ".owner" \in contents)

LEMMA WorkspaceKeepsMarker ==
  ASSUME MarkerInv, WS!WorkspaceStep
  PROVE  MarkerInv'
<1> USE DEF MarkerInv, MarkerGoesLast, WS!Creating, WS!Proceed, WS!Answer, WS!Removing
\* Steps that make entries.
<1>1. CASE WS!Allocate
  BY <1>1 DEF WS!Allocate
<1>2. CASE WS!AllocateFails
  BY <1>2 DEF WS!AllocateFails
<1>3. CASE WS!Clone \/ WS!Record \/ WS!CreateFails
  BY <1>3 DEF WS!Clone, WS!Record, WS!CreateFails
\* Steps that remove them.
<1>4. CASE WS!RemoveEntry
  BY <1>4 DEF WS!RemoveEntry
<1>5. CASE WS!RemoveMarker
  BY <1>5 DEF WS!RemoveMarker
\* Steps that leave them alone.
<1>6. CASE WS!Detach \/ WS!Disconnect \/ WS!Examine
  BY <1>6 DEF WS!Detach, WS!Disconnect, WS!Examine
<1>7. CASE WS!BeginAttempt \/ WS!RefuseAttempt \/ WS!Inspect \/ WS!CheckPatch \/ WS!ApplyPatch
           \/ WS!ApplyBreaks \/ WS!Compare \/ WS!AttemptFails
  <2>1. contents' = contents /\ stage' \notin WS!Creating
    BY <1>7 DEF WS!BeginAttempt, WS!RefuseAttempt, WS!Inspect, WS!CheckPatch, WS!ApplyPatch,
                WS!ApplyBreaks, WS!Compare, WS!AttemptFails, WS!Applying
  <2> QED BY <2>1
<1>8. CASE WS!BeginClose \/ WS!RemoveDirectory \/ WS!RemovalFails \/ WS!Disturb
  BY <1>8 DEF WS!BeginClose, WS!RemoveDirectory, WS!RemovalFails, WS!Disturb
<1> QED
  BY <1>1, <1>2, <1>3, <1>4, <1>5, <1>6, <1>7, <1>8 DEF WS!WorkspaceStep

\* The marker of ownership outlives everything else in the directory, wherever
\* create(), the attempt or the removal stops (_remove_owned).
THEOREM MarkerAlwaysGoesLast == Spec => []MarkerGoesLast
<1>1. CandidateInit => MarkerInv
  BY DEF CandidateInit, MarkerInv, MarkerGoesLast, WS!WorkspaceInit, WS!Creating
<1>2. MarkerInv /\ [CandidateNext]_vars => MarkerInv'
  <2> SUFFICES ASSUME MarkerInv, [CandidateNext]_vars PROVE MarkerInv'
    OBVIOUS
  <2>1. CASE EditStep /\ UNCHANGED workspaceVars
    BY <2>1 DEF workspaceVars, MarkerInv, MarkerGoesLast
  <2>2. CASE WS!WorkspaceStep
    BY <2>2, WorkspaceKeepsMarker
  <2>3. CASE UNCHANGED vars
    BY <2>3 DEF vars, workspaceVars, MarkerInv, MarkerGoesLast
  <2> QED BY <2>1, <2>2, <2>3 DEF CandidateNext
<1>3. MarkerInv => MarkerGoesLast
  BY DEF MarkerInv
<1> QED BY <1>1, <1>2, <1>3, PTL DEF Spec
=============================================================================
