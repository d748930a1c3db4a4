------------------------ MODULE SearchPipelineProofs ------------------------
(***************************************************************************)
(* For any listings, texts, queries and bounds: a run's counters add up, a *)
(* run that ends "done" without an error has left nothing behind, results  *)
(* reach only the revision they were made of, and while a run streams one  *)
(* of its own steps can be taken.                                          *)
(*                                                                         *)
(* Catalogued and Deduplicated fold a query's items; their properties are  *)
(* proved by induction over the number of items, from the step operators   *)
(* Observed and Sifted.  The inductive invariant then follows every        *)
(* observation from the queue to the counter it ends in.                   *)
(***************************************************************************)
EXTENDS SearchPipeline, FiniteSetTheorems, SequenceTheorems, WellFoundedInduction, NaturalsInduction,
        TLAPS

-----------------------------------------------------------------------------
(* Induction, without an operator parameter                                *)

\* A set of numbers has a least one.
LEMMA LeastNumber ==
  ASSUME NEW S \in SUBSET Nat, S # {}
  PROVE  \E n \in S : \A m \in S : n =< m
<1>. DEFINE less == {ss \in Nat \X Nat : ss[1] < ss[2]}
<1>1. IsWellFoundedOn(less, Nat)
  BY NatLessThanWellFounded DEF OpToRel
<1>2. PICK n \in S : \A m \in S : <<m, n>> \notin less
  BY <1>1, WFMin
<1>3. \A m \in S : ~(m < n)
  BY <1>2
<1>. QED BY <1>3

\* Induction up to k, over a set instead of a predicate: the provers cannot
\* instantiate an operator that is the parameter of a lemma.
LEMMA Induction ==
  ASSUME NEW k \in Nat, NEW S, 0 \in S,
         \A n \in 1..k : n - 1 \in S => n \in S
  PROVE  \A n \in 0..k : n \in S
<1>. DEFINE bad == {n \in 0..k : n \notin S}
<1>1. SUFFICES ASSUME bad # {} PROVE FALSE
  OBVIOUS
<1>2. PICK n \in bad : \A m \in bad : n =< m
  <2>1. bad \in SUBSET Nat
    OBVIOUS
  <2>. HIDE DEF bad
  <2>. QED BY <1>1, <2>1, LeastNumber
<1>3. n \in 1..k /\ n - 1 \in 0..k /\ n - 1 \notin bad
  BY <1>2
<1>. QED BY <1>2, <1>3

\* The recursive function of Catalogued, as the CHOOSE it stands for.
Cataloguing(items, ok, n) ==
  CHOOSE f : f = [m \in 0..n |->
    IF m = 0 THEN [rows |-> catalog, captured |-> <<>>]
    ELSE IF m \in ok THEN Observed(f[m - 1], items[m])
    ELSE f[m - 1]]

\* That function exists, so it satisfies its own equations.
LEMMA CataloguingDef ==
  ASSUME NEW items, NEW ok, Len(items) \in Nat
  PROVE  LET f == Cataloguing(items, ok, Len(items))
         IN  /\ Catalogued(items, ok) = f[Len(items)]
             /\ f[0] = [rows |-> catalog, captured |-> <<>>]
             /\ \A n \in 1..Len(items) : f[n] = IF n \in ok THEN Observed(f[n - 1], items[n]) ELSE f[n - 1]
<1>. DEFINE start == [rows |-> catalog, captured |-> <<>>]
            Step(b, n) == IF n \in ok THEN Observed(b, items[n]) ELSE b
            Is(f, k) == f = [m \in 0..k |-> IF m = 0 THEN start ELSE Step(f[m - 1], m)]
            N == Len(items)
            S == {k \in 0..N : \E f : Is(f, k)}
<1>1. 0 \in S
  <2>. DEFINE f == [m \in 0..0 |-> start]
  <2>. HIDE DEF start, Step
  <2>1. Is(f, 0)
    OBVIOUS
  <2>. HIDE DEF Is
  <2>. QED BY <2>1
<1>2. ASSUME NEW n \in 1..N, n - 1 \in S PROVE n \in S
  <2>. HIDE DEF start, Step
  <2>1. PICK f : Is(f, n - 1)
    BY <1>2
  <2>. DEFINE g == [m \in 0..n |-> IF m = n THEN Step(f[n - 1], n) ELSE f[m]]
  <2>2. ASSUME NEW m \in 0..n PROVE g[m] = IF m = 0 THEN start ELSE Step(g[m - 1], m)
    <3>1. CASE m = n
      BY <3>1
    <3>2. CASE m # n
      BY <3>2, <2>1
    <3>. QED BY <3>1, <3>2
  <2>3. Is(g, n)
    BY <2>2
  <2>. HIDE DEF Is, g
  <2>. QED BY <2>3
<1>3. \E f : Is(f, N)
  <2>. HIDE DEF S
  <2>1. \A n \in 0..N : n \in S
    BY <1>1, <1>2, Induction
  <2>2. N \in S
    BY <2>1
  <2>. HIDE DEF Is
  <2>. QED BY <2>2 DEF S
<1>. DEFINE f == Cataloguing(items, ok, N)
<1>4. Is(f, N)
  BY <1>3 DEF Cataloguing
<1>5. Catalogued(items, ok) = f[N]
  BY DEF Catalogued, Cataloguing
<1>6. f = [m \in 0..N |-> IF m = 0 THEN start ELSE Step(f[m - 1], m)]
  BY <1>4
<1>. HIDE DEF f, start, Step
<1>7. f[0] = start /\ \A n \in 1..N : f[n] = Step(f[n - 1], n)
  BY <1>6
<1>. QED BY <1>5, <1>7 DEF f, start, Step

-----------------------------------------------------------------------------
(* What the catalogue makes of a query's items                             *)

\* Only a row nobody has observed is without a revision, and a normalization is of
\* the row's own revision.
RowsInv(rows) ==
  /\ rows \in [Listings -> Rows]
  /\ \A l \in Listings : rows[l].rev = 0 <=> rows[l] = Unseen
  /\ \A l \in Listings : rows[l].normalized \in {0, rows[l].rev}

\* Rows only move to later revisions, and their text only with the revision.
GrownFrom(old, rows) ==
  \A l \in Listings :
    /\ old[l].rev =< rows[l].rev
    /\ rows[l].rev = old[l].rev => rows[l].content = old[l].content

\* An observation is of a revision the row has reached, and of its text at that one.
AreOf(rows, c) ==
  \A i \in 1..Len(c) :
    /\ c[i].rev =< rows[c[i].listing].rev
    /\ c[i].rev = rows[c[i].listing].rev => c[i].content = rows[c[i].listing].content

\* A changed observation is of a later revision than the catalogue had before, and
\* than every earlier observation of the listing.
ChangesAreNew(c) ==
  /\ \A i \in 1..Len(c) : c[i].changed => c[i].rev > catalog[c[i].listing].rev
  /\ \A i, j \in 1..Len(c) :
       i < j /\ c[i].listing = c[j].listing /\ c[j].changed => c[i].rev < c[j].rev

\* The observations tell that listing l has changed to revision rev.
Tells(c, l, rev) == \E i \in 1..Len(c) : c[i].listing = l /\ c[i].changed /\ c[i].rev = rev

\* No revision is lost: a known row that has moved has a changed observation of its
\* last revision, and so has a row an observation is behind of.
ChangesAreTold(rows, c) ==
  /\ \A l \in Listings :
       catalog[l].rev > 0 /\ rows[l].rev # catalog[l].rev => Tells(c, l, rows[l].rev)
  /\ \A i \in 1..Len(c) :
       c[i].rev = rows[c[i].listing].rev \/ Tells(c, c[i].listing, rows[c[i].listing].rev)

\* How the rows and the captured observations belong together after some items.
CapturedInv(b) ==
  /\ b \in [rows : [Listings -> Rows], captured : Seq(Observations)]
  /\ RowsInv(b.rows) /\ GrownFrom(catalog, b.rows)
  /\ AreOf(b.rows, b.captured)
  /\ ChangesAreNew(b.captured)
  /\ ChangesAreTold(b.rows, b.captured)

\* An upsert keeps the row or moves it to its next revision, without a
\* normalization of an older one (upsert_scraped_job).
LEMMA UpsertProperties ==
  ASSUME PipelineAssumption, NEW row \in Rows, NEW c \in Contents,
         row.rev = 0 <=> row = Unseen, row.normalized \in {0, row.rev}
  PROVE  /\ Upsert(row, c) \in Rows
         /\ Upsert(row, c).rev \in Nat \ {0}
         /\ Upsert(row, c).content = c
         /\ Upsert(row, c).normalized \in {0, Upsert(row, c).rev}
         /\ IF row.rev = 0 \/ Changed(row, c) THEN Upsert(row, c).rev = row.rev + 1
            ELSE Upsert(row, c) = row
BY DEF PipelineAssumption, Upsert, Changed, Rows, Unseen

\* One more item keeps all of it.
LEMMA ObservedCaptured ==
  ASSUME PipelineAssumption, RowsInv(catalog), NEW b, CapturedInv(b),
         NEW item \in [listing : Listings, content : Contents]
  PROVE  /\ CapturedInv(Observed(b, item))
         /\ Len(Observed(b, item).captured) = Len(b.captured) + 1
<1>. DEFINE l == item.listing
            old == b.rows
            row == Upsert(old[l], item.content)
            rows == [old EXCEPT ![l] = row]
            o == [listing |-> l, rev |-> row.rev, content |-> item.content,
                  changed |-> Changed(old[l], item.content)]
            c == b.captured
            d == Append(c, o)
<1>1. /\ l \in Listings /\ item.content \in Contents /\ c \in Seq(Observations)
      /\ old \in [Listings -> Rows]
  BY DEF CapturedInv
<1>2. /\ row \in Rows /\ row.rev \in Nat \ {0} /\ row.content = item.content
      /\ row.normalized \in {0, row.rev}
      /\ IF old[l].rev = 0 \/ Changed(old[l], item.content) THEN row.rev = old[l].rev + 1
         ELSE row = old[l]
  <2>1. old[l] \in Rows /\ (old[l].rev = 0 <=> old[l] = Unseen) /\ old[l].normalized \in {0, old[l].rev}
    BY <1>1 DEF CapturedInv, RowsInv
  <2>. QED BY <1>1, <2>1, UpsertProperties
<1>3. o \in Observations
  <2>1. Changed(old[l], item.content) \in BOOLEAN
    BY DEF Changed
  <2>. QED BY <1>1, <1>2, <2>1 DEF Observations
<1>4. Observed(b, item) = [rows |-> rows, captured |-> d]
  BY DEF Observed
<1>5. o.listing = l /\ o.rev = row.rev /\ o.content = row.content
      /\ (o.changed <=> Changed(old[l], item.content))
  BY <1>2
<1>. HIDE DEF row, o
<1>6. /\ rows \in [Listings -> Rows] /\ rows[l] = row
      /\ \A k \in Listings \ {l} : rows[k] = old[k]
  BY <1>1, <1>2
<1>7. /\ d \in Seq(Observations) /\ Len(d) = Len(c) + 1 /\ Len(c) \in Nat
      /\ d[Len(c) + 1] = o /\ \A i \in 1..Len(c) : d[i] = c[i]
  BY <1>1, <1>3, AppendProperties, LenProperties
<1>8. \A i \in 1..Len(c) : c[i] \in Observations
  BY <1>1, ElementOfSeq
<1>. HIDE DEF rows, d, old, l, c
<1>9. RowsInv(rows)
  <2>1. ASSUME NEW k \in Listings
        PROVE  (rows[k].rev = 0 <=> rows[k] = Unseen) /\ rows[k].normalized \in {0, rows[k].rev}
    <3>1. CASE k = l
      BY <3>1, <1>2, <1>6 DEF Unseen
    <3>2. CASE k # l
      BY <3>2, <1>6 DEF CapturedInv, RowsInv, old
    <3>. QED BY <3>1, <3>2
  <2>. QED BY <1>6, <2>1 DEF RowsInv
<1>10. \A k \in Listings : old[k] \in Rows /\ rows[k] \in Rows /\ catalog[k] \in Rows
  BY <1>1, <1>6 DEF RowsInv
<1>11. /\ \A k \in Listings : old[k].rev =< rows[k].rev
       /\ old[l].rev < rows[l].rev \/ rows[l] = old[l]
  <2>1. \A k \in Listings : old[k].rev \in Nat
    BY <1>10 DEF Rows
  <2>2. row = old[l] \/ row.rev = old[l].rev + 1
    BY <1>2
  <2>. QED BY <1>1, <1>6, <2>1, <2>2
<1>12. GrownFrom(catalog, rows)
  <2>1. GrownFrom(catalog, old)
    BY DEF CapturedInv, old
  <2>. QED BY <1>6, <1>10, <1>11, <2>1 DEF GrownFrom, Rows
<1>13. AreOf(rows, d)
  <2>1. AreOf(old, c)
    BY DEF CapturedInv, old, c
  <2>2. ASSUME NEW i \in 1..Len(d)
        PROVE  /\ d[i].rev =< rows[d[i].listing].rev
               /\ d[i].rev = rows[d[i].listing].rev => d[i].content = rows[d[i].listing].content
    <3>1. CASE i = Len(c) + 1
      BY <3>1, <1>2, <1>5, <1>6, <1>7
    <3>2. CASE i \in 1..Len(c)
      <4>. DEFINE k == c[i].listing
      <4>1. k \in Listings /\ d[i] = c[i] /\ c[i].rev \in Nat
        BY <3>2, <1>7, <1>8 DEF Observations
      <4>2. c[i].rev =< old[k].rev /\ (c[i].rev = old[k].rev => c[i].content = old[k].content)
        BY <3>2, <2>1 DEF AreOf
      <4>3. old[k].rev \in Nat /\ rows[k].rev \in Nat
        BY <4>1, <1>10 DEF Rows
      <4>4. old[k].rev < rows[k].rev \/ rows[k] = old[k]
        BY <4>1, <1>6, <1>11
      <4>5. CASE rows[k] = old[k]
        BY <4>1, <4>2, <4>5
      <4>6. CASE old[k].rev < rows[k].rev
        <5>1. \A x, y, z \in Nat : x =< y /\ y < z => x =< z /\ x # z
          OBVIOUS
        <5>2. c[i].rev =< rows[k].rev /\ c[i].rev # rows[k].rev
          BY <4>1, <4>2, <4>3, <4>6, <5>1
        <5>. QED BY <4>1, <5>2
      <4>. QED BY <4>4, <4>5, <4>6
    <3>. QED BY <1>7, <3>1, <3>2
  <2>. QED BY <2>2 DEF AreOf
<1>14. ChangesAreNew(d)
  <2>1. ChangesAreNew(c) /\ GrownFrom(catalog, old) /\ AreOf(old, c)
    BY DEF CapturedInv, c, old
  <2>2. o.changed => row.rev = old[l].rev + 1
    BY <1>2, <1>5
  <2>3. \A i \in 1..Len(d) : d[i].changed => d[i].rev > catalog[d[i].listing].rev
    <3>1. ASSUME o.changed PROVE o.rev > catalog[l].rev
      <4>1. old[l].rev \in Nat /\ catalog[l].rev \in Nat
        BY <1>1, <1>10 DEF Rows
      <4>. QED BY <3>1, <4>1, <1>1, <1>5, <2>1, <2>2 DEF GrownFrom
    <3>. QED BY <3>1, <1>5, <1>7, <2>1 DEF ChangesAreNew
  <2>4. \A i, j \in 1..Len(d) :
          i < j /\ d[i].listing = d[j].listing /\ d[j].changed => d[i].rev < d[j].rev
    <3>1. ASSUME o.changed, NEW i \in 1..Len(c), c[i].listing = l PROVE c[i].rev < o.rev
      <4>1. old[l].rev \in Nat /\ c[i].rev \in Nat
        BY <1>1, <1>8, <1>10 DEF Rows, Observations
      <4>2. c[i].rev =< old[l].rev
        BY <3>1, <2>1 DEF AreOf
      <4>. QED BY <3>1, <4>1, <4>2, <1>5, <2>2
    <3>2. \A i, j \in 1..Len(c) :
            i < j /\ c[i].listing = c[j].listing /\ c[j].changed => c[i].rev < c[j].rev
      BY <2>1 DEF ChangesAreNew
    <3>3. ASSUME NEW i \in 1..Len(d), NEW j \in 1..Len(d),
                 i < j, d[i].listing = d[j].listing, d[j].changed
          PROVE  d[i].rev < d[j].rev
      <4>1. i \in 1..Len(c) /\ d[i] = c[i]
        BY <3>3, <1>7
      <4>2. CASE j = Len(c) + 1
        BY <3>1, <3>3, <4>1, <4>2, <1>5, <1>7
      <4>3. CASE j \in 1..Len(c)
        BY <3>2, <3>3, <4>1, <4>3, <1>7
      <4>. QED BY <1>7, <4>2, <4>3
    <3>. QED BY <3>3
  <2>. QED BY <2>3, <2>4 DEF ChangesAreNew
<1>15. ChangesAreTold(rows, d)
  <2>1. ChangesAreTold(old, c) /\ GrownFrom(catalog, old)
    BY DEF CapturedInv, c, old
  <2>2. ASSUME NEW k \in Listings, NEW rev, Tells(c, k, rev) PROVE Tells(d, k, rev)
    BY <2>2, <1>7 DEF Tells
  <2>3. o.changed => Tells(d, l, rows[l].rev)
    BY <1>5, <1>6, <1>7 DEF Tells
  <2>4. ~o.changed /\ old[l].rev > 0 => rows[l] = old[l]
    BY <1>2, <1>5, <1>6, <1>10 DEF Rows
  <2>5. ASSUME NEW k \in Listings, catalog[k].rev > 0, rows[k].rev # catalog[k].rev
        PROVE  Tells(d, k, rows[k].rev)
    <3>1. old[k].rev > 0
      BY <2>1, <2>5, <1>10 DEF GrownFrom, Rows
    <3>2. CASE k = l /\ o.changed
      BY <3>2, <2>3
    <3>3. CASE k # l \/ ~o.changed
      BY <3>1, <3>3, <1>6, <2>1, <2>2, <2>4, <2>5 DEF ChangesAreTold
    <3>. QED BY <3>2, <3>3
  <2>6. ASSUME NEW i \in 1..Len(d)
        PROVE  d[i].rev = rows[d[i].listing].rev \/ Tells(d, d[i].listing, rows[d[i].listing].rev)
    <3>1. CASE i = Len(c) + 1
      BY <3>1, <1>5, <1>6, <1>7
    <3>2. CASE i \in 1..Len(c)
      <4>. DEFINE k == c[i].listing
      <4>1. k \in Listings /\ d[i] = c[i]
        BY <3>2, <1>7, <1>8 DEF Observations
      <4>2. old[k].rev > 0
        <5>1. AreOf(old, c)
          BY DEF CapturedInv, c, old
        <5>. QED BY <3>2, <5>1, <1>8, <1>10, <4>1 DEF AreOf, Rows, Observations
      <4>3. CASE k = l /\ o.changed
        BY <4>1, <4>3, <2>3
      <4>4. CASE k # l \/ ~o.changed
        <5>1. rows[k] = old[k]
          BY <4>1, <4>2, <4>4, <1>6, <2>4
        <5>. QED BY <3>2, <4>1, <5>1, <2>1, <2>2 DEF ChangesAreTold
      <4>. QED BY <4>3, <4>4
    <3>. QED BY <1>7, <3>1, <3>2
  <2>. QED BY <2>5, <2>6 DEF ChangesAreTold
<1>. QED
  <2>1. [rows |-> rows, captured |-> d] \in [rows : [Listings -> Rows], captured : Seq(Observations)]
    BY <1>6, <1>7
  <2>. DEFINE r == [rows |-> rows, captured |-> d]
  <2>2. r.rows = rows /\ r.captured = d
    OBVIOUS
  <2>3. Observed(b, item) = r
    BY <1>4 DEF rows, d, row, o, old, l, c
  <2>. HIDE DEF r
  <2>4. CapturedInv(r)
    BY <1>9, <1>12, <1>13, <1>14, <1>15, <2>1, <2>2 DEF CapturedInv, r
  <2>. QED BY <2>2, <2>3, <2>4, <1>7 DEF c

\* What the model enumerates as a query's items is a sequence.
LEMMA SeqOfTyped ==
  ASSUME NEW S, NEW n \in Int, NEW s \in SeqOf(S, n)
  PROVE  s \in Seq(S) /\ DOMAIN s = 1..Len(s) /\ Len(s) \in Nat
<1>1. PICK m \in 0..n : s \in [1..m -> S]
  BY DEF SeqOf
<1>2. m \in Nat
  OBVIOUS
<1>. QED BY <1>1, <1>2, SeqDef, LenProperties

\* What the catalogue makes of any items: the captured observations are as many as
\* the items it takes, and the rows have grown by them.
LEMMA CataloguedProperties ==
  ASSUME PipelineAssumption, RowsInv(catalog),
         NEW items \in Seq([listing : Listings, content : Contents]),
         NEW ok \in SUBSET (1..Len(items))
  PROVE  /\ CapturedInv(Catalogued(items, ok))
         /\ IsFiniteSet(ok)
         /\ Len(Catalogued(items, ok).captured) = Cardinality(ok)
<1>. DEFINE N == Len(items)
            f == Cataloguing(items, ok, N)
            upto(n) == ok \cap 1..n
            S == {n \in 0..N : /\ CapturedInv(f[n])
                               /\ IsFiniteSet(upto(n))
                               /\ Len(f[n].captured) = Cardinality(upto(n))}
<1>1. N \in Nat /\ \A n \in 1..N : items[n] \in [listing : Listings, content : Contents]
  BY LenProperties, ElementOfSeq
<1>2. /\ Catalogued(items, ok) = f[N]
      /\ f[0] = [rows |-> catalog, captured |-> <<>>]
      /\ \A n \in 1..N : f[n] = IF n \in ok THEN Observed(f[n - 1], items[n]) ELSE f[n - 1]
  BY <1>1, CataloguingDef
<1>. HIDE DEF f
<1>3. 0 \in S
  <2>. DEFINE b == [rows |-> catalog, captured |-> <<>>]
  <2>1. CapturedInv(b)
    <3>1. b.rows = catalog /\ b.captured = <<>> /\ <<>> \in Seq(Observations) /\ Len(<<>>) = 0
      BY EmptySeq
    <3>2. b \in [rows : [Listings -> Rows], captured : Seq(Observations)]
      BY <3>1 DEF RowsInv
    <3>3. GrownFrom(catalog, catalog)
      BY DEF GrownFrom, RowsInv, Rows
    <3>4. AreOf(catalog, <<>>) /\ ChangesAreNew(<<>>) /\ ChangesAreTold(catalog, <<>>)
      BY <3>1 DEF AreOf, ChangesAreNew, ChangesAreTold
    <3>. HIDE DEF b
    <3>. QED BY <3>1, <3>2, <3>3, <3>4 DEF CapturedInv
  <2>2. upto(0) = {} /\ IsFiniteSet({}) /\ Cardinality({}) = 0
    BY FS_EmptySet
  <2>3. f[0].captured = <<>> /\ Len(<<>>) = 0
    BY <1>2
  <2>. QED BY <1>1, <1>2, <2>1, <2>2, <2>3
<1>4. ASSUME NEW n \in 1..N, n - 1 \in S PROVE n \in S
  <2>. DEFINE old == upto(n - 1)
  <2>1. CapturedInv(f[n - 1]) /\ IsFiniteSet(old) /\ Len(f[n - 1].captured) = Cardinality(old)
    BY <1>4
  <2>2. CASE n \in ok
    <3>1. upto(n) = old \cup {n} /\ n \notin old
      <4>1. 1..n = 1..(n - 1) \cup {n} /\ n \notin 1..(n - 1)
        BY <1>1
      <4>. QED BY <2>2, <4>1
    <3>2. IsFiniteSet(upto(n)) /\ Cardinality(upto(n)) = Cardinality(old) + 1
      <4>. HIDE DEF old, upto
      <4>1. IsFiniteSet(old)
        BY <2>1
      <4>2. IsFiniteSet(old \cup {n}) /\ Cardinality(old \cup {n}) = Cardinality(old) + 1
        BY <3>1, <4>1, FS_AddElement
      <4>. QED BY <3>1, <4>2
    <3>3. f[n] = Observed(f[n - 1], items[n])
      BY <1>2, <2>2
    <3>4. CapturedInv(f[n]) /\ Len(f[n].captured) = Len(f[n - 1].captured) + 1
      BY <1>1, <2>1, <3>3, ObservedCaptured
    <3>. QED BY <2>1, <3>2, <3>4
  <2>3. CASE n \notin ok
    <3>1. upto(n) = old
      BY <2>3, <1>1
    <3>2. f[n] = f[n - 1]
      BY <1>2, <2>3
    <3>3. CapturedInv(f[n]) /\ IsFiniteSet(upto(n)) /\ Len(f[n].captured) = Cardinality(upto(n))
      BY <2>1, <3>1, <3>2
    <3>. QED BY <3>3
  <2>. QED BY <2>2, <2>3
<1>5. N \in S
  <2>. HIDE DEF S
  <2>1. \A n \in 0..N : n \in S
    BY <1>1, <1>3, <1>4, Induction
  <2>. QED BY <1>1, <2>1
<1>6. upto(N) = ok
  BY <1>1
<1>. QED BY <1>2, <1>5, <1>6

-----------------------------------------------------------------------------
(* What the deduplication makes of a query's observations                  *)

Sifting(observed, n) ==
  CHOOSE f : f = [m \in 0..n |->
    IF m = 0
    THEN [known |-> seen, kept |-> <<>>, runtime |-> 0, history |-> {}, dropped |-> 0]
    ELSE Sifted(f[m - 1], observed[m])]

\* The recursive function of Deduplicated satisfies its own equations.
LEMMA SiftingDef ==
  ASSUME NEW observed, Len(observed) \in Nat
  PROVE  LET f == Sifting(observed, Len(observed))
         IN  /\ Deduplicated(observed) = f[Len(observed)]
             /\ f[0] = [known |-> seen, kept |-> <<>>, runtime |-> 0, history |-> {}, dropped |-> 0]
             /\ \A n \in 1..Len(observed) : f[n] = Sifted(f[n - 1], observed[n])
<1>. DEFINE start == [known |-> seen, kept |-> <<>>, runtime |-> 0, history |-> {}, dropped |-> 0]
            Step(b, n) == Sifted(b, observed[n])
            Is(f, k) == f = [m \in 0..k |-> IF m = 0 THEN start ELSE Step(f[m - 1], m)]
            N == Len(observed)
            S == {k \in 0..N : \E f : Is(f, k)}
<1>1. 0 \in S
  <2>. DEFINE f == [m \in 0..0 |-> start]
  <2>. HIDE DEF start, Step
  <2>1. Is(f, 0)
    OBVIOUS
  <2>. HIDE DEF Is
  <2>. QED BY <2>1
<1>2. ASSUME NEW n \in 1..N, n - 1 \in S PROVE n \in S
  <2>. HIDE DEF start, Step
  <2>1. PICK f : Is(f, n - 1)
    BY <1>2
  <2>. DEFINE g == [m \in 0..n |-> IF m = n THEN Step(f[n - 1], n) ELSE f[m]]
  <2>2. ASSUME NEW m \in 0..n PROVE g[m] = IF m = 0 THEN start ELSE Step(g[m - 1], m)
    <3>1. CASE m = n
      BY <3>1
    <3>2. CASE m # n
      BY <3>2, <2>1
    <3>. QED BY <3>1, <3>2
  <2>3. Is(g, n)
    BY <2>2
  <2>. HIDE DEF Is, g
  <2>. QED BY <2>3
<1>3. \E f : Is(f, N)
  <2>. HIDE DEF S
  <2>1. \A n \in 0..N : n \in S
    BY <1>1, <1>2, Induction
  <2>2. N \in S
    BY <2>1
  <2>. HIDE DEF Is
  <2>. QED BY <2>2 DEF S
<1>. DEFINE f == Sifting(observed, N)
<1>4. Is(f, N)
  BY <1>3 DEF Sifting
<1>5. Deduplicated(observed) = f[N]
  BY DEF Deduplicated, Sifting
<1>6. f = [m \in 0..N |-> IF m = 0 THEN start ELSE Step(f[m - 1], m)]
  BY <1>4
<1>. HIDE DEF f, start, Step
<1>7. f[0] = start /\ \A n \in 1..N : f[n] = Step(f[n - 1], n)
  BY <1>6
<1>. QED BY <1>5, <1>7 DEF f, start, Step

Known == [keys : SUBSET Listings, bodies : SUBSET Contents]

\* After n observations: each is kept or counted, every change is kept, a listing
\* newly known has an observation that is kept, and no observation is kept twice.
SiftedInv(b, c, n) ==
  /\ b \in [known : Known, kept : Seq(Observations), runtime : Nat,
            history : SUBSET Observations, dropped : Nat]
  /\ Len(b.kept) + (b.runtime + b.dropped) = n
  /\ IsFiniteSet(Range(b.kept)) /\ Cardinality(Range(b.kept)) = Len(b.kept)
  /\ seen.keys \subseteq b.known.keys
  /\ \A o \in Range(b.kept) :
       /\ \E i \in 1..n : c[i] = o
       /\ o.listing \in b.known.keys
       /\ o.changed \/ o.listing \notin seen.keys
  /\ \A i \in 1..n : c[i].changed => c[i] \in Range(b.kept)
  /\ \A l \in b.known.keys \ seen.keys : \E o \in Range(b.kept) : o.listing = l

\* A longer sequence has one more element.
LEMMA AppendRange ==
  ASSUME NEW S, NEW s \in Seq(S), NEW e \in S
  PROVE  Range(Append(s, e)) = Range(s) \cup {e}
<1>1. /\ Append(s, e) \in Seq(S) /\ Len(Append(s, e)) = Len(s) + 1 /\ Len(s) \in Nat
      /\ \A i \in 1..Len(s) : Append(s, e)[i] = s[i]
      /\ Append(s, e)[Len(s) + 1] = e
  BY AppendProperties, LenProperties
<1>2. /\ Range(Append(s, e)) = {Append(s, e)[i] : i \in 1..Len(Append(s, e))}
      /\ Range(s) = {s[i] : i \in 1..Len(s)}
  BY <1>1, RangeEquality
<1>. DEFINE t == Append(s, e)
<1>. HIDE DEF t
<1>3. {t[i] : i \in 1..Len(t)} = {s[i] : i \in 1..Len(s)} \cup {e}
  <2>1. 1..Len(t) = 1..Len(s) \cup {Len(s) + 1}
    BY <1>1 DEF t
  <2>2. \A i \in 1..Len(s) : t[i] = s[i]
    BY <1>1 DEF t
  <2>3. t[Len(s) + 1] = e
    BY <1>1 DEF t
  <2>. QED BY <2>1, <2>2, <2>3
<1>. QED BY <1>2, <1>3 DEF t

\* One more observation keeps all of it.
LEMMA SiftedKept ==
  ASSUME NEW c \in Seq(Observations), ChangesAreNew(c), NEW n \in 1..Len(c),
         seen \in Known, NEW b, SiftedInv(b, c, n - 1)
  PROVE  SiftedInv(Sifted(b, c[n]), c, n)
<1>. DEFINE o == c[n]
<1>1. o \in Observations /\ Len(c) \in Nat
  BY ElementOfSeq, LenProperties
<1>2. /\ b.known.keys \in SUBSET Listings /\ b.known.bodies \in SUBSET Contents
      /\ b.kept \in Seq(Observations) /\ Len(b.kept) \in Nat /\ b.runtime \in Nat /\ b.dropped \in Nat
      /\ b.history \in SUBSET Observations /\ b.known \in Known
      /\ b \in [known : Known, kept : Seq(Observations), runtime : Nat,
                history : SUBSET Observations, dropped : Nat]
      /\ Len(b.kept) + (b.runtime + b.dropped) = n - 1
  <2>1. b \in [known : Known, kept : Seq(Observations), runtime : Nat,
               history : SUBSET Observations, dropped : Nat]
    BY DEF SiftedInv
  <2>2. b.known \in Known /\ b.kept \in Seq(Observations)
    BY <2>1
  <2>3. Len(b.kept) + (b.runtime + b.dropped) = n - 1
    BY DEF SiftedInv
  <2>. QED BY <2>1, <2>2, <2>3, LenProperties DEF Known
<1>3. /\ b.runtime \in Nat /\ b.dropped \in Nat /\ Len(b.kept) \in Nat /\ n \in Nat
      /\ Len(b.kept) + (b.runtime + b.dropped) = n - 1
  BY <1>2
<1>4. CASE ~Repeated(o, b.known)
  <2>. DEFINE known == [keys |-> b.known.keys \cup {o.listing}, bodies |-> b.known.bodies \cup {o.content}]
              kept == Append(b.kept, o)
              r == [b EXCEPT !.known = known, !.kept = kept]
  <2>1. Sifted(b, o) = r
    BY <1>4 DEF Sifted
  <2>2. known \in Known /\ known.keys = b.known.keys \cup {o.listing}
    BY <1>1, <1>2 DEF Known, Observations
  <2>3. kept \in Seq(Observations) /\ Len(kept) = Len(b.kept) + 1 /\ Range(kept) = Range(b.kept) \cup {o}
    BY <1>1, <1>2, AppendProperties, AppendRange
  <2>4. o \notin Range(b.kept)
    <3>1. SUFFICES ASSUME o \in Range(b.kept) PROVE FALSE
      OBVIOUS
    <3>2. o.listing \in b.known.keys
      BY <3>1 DEF SiftedInv
    <3>3. o.changed
      BY <1>4, <3>2 DEF Repeated, Reason
    <3>4. PICK i \in 1..(n - 1) : c[i] = o
      BY <3>1 DEF SiftedInv
    <3>5. i \in 1..Len(c) /\ i < n
      OBVIOUS
    <3>6. c[i].rev < o.rev
      BY <3>3, <3>4, <3>5 DEF ChangesAreNew
    <3>. QED BY <3>4, <3>6, <1>1 DEF Observations
  <2>5. IsFiniteSet(Range(kept)) /\ Cardinality(Range(kept)) = Len(kept)
    <3>1. IsFiniteSet(Range(b.kept)) /\ Cardinality(Range(b.kept)) = Len(b.kept)
      BY DEF SiftedInv
    <3>. QED BY <2>3, <2>4, <3>1, FS_AddElement
  <2>6. o.changed \/ o.listing \notin seen.keys
    <3>1. seen.keys \subseteq b.known.keys
      BY DEF SiftedInv
    <3>. QED BY <1>4, <3>1 DEF Repeated, Reason
  <2>7. r \in [known : Known, kept : Seq(Observations), runtime : Nat,
               history : SUBSET Observations, dropped : Nat]
        /\ r.known = known /\ r.kept = kept /\ r.runtime = b.runtime /\ r.dropped = b.dropped
    <3>. HIDE DEF known, kept
    <3>. QED BY <2>2, <2>3 DEF SiftedInv
  <2>. HIDE DEF r, kept, known
  <2>8. \A p \in Range(kept) :
          /\ \E i \in 1..n : c[i] = p
          /\ p.listing \in known.keys
          /\ p.changed \/ p.listing \notin seen.keys
    BY <2>2, <2>3, <2>6 DEF SiftedInv
  <2>9. \A i \in 1..n : c[i].changed => c[i] \in Range(kept)
    BY <2>3 DEF SiftedInv
  <2>10. \A l \in known.keys \ seen.keys : \E p \in Range(kept) : p.listing = l
    BY <2>2, <2>3 DEF SiftedInv
  <2>11. Len(kept) + (r.runtime + r.dropped) = n /\ seen.keys \subseteq known.keys
    BY <1>2, <2>2, <2>3, <2>7 DEF SiftedInv
  <2>. QED BY <2>1, <2>5, <2>7, <2>8, <2>9, <2>10, <2>11 DEF SiftedInv
<1>5. CASE Repeated(o, b.known)
  <2>. DEFINE r == Sifted(b, o)
  <2>1. /\ r \in [known : Known, kept : Seq(Observations), runtime : Nat,
                  history : SUBSET Observations, dropped : Nat]
        /\ r.known = b.known /\ r.kept = b.kept
        /\ r.runtime + r.dropped = b.runtime + b.dropped + 1
    <3>1. CASE Reason(o, b.known) = "runtime"
      <4>1. r = [b EXCEPT !.runtime = @ + 1]
        BY <1>5, <3>1 DEF Sifted
      <4>. HIDE DEF r
      <4>2. b.runtime + 1 \in Nat
        BY <1>3
      <4>3. /\ r \in [known : Known, kept : Seq(Observations), runtime : Nat,
                      history : SUBSET Observations, dropped : Nat]
            /\ r.known = b.known /\ r.kept = b.kept
        BY <4>1, <4>2, <1>2
      <4>4. r.runtime = b.runtime + 1 /\ r.dropped = b.dropped
        BY <4>1, <1>2
      <4>5. r.runtime + r.dropped = b.runtime + b.dropped + 1
        BY <4>4, <1>3
      <4>. QED BY <4>3, <4>5
    <3>2. CASE Reason(o, b.known) # "runtime"
      <4>1. r = [b EXCEPT !.history = @ \cup {o}, !.dropped = @ + 1]
        BY <1>5, <3>2 DEF Sifted
      <4>. HIDE DEF r
      <4>2. b.history \cup {o} \in SUBSET Observations /\ b.dropped + 1 \in Nat
        BY <1>1, <1>2
      <4>3. /\ r \in [known : Known, kept : Seq(Observations), runtime : Nat,
                      history : SUBSET Observations, dropped : Nat]
            /\ r.known = b.known /\ r.kept = b.kept
        BY <4>1, <4>2, <1>2
      <4>4. r.runtime = b.runtime /\ r.dropped = b.dropped + 1
        BY <4>1, <1>2
      <4>. QED BY <4>3, <4>4, <1>2
    <3>. QED BY <3>1, <3>2
  <2>2. ~o.changed
    BY <1>5 DEF Repeated
  <2>. HIDE DEF r
  <2>3. \A p \in Range(r.kept) : \E i \in 1..n : c[i] = p
    BY <2>1 DEF SiftedInv
  <2>4. \A i \in 1..n : c[i].changed => c[i] \in Range(r.kept)
    BY <2>1, <2>2 DEF SiftedInv
  <2>5. Len(r.kept) + (r.runtime + r.dropped) = n
    <3>1. Len(r.kept) = Len(b.kept) /\ n \in Nat /\ r.runtime \in Nat /\ r.dropped \in Nat
      BY <2>1
    <3>2. r.runtime + r.dropped = b.runtime + b.dropped + 1
      BY <2>1
    <3>. DEFINE k == Len(b.kept)
                x == b.runtime + b.dropped
    <3>3. k \in Nat /\ x \in Nat /\ k + x = n - 1
      BY <1>3
    <3>4. Len(r.kept) = k /\ r.runtime + r.dropped = x + 1
      BY <3>1, <3>2
    <3>. HIDE DEF k, x
    <3>5. k + (x + 1) = n
      BY <3>1, <3>3
    <3>. QED BY <3>4, <3>5
  <2>6. SiftedInv(r, c, n)
    BY <2>1, <2>3, <2>4, <2>5 DEF SiftedInv
  <2>. QED BY <2>6 DEF r
<1>. QED BY <1>4, <1>5

\* Whatever the run knew, the deduplication keeps or counts every observation.
LEMMA DeduplicatedProperties ==
  ASSUME NEW c \in Seq(Observations), ChangesAreNew(c), seen \in Known
  PROVE  SiftedInv(Deduplicated(c), c, Len(c))
<1>. DEFINE N == Len(c)
            f == Sifting(c, N)
            S == {n \in 0..N : SiftedInv(f[n], c, n)}
<1>1. N \in Nat
  BY LenProperties
<1>2. /\ Deduplicated(c) = f[N]
      /\ f[0] = [known |-> seen, kept |-> <<>>, runtime |-> 0, history |-> {}, dropped |-> 0]
      /\ \A n \in 1..N : f[n] = Sifted(f[n - 1], c[n])
  BY <1>1, SiftingDef
<1>. HIDE DEF f
<1>3. 0 \in S
  <2>. DEFINE b == [known |-> seen, kept |-> <<>>, runtime |-> 0, history |-> {}, dropped |-> 0]
  <2>1. /\ b.known = seen /\ b.kept = <<>> /\ b.runtime = 0 /\ b.dropped = 0
        /\ <<>> \in Seq(Observations) /\ Len(<<>>) = 0
    BY EmptySeq
  <2>2. b \in [known : Known, kept : Seq(Observations), runtime : Nat,
               history : SUBSET Observations, dropped : Nat]
    BY <2>1
  <2>3. Range(<<>>) = {} /\ IsFiniteSet({}) /\ Cardinality({}) = 0
    <3>1. Range(<<>>) = {<<>>[i] : i \in 1..Len(<<>>)}
      BY <2>1, RangeEquality
    <3>2. Range(<<>>) = {}
      BY <2>1, <3>1
    <3>. QED BY <3>2, FS_EmptySet
  <2>. HIDE DEF b
  <2>4. 1..0 = {} /\ b.kept = <<>> /\ Range(b.kept) = {} /\ b.known.keys \ seen.keys = {}
    BY <2>1, <2>3
  <2>5. SiftedInv(b, c, 0)
    <3>1. Len(b.kept) + (b.runtime + b.dropped) = 0
      BY <2>1
    <3>2. IsFiniteSet(Range(b.kept)) /\ Cardinality(Range(b.kept)) = Len(b.kept)
      BY <2>1, <2>3, <2>4
    <3>3. \A i \in 1..0 : c[i].changed => c[i] \in Range(b.kept)
      BY <2>4
    <3>. QED BY <2>1, <2>2, <2>4, <3>1, <3>2, <3>3 DEF SiftedInv
  <2>. QED BY <1>1, <1>2, <2>5 DEF b
<1>4. ASSUME NEW n \in 1..N, n - 1 \in S PROVE n \in S
  <2>. DEFINE b == f[n - 1]
  <2>1. SiftedInv(b, c, n - 1) /\ n \in 1..Len(c) /\ n \in 0..N
    BY <1>1, <1>4
  <2>2. f[n] = Sifted(b, c[n])
    BY <1>2
  <2>. HIDE DEF b
  <2>3. SiftedInv(Sifted(b, c[n]), c, n)
    BY <2>1, SiftedKept
  <2>. QED BY <2>1, <2>2, <2>3
<1>5. N \in S
  <2>. HIDE DEF S
  <2>1. \A n \in 0..N : n \in S
    BY <1>1, <1>3, <1>4, Induction
  <2>. QED BY <1>1, <2>1
<1>. QED BY <1>2, <1>5

-----------------------------------------------------------------------------
(* The inductive invariant                                                 *)

Handled == fate.filtered \cup fate.unanalysed \cup fate.saved \cup fate.unsaved
Placed == Queued \cup consumer.left \cup Handled

\* An observation the run has taken in is of a listing it knows, and of the row's
\* text as long as it is of the row's revision.
PlacedIn(placed, keys, rows) ==
  \A o \in placed :
    /\ o.listing \in keys
    /\ o.rev =< rows[o.listing].rev
    /\ o.rev = rows[o.listing].rev => o.content = rows[o.listing].content

PlacedInv ==
  /\ PlacedIn(Placed, seen.keys, catalog)
  /\ \A l \in seen.keys : catalog[l].rev > 0

\* Every observation is in one place only.
ApartInv ==
  /\ \A i, j \in DOMAIN queue : i # j => Range(queue[i]) \cap Range(queue[j]) = {}
  /\ Queued \cap consumer.left = {}
  /\ (Queued \cup consumer.left) \cap Handled = {}
  /\ fate.filtered \cap (fate.unanalysed \cup fate.saved \cup fate.unsaved) = {}
  /\ fate.unanalysed \cap (fate.saved \cup fate.unsaved) = {}
  /\ fate.saved \cap fate.unsaved = {}

FiniteInv == \A part \in {Queued, consumer.left, fate.filtered, fate.unanalysed,
                          fate.saved, fate.unsaved} : IsFiniteSet(part)

\* The end of the stream follows the last batch, and the consumer's own end
\* follows it.
StreamInv ==
  /\ phase # "streaming" => consumer.at = "end"
  /\ consumer.at = "end" => closed /\ queue = <<>>
  /\ consumer.at \in {"get", "end"} <=> consumer.left = {}
  /\ closed => \A q \in Queries : query[q] = "settled"
  /\ closed /\ consumer.at # "end" => queue # <<>> /\ queue[Len(queue)] = <<>>
  /\ \A i \in DOMAIN queue : queue[i] = <<>> => closed /\ i = Len(queue)

\* A listing the run knows is analysed, or an observation of its revision is on its
\* way or was filtered.
Covered(l) ==
  \/ job[l] = catalog[l].rev
  \/ \E o \in Queued \cup consumer.left \cup fate.filtered :
       o.listing = l /\ o.rev = catalog[l].rev

WholeInv == tally.errors = 0 => \A l \in seen.keys \ outside : Covered(l)

IInv ==
  /\ TypeOK
  /\ RowsInv(catalog)
  /\ PlacedInv
  /\ ApartInv
  /\ FiniteInv
  /\ StreamInv
  /\ WholeInv
  /\ Accounted

-----------------------------------------------------------------------------
(* Lemmas about queues and counts                                          *)

QueuedIn(q) == UNION {Range(q[i]) : i \in DOMAIN q}

\* A batch that is put on the queue.
LEMMA QueuedAppend ==
  ASSUME NEW q \in Seq(Seq(Observations)), NEW batch \in Seq(Observations)
  PROVE  /\ QueuedIn(Append(q, batch)) = QueuedIn(q) \cup Range(batch)
         /\ DOMAIN q = 1..Len(q) /\ DOMAIN Append(q, batch) = 1..(Len(q) + 1) /\ Len(q) \in Nat
         /\ Len(Append(q, batch)) = Len(q) + 1
         /\ Append(q, batch) \in Seq(Seq(Observations))
         /\ \A i \in 1..Len(q) : Append(q, batch)[i] = q[i]
         /\ Append(q, batch)[Len(q) + 1] = batch
<1>. DEFINE r == Append(q, batch)
<1>1. /\ r \in Seq(Seq(Observations)) /\ Len(r) = Len(q) + 1 /\ Len(q) \in Nat
      /\ \A i \in 1..Len(q) : r[i] = q[i]
      /\ r[Len(q) + 1] = batch
      /\ DOMAIN q = 1..Len(q) /\ DOMAIN r = 1..Len(r)
  BY AppendProperties, LenProperties
<1>. HIDE DEF r
<1>2. QueuedIn(r) = QueuedIn(q) \cup Range(batch)
  <2>1. DOMAIN r = DOMAIN q \cup {Len(q) + 1}
    BY <1>1
  <2>2. \A i \in DOMAIN q : Range(r[i]) = Range(q[i])
    BY <1>1
  <2>3. Range(r[Len(q) + 1]) = Range(batch)
    BY <1>1
  <2>. QED BY <2>1, <2>2, <2>3 DEF QueuedIn
<1>. QED BY <1>1, <1>2 DEF r

\* A batch that is taken from the queue.
LEMMA QueuedTail ==
  ASSUME NEW q \in Seq(Seq(Observations)), q # <<>>
  PROVE  /\ QueuedIn(q) = Range(Head(q)) \cup QueuedIn(Tail(q))
         /\ Head(q) \in Seq(Observations) /\ Head(q) = q[1]
         /\ Tail(q) \in Seq(Seq(Observations))
         /\ DOMAIN q = 1..Len(q) /\ DOMAIN Tail(q) = 1..(Len(q) - 1) /\ Len(q) \in Nat \ {0}
         /\ Len(Tail(q)) = Len(q) - 1
         /\ \A i \in 1..(Len(q) - 1) : Tail(q)[i] = q[i + 1]
<1>. DEFINE r == Tail(q)
<1>1. /\ r \in Seq(Seq(Observations)) /\ Len(r) = Len(q) - 1 /\ Len(q) \in Nat \ {0}
      /\ \A i \in 1..(Len(q) - 1) : r[i] = q[i + 1]
      /\ DOMAIN q = 1..Len(q) /\ DOMAIN r = 1..(Len(q) - 1)
  BY HeadTailProperties, LenProperties, EmptySeq
<1>2. Head(q) \in Seq(Observations) /\ Head(q) = q[1]
  BY HeadTailProperties
<1>. HIDE DEF r
<1>3. QueuedIn(q) = Range(q[1]) \cup QueuedIn(r)
  <2>1. ASSUME NEW o, o \in QueuedIn(q) PROVE o \in Range(q[1]) \cup QueuedIn(r)
    <3>1. PICK i \in 1..Len(q) : o \in Range(q[i])
      BY <1>1, <2>1 DEF QueuedIn
    <3>2. CASE i = 1
      BY <3>1, <3>2
    <3>3. CASE i # 1
      <4>1. i - 1 \in 1..(Len(q) - 1)
        BY <1>1, <3>3
      <4>2. r[i - 1] = q[(i - 1) + 1] /\ (i - 1) + 1 = i
        BY <1>1, <4>1
      <4>. QED BY <1>1, <3>1, <4>1, <4>2 DEF QueuedIn
    <3>. QED BY <3>2, <3>3
  <2>2. Range(q[1]) \subseteq QueuedIn(q)
    <3>1. 1 \in DOMAIN q
      BY <1>1
    <3>. QED BY <3>1 DEF QueuedIn
  <2>3. ASSUME NEW o, o \in QueuedIn(r) PROVE o \in QueuedIn(q)
    <3>1. PICK i \in DOMAIN r : o \in Range(r[i])
      BY <2>3 DEF QueuedIn
    <3>2. i + 1 \in DOMAIN q /\ r[i] = q[i + 1]
      BY <1>1
    <3>. QED BY <3>1, <3>2 DEF QueuedIn
  <2>. QED BY <2>1, <2>2, <2>3
<1>. QED BY <1>1, <1>2, <1>3 DEF r

\* The empty batch, which stands for the None that ends the stream.
LEMMA EmptyRange == Range(<<>>) = {} /\ QueuedIn(<<>>) = {} /\ <<>> \in Seq(Observations)
                    /\ <<>> \in Seq(Seq(Observations)) /\ DOMAIN <<>> = {}
<1>1. <<>> \in Seq(Observations) /\ <<>> \in Seq(Seq(Observations)) /\ Len(<<>>) = 0
  BY EmptySeq
<1>2. DOMAIN <<>> = {}
  OBVIOUS
<1>3. Range(<<>>) = {} /\ QueuedIn(<<>>) = {}
  BY <1>2 DEF Range, QueuedIn
<1>. QED BY <1>1, <1>2, <1>3

\* Parting a set, and moving a part to another one, changes no total.
LEMMA Parted ==
  ASSUME NEW A, NEW C \in SUBSET A, IsFiniteSet(A)
  PROVE  /\ IsFiniteSet(A \ C) /\ IsFiniteSet(C)
         /\ Cardinality(A) \in Nat /\ Cardinality(C) \in Nat /\ Cardinality(A \ C) \in Nat
         /\ Cardinality(A) = Cardinality(A \ C) + Cardinality(C)
<1>1. IsFiniteSet(C) /\ IsFiniteSet(A \ C)
  BY FS_Subset
<1>2. (A \ C) \cap C = {} /\ (A \ C) \cup C = A
  OBVIOUS
<1>3. Cardinality((A \ C) \cup C) = Cardinality(A \ C) + Cardinality(C) - Cardinality((A \ C) \cap C)
  BY <1>1, FS_Union
<1>4. Cardinality(A) = Cardinality(A \ C) + Cardinality(C) - 0
  BY <1>2, <1>3, FS_EmptySet
<1>5. Cardinality(A) \in Nat /\ Cardinality(C) \in Nat /\ Cardinality(A \ C) \in Nat
  BY <1>1, FS_CardinalityType
<1>. QED BY <1>1, <1>4, <1>5

\* Two sets without a common element.
LEMMA Joined ==
  ASSUME NEW B, NEW C, IsFiniteSet(B), IsFiniteSet(C), B \cap C = {}
  PROVE  /\ IsFiniteSet(B \cup C)
         /\ Cardinality(B) \in Nat /\ Cardinality(C) \in Nat /\ Cardinality(B \cup C) \in Nat
         /\ Cardinality(B \cup C) = Cardinality(B) + Cardinality(C)
<1>1. /\ IsFiniteSet(B \cup C)
      /\ Cardinality(B \cup C) = Cardinality(B) + Cardinality(C) - Cardinality(B \cap C)
  BY FS_Union
<1>2. Cardinality(B \cup C) = Cardinality(B) + Cardinality(C) - 0
  BY <1>1, FS_EmptySet
<1>3. Cardinality(B) \in Nat /\ Cardinality(C) \in Nat /\ Cardinality(B \cup C) \in Nat
  BY <1>1, FS_CardinalityType
<1>. QED BY <1>1, <1>2, <1>3

-----------------------------------------------------------------------------
(* The steps that begin or end a run                                       *)

ConsumerState == [at : Stages, batch : Seq(Observations), left : SUBSET Observations,
                  captured : [Listings -> Nat]]

\* The consumer between two batches.
LEMMA WaitingTyped ==
  /\ Waiting \in ConsumerState
  /\ Waiting.at = "get" /\ Waiting.left = {} /\ Waiting.batch = <<>>
  /\ \A s \in Stages : /\ [Waiting EXCEPT !.at = s] \in ConsumerState
                       /\ [Waiting EXCEPT !.at = s].at = s
                       /\ [Waiting EXCEPT !.at = s].left = {}
                       /\ [Waiting EXCEPT !.at = s].batch = <<>>
  BY EmptyRange DEF Waiting, ConsumerState, Stages

\* Nothing has been taken in yet.
Fresh ==
  /\ queue = <<>> /\ consumer.left = {}
  /\ tally = NoTally /\ fate = NoFate
  /\ seen = [keys |-> {}, bodies |-> {}]

FreshFacts ==
  /\ PlacedInv /\ ApartInv /\ FiniteInv /\ WholeInv /\ Accounted
  /\ tally \in Tallies /\ fate \in Fates /\ seen \in Known
  /\ queue \in Seq(Seq(Observations))

\* Then every part of the invariant that speaks of observations holds.
LEMMA FreshInv == Fresh => FreshFacts
<1>. SUFFICES ASSUME Fresh PROVE FreshFacts
  OBVIOUS
<1>1. queue = <<>> /\ consumer.left = {} /\ seen.keys = {}
  BY DEF Fresh
<1>2. Queued = {} /\ DOMAIN queue = {} /\ queue \in Seq(Seq(Observations))
  BY <1>1, EmptyRange DEF Queued, QueuedIn
<1>3. /\ fate.filtered = {} /\ fate.unanalysed = {} /\ fate.saved = {} /\ fate.unsaved = {}
      /\ fate \in Fates
  BY DEF Fresh, NoFate, Fates
<1>4. /\ tally.found = 0 /\ tally.runtime = 0 /\ tally.history = 0 /\ tally.lost = 0
      /\ tally \in Tallies
  BY DEF Fresh, NoTally, Tallies
<1>5. IsFiniteSet({}) /\ Cardinality({}) = 0
  BY FS_EmptySet
<1>6. Placed = {}
  BY <1>1, <1>2, <1>3 DEF Placed, Handled
<1>7. PlacedInv
  BY <1>1, <1>6 DEF PlacedInv, PlacedIn
<1>8. ApartInv
  BY <1>1, <1>2, <1>3 DEF ApartInv, Handled
<1>9. FiniteInv
  BY <1>1, <1>2, <1>3, <1>5 DEF FiniteInv
<1>10. WholeInv
  BY <1>1 DEF WholeInv
<1>11. Accounted
  BY <1>1, <1>2, <1>3, <1>4, <1>5 DEF Accounted, Duplicates, InFlight, Analysed
<1>12. seen \in Known
  BY DEF Fresh, Known
<1>. QED BY <1>2, <1>3, <1>4, <1>7, <1>8, <1>9, <1>10, <1>11, <1>12 DEF FreshFacts

\* The same after a step.
LEMMA FreshNext == Fresh' => FreshFacts'
BY FreshInv, PTL

\* Nobody has observed anything at first.
LEMMA InitInv == PipelineAssumption /\ Init => IInv
<1>. SUFFICES ASSUME PipelineAssumption, Init PROVE IInv
  OBVIOUS
<1>1. /\ consumer \in ConsumerState /\ consumer.left = {} /\ consumer.at = "end"
  BY WaitingTyped DEF Init, Stages
<1>2. Fresh
  BY <1>1 DEF Init, Fresh
<1>3. Unseen \in Rows /\ Unseen.rev = 0 /\ Unseen.normalized = 0
  BY DEF Unseen, Rows
<1>4. RowsInv(catalog)
  BY <1>3 DEF Init, RowsInv
<1>5. TypeOK
  <2>1. {} \in SUBSET Listings /\ {} \subseteq Range(consumer.batch)
    OBVIOUS
  <2>2. runs \in 0..MaxRuns /\ changes \in 0..MaxChanges /\ faults \in 0..MaxFaults
    BY DEF Init, PipelineAssumption
  <2>3. catalog \in [Listings -> Rows] /\ job \in [Listings -> Nat]
        /\ (\A l \in Listings : catalog[l].rev = 0 <=> catalog[l] = Unseen)
        /\ \A l \in Listings : job[l] =< catalog[l].rev
    BY <1>3 DEF Init
  <2>4. phase = "idle" /\ closed = TRUE /\ query \in [Queries -> {"waiting", "active", "settled"}]
        /\ past = {} /\ outside = {} /\ repeats = {}
    BY DEF Init
  <2>5. tally \in Tallies /\ fate \in Fates /\ seen \in Known /\ queue \in Seq(Seq(Observations))
    BY <1>2, FreshInv DEF FreshFacts
  <2>. QED BY <1>1, <2>1, <2>2, <2>3, <2>4, <2>5 DEF TypeOK, Known, ConsumerState
<1>6. StreamInv
  BY <1>1, EmptyRange DEF Init, StreamInv
<1>. QED BY <1>2, <1>4, <1>5, <1>6, FreshInv DEF IInv, FreshFacts

\* A new run starts with nothing taken in, whatever the last one left.
LEMMA BeginInv ==
  ASSUME PipelineAssumption, IInv, NEW plan \in SUBSET Queries, Begin(plan)
  PROVE  IInv'
<1>1. /\ consumer' \in ConsumerState /\ consumer'.left = {} /\ consumer'.batch = <<>>
      /\ consumer'.at = IF plan = {} THEN "end" ELSE "get"
  BY WaitingTyped DEF Begin, Stages
<1>2. Fresh'
  BY <1>1 DEF Begin, Fresh
<1>3. RowsInv(catalog')
  BY DEF IInv, Begin, durable
<1>4. TypeOK'
  <2>1. consumer'.left \subseteq Range(consumer'.batch) /\ past' \subseteq Listings
        /\ outside' \subseteq Listings /\ repeats' \subseteq Observations /\ closed' \in BOOLEAN
    BY <1>1 DEF Begin
  <2>2. runs' \in 0..MaxRuns /\ changes' \in 0..MaxChanges /\ faults' \in 0..MaxFaults
    BY DEF IInv, TypeOK, Begin, PipelineAssumption
  <2>3. catalog' \in [Listings -> Rows] /\ job' \in [Listings -> Nat]
        /\ (\A l \in Listings : catalog'[l].rev = 0 <=> catalog'[l] = Unseen)
        /\ \A l \in Listings : job'[l] =< catalog'[l].rev
    BY DEF IInv, TypeOK, Begin, durable
  <2>4. phase' \in {"done", "streaming"} /\ query' \in [Queries -> {"waiting", "active", "settled"}]
    BY DEF Begin
  <2>5. tally' \in Tallies /\ fate' \in Fates /\ seen' \in Known /\ queue' \in Seq(Seq(Observations))
    BY <1>2, FreshNext DEF FreshFacts
  <2>. QED BY <1>1, <2>1, <2>2, <2>3, <2>4, <2>5 DEF TypeOK, Known, ConsumerState
<1>5. StreamInv'
  <2>1. /\ queue' = <<>> /\ DOMAIN queue' = {}
        /\ plan = {} => phase' = "done" /\ closed' /\ \A q \in Queries : query'[q] = "settled"
        /\ plan # {} => phase' = "streaming" /\ ~closed'
    BY EmptyRange DEF Begin
  <2>2. CASE plan = {}
    BY <1>1, <2>1, <2>2 DEF StreamInv
  <2>3. CASE plan # {}
    BY <1>1, <2>1, <2>3 DEF StreamInv
  <2>. QED BY <2>2, <2>3
<1>. QED BY <1>2, <1>3, <1>4, <1>5, FreshNext DEF IInv, FreshFacts

\* A cancelled run keeps nothing.
LEMMA InterruptInv ==
  ASSUME PipelineAssumption, IInv, Interrupt
  PROVE  IInv'
<1>1. /\ consumer' \in ConsumerState /\ consumer'.left = {} /\ consumer'.batch = <<>>
      /\ consumer'.at = "end"
  BY WaitingTyped DEF Interrupt, Stages
<1>2. Fresh'
  BY <1>1 DEF Interrupt, Fresh
<1>3. RowsInv(catalog')
  BY DEF IInv, Interrupt, durable
<1>4. TypeOK'
  <2>1. consumer'.left \subseteq Range(consumer'.batch) /\ past' \subseteq Listings
        /\ outside' \subseteq Listings /\ repeats' \subseteq Observations /\ closed' \in BOOLEAN
    BY <1>1 DEF Interrupt
  <2>2. runs' \in 0..MaxRuns /\ changes' \in 0..MaxChanges /\ faults' \in 0..MaxFaults
    BY DEF IInv, TypeOK, Interrupt, Fails, PipelineAssumption
  <2>3. catalog' \in [Listings -> Rows] /\ job' \in [Listings -> Nat]
        /\ (\A l \in Listings : catalog'[l].rev = 0 <=> catalog'[l] = Unseen)
        /\ \A l \in Listings : job'[l] =< catalog'[l].rev
    BY DEF IInv, TypeOK, Interrupt, durable
  <2>4. phase' = "stopped" /\ query' \in [Queries -> {"waiting", "active", "settled"}]
    BY DEF Interrupt
  <2>5. tally' \in Tallies /\ fate' \in Fates /\ seen' \in Known /\ queue' \in Seq(Seq(Observations))
    BY <1>2, FreshNext DEF FreshFacts
  <2>. QED BY <1>1, <2>1, <2>2, <2>3, <2>4, <2>5 DEF TypeOK, Known, ConsumerState
<1>5. StreamInv'
  BY <1>1, EmptyRange DEF Interrupt, StreamInv
<1>. QED BY <1>2, <1>3, <1>4, <1>5, FreshNext DEF IInv, FreshFacts

\* Steps that move no observation and change no row.
contents == <<catalog, job, queue, seen, consumer, tally, fate, outside>>

\* Then every part of the invariant that speaks of observations is kept.
LEMMA SameContents ==
  ASSUME IInv, UNCHANGED contents
  PROVE  RowsInv(catalog') /\ PlacedInv' /\ ApartInv' /\ FiniteInv' /\ WholeInv' /\ Accounted'
<1>1. RowsInv(catalog')
  BY DEF IInv, contents
<1>2. Queued' = Queued /\ Handled' = Handled /\ Placed' = Placed
  BY DEF contents, Queued, Handled, Placed
<1>3. PlacedInv'
  BY <1>2 DEF IInv, contents, PlacedInv
<1>4. ApartInv'
  BY <1>2 DEF IInv, contents, ApartInv
<1>5. FiniteInv'
  BY <1>2 DEF IInv, contents, FiniteInv
<1>6. WholeInv'
  BY <1>2 DEF IInv, contents, WholeInv, Covered
<1>7. Accounted'
  BY <1>2 DEF IInv, contents, Accounted, InFlight, Duplicates, Analysed
<1>. QED BY <1>1, <1>3, <1>4, <1>5, <1>6, <1>7

\* A query that starts only occupies the semaphore.
LEMMA StartQueryInv ==
  ASSUME IInv, NEW q \in Queries, StartQuery(q)
  PROVE  IInv'
<1>1. UNCHANGED contents
  BY DEF StartQuery, contents, durable
<1>2. TypeOK'
  BY DEF IInv, TypeOK, StartQuery, durable
<1>3. StreamInv'
  BY DEF IInv, StreamInv, StartQuery
<1>. QED BY <1>1, <1>2, <1>3, SameContents DEF IInv

\* The outcome is chosen; the counters stay as they are.
LEMMA FinishInv ==
  ASSUME IInv, Finish
  PROVE  IInv'
<1>1. UNCHANGED contents
  BY DEF Finish, contents, durable, producer
<1>2. phase' \in {"done", "error"}
  BY DEF Finish, Outcome
<1>3. TypeOK'
  BY <1>2 DEF IInv, TypeOK, Finish, durable, producer
<1>4. StreamInv'
  BY DEF IInv, StreamInv, Finish, producer
<1>. QED BY <1>1, <1>3, <1>4, SameContents DEF IInv

\* A step of nobody.
LEMMA StutterInv ==
  ASSUME IInv, UNCHANGED vars
  PROVE  IInv'
<1>1. UNCHANGED contents
  BY DEF vars, contents, durable, producer
<1>2. TypeOK'
  BY DEF IInv, TypeOK, vars, durable, producer
<1>3. StreamInv'
  BY DEF IInv, StreamInv, vars, producer
<1>. QED BY <1>1, <1>2, <1>3, SameContents DEF IInv

-----------------------------------------------------------------------------
(* The end of the stream and the steps of the consumer                     *)

\* What TypeOK says of the parts, in the form the steps below use.
LEMMA StateTyped ==
  ASSUME TypeOK
  PROVE  /\ queue \in Seq(Seq(Observations)) /\ closed \in BOOLEAN
         /\ Queued = QueuedIn(queue) /\ Queued \subseteq Observations
         /\ consumer \in ConsumerState /\ consumer.left \subseteq Range(consumer.batch)
         /\ consumer.left \subseteq Observations /\ consumer.batch \in Seq(Observations)
         /\ fate \in Fates /\ tally \in Tallies /\ seen \in Known
         /\ catalog \in [Listings -> Rows] /\ job \in [Listings -> Nat]
         /\ fate.filtered \subseteq Observations /\ fate.unanalysed \subseteq Observations
         /\ fate.saved \subseteq Observations /\ fate.unsaved \subseteq Observations
         /\ Placed \subseteq Observations
<1>1. queue \in Seq(Seq(Observations)) /\ Queued = QueuedIn(queue)
  BY DEF TypeOK, Queued, QueuedIn
<1>2. \A i \in DOMAIN queue : Range(queue[i]) \subseteq Observations
  BY <1>1, LenProperties, ElementOfSeq, RangeOfSeq
<1>3. Queued \subseteq Observations
  BY <1>2 DEF Queued
<1>4. consumer \in ConsumerState /\ fate \in Fates /\ tally \in Tallies /\ seen \in Known
      /\ catalog \in [Listings -> Rows] /\ job \in [Listings -> Nat] /\ closed \in BOOLEAN
      /\ consumer.left \subseteq Range(consumer.batch)
  BY DEF TypeOK, ConsumerState, Known
<1>5. /\ consumer.left \subseteq Observations /\ consumer.batch \in Seq(Observations)
      /\ fate.filtered \subseteq Observations /\ fate.unanalysed \subseteq Observations
      /\ fate.saved \subseteq Observations /\ fate.unsaved \subseteq Observations
  BY <1>4 DEF ConsumerState, Fates
<1>. QED BY <1>1, <1>3, <1>4, <1>5 DEF Placed, Handled

\* Rows that grow and observations that only leave keep PlacedInv.
LEMMA PlacedKept ==
  ASSUME IInv, RowsInv(catalog'), GrownFrom(catalog, catalog'), seen' = seen, Placed' \subseteq Placed
  PROVE  PlacedInv'
<1>1. \A l \in Listings : catalog[l].rev \in Nat /\ catalog'[l].rev \in Nat
  BY DEF IInv, RowsInv, Rows
<1>2. seen.keys \subseteq Listings
  BY StateTyped DEF IInv, Known
<1>3. \A o \in Placed : o.rev \in Nat
  BY StateTyped DEF IInv, Observations
<1>4. ASSUME NEW o \in Placed'
      PROVE  /\ o.listing \in seen'.keys
             /\ o.rev =< catalog'[o.listing].rev
             /\ o.rev = catalog'[o.listing].rev => o.content = catalog'[o.listing].content
  <2>. DEFINE l == o.listing
  <2>1. l \in seen.keys /\ o.rev =< catalog[l].rev
        /\ (o.rev = catalog[l].rev => o.content = catalog[l].content)
    BY DEF IInv, PlacedInv, PlacedIn
  <2>2. l \in Listings /\ o.rev \in Nat /\ catalog[l].rev \in Nat /\ catalog'[l].rev \in Nat
    BY <1>1, <1>2, <1>3, <2>1
  <2>3. catalog[l].rev =< catalog'[l].rev
        /\ (catalog'[l].rev = catalog[l].rev => catalog'[l].content = catalog[l].content)
    BY <2>2 DEF GrownFrom
  <2>. QED BY <2>1, <2>2, <2>3
<1>5. ASSUME NEW l \in seen'.keys PROVE catalog'[l].rev > 0
  <2>1. l \in Listings /\ catalog[l].rev > 0
    BY <1>2 DEF IInv, PlacedInv
  <2>. QED BY <1>1, <2>1 DEF GrownFrom
<1>. QED BY <1>4, <1>5 DEF PlacedInv, PlacedIn

\* Rows that stay have grown from themselves.
LEMMA NotGrown ==
  ASSUME IInv, catalog' = catalog
  PROVE  RowsInv(catalog') /\ GrownFrom(catalog, catalog')
<1>1. \A l \in Listings : catalog[l].rev \in Nat
  BY DEF IInv, RowsInv, Rows
<1>. QED BY <1>1 DEF IInv, GrownFrom

\* None goes behind the last batch.
LEMMA CloseStreamInv ==
  ASSUME IInv, CloseStream
  PROVE  IInv'
<1>1. /\ phase = "streaming" /\ ~closed /\ closed' = TRUE /\ queue' = Append(queue, <<>>)
      /\ \A q \in Queries : query[q] = "settled"
      /\ UNCHANGED <<catalog, job, query, seen, past, repeats, phase, consumer, tally, fate,
                     outside, runs, changes, faults>>
  BY DEF CloseStream, durable
<1>2. queue \in Seq(Seq(Observations)) /\ Queued = QueuedIn(queue) /\ Queued' = QueuedIn(queue')
  BY StateTyped DEF IInv, Queued, QueuedIn
<1>3. /\ Queued' = Queued /\ queue' \in Seq(Seq(Observations)) /\ Len(queue) \in Nat
      /\ DOMAIN queue = 1..Len(queue) /\ DOMAIN queue' = 1..(Len(queue) + 1)
      /\ \A i \in 1..Len(queue) : queue'[i] = queue[i]
      /\ queue'[Len(queue) + 1] = <<>> /\ Len(queue') = Len(queue) + 1
  <2>1. Range(<<>>) = {} /\ <<>> \in Seq(Observations)
    BY EmptyRange
  <2>2. queue' = Append(queue, <<>>)
    BY <1>1
  <2>3. QueuedIn(queue') = QueuedIn(queue) \cup Range(<<>>)
    BY <1>2, <2>1, <2>2, QueuedAppend
  <2>4. Queued' = Queued
    BY <1>2, <2>1, <2>3
  <2>. QED BY <1>2, <2>1, <2>2, <2>4, QueuedAppend
<1>4. Handled' = Handled /\ Placed' = Placed
  BY <1>1, <1>3 DEF Handled, Placed
<1>5. TypeOK'
  BY <1>1, <1>3 DEF IInv, TypeOK
<1>6. RowsInv(catalog') /\ PlacedInv'
  BY <1>1, <1>4, NotGrown, PlacedKept
<1>7. ApartInv'
  <2>1. \A i, j \in DOMAIN queue' : i # j => Range(queue'[i]) \cap Range(queue'[j]) = {}
    <3>1. ASSUME NEW i \in DOMAIN queue', NEW j \in DOMAIN queue', i # j
          PROVE  Range(queue'[i]) \cap Range(queue'[j]) = {}
      <4>1. CASE i \in DOMAIN queue /\ j \in DOMAIN queue
        BY <1>3, <3>1, <4>1 DEF IInv, ApartInv
      <4>2. CASE i = Len(queue) + 1 \/ j = Len(queue) + 1
        BY <1>3, <4>2, EmptyRange
      <4>. QED BY <1>3, <4>1, <4>2
    <3>. QED BY <3>1
  <2>. QED BY <1>1, <1>3, <1>4, <2>1 DEF IInv, ApartInv
<1>8. FiniteInv'
  BY <1>1, <1>3 DEF IInv, FiniteInv
<1>9. StreamInv'
  <2>1. \A i \in DOMAIN queue' : queue'[i] = <<>> => i = Len(queue')
    BY <1>1, <1>3 DEF IInv, StreamInv
  <2>2. queue' # <<>>
    BY <1>3, EmptyRange
  <2>. QED BY <1>1, <1>3, <2>1, <2>2 DEF IInv, StreamInv
<1>10. WholeInv'
  BY <1>1, <1>3 DEF IInv, WholeInv, Covered
<1>11. Accounted'
  BY <1>1, <1>3 DEF IInv, Accounted, InFlight, Duplicates, Analysed
<1>. QED BY <1>5, <1>6, <1>7, <1>8, <1>9, <1>10, <1>11 DEF IInv

\* The first batch moves from the queue to the consumer.
LEMMA TakeBatchInv ==
  ASSUME IInv, TakeBatch
  PROVE  IInv'
<1>. DEFINE head == Head(queue)
<1>1. /\ phase = "streaming" /\ consumer.at = "get" /\ queue # <<>> /\ queue' = Tail(queue)
      /\ UNCHANGED <<catalog, job, query, closed, seen, past, repeats, phase, tally, fate,
                     outside, runs, changes, faults>>
  BY DEF TakeBatch, durable
<1>2. /\ queue \in Seq(Seq(Observations)) /\ Queued = QueuedIn(queue) /\ Queued' = QueuedIn(queue')
      /\ consumer \in ConsumerState
  BY StateTyped DEF IInv, Queued, QueuedIn
<1>3. /\ Queued = Range(head) \cup Queued' /\ head \in Seq(Observations) /\ head = queue[1]
      /\ queue' \in Seq(Seq(Observations)) /\ Len(queue) \in Nat \ {0}
      /\ DOMAIN queue = 1..Len(queue) /\ DOMAIN queue' = 1..(Len(queue) - 1)
      /\ \A i \in 1..(Len(queue) - 1) : queue'[i] = queue[i + 1]
      /\ Len(queue') = Len(queue) - 1
  BY <1>1, <1>2, QueuedTail
<1>4. Range(head) \subseteq Observations /\ (head # <<>> => Range(head) # {})
  <2>1. Range(head) \subseteq Observations
    BY <1>3, RangeOfSeq
  <2>2. head # <<>> => 1 \in DOMAIN head
    BY <1>3, EmptySeq, LenProperties
  <2>. QED BY <2>1, <2>2 DEF Range
<1>5. consumer.left = {}
  BY <1>1 DEF IInv, StreamInv
<1>6. /\ consumer' \in ConsumerState
      /\ consumer'.left = Range(head) /\ consumer'.left \subseteq Range(consumer'.batch)
      /\ consumer'.at = IF head = <<>> THEN "end" ELSE "normalize"
  <2>1. CASE head = <<>>
    <3>1. consumer' = [consumer EXCEPT !.at = "end"]
      BY <2>1 DEF TakeBatch
    <3>2. Range(head) = {}
      BY <2>1, EmptyRange
    <3>. QED BY <1>2, <1>5, <2>1, <3>1, <3>2 DEF ConsumerState, Stages
  <2>2. CASE head # <<>>
    <3>. DEFINE captured == [l \in Listings |->
                  IF /\ \E i \in DOMAIN head : head[i].listing = l
                     /\ catalog[l].normalized = 0
                  THEN catalog[l].rev ELSE 0]
    <3>1. consumer' = [at |-> "normalize", batch |-> head, left |-> Range(head), captured |-> captured]
      BY <2>2 DEF TakeBatch
    <3>2. captured \in [Listings -> Nat]
      BY DEF IInv, TypeOK, Rows
    <3>. HIDE DEF captured
    <3>. QED BY <1>3, <1>4, <2>2, <3>1, <3>2 DEF ConsumerState, Stages
  <2>. QED BY <2>1, <2>2
<1>7. Range(head) \cap Queued' = {} /\ Queued' = Queued \ Range(head)
  <2>1. ASSUME NEW i \in DOMAIN queue' PROVE Range(queue'[i]) \cap Range(head) = {}
    <3>1. i + 1 \in DOMAIN queue /\ 1 \in DOMAIN queue /\ i + 1 # 1 /\ queue'[i] = queue[i + 1]
      BY <1>3
    <3>. QED BY <1>3, <3>1 DEF IInv, ApartInv
  <2>2. Range(head) \cap Queued' = {}
    BY <1>2, <2>1 DEF QueuedIn
  <2>. QED BY <1>3, <2>2
<1>8. Handled' = Handled /\ Placed' = Placed
  BY <1>1, <1>3, <1>5, <1>6 DEF Handled, Placed
<1>9. TypeOK'
  BY <1>1, <1>3, <1>6 DEF IInv, TypeOK, ConsumerState
<1>10. RowsInv(catalog') /\ PlacedInv'
  BY <1>1, <1>8, NotGrown, PlacedKept
<1>11. ApartInv'
  <2>1. \A i, j \in DOMAIN queue' : i # j => Range(queue'[i]) \cap Range(queue'[j]) = {}
    <3>1. ASSUME NEW i \in DOMAIN queue', NEW j \in DOMAIN queue', i # j
          PROVE  Range(queue'[i]) \cap Range(queue'[j]) = {}
      <4>1. i + 1 \in DOMAIN queue /\ j + 1 \in DOMAIN queue /\ i + 1 # j + 1
            /\ queue'[i] = queue[i + 1] /\ queue'[j] = queue[j + 1]
        BY <1>3, <3>1
      <4>. QED BY <4>1 DEF IInv, ApartInv
    <3>. QED BY <3>1
  <2>2. Queued' \cap consumer'.left = {}
    BY <1>6, <1>7
  <2>3. Queued' \cup consumer'.left = Queued \cup consumer.left
    BY <1>3, <1>5, <1>6
  <2>4. (Queued \cup consumer.left) \cap Handled = {}
    BY DEF IInv, ApartInv
  <2>. QED BY <1>1, <1>8, <2>1, <2>2, <2>3, <2>4 DEF IInv, ApartInv
<1>12. /\ IsFiniteSet(Queued') /\ IsFiniteSet(consumer'.left)
       /\ {Cardinality(Queued), Cardinality(Queued'), Cardinality(consumer'.left)} \subseteq Nat
       /\ Cardinality(Queued) = Cardinality(Queued') + Cardinality(consumer'.left)
  <2>1. IsFiniteSet(Queued) /\ IsFiniteSet({})
    BY FS_EmptySet DEF IInv, FiniteInv
  <2>2. Range(head) \in SUBSET Queued
    BY <1>3
  <2>. DEFINE C == Range(head)
  <2>3. C \in SUBSET Queued /\ Queued' = Queued \ C /\ consumer'.left = C
    BY <1>6, <1>7, <2>2
  <2>. HIDE DEF C
  <2>4. /\ IsFiniteSet(Queued \ C) /\ IsFiniteSet(C)
        /\ Cardinality(Queued) \in Nat /\ Cardinality(C) \in Nat /\ Cardinality(Queued \ C) \in Nat
        /\ Cardinality(Queued) = Cardinality(Queued \ C) + Cardinality(C)
    BY <2>1, <2>3, Parted
  <2>. QED BY <2>3, <2>4
<1>13. FiniteInv'
  BY <1>1, <1>12 DEF IInv, FiniteInv
<1>14. StreamInv'
  <2>1. CASE head = <<>>
    <3>1. closed /\ Len(queue) = 1
      BY <1>3, <2>1 DEF IInv, StreamInv
    <3>2. queue' = <<>> /\ DOMAIN queue' = {}
      BY <1>3, <3>1, EmptySeq
    <3>3. Range(head) = {}
      BY <2>1, EmptyRange
    <3>. QED BY <1>1, <1>6, <2>1, <3>1, <3>2, <3>3 DEF IInv, StreamInv
  <2>2. CASE head # <<>>
    <3>1. \A i \in DOMAIN queue' : queue'[i] = <<>> => closed' /\ i = Len(queue')
      BY <1>1, <1>3 DEF IInv, StreamInv
    <3>2. closed' => queue' # <<>> /\ queue'[Len(queue')] = <<>>
      <4>1. SUFFICES ASSUME closed' PROVE queue' # <<>> /\ queue'[Len(queue')] = <<>>
        OBVIOUS
      <4>2. queue[Len(queue)] = <<>>
        BY <1>1, <4>1 DEF IInv, StreamInv
      <4>3. Len(queue) # 1
        BY <1>3, <2>2, <4>2
      <4>4. Len(queue) - 1 \in DOMAIN queue' /\ queue'[Len(queue) - 1] = queue[Len(queue)]
        BY <1>3, <4>3
      <4>. QED BY <1>3, <4>2, <4>4, EmptyRange
    <3>3. consumer'.at = "normalize" /\ consumer'.left # {}
      BY <1>4, <1>6, <2>2
    <3>4. closed' => \A q \in Queries : query'[q] = "settled"
      BY <1>1 DEF IInv, StreamInv
    <3>. QED BY <1>1, <3>1, <3>2, <3>3, <3>4 DEF StreamInv
  <2>. QED BY <2>1, <2>2
<1>15. WholeInv'
  BY <1>1, <1>3, <1>5, <1>6 DEF IInv, WholeInv, Covered
<1>16. Accounted'
  <2>1. InFlight' = InFlight
    <3>1. Cardinality(consumer.left) = 0
      BY <1>5, FS_EmptySet
    <3>. QED BY <1>12, <3>1 DEF InFlight
  <2>. QED BY <1>1, <2>1 DEF IInv, Accounted, Duplicates, Analysed
<1>. QED BY <1>9, <1>10, <1>11, <1>13, <1>14, <1>15, <1>16 DEF IInv

\* The consumer goes on with what is left, or waits.
LEMMA GoesOnTyped ==
  ASSUME TypeOK, NEW left \in SUBSET consumer.left, NEW stage \in {"analyze", "save"},
         consumer' = GoesOn(stage, left)
  PROVE  /\ consumer' \in ConsumerState
         /\ consumer'.left = left
         /\ consumer'.at = IF left = {} THEN "get" ELSE stage
         /\ consumer'.left \subseteq Range(consumer'.batch)
<1>1. consumer.batch \in Seq(Observations) /\ left \in SUBSET Observations
      /\ left \subseteq Range(consumer.batch)
  BY StateTyped
<1>2. CASE left = {}
  BY <1>2, WaitingTyped DEF GoesOn
<1>3. CASE left # {}
  <2>. DEFINE captured == [l \in Listings |-> 0]
              r == [at |-> stage, batch |-> consumer.batch, left |-> left, captured |-> captured]
  <2>1. consumer' = r
    BY <1>3 DEF GoesOn, Waiting
  <2>2. r \in ConsumerState
    BY <1>1 DEF ConsumerState, Stages
  <2>. QED BY <1>1, <1>3, <2>1, <2>2
<1>. QED BY <1>2, <1>3

\* The sum of a receipt, when l becomes l4 and the counters take the parts.
LEMMA CountsAddUp ==
  ASSUME NEW found \in Nat, NEW other \in Nat, NEW q \in Nat,
         NEW l \in Nat, NEW l1 \in Nat, NEW l2 \in Nat, NEW l3 \in Nat, NEW l4 \in Nat,
         NEW f \in Nat, NEW u \in Nat, NEW s \in Nat, NEW n \in Nat,
         NEW df \in Nat, NEW du \in Nat, NEW ds \in Nat, NEW dn \in Nat,
         found = other + (q + l) + f + u + (s + n),
         l = l1 + df, l1 = l2 + du, l2 = l3 + ds, l3 = l4 + dn
  PROVE  found = other + (q + l4) + (f + df) + (u + du) + ((s + ds) + (n + dn))
OBVIOUS

\* The consumer hands on parts of what it holds.
LEMMA HandedOn ==
  ASSUME IInv,
         NEW F \in SUBSET consumer.left, NEW U \in SUBSET (consumer.left \ F),
         NEW S \in SUBSET ((consumer.left \ F) \ U),
         NEW N \in SUBSET (((consumer.left \ F) \ U) \ S),
         consumer'.left = (((consumer.left \ F) \ U) \ S) \ N,
         fate'.filtered = fate.filtered \cup F, fate'.unanalysed = fate.unanalysed \cup U,
         fate'.saved = fate.saved \cup S, fate'.unsaved = fate.unsaved \cup N,
         UNCHANGED <<queue, tally.found, tally.runtime, tally.history, tally.lost>>
  PROVE  ApartInv' /\ FiniteInv' /\ Accounted' /\ Placed' \subseteq Placed
<1>. DEFINE L == consumer.left
            L1 == L \ F
            L2 == L1 \ U
            L3 == L2 \ S
            L4 == L3 \ N
<1>1. /\ IsFiniteSet(Queued) /\ IsFiniteSet(L) /\ IsFiniteSet(fate.filtered)
      /\ IsFiniteSet(fate.unanalysed) /\ IsFiniteSet(fate.saved) /\ IsFiniteSet(fate.unsaved)
  BY DEF IInv, FiniteInv
<1>2. /\ F \in SUBSET L /\ U \in SUBSET L1 /\ S \in SUBSET L2 /\ N \in SUBSET L3
      /\ consumer'.left = L4
  OBVIOUS
<1>3. Queued' = Queued
  BY DEF Queued
<1>4. L \cap (fate.filtered \cup fate.unanalysed \cup fate.saved \cup fate.unsaved) = {}
  BY DEF IInv, ApartInv, Handled
<1>5. /\ fate.filtered \cap F = {} /\ fate.unanalysed \cap U = {}
      /\ fate.saved \cap S = {} /\ fate.unsaved \cap N = {}
  BY <1>4
<1>6. ApartInv'
  <2>1. Queued' \cap consumer'.left = {}
    BY <1>3 DEF IInv, ApartInv
  <2>2. (Queued' \cup consumer'.left) \cap Handled' = {}
    BY <1>3 DEF IInv, ApartInv, Handled
  <2>3. /\ fate'.filtered \cap (fate'.unanalysed \cup fate'.saved \cup fate'.unsaved) = {}
        /\ fate'.unanalysed \cap (fate'.saved \cup fate'.unsaved) = {}
        /\ fate'.saved \cap fate'.unsaved = {}
    BY <1>4 DEF IInv, ApartInv
  <2>. QED BY <2>1, <2>2, <2>3 DEF IInv, ApartInv
<1>7. Placed' \subseteq Placed
  BY <1>3 DEF Placed, Handled
<1>. HIDE DEF L, L1, L2, L3, L4
<1>8. /\ IsFiniteSet(L1) /\ IsFiniteSet(F) /\ Cardinality(L) = Cardinality(L1) + Cardinality(F)
      /\ Cardinality(L) \in Nat /\ Cardinality(L1) \in Nat /\ Cardinality(F) \in Nat
  BY <1>1, <1>2, Parted DEF L1
<1>9. /\ IsFiniteSet(L2) /\ IsFiniteSet(U) /\ Cardinality(L1) = Cardinality(L2) + Cardinality(U)
      /\ Cardinality(L2) \in Nat /\ Cardinality(U) \in Nat
  BY <1>2, <1>8, Parted DEF L2
<1>10. /\ IsFiniteSet(L3) /\ IsFiniteSet(S) /\ Cardinality(L2) = Cardinality(L3) + Cardinality(S)
       /\ Cardinality(L3) \in Nat /\ Cardinality(S) \in Nat
  BY <1>2, <1>9, Parted DEF L3
<1>11. /\ IsFiniteSet(L4) /\ IsFiniteSet(N) /\ Cardinality(L3) = Cardinality(L4) + Cardinality(N)
       /\ Cardinality(L4) \in Nat /\ Cardinality(N) \in Nat
  BY <1>2, <1>10, Parted DEF L4
<1>12. /\ IsFiniteSet(fate'.filtered) /\ Cardinality(fate.filtered) \in Nat
       /\ Cardinality(fate'.filtered) = Cardinality(fate.filtered) + Cardinality(F)
  <2>1. IsFiniteSet(fate.filtered) /\ IsFiniteSet(F) /\ fate.filtered \cap F = {}
    BY <1>1, <1>5, <1>8
  <2>2. /\ IsFiniteSet(fate.filtered \cup F) /\ Cardinality(fate.filtered) \in Nat
        /\ Cardinality(fate.filtered \cup F) = Cardinality(fate.filtered) + Cardinality(F)
    BY <2>1, Joined
  <2>. QED BY <2>2
<1>13. /\ IsFiniteSet(fate'.unanalysed) /\ Cardinality(fate.unanalysed) \in Nat
       /\ Cardinality(fate'.unanalysed) = Cardinality(fate.unanalysed) + Cardinality(U)
  <2>1. IsFiniteSet(fate.unanalysed) /\ IsFiniteSet(U) /\ fate.unanalysed \cap U = {}
    BY <1>1, <1>5, <1>9
  <2>2. /\ IsFiniteSet(fate.unanalysed \cup U) /\ Cardinality(fate.unanalysed) \in Nat
        /\ Cardinality(fate.unanalysed \cup U) = Cardinality(fate.unanalysed) + Cardinality(U)
    BY <2>1, Joined
  <2>. QED BY <2>2
<1>14. /\ IsFiniteSet(fate'.saved) /\ Cardinality(fate.saved) \in Nat
       /\ Cardinality(fate'.saved) = Cardinality(fate.saved) + Cardinality(S)
  <2>1. IsFiniteSet(fate.saved) /\ IsFiniteSet(S) /\ fate.saved \cap S = {}
    BY <1>1, <1>5, <1>10
  <2>2. /\ IsFiniteSet(fate.saved \cup S) /\ Cardinality(fate.saved) \in Nat
        /\ Cardinality(fate.saved \cup S) = Cardinality(fate.saved) + Cardinality(S)
    BY <2>1, Joined
  <2>. QED BY <2>2
<1>15. /\ IsFiniteSet(fate'.unsaved) /\ Cardinality(fate.unsaved) \in Nat
       /\ Cardinality(fate'.unsaved) = Cardinality(fate.unsaved) + Cardinality(N)
  <2>1. IsFiniteSet(fate.unsaved) /\ IsFiniteSet(N) /\ fate.unsaved \cap N = {}
    BY <1>1, <1>5, <1>11
  <2>2. /\ IsFiniteSet(fate.unsaved \cup N) /\ Cardinality(fate.unsaved) \in Nat
        /\ Cardinality(fate.unsaved \cup N) = Cardinality(fate.unsaved) + Cardinality(N)
    BY <2>1, Joined
  <2>. QED BY <2>2
<1>16. FiniteInv'
  BY <1>1, <1>2, <1>3, <1>11, <1>12, <1>13, <1>14, <1>15 DEF FiniteInv
<1>17. Accounted'
  <2>. DEFINE other == (tally.runtime + tally.history) + tally.lost
  <2>1. tally.found \in Nat /\ other \in Nat /\ Cardinality(Queued) \in Nat
    <3>1. Cardinality(Queued) \in Nat
      BY <1>1, FS_CardinalityType
    <3>. QED BY <3>1, StateTyped DEF IInv, Tallies
  <2>2. tally.found = other + (Cardinality(Queued) + Cardinality(L)) + Cardinality(fate.filtered)
                     + Cardinality(fate.unanalysed) + (Cardinality(fate.saved) + Cardinality(fate.unsaved))
    BY DEF IInv, Accounted, Duplicates, InFlight, Analysed, L
  <2>. HIDE DEF other
  <2>3. tally.found = other + (Cardinality(Queued) + Cardinality(L4))
                     + (Cardinality(fate.filtered) + Cardinality(F))
                     + (Cardinality(fate.unanalysed) + Cardinality(U))
                     + ((Cardinality(fate.saved) + Cardinality(S)) + (Cardinality(fate.unsaved) + Cardinality(N)))
    BY <1>8, <1>9, <1>10, <1>11, <1>12, <1>13, <1>14, <1>15, <2>1, <2>2, CountsAddUp
  <2>4. tally.found = other + (Cardinality(Queued') + Cardinality(consumer'.left))
                     + Cardinality(fate'.filtered) + Cardinality(fate'.unanalysed)
                     + (Cardinality(fate'.saved) + Cardinality(fate'.unsaved))
    BY <1>2, <1>3, <1>12, <1>13, <1>14, <1>15, <2>3
  <2>. QED BY <2>4 DEF Accounted, Duplicates, InFlight, Analysed, other
<1>. QED BY <1>6, <1>7, <1>16, <1>17

\* Other errors may come, but none goes.
LEMMA TallyAdds ==
  ASSUME TypeOK, NEW n \in Nat, tally' = [tally EXCEPT !.errors = @ + n]
  PROVE  /\ tally' \in Tallies /\ tally'.errors = tally.errors + n
         /\ tally.errors \in Nat /\ (tally'.errors = 0 => tally.errors = 0 /\ n = 0)
         /\ UNCHANGED <<tally.found, tally.runtime, tally.history, tally.lost>>
<1>1. tally \in Tallies
  BY StateTyped
<1>2. tally.errors + n \in Nat /\ tally.errors \in Nat
  BY <1>1 DEF Tallies
<1>3. tally' \in Tallies /\ tally'.errors = tally.errors + n
      /\ UNCHANGED <<tally.found, tally.runtime, tally.history, tally.lost>>
  BY <1>1, <1>2 DEF Tallies
<1>. QED BY <1>2, <1>3

\* The filters take their part; normalizations reach captured revisions only.
LEMMA FilterInv ==
  ASSUME PipelineAssumption, IInv,
         NEW kept \in SUBSET consumer.left, NEW normalizes \in BOOLEAN, NEW open \in BOOLEAN,
         Filter(kept, normalizes, open)
  PROVE  IInv'
<1>. DEFINE gone == consumer.left \ kept
            given == IF open THEN kept ELSE {}
            left == IF open THEN {} ELSE kept
<1>1. /\ phase = "streaming" /\ consumer.at = "normalize" /\ (open => kept # {})
      /\ faults' = faults + ((IF normalizes THEN 0 ELSE 1) + (IF open THEN 1 ELSE 0))
      /\ faults' =< MaxFaults
      /\ catalog' = (IF normalizes THEN Normalized(catalog) ELSE catalog)
      /\ fate' = [fate EXCEPT !.filtered = @ \cup gone, !.unanalysed = @ \cup given]
      /\ tally' = [tally EXCEPT !.errors = @ + IF open THEN 1 ELSE 0]
      /\ consumer' = GoesOn("analyze", left)
      /\ UNCHANGED <<job, query, queue, closed, seen, past, repeats, phase, outside, runs, changes>>
  BY DEF Filter, Fails, producer
<1>2. TypeOK
  BY DEF IInv
<1>3. /\ consumer' \in ConsumerState /\ consumer'.left = left
      /\ consumer'.at = (IF left = {} THEN "get" ELSE "analyze")
      /\ consumer'.left \subseteq Range(consumer'.batch)
  <2>1. left \in SUBSET consumer.left
    OBVIOUS
  <2>. HIDE DEF left
  <2>. QED BY <1>1, <1>2, <2>1, GoesOnTyped
<1>4. /\ tally' \in Tallies /\ UNCHANGED <<tally.found, tally.runtime, tally.history, tally.lost>>
      /\ tally'.errors = 0 => tally.errors = 0 /\ ~open
  <2>. DEFINE n == IF open THEN 1 ELSE 0
  <2>1. n \in Nat /\ (open => n # 0)
    OBVIOUS
  <2>2. tally' = [tally EXCEPT !.errors = @ + n]
    BY <1>1
  <2>. HIDE DEF n
  <2>. QED BY <1>2, <2>1, <2>2, TallyAdds
<1>5. /\ fate' \in Fates
      /\ fate'.filtered = fate.filtered \cup gone /\ fate'.unanalysed = fate.unanalysed \cup given
      /\ fate'.saved = fate.saved /\ fate'.unsaved = fate.unsaved
  <2>1. fate \in Fates /\ gone \in SUBSET Observations /\ given \in SUBSET Observations
    BY <1>2, StateTyped
  <2>. HIDE DEF gone, given
  <2>. QED BY <1>1, <2>1 DEF Fates
<1>6. /\ catalog' \in [Listings -> Rows]
      /\ \A l \in Listings : /\ catalog'[l].rev = catalog[l].rev
                             /\ catalog'[l].content = catalog[l].content
                             /\ \/ catalog'[l] = catalog[l]
                                \/ catalog[l].rev > 0 /\ catalog'[l].normalized = catalog[l].rev
  <2>1. catalog \in [Listings -> Rows] /\ consumer.captured \in [Listings -> Nat]
    BY DEF IInv, TypeOK
  <2>2. CASE normalizes
    <3>1. catalog' = Normalized(catalog)
      BY <1>1, <2>2
    <3>2. ASSUME NEW l \in Listings
          PROVE  /\ catalog'[l] \in Rows
                 /\ catalog'[l].rev = catalog[l].rev
                 /\ catalog'[l].content = catalog[l].content
                 /\ \/ catalog'[l] = catalog[l]
                    \/ catalog[l].rev > 0 /\ catalog'[l].normalized = catalog[l].rev
      <4>1. catalog[l] \in Rows /\ consumer.captured[l] \in Nat
        BY <2>1
      <4>2. \/ catalog'[l] = catalog[l]
            \/ /\ consumer.captured[l] > 0 /\ catalog[l].rev = consumer.captured[l]
               /\ catalog'[l] = [catalog[l] EXCEPT !.normalized = consumer.captured[l]]
        BY <3>1 DEF Normalized
      <4>. QED BY <4>1, <4>2 DEF Rows
    <3>3. DOMAIN catalog' = Listings /\ catalog' = [l \in Listings |-> catalog'[l]]
      BY <3>1 DEF Normalized
    <3>. QED BY <3>2, <3>3
  <2>3. CASE ~normalizes
    BY <1>1, <2>1, <2>3
  <2>. QED BY <2>2, <2>3
<1>7. RowsInv(catalog')
  <2>1. ASSUME NEW l \in Listings
        PROVE  (catalog'[l].rev = 0 <=> catalog'[l] = Unseen) /\ catalog'[l].normalized \in {0, catalog'[l].rev}
    <3>1. /\ catalog[l].rev = 0 <=> catalog[l] = Unseen
          /\ catalog[l].normalized \in {0, catalog[l].rev}
      BY DEF IInv, RowsInv
    <3>2. catalog[l].rev \in Nat
      BY <1>2 DEF TypeOK, Rows
    <3>3. CASE catalog'[l] = catalog[l]
      BY <3>1, <3>3
    <3>4. CASE catalog[l].rev > 0 /\ catalog'[l].normalized = catalog[l].rev
      BY <1>6, <3>1, <3>2, <3>4 DEF Unseen
    <3>. QED BY <1>6, <3>3, <3>4
  <2>. QED BY <1>6, <2>1 DEF RowsInv
<1>8. ApartInv' /\ FiniteInv' /\ Accounted' /\ Placed' \subseteq Placed
  <2>. DEFINE S == {}
              N == {}
  <2>1. /\ gone \in SUBSET consumer.left /\ given \in SUBSET (consumer.left \ gone)
        /\ S \in SUBSET ((consumer.left \ gone) \ given)
        /\ N \in SUBSET (((consumer.left \ gone) \ given) \ S)
        /\ consumer'.left = (((consumer.left \ gone) \ given) \ S) \ N
    BY <1>3
  <2>2. fate'.saved = fate.saved \cup S /\ fate'.unsaved = fate.unsaved \cup N
    BY <1>5
  <2>. HIDE DEF gone, given, S, N
  <2>3. /\ fate'.filtered = fate.filtered \cup gone /\ fate'.unanalysed = fate.unanalysed \cup given
        /\ fate'.saved = fate.saved \cup S /\ fate'.unsaved = fate.unsaved \cup N
    BY <1>5, <2>2
  <2>4. UNCHANGED <<queue, tally.found, tally.runtime, tally.history, tally.lost>>
    BY <1>1, <1>4
  <2>. QED BY <2>1, <2>3, <2>4, HandedOn
<1>9. PlacedInv'
  <2>1. GrownFrom(catalog, catalog')
    <3>1. \A l \in Listings : catalog[l].rev \in Nat
      BY <1>2 DEF TypeOK, Rows
    <3>. QED BY <1>6, <3>1 DEF GrownFrom
  <2>. QED BY <1>1, <1>7, <1>8, <2>1, PlacedKept
<1>10. StreamInv'
  BY <1>1, <1>3 DEF IInv, StreamInv
<1>11. WholeInv'
  <2>1. SUFFICES ASSUME tally'.errors = 0, NEW l \in seen'.keys \ outside' PROVE Covered(l)'
    BY DEF WholeInv
  <2>2. tally.errors = 0 /\ ~open
    BY <1>4, <2>1
  <2>3. Covered(l) /\ l \in Listings
    BY <1>1, <1>2, <2>1, <2>2, StateTyped DEF IInv, WholeInv, Known
  <2>4. Queued' \cup consumer'.left \cup fate'.filtered = Queued \cup consumer.left \cup fate.filtered
    BY <1>1, <1>3, <1>5, <2>2 DEF Queued
  <2>. HIDE DEF gone, given, left
  <2>. QED BY <1>1, <1>6, <2>3, <2>4 DEF Covered
<1>12. TypeOK'
  <2>1. \A l \in Listings : job'[l] =< catalog'[l].rev
    BY <1>1, <1>2, <1>6 DEF TypeOK
  <2>2. faults' \in 0..MaxFaults
    BY <1>1, <1>2 DEF TypeOK, PipelineAssumption
  <2>3. \A l \in Listings : catalog'[l].rev = 0 <=> catalog'[l] = Unseen
    BY <1>7 DEF RowsInv
  <2>. HIDE DEF gone, given, left
  <2>. QED BY <1>1, <1>2, <1>3, <1>4, <1>5, <1>6, <2>1, <2>2, <2>3 DEF TypeOK, ConsumerState
<1>. QED BY <1>7, <1>8, <1>9, <1>10, <1>11, <1>12 DEF IInv

\* The unanswered part leaves the batch as an error.
LEMMA AnalyseInv ==
  ASSUME PipelineAssumption, IInv, NEW answered \in SUBSET consumer.left, Analyse(answered)
  PROVE  IInv'
<1>. DEFINE missing == consumer.left \ answered
<1>1. /\ phase = "streaming" /\ consumer.at = "analyze"
      /\ faults' = faults + (IF missing = {} THEN 0 ELSE 1) /\ faults' =< MaxFaults
      /\ fate' = [fate EXCEPT !.unanalysed = @ \cup missing]
      /\ tally' = [tally EXCEPT !.errors = @ + IF missing = {} THEN 0 ELSE 1]
      /\ consumer' = GoesOn("save", answered)
      /\ UNCHANGED <<catalog, job, query, queue, closed, seen, past, repeats, phase, outside,
                     runs, changes>>
  BY DEF Analyse, Fails, producer, durable
<1>2. TypeOK
  BY DEF IInv
<1>3. /\ consumer' \in ConsumerState /\ consumer'.left = answered
      /\ consumer'.at = (IF answered = {} THEN "get" ELSE "save")
      /\ consumer'.left \subseteq Range(consumer'.batch)
  BY <1>1, <1>2, GoesOnTyped
<1>4. /\ tally' \in Tallies /\ UNCHANGED <<tally.found, tally.runtime, tally.history, tally.lost>>
      /\ tally'.errors = 0 => tally.errors = 0 /\ missing = {}
  <2>. DEFINE n == IF missing = {} THEN 0 ELSE 1
  <2>1. n \in Nat /\ (missing # {} => n # 0)
    OBVIOUS
  <2>2. tally' = [tally EXCEPT !.errors = @ + n]
    BY <1>1
  <2>. HIDE DEF n, missing
  <2>. QED BY <1>2, <2>1, <2>2, TallyAdds
<1>5. /\ fate' \in Fates
      /\ fate'.filtered = fate.filtered /\ fate'.unanalysed = fate.unanalysed \cup missing
      /\ fate'.saved = fate.saved /\ fate'.unsaved = fate.unsaved
  <2>1. fate \in Fates /\ missing \in SUBSET Observations
    BY <1>2, StateTyped
  <2>. HIDE DEF missing
  <2>. QED BY <1>1, <2>1 DEF Fates
<1>6. ApartInv' /\ FiniteInv' /\ Accounted' /\ Placed' \subseteq Placed
  <2>. DEFINE F == {}
              S == {}
              N == {}
  <2>1. /\ F \in SUBSET consumer.left /\ missing \in SUBSET (consumer.left \ F)
        /\ S \in SUBSET ((consumer.left \ F) \ missing)
        /\ N \in SUBSET (((consumer.left \ F) \ missing) \ S)
        /\ consumer'.left = (((consumer.left \ F) \ missing) \ S) \ N
    BY <1>3
  <2>2. /\ fate'.filtered = fate.filtered \cup F
        /\ fate'.saved = fate.saved \cup S /\ fate'.unsaved = fate.unsaved \cup N
    BY <1>5
  <2>. HIDE DEF missing, F, S, N
  <2>3. /\ fate'.filtered = fate.filtered \cup F /\ fate'.unanalysed = fate.unanalysed \cup missing
        /\ fate'.saved = fate.saved \cup S /\ fate'.unsaved = fate.unsaved \cup N
    BY <1>5, <2>2
  <2>4. UNCHANGED <<queue, tally.found, tally.runtime, tally.history, tally.lost>>
    BY <1>1, <1>4
  <2>. QED BY <2>1, <2>3, <2>4, HandedOn
<1>7. RowsInv(catalog') /\ PlacedInv'
  BY <1>1, <1>6, NotGrown, PlacedKept
<1>8. StreamInv'
  BY <1>1, <1>3 DEF IInv, StreamInv
<1>9. WholeInv'
  <2>1. SUFFICES ASSUME tally'.errors = 0, NEW l \in seen'.keys \ outside' PROVE Covered(l)'
    BY DEF WholeInv
  <2>2. tally.errors = 0 /\ answered = consumer.left
    BY <1>4, <2>1
  <2>3. Covered(l)
    BY <1>1, <2>1, <2>2 DEF IInv, WholeInv
  <2>4. Queued' \cup consumer'.left \cup fate'.filtered = Queued \cup consumer.left \cup fate.filtered
    BY <1>1, <1>3, <1>5, <2>2 DEF Queued
  <2>. QED BY <1>1, <2>3, <2>4 DEF Covered
<1>10. TypeOK'
  <2>1. faults' \in 0..MaxFaults
    BY <1>1, <1>2 DEF TypeOK, PipelineAssumption
  <2>. HIDE DEF missing
  <2>. QED BY <1>1, <1>2, <1>3, <1>4, <1>5, <2>1 DEF TypeOK, ConsumerState
<1>. QED BY <1>6, <1>7, <1>8, <1>9, <1>10 DEF IInv

\* One analysis leaves the batch, and reaches the Job of its own revision only.
LEMMA SaveInv ==
  ASSUME PipelineAssumption, IInv, NEW o \in consumer.left, NEW fails \in BOOLEAN, Save(o, fails)
  PROVE  IInv'
<1>. DEFINE left == consumer.left \ {o}
            kept == ~fails /\ Current(o)
            S == IF kept THEN {o} ELSE {}
            N == IF kept THEN {} ELSE {o}
<1>1. /\ phase = "streaming" /\ consumer.at = "save"
      /\ faults' = faults + (IF fails THEN 1 ELSE 0) /\ faults' =< MaxFaults
      /\ IF kept THEN fate' = [fate EXCEPT !.saved = @ \cup {o}] /\ job' = [job EXCEPT ![o.listing] = o.rev]
         ELSE fate' = [fate EXCEPT !.unsaved = @ \cup {o}] /\ job' = job
      /\ tally' = [tally EXCEPT !.errors = @ + IF fails THEN 1 ELSE 0]
      /\ consumer' = GoesOn("save", left)
      /\ UNCHANGED <<catalog, query, queue, closed, seen, past, repeats, phase, outside, runs, changes>>
  BY DEF Save, Fails, producer
<1>2. TypeOK
  BY DEF IInv
<1>3. /\ consumer' \in ConsumerState /\ consumer'.left = left
      /\ consumer'.at = (IF left = {} THEN "get" ELSE "save")
      /\ consumer'.left \subseteq Range(consumer'.batch)
  <2>1. left \in SUBSET consumer.left
    OBVIOUS
  <2>. HIDE DEF left
  <2>. QED BY <1>1, <1>2, <2>1, GoesOnTyped
<1>4. /\ tally' \in Tallies /\ UNCHANGED <<tally.found, tally.runtime, tally.history, tally.lost>>
      /\ tally'.errors = 0 => tally.errors = 0 /\ ~fails
  <2>. DEFINE n == IF fails THEN 1 ELSE 0
  <2>1. n \in Nat /\ (fails => n # 0)
    OBVIOUS
  <2>2. tally' = [tally EXCEPT !.errors = @ + n]
    BY <1>1
  <2>. HIDE DEF n
  <2>. QED BY <1>2, <2>1, <2>2, TallyAdds
<1>5. /\ fate' \in Fates
      /\ fate'.filtered = fate.filtered /\ fate'.unanalysed = fate.unanalysed
      /\ fate'.saved = fate.saved \cup S /\ fate'.unsaved = fate.unsaved \cup N
  <2>1. fate \in Fates /\ {o} \in SUBSET Observations
    BY <1>2, StateTyped
  <2>2. CASE kept
    <3>1. fate' = [fate EXCEPT !.saved = @ \cup {o}]
      BY <1>1, <2>2
    <3>. QED BY <2>1, <2>2, <3>1 DEF Fates
  <2>3. CASE ~kept
    <3>1. fate' = [fate EXCEPT !.unsaved = @ \cup {o}]
      BY <1>1, <2>3
    <3>. QED BY <2>1, <2>3, <3>1 DEF Fates
  <2>. QED BY <2>2, <2>3
<1>6. ApartInv' /\ FiniteInv' /\ Accounted' /\ Placed' \subseteq Placed
  <2>. DEFINE F == {}
              U == {}
  <2>1. /\ F \in SUBSET consumer.left /\ U \in SUBSET (consumer.left \ F)
        /\ S \in SUBSET ((consumer.left \ F) \ U)
        /\ N \in SUBSET (((consumer.left \ F) \ U) \ S)
        /\ consumer'.left = (((consumer.left \ F) \ U) \ S) \ N
    BY <1>3
  <2>2. fate'.filtered = fate.filtered \cup F /\ fate'.unanalysed = fate.unanalysed \cup U
    BY <1>5
  <2>. HIDE DEF F, U, S, N
  <2>3. /\ fate'.filtered = fate.filtered \cup F /\ fate'.unanalysed = fate.unanalysed \cup U
        /\ fate'.saved = fate.saved \cup S /\ fate'.unsaved = fate.unsaved \cup N
    BY <1>5, <2>2
  <2>4. UNCHANGED <<queue, tally.found, tally.runtime, tally.history, tally.lost>>
    BY <1>1, <1>4
  <2>. QED BY <2>1, <2>3, <2>4, HandedOn
<1>7. RowsInv(catalog') /\ PlacedInv'
  BY <1>1, <1>6, NotGrown, PlacedKept
<1>8. StreamInv'
  BY <1>1, <1>3 DEF IInv, StreamInv
<1>9. /\ o \in Observations /\ o.listing \in Listings /\ o.rev \in Nat
      /\ o.rev = catalog[o.listing].rev => o.content = catalog[o.listing].content
  BY <1>2, StateTyped DEF IInv, PlacedInv, PlacedIn, Placed, Observations
<1>10. /\ job' \in [Listings -> Nat]
       /\ \A l \in Listings : job'[l] # job[l] => l = o.listing /\ kept /\ job'[l] = catalog[l].rev
       /\ kept => job'[o.listing] = catalog[o.listing].rev
  <2>1. job \in [Listings -> Nat]
    BY <1>2, StateTyped
  <2>2. kept => o.rev = catalog[o.listing].rev
    BY DEF Current
  <2>. QED BY <1>1, <1>9, <2>1, <2>2
<1>11. WholeInv'
  <2>1. SUFFICES ASSUME tally'.errors = 0, NEW l \in seen'.keys \ outside' PROVE Covered(l)'
    BY DEF WholeInv
  <2>2. tally.errors = 0 /\ ~fails
    BY <1>4, <2>1
  <2>3. Covered(l) /\ l \in Listings
    BY <1>1, <1>2, <2>1, <2>2, StateTyped DEF IInv, WholeInv, Known
  <2>4. CASE job[l] = catalog[l].rev
    BY <1>1, <1>10, <2>3, <2>4 DEF Covered
  <2>5. CASE \E p \in Queued \cup consumer.left \cup fate.filtered :
               p.listing = l /\ p.rev = catalog[l].rev
    <3>1. PICK p \in Queued \cup consumer.left \cup fate.filtered :
            p.listing = l /\ p.rev = catalog[l].rev
      BY <2>5
    <3>2. CASE p = o
      <4>1. kept
        BY <1>9, <2>2, <3>1, <3>2 DEF Current
      <4>. QED BY <1>1, <1>10, <3>1, <3>2, <4>1 DEF Covered
    <3>3. CASE p # o
      <4>1. p \in Queued' \cup consumer'.left \cup fate'.filtered
        BY <1>1, <1>3, <1>5, <3>1, <3>3 DEF Queued
      <4>. QED BY <1>1, <3>1, <4>1 DEF Covered
    <3>. QED BY <3>2, <3>3
  <2>. QED BY <2>3, <2>4, <2>5 DEF Covered
<1>12. TypeOK'
  <2>1. faults' \in 0..MaxFaults
    BY <1>1, <1>2 DEF TypeOK, PipelineAssumption
  <2>2. \A l \in Listings : job'[l] =< catalog'[l].rev
    <3>1. \A l \in Listings : catalog[l].rev \in Nat /\ job[l] =< catalog[l].rev
      BY <1>2 DEF TypeOK, Rows
    <3>. QED BY <1>1, <1>10, <3>1
  <2>. HIDE DEF left, kept, S, N
  <2>. QED BY <1>1, <1>2, <1>3, <1>4, <1>5, <1>10, <2>1, <2>2 DEF TypeOK, ConsumerState
<1>. QED BY <1>6, <1>7, <1>8, <1>11, <1>12 DEF IInv

\* Somebody else's observation only grows the catalogue.
LEMMA OtherObservesInv ==
  ASSUME PipelineAssumption, IInv, NEW l \in Listings, NEW c \in Contents, OtherObserves(l, c)
  PROVE  IInv'
<1>. DEFINE row == Upsert(catalog[l], c)
<1>1. /\ changes < MaxChanges /\ changes' = changes + 1
      /\ catalog' = [catalog EXCEPT ![l] = row]
      /\ outside' = outside \cup {l}
      /\ UNCHANGED <<job, query, queue, closed, seen, past, repeats, phase, consumer, tally, fate,
                     runs, faults>>
  BY DEF OtherObserves, producer
<1>2. TypeOK
  BY DEF IInv
<1>3. \A k \in Listings : /\ catalog[k] \in Rows /\ catalog[k].rev \in Nat
                          /\ catalog[k].rev = 0 <=> catalog[k] = Unseen
                          /\ catalog[k].normalized \in {0, catalog[k].rev}
  BY DEF IInv, RowsInv, Rows
<1>4. /\ row \in Rows /\ row.rev \in Nat \ {0} /\ row.normalized \in {0, row.rev}
      /\ row.rev = catalog[l].rev + 1 \/ row = catalog[l]
  BY <1>3, UpsertProperties
<1>. HIDE DEF row
<1>5. /\ catalog' \in [Listings -> Rows] /\ catalog'[l] = row
      /\ \A k \in Listings \ {l} : catalog'[k] = catalog[k]
  BY <1>1, <1>2, <1>4 DEF TypeOK
<1>6. RowsInv(catalog')
  <2>1. ASSUME NEW k \in Listings
        PROVE  (catalog'[k].rev = 0 <=> catalog'[k] = Unseen) /\ catalog'[k].normalized \in {0, catalog'[k].rev}
    <3>1. CASE k = l
      BY <1>4, <1>5, <3>1 DEF Unseen
    <3>2. CASE k # l
      BY <1>3, <1>5, <3>2
    <3>. QED BY <3>1, <3>2
  <2>. QED BY <1>5, <2>1 DEF RowsInv
<1>7. GrownFrom(catalog, catalog')
  <2>1. ASSUME NEW k \in Listings
        PROVE  /\ catalog[k].rev =< catalog'[k].rev
               /\ catalog'[k].rev = catalog[k].rev => catalog'[k].content = catalog[k].content
    <3>1. CASE k = l
      BY <1>3, <1>4, <1>5, <3>1
    <3>2. CASE k # l
      BY <1>3, <1>5, <3>2
    <3>. QED BY <3>1, <3>2
  <2>. QED BY <2>1 DEF GrownFrom
<1>8. Queued' = Queued /\ Handled' = Handled /\ Placed' = Placed
  BY <1>1 DEF Queued, Handled, Placed
<1>9. PlacedInv'
  BY <1>1, <1>6, <1>7, <1>8, PlacedKept
<1>10. ApartInv' /\ FiniteInv'
  BY <1>1, <1>8 DEF IInv, ApartInv, FiniteInv
<1>11. StreamInv'
  BY <1>1 DEF IInv, StreamInv
<1>12. WholeInv'
  <2>1. SUFFICES ASSUME tally'.errors = 0, NEW k \in seen'.keys \ outside' PROVE Covered(k)'
    BY DEF WholeInv
  <2>2. Covered(k) /\ k # l /\ k \in Listings
    BY <1>1, <1>2, <2>1, StateTyped DEF IInv, WholeInv, Known
  <2>3. catalog'[k] = catalog[k]
    BY <1>5, <2>2
  <2>. QED BY <1>1, <1>8, <2>2, <2>3 DEF Covered
<1>13. Accounted'
  BY <1>1, <1>8 DEF IInv, Accounted, Duplicates, InFlight, Analysed
<1>14. TypeOK'
  <2>1. changes' \in 0..MaxChanges /\ outside' \subseteq Listings
    BY <1>1, <1>2 DEF TypeOK, PipelineAssumption
  <2>2. \A k \in Listings : job'[k] =< catalog'[k].rev
    <3>1. \A k \in Listings : catalog[k].rev =< catalog'[k].rev /\ catalog'[k].rev \in Nat
      BY <1>5, <1>7 DEF GrownFrom, Rows
    <3>. QED BY <1>1, <1>2, <1>3, <3>1 DEF TypeOK
  <2>3. \A k \in Listings : catalog'[k].rev = 0 <=> catalog'[k] = Unseen
    BY <1>6 DEF RowsInv
  <2>. QED BY <1>1, <1>2, <1>5, <2>1, <2>2, <2>3 DEF TypeOK
<1>. QED BY <1>6, <1>9, <1>10, <1>11, <1>12, <1>13, <1>14 DEF IInv

-----------------------------------------------------------------------------
(* A query settles                                                         *)

\* What is kept of the captured observations is new to the run.
LEMMA KeptIsNew ==
  ASSUME IInv, NEW stored, CapturedInv(stored), NEW unique,
         SiftedInv(unique, stored.captured, Len(stored.captured))
  PROVE  /\ Range(unique.kept) \subseteq Observations
         /\ Range(unique.kept) \cap Placed = {}
         /\ PlacedIn(Range(unique.kept), unique.known.keys, stored.rows)
         /\ \A l \in unique.known.keys \ seen.keys :
              \E o \in Range(unique.kept) : o.listing = l /\ o.rev = stored.rows[l].rev
         /\ \A l \in seen.keys : stored.rows[l].rev # catalog[l].rev =>
              \E o \in Range(unique.kept) : o.listing = l /\ o.rev = stored.rows[l].rev
<1>. DEFINE c == stored.captured
            K == Range(unique.kept)
            rows == stored.rows
<1>1. /\ c \in Seq(Observations) /\ Len(c) \in Nat
      /\ AreOf(rows, c) /\ ChangesAreNew(c) /\ ChangesAreTold(rows, c)
  BY LenProperties DEF CapturedInv
<1>2. \A i \in 1..Len(c) : c[i] \in Observations
  BY <1>1, ElementOfSeq
<1>3. \A o \in K : /\ \E i \in 1..Len(c) : c[i] = o
                   /\ o.listing \in unique.known.keys
                   /\ o.changed \/ o.listing \notin seen.keys
  BY DEF SiftedInv
<1>4. \A i \in 1..Len(c) : c[i].changed => c[i] \in K
  BY DEF SiftedInv
<1>5. \A l \in unique.known.keys \ seen.keys : \E o \in K : o.listing = l
  BY DEF SiftedInv
<1>6. seen.keys \subseteq Listings /\ \A l \in seen.keys : catalog[l].rev > 0
  BY StateTyped DEF IInv, PlacedInv, Known
<1>. HIDE DEF c, K, rows
<1>7. K \subseteq Observations
  BY <1>2, <1>3
<1>8. K \cap Placed = {}
  <2>1. SUFFICES ASSUME NEW o \in K, o \in Placed PROVE FALSE
    OBVIOUS
  <2>2. PICK i \in 1..Len(c) : c[i] = o
    BY <1>3
  <2>3. o.listing \in seen.keys /\ o.rev =< catalog[o.listing].rev
    BY <2>1 DEF IInv, PlacedInv, PlacedIn
  <2>4. o.changed
    BY <1>3, <2>3
  <2>5. o.rev > catalog[o.listing].rev
    BY <1>1, <2>2, <2>4 DEF ChangesAreNew
  <2>6. o.rev \in Nat /\ catalog[o.listing].rev \in Nat
    BY <1>2, <1>6, <2>2, <2>3 DEF IInv, RowsInv, Rows, Observations
  <2>. QED BY <2>3, <2>5, <2>6
<1>9. PlacedIn(K, unique.known.keys, rows)
  BY <1>1, <1>3 DEF PlacedIn, AreOf
<1>10. ASSUME NEW l, NEW rev, Tells(c, l, rev) PROVE \E o \in K : o.listing = l /\ o.rev = rev
  BY <1>4, <1>10 DEF Tells
<1>11. ASSUME NEW l \in unique.known.keys \ seen.keys
       PROVE  \E o \in K : o.listing = l /\ o.rev = rows[l].rev
  <2>1. PICK o \in K : o.listing = l
    BY <1>5
  <2>2. PICK i \in 1..Len(c) : c[i] = o
    BY <1>3
  <2>3. o.rev = rows[l].rev \/ Tells(c, l, rows[l].rev)
    BY <1>1, <2>1, <2>2 DEF ChangesAreTold
  <2>. QED BY <1>10, <2>1, <2>3
<1>12. ASSUME NEW l \in seen.keys, rows[l].rev # catalog[l].rev
       PROVE  \E o \in K : o.listing = l /\ o.rev = rows[l].rev
  BY <1>1, <1>6, <1>10, <1>12 DEF ChangesAreTold
<1>. QED BY <1>7, <1>8, <1>9, <1>11, <1>12 DEF c, K, rows

\* The sum of a receipt, when a query brings more listings.
LEMMA TakenInAddsUp ==
  ASSUME NEW found \in Nat, NEW runtime \in Nat, NEW history \in Nat, NEW lost \in Nat,
         NEW q \in Nat, NEW l \in Nat, NEW rest \in Nat,
         NEW items \in Nat, NEW ok \in Nat, NEW kept \in Nat, NEW known \in Nat, NEW dropped \in Nat,
         found = (runtime + history) + lost + (q + l) + rest,
         kept + (known + dropped) = ok
  PROVE  found + items = ((runtime + known) + (history + dropped)) + (lost + (items - ok))
                         + ((q + kept) + l) + rest
OBVIOUS

\* The positions of a sequence are as many as it is long.
LEMMA UpToFinite ==
  ASSUME NEW n \in Nat
  PROVE  IsFiniteSet(1..n) /\ Cardinality(1..n) = n
<1>1. IsFiniteSet(1..n) /\ Cardinality(1..n) = IF 1 > n THEN 0 ELSE n - 1 + 1
  BY FS_Interval
<1>. QED BY <1>1

\* A query's items are catalogued, deduplicated and queued in one step.
LEMMA SettleQueryInv ==
  ASSUME PipelineAssumption, IInv, NEW q \in Queries, NEW items \in Items,
         NEW failures \in 0..1, NEW answers \in 0..1, NEW ok \in SUBSET DOMAIN items,
         SettleQuery(q, items, ok, failures, answers)
  PROVE  IInv'
<1>. DEFINE stored == Catalogued(items, ok)
            unique == Deduplicated(stored.captured)
            refused == Len(items) - Cardinality(ok)
            errors == IF ok = {} /\ items # <<>> THEN 1 ELSE refused
            K == Range(unique.kept)
<1>1. /\ phase = "streaming" /\ query[q] = "active"
      /\ faults' = faults + (failures + refused) /\ faults' =< MaxFaults
      /\ query' = [query EXCEPT ![q] = "settled"]
      /\ catalog' = stored.rows
      /\ seen' = unique.known
      /\ queue' = (IF unique.kept = <<>> THEN queue ELSE Append(queue, unique.kept))
      /\ repeats' = repeats \cup unique.history
      /\ tally' = [tally EXCEPT !.found = @ + Len(items),
                                !.runtime = @ + unique.runtime,
                                !.history = @ + unique.dropped,
                                !.lost = @ + refused,
                                !.errors = @ + errors,
                                !.failures = @ + failures, !.answers = @ + answers]
      /\ UNCHANGED <<job, closed, past, phase, consumer, fate, outside, runs, changes>>
  BY DEF SettleQuery, Fails
<1>2. TypeOK /\ RowsInv(catalog)
  BY DEF IInv
<1>3. /\ items \in Seq([listing : Listings, content : Contents])
      /\ DOMAIN items = 1..Len(items) /\ Len(items) \in Nat
  <2>1. tally.found \in Nat
    BY <1>2, StateTyped DEF Tallies
  <2>2. MaxFound - tally.found \in Int
    BY <2>1 DEF PipelineAssumption
  <2>. QED BY <2>2, SeqOfTyped DEF Items
<1>4. /\ CapturedInv(stored) /\ IsFiniteSet(ok)
      /\ Len(stored.captured) = Cardinality(ok)
  BY <1>2, <1>3, CataloguedProperties
<1>5. Cardinality(ok) \in Nat /\ refused \in Nat
  <2>1. IsFiniteSet(1..Len(items)) /\ Cardinality(1..Len(items)) = Len(items)
    BY <1>3, UpToFinite
  <2>2. Cardinality(ok) =< Len(items)
    BY <1>3, <2>1, FS_Subset
  <2>3. Cardinality(ok) \in Nat
    BY <1>4, FS_CardinalityType
  <2>. QED BY <1>3, <2>2, <2>3
<1>6. SiftedInv(unique, stored.captured, Len(stored.captured))
  <2>. DEFINE c == stored.captured
  <2>1. c \in Seq(Observations) /\ ChangesAreNew(c) /\ seen \in Known
    BY <1>2, <1>4, StateTyped DEF CapturedInv
  <2>. HIDE DEF c
  <2>2. SiftedInv(Deduplicated(c), c, Len(c))
    BY <2>1, DeduplicatedProperties
  <2>. QED BY <2>2 DEF c
<1>. HIDE DEF stored, unique
<1>7. /\ unique.known \in Known /\ unique.kept \in Seq(Observations)
      /\ unique.runtime \in Nat /\ unique.dropped \in Nat /\ Len(unique.kept) \in Nat
      /\ unique.history \in SUBSET Observations
      /\ Len(unique.kept) + (unique.runtime + unique.dropped) = Cardinality(ok)
      /\ IsFiniteSet(K) /\ Cardinality(K) = Len(unique.kept)
      /\ seen.keys \subseteq unique.known.keys
  <2>1. unique \in [known : Known, kept : Seq(Observations), runtime : Nat,
                    history : SUBSET Observations, dropped : Nat]
    BY <1>6 DEF SiftedInv
  <2>2. unique.kept \in Seq(Observations)
    BY <2>1
  <2>3. Len(unique.kept) \in Nat
    BY <2>2, LenProperties
  <2>4. Len(unique.kept) + (unique.runtime + unique.dropped) = Cardinality(ok)
    BY <1>4, <1>6 DEF SiftedInv
  <2>5. IsFiniteSet(K) /\ Cardinality(K) = Len(unique.kept) /\ seen.keys \subseteq unique.known.keys
    BY <1>6 DEF SiftedInv
  <2>. QED BY <2>1, <2>2, <2>3, <2>4, <2>5
<1>8. /\ K \subseteq Observations /\ K \cap Placed = {}
      /\ PlacedIn(K, unique.known.keys, stored.rows)
      /\ \A l \in unique.known.keys \ seen.keys :
           \E o \in K : o.listing = l /\ o.rev = stored.rows[l].rev
      /\ \A l \in seen.keys : stored.rows[l].rev # catalog[l].rev =>
           \E o \in K : o.listing = l /\ o.rev = stored.rows[l].rev
  BY <1>4, <1>6, KeptIsNew
<1>. HIDE DEF refused, errors
<1>9. RowsInv(catalog') /\ GrownFrom(catalog, catalog')
  BY <1>1, <1>4 DEF CapturedInv
<1>10. /\ queue \in Seq(Seq(Observations)) /\ Queued = QueuedIn(queue) /\ Queued' = QueuedIn(queue')
  BY <1>2, StateTyped DEF Queued, QueuedIn
<1>11. /\ Queued' = Queued \cup K /\ queue' \in Seq(Seq(Observations))
       /\ \/ queue' = queue
          \/ /\ unique.kept # <<>> /\ Len(queue) \in Nat
             /\ DOMAIN queue = 1..Len(queue) /\ DOMAIN queue' = 1..(Len(queue) + 1)
             /\ \A i \in 1..Len(queue) : queue'[i] = queue[i]
             /\ queue'[Len(queue) + 1] = unique.kept
  <2>1. CASE unique.kept = <<>>
    <3>1. K = {}
      BY <2>1, EmptyRange
    <3>2. queue' = queue
      BY <1>1, <2>1
    <3>. QED BY <1>10, <3>1, <3>2
  <2>2. CASE unique.kept # <<>>
    <3>1. queue' = Append(queue, unique.kept)
      BY <1>1, <2>2
    <3>. HIDE DEF K
    <3>. QED BY <1>7, <1>10, <2>2, <3>1, QueuedAppend DEF K
  <2>. QED BY <2>1, <2>2
<1>12. Handled' = Handled /\ Placed' = Placed \cup K
  BY <1>1, <1>11 DEF Handled, Placed
<1>13. /\ tally' \in Tallies
       /\ tally'.found = tally.found + Len(items)
       /\ tally'.runtime = tally.runtime + unique.runtime
       /\ tally'.history = tally.history + unique.dropped
       /\ tally'.lost = tally.lost + refused
       /\ tally'.errors = tally.errors + errors
       /\ tally.errors \in Nat /\ errors \in Nat
  <2>1. tally \in Tallies /\ errors \in Nat
    BY <1>2, <1>5, StateTyped DEF errors
  <2>2. /\ tally.found + Len(items) \in Nat /\ tally.runtime + unique.runtime \in Nat
        /\ tally.history + unique.dropped \in Nat /\ tally.lost + refused \in Nat
        /\ tally.errors \in Nat /\ tally.errors + errors \in Nat
        /\ tally.failures + failures \in Nat /\ tally.answers + answers \in Nat
    <3>1. \A m, n \in Nat : m + n \in Nat
      OBVIOUS
    <3>2. /\ tally.found \in Nat /\ tally.runtime \in Nat /\ tally.history \in Nat /\ tally.lost \in Nat
          /\ tally.errors \in Nat /\ tally.failures \in Nat /\ tally.answers \in Nat
      BY <2>1 DEF Tallies
    <3>3. failures \in Nat /\ answers \in Nat
      OBVIOUS
    <3>. HIDE DEF errors
    <3>. QED BY <1>3, <1>5, <1>7, <2>1, <3>1, <3>2, <3>3
  <2>. HIDE DEF errors
  <2>3. tally' \in Tallies
    BY <1>1, <2>1, <2>2 DEF Tallies
  <2>4. /\ tally'.found = tally.found + Len(items)
        /\ tally'.runtime = tally.runtime + unique.runtime
        /\ tally'.history = tally.history + unique.dropped
        /\ tally'.lost = tally.lost + refused
        /\ tally'.errors = tally.errors + errors
    BY <1>1, <2>1 DEF Tallies
  <2>. QED BY <2>1, <2>2, <2>3, <2>4
<1>14. PlacedInv'
  <2>1. ASSUME NEW o \in Placed'
        PROVE  /\ o.listing \in seen'.keys
               /\ o.rev =< catalog'[o.listing].rev
               /\ o.rev = catalog'[o.listing].rev => o.content = catalog'[o.listing].content
    <3>1. CASE o \in K
      BY <1>1, <1>8, <3>1 DEF PlacedIn
    <3>2. CASE o \in Placed
      <4>. DEFINE l == o.listing
      <4>1. /\ l \in seen.keys /\ o.rev =< catalog[l].rev
            /\ o.rev = catalog[l].rev => o.content = catalog[l].content
        BY <3>2 DEF IInv, PlacedInv, PlacedIn
      <4>2. l \in Listings /\ o.rev \in Nat
        BY <1>2, <3>2, StateTyped DEF Observations
      <4>3. catalog[l].rev \in Nat /\ catalog'[l].rev \in Nat
        BY <1>2, <1>9, <4>2 DEF RowsInv, Rows
      <4>4. catalog[l].rev =< catalog'[l].rev
            /\ (catalog'[l].rev = catalog[l].rev => catalog'[l].content = catalog[l].content)
        BY <1>9, <4>2 DEF GrownFrom
      <4>5. l \in seen'.keys
        BY <1>1, <1>7, <4>1
      <4>. QED BY <4>1, <4>2, <4>3, <4>4, <4>5
    <3>. QED BY <1>12, <3>1, <3>2
  <2>2. ASSUME NEW l \in seen'.keys PROVE catalog'[l].rev > 0
    <3>1. l \in Listings
      BY <1>1, <1>7 DEF Known
    <3>2. catalog[l].rev \in Nat /\ catalog'[l].rev \in Nat
      BY <1>2, <1>9, <3>1 DEF RowsInv, Rows
    <3>3. CASE l \in seen.keys
      <4>1. catalog[l].rev > 0
        BY <3>3 DEF IInv, PlacedInv
      <4>. QED BY <1>9, <3>1, <3>2, <4>1 DEF GrownFrom
    <3>4. CASE l \notin seen.keys
      <4>1. PICK o \in K : o.listing = l /\ o.rev = stored.rows[l].rev
        BY <1>1, <1>8, <3>4
      <4>2. o.rev \in Nat \ {0}
        BY <1>8 DEF Observations
      <4>. QED BY <1>1, <4>1, <4>2
    <3>. QED BY <3>3, <3>4
  <2>. QED BY <2>1, <2>2 DEF PlacedInv, PlacedIn
<1>15. ApartInv'
  <2>1. \A i, j \in DOMAIN queue' : i # j => Range(queue'[i]) \cap Range(queue'[j]) = {}
    <3>1. \A i, j \in DOMAIN queue : i # j => Range(queue[i]) \cap Range(queue[j]) = {}
      BY DEF IInv, ApartInv
    <3>2. CASE queue' = queue
      BY <3>1, <3>2
    <3>3. CASE queue' # queue
      <4>1. /\ Len(queue) \in Nat
            /\ DOMAIN queue = 1..Len(queue) /\ DOMAIN queue' = 1..(Len(queue) + 1)
            /\ \A i \in 1..Len(queue) : queue'[i] = queue[i]
            /\ Range(queue'[Len(queue) + 1]) = K
        BY <1>11, <3>3
      <4>2. \A i \in DOMAIN queue : Range(queue[i]) \cap K = {}
        BY <1>8 DEF Placed, Queued
      <4>3. ASSUME NEW i \in DOMAIN queue', NEW j \in DOMAIN queue', i # j
            PROVE  Range(queue'[i]) \cap Range(queue'[j]) = {}
        <5>1. CASE i \in DOMAIN queue /\ j \in DOMAIN queue
          BY <3>1, <4>1, <4>3, <5>1
        <5>2. CASE i = Len(queue) + 1
          <6>1. j \in DOMAIN queue
            BY <4>1, <4>3, <5>2
          <6>. QED BY <4>1, <4>2, <5>2, <6>1
        <5>3. CASE j = Len(queue) + 1
          <6>1. i \in DOMAIN queue
            BY <4>1, <4>3, <5>3
          <6>. QED BY <4>1, <4>2, <5>3, <6>1
        <5>. QED BY <4>1, <5>1, <5>2, <5>3
      <4>. QED BY <4>3
    <3>. QED BY <3>2, <3>3
  <2>2. Queued' \cap consumer'.left = {} /\ (Queued' \cup consumer'.left) \cap Handled' = {}
    BY <1>1, <1>8, <1>11, <1>12 DEF IInv, ApartInv, Placed
  <2>. QED BY <1>1, <2>1, <2>2 DEF IInv, ApartInv
<1>16. /\ IsFiniteSet(Queued') /\ Cardinality(Queued) \in Nat
       /\ Cardinality(Queued') = Cardinality(Queued) + Len(unique.kept)
  <2>1. IsFiniteSet(Queued) /\ Queued \cap K = {}
    BY <1>8 DEF IInv, FiniteInv, Placed
  <2>2. /\ IsFiniteSet(Queued \cup K) /\ Cardinality(Queued) \in Nat
        /\ Cardinality(Queued \cup K) = Cardinality(Queued) + Cardinality(K)
    BY <1>7, <2>1, Joined
  <2>. QED BY <1>7, <1>11, <2>2
<1>17. FiniteInv'
  BY <1>1, <1>16 DEF IInv, FiniteInv
<1>18. StreamInv'
  <2>1. ~closed /\ consumer.at # "end"
    BY <1>1 DEF IInv, StreamInv
  <2>2. \A i \in DOMAIN queue' : queue'[i] # <<>>
    <3>1. \A i \in DOMAIN queue : queue[i] # <<>>
      BY <2>1 DEF IInv, StreamInv
    <3>2. CASE queue' = queue
      BY <3>1, <3>2
    <3>3. CASE queue' # queue
      <4>1. /\ unique.kept # <<>> /\ Len(queue) \in Nat
            /\ DOMAIN queue = 1..Len(queue) /\ DOMAIN queue' = 1..(Len(queue) + 1)
            /\ \A i \in 1..Len(queue) : queue'[i] = queue[i]
            /\ queue'[Len(queue) + 1] = unique.kept
        BY <1>11, <3>3
      <4>. QED BY <3>1, <4>1
    <3>. QED BY <3>2, <3>3
  <2>. QED BY <1>1, <2>1, <2>2 DEF IInv, StreamInv
<1>19. WholeInv'
  <2>1. SUFFICES ASSUME tally'.errors = 0, NEW l \in seen'.keys \ outside' PROVE Covered(l)'
    BY DEF WholeInv
  <2>2. tally.errors = 0
    BY <1>13, <2>1
  <2>3. CASE \E o \in K : o.listing = l /\ o.rev = stored.rows[l].rev
    BY <1>1, <1>11, <2>3 DEF Covered
  <2>4. CASE l \in seen.keys /\ stored.rows[l].rev = catalog[l].rev
    <3>1. Covered(l)
      BY <1>1, <2>1, <2>2, <2>4 DEF IInv, WholeInv
    <3>. QED BY <1>1, <1>11, <2>4, <3>1 DEF Covered
  <2>. QED BY <1>1, <1>8, <2>1, <2>3, <2>4
<1>20. Accounted'
  <2>. DEFINE rest == Cardinality(fate.filtered) + Cardinality(fate.unanalysed)
                      + (Cardinality(fate.saved) + Cardinality(fate.unsaved))
  <2>1. /\ Cardinality(fate.filtered) \in Nat /\ Cardinality(fate.unanalysed) \in Nat
        /\ Cardinality(fate.saved) \in Nat /\ Cardinality(fate.unsaved) \in Nat
        /\ Cardinality(consumer.left) \in Nat
    BY FS_CardinalityType DEF IInv, FiniteInv
  <2>2. /\ tally.found \in Nat /\ tally.runtime \in Nat /\ tally.history \in Nat /\ tally.lost \in Nat
    BY <1>2, StateTyped DEF Tallies
  <2>3. rest \in Nat
    BY <2>1
  <2>4. tally.found = (tally.runtime + tally.history) + tally.lost
                      + (Cardinality(Queued) + Cardinality(consumer.left)) + rest
    <3>1. \A a, f, u, s \in Nat : a + f + u + s = a + (f + u + s)
      OBVIOUS
    <3>2. tally.found = (tally.runtime + tally.history) + tally.lost
                      + (Cardinality(Queued) + Cardinality(consumer.left))
                      + Cardinality(fate.filtered) + Cardinality(fate.unanalysed)
                      + (Cardinality(fate.saved) + Cardinality(fate.unsaved))
      BY DEF IInv, Accounted, Duplicates, InFlight, Analysed
    <3>3. \A m, n \in Nat : m + n \in Nat
      OBVIOUS
    <3>4. /\ (tally.runtime + tally.history) + tally.lost
             + (Cardinality(Queued) + Cardinality(consumer.left)) \in Nat
          /\ Cardinality(fate.saved) + Cardinality(fate.unsaved) \in Nat
      BY <1>16, <2>1, <2>2, <3>3
    <3>. QED BY <2>1, <3>1, <3>2, <3>4 DEF rest
  <2>. HIDE DEF rest
  <2>5. tally.found + Len(items) =
          ((tally.runtime + unique.runtime) + (tally.history + unique.dropped))
          + (tally.lost + (Len(items) - Cardinality(ok)))
          + ((Cardinality(Queued) + Len(unique.kept)) + Cardinality(consumer.left)) + rest
    <3>. DEFINE all == Len(items)
                new == Len(unique.kept)
                taken == Cardinality(ok)
                waiting == Cardinality(Queued)
                held == Cardinality(consumer.left)
                found == tally.found
                runtime == tally.runtime
                history == tally.history
                lost == tally.lost
                known == unique.runtime
                dropped == unique.dropped
    <3>1. /\ all \in Nat /\ new \in Nat /\ taken \in Nat /\ waiting \in Nat /\ held \in Nat
          /\ found \in Nat /\ runtime \in Nat /\ history \in Nat /\ lost \in Nat
          /\ known \in Nat /\ dropped \in Nat
      BY <1>3, <1>5, <1>7, <1>16, <2>1, <2>2
    <3>2. /\ new + (known + dropped) = taken
          /\ found = (runtime + history) + lost + (waiting + held) + rest
      BY <1>7, <2>4
    <3>. HIDE DEF all, new, taken, waiting, held, found, runtime, history, lost, known, dropped
    <3>3. found + all = ((runtime + known) + (history + dropped)) + (lost + (all - taken))
                        + ((waiting + new) + held) + rest
      BY <2>3, <3>1, <3>2, TakenInAddsUp
    <3>. QED BY <3>3 DEF all, new, taken, waiting, held, found, runtime, history, lost,
       known, dropped
  <2>6. tally'.found = Duplicates' + tally'.lost + InFlight' + rest
    BY <1>1, <1>13, <1>16, <2>5 DEF Duplicates, InFlight, refused
  <2>7. Duplicates' + tally'.lost + InFlight' \in Nat
    <3>1. Duplicates' \in Nat /\ tally'.lost \in Nat
      BY <1>13 DEF Duplicates, Tallies
    <3>2. InFlight' \in Nat
      <4>1. \A m, n \in Nat : m + n \in Nat
        OBVIOUS
      <4>2. InFlight' = (Cardinality(Queued) + Len(unique.kept)) + Cardinality(consumer.left)
        BY <1>1, <1>16 DEF InFlight
      <4>. QED BY <1>7, <1>16, <2>1, <4>1, <4>2
    <3>. QED BY <3>1, <3>2
  <2>8. \A a, f, u, s \in Nat : a + (f + u + s) = a + f + u + s
    OBVIOUS
  <2>9. Duplicates' + tally'.lost + InFlight' + rest
          = Duplicates' + tally'.lost + InFlight'
            + Cardinality(fate.filtered) + Cardinality(fate.unanalysed)
            + (Cardinality(fate.saved) + Cardinality(fate.unsaved))
    <3>. DEFINE a == Duplicates' + tally'.lost + InFlight'
                f == Cardinality(fate.filtered)
                u == Cardinality(fate.unanalysed)
                s == Cardinality(fate.saved) + Cardinality(fate.unsaved)
    <3>1. a \in Nat /\ f \in Nat /\ u \in Nat /\ s \in Nat
      BY <2>1, <2>7
    <3>2. rest = f + u + s
      BY DEF rest
    <3>. HIDE DEF a, f, u, s, rest
    <3>3. a + rest = a + f + u + s
      BY <2>8, <3>1, <3>2
    <3>. QED BY <3>3 DEF a, f, u, s
  <2>. QED BY <1>1, <2>6, <2>9 DEF Accounted, Analysed
<1>21. TypeOK'
  <2>1. \A l \in Listings : job'[l] =< catalog'[l].rev
    <3>1. \A l \in Listings : /\ catalog[l].rev =< catalog'[l].rev
                              /\ catalog[l].rev \in Nat /\ catalog'[l].rev \in Nat
      BY <1>2, <1>9 DEF GrownFrom, RowsInv, Rows
    <3>2. \A l \in Listings : job[l] \in Nat /\ job[l] =< catalog[l].rev
      BY <1>2 DEF TypeOK
    <3>. QED BY <1>1, <3>1, <3>2
  <2>2. faults' \in 0..MaxFaults
    <3>1. failures + refused \in Nat
      BY <1>5 DEF refused
    <3>2. faults \in Nat /\ MaxFaults \in Nat
      BY <1>2 DEF TypeOK, PipelineAssumption
    <3>. DEFINE n == failures + refused
    <3>3. faults' = faults + n /\ n \in Nat /\ faults' =< MaxFaults
      BY <1>1, <3>1
    <3>. HIDE DEF n
    <3>. QED BY <3>2, <3>3
  <2>3. /\ catalog' \in [Listings -> Rows]
        /\ \A l \in Listings : catalog'[l].rev = 0 <=> catalog'[l] = Unseen
    BY <1>9 DEF RowsInv
  <2>4. query' \in [Queries -> {"waiting", "active", "settled"}]
    BY <1>1, <1>2 DEF TypeOK
  <2>5. repeats' \subseteq Observations
    BY <1>1, <1>2, <1>7 DEF TypeOK
  <2>6. seen' \in Known
    BY <1>1, <1>7
  <2>. QED BY <1>1, <1>2, <1>11, <1>13, <2>1, <2>2, <2>3, <2>4, <2>5, <2>6 DEF TypeOK, Known
<1>. QED BY <1>9, <1>14, <1>15, <1>17, <1>18, <1>19, <1>20, <1>21 DEF IInv

-----------------------------------------------------------------------------
(* Every step                                                              *)

\* An item the model enumerates is a step of the run with its operands in range.
LEMMA NextInv ==
  ASSUME PipelineAssumption, IInv, [Next]_vars
  PROVE  IInv'
<1>1. CASE \E plan \in {{}, Queries} : Begin(plan)
  <2>1. PICK plan \in {{}, Queries} : Begin(plan)
    BY <1>1
  <2>2. plan \in SUBSET Queries
    OBVIOUS
  <2>. QED BY <2>1, <2>2, BeginInv
<1>2. CASE RunStep
  <2>1. CASE \E q \in Queries : StartQuery(q)
    BY <2>1, StartQueryInv
  <2>2. CASE \E q \in Queries, items \in Items, failures, answers \in 0..1 :
               \E ok \in SUBSET DOMAIN items : SettleQuery(q, items, ok, failures, answers)
    BY <2>2, SettleQueryInv
  <2>3. CASE CloseStream
    BY <2>3, CloseStreamInv
  <2>4. CASE TakeBatch
    BY <2>4, TakeBatchInv
  <2>5. CASE \E kept \in SUBSET consumer.left, normalizes, open \in BOOLEAN :
               Filter(kept, normalizes, open)
    BY <2>5, FilterInv
  <2>6. CASE \E answered \in SUBSET consumer.left : Analyse(answered)
    BY <2>6, AnalyseInv
  <2>7. CASE \E o \in consumer.left, fails \in BOOLEAN : Save(o, fails)
    BY <2>7, SaveInv
  <2>8. CASE Finish
    BY <2>8, FinishInv
  <2>. QED BY <1>2, <2>1, <2>2, <2>3, <2>4, <2>5, <2>6, <2>7, <2>8 DEF RunStep
<1>3. CASE Interrupt
  BY <1>3, InterruptInv
<1>4. CASE \E l \in Listings, c \in Contents : OtherObserves(l, c)
  BY <1>4, OtherObservesInv
<1>5. CASE UNCHANGED vars
  BY <1>5, StutterInv
<1>. QED BY <1>1, <1>2, <1>3, <1>4, <1>5 DEF Next

\* The invariant holds in every behaviour.
LEMMA Inductive == Spec => []IInv
<1>1. Init => IInv
  BY PipelineAssumption, InitInv
<1>2. IInv /\ [Next]_vars => IInv'
  BY PipelineAssumption, NextInv
<1>. QED BY <1>1, <1>2, PTL DEF Spec

-----------------------------------------------------------------------------
(* Theorems                                                                *)

\* The catalogue, the run's counters, the queue and the consumer always hold
\* values of their types, and no Job is of a revision its row has not reached.
THEOREM TypeCorrect == Spec => []TypeOK
<1>1. IInv => TypeOK
  BY DEF IInv
<1>. QED BY <1>1, Inductive, PTL

\* A row's text changes only with its revision, and no revision comes back
\* (upsert_scraped_job): what a normalization or an analysis was made of can be
\* told from the revision alone.
THEOREM RevisionsOnlyGrow == Spec => [][GrownFrom(catalog, catalog')]_vars
<1>1. IInv /\ [Next]_vars => [GrownFrom(catalog, catalog')]_vars
  <2>. SUFFICES ASSUME IInv, Next PROVE GrownFrom(catalog, catalog')
    OBVIOUS
  <2>1. CASE catalog' = catalog
    BY <2>1, NotGrown
  <2>2. CASE \E q \in Queries, items \in Items, failures, answers \in 0..1 :
               \E ok \in SUBSET DOMAIN items : SettleQuery(q, items, ok, failures, answers)
    <3>1. PICK q \in Queries, items \in Items, failures, answers \in 0..1 :
                 \E ok \in SUBSET DOMAIN items : SettleQuery(q, items, ok, failures, answers)
      BY <2>2
    <3>2. PICK ok \in SUBSET DOMAIN items : SettleQuery(q, items, ok, failures, answers)
      BY <3>1
    <3>3. items \in Seq([listing : Listings, content : Contents]) /\ DOMAIN items = 1..Len(items)
      <4>1. tally.found \in Nat
        BY StateTyped DEF IInv, Tallies
      <4>2. MaxFound - tally.found \in Int
        BY <4>1, PipelineAssumption DEF PipelineAssumption
      <4>. QED BY <4>2, SeqOfTyped DEF Items
    <3>4. CapturedInv(Catalogued(items, ok))
      BY <3>3, PipelineAssumption, CataloguedProperties DEF IInv
    <3>5. catalog' = Catalogued(items, ok).rows
      BY <3>2 DEF SettleQuery
    <3>. QED BY <3>4, <3>5 DEF CapturedInv
  <2>3. CASE \E kept \in SUBSET consumer.left, normalizes, open \in BOOLEAN :
               Filter(kept, normalizes, open)
    <3>1. catalog' = Normalized(catalog) \/ catalog' = catalog
      BY <2>3 DEF Filter
    <3>2. CASE catalog' = Normalized(catalog)
      <4>1. ASSUME NEW l \in Listings
            PROVE  catalog'[l].rev = catalog[l].rev /\ catalog'[l].content = catalog[l].content
                   /\ catalog[l].rev \in Nat
        <5>1. catalog[l] \in Rows
          BY DEF IInv, RowsInv
        <5>2. catalog'[l] \in {catalog[l], [catalog[l] EXCEPT !.normalized = consumer.captured[l]]}
          BY <3>2 DEF Normalized
        <5>. QED BY <5>1, <5>2 DEF Rows
      <4>. QED BY <4>1 DEF GrownFrom
    <3>. QED BY <2>1, <3>1, <3>2
  <2>4. CASE \E l \in Listings, c \in Contents : OtherObserves(l, c)
    <3>1. PICK l \in Listings, c \in Contents : OtherObserves(l, c)
      BY <2>4
    <3>. DEFINE row == Upsert(catalog[l], c)
    <3>2. \A k \in Listings : /\ catalog[k] \in Rows /\ catalog[k].rev \in Nat
                              /\ catalog[k].rev = 0 <=> catalog[k] = Unseen
                              /\ catalog[k].normalized \in {0, catalog[k].rev}
      BY DEF IInv, RowsInv, Rows
    <3>3. row.rev = catalog[l].rev + 1 \/ row = catalog[l]
      BY <3>2, PipelineAssumption, UpsertProperties
    <3>4. catalog' = [catalog EXCEPT ![l] = row] /\ catalog \in [Listings -> Rows]
      BY <3>1 DEF OtherObserves, IInv, RowsInv
    <3>. HIDE DEF row
    <3>5. ASSUME NEW k \in Listings
          PROVE  /\ catalog[k].rev =< catalog'[k].rev
                 /\ catalog'[k].rev = catalog[k].rev => catalog'[k].content = catalog[k].content
      <4>1. CASE k = l
        BY <3>2, <3>3, <3>4, <4>1
      <4>2. CASE k # l
        BY <3>2, <3>4, <4>2
      <4>. QED BY <4>1, <4>2
    <3>. QED BY <3>5 DEF GrownFrom
  <2>5. CASE \/ \E plan \in {{}, Queries} : Begin(plan)
             \/ \E q \in Queries : StartQuery(q)
             \/ CloseStream \/ TakeBatch \/ Finish \/ Interrupt
             \/ \E answered \in SUBSET consumer.left : Analyse(answered)
             \/ \E o \in consumer.left, fails \in BOOLEAN : Save(o, fails)
    <3>1. catalog' = catalog
      BY <2>5 DEF Begin, StartQuery, CloseStream, TakeBatch, Finish, Interrupt, Analyse,
         Save, durable
    <3>. QED BY <2>1, <3>1
  <2>. QED BY <2>2, <2>3, <2>4, <2>5 DEF Next, RunStep
<1>. QED BY <1>1, Inductive, PTL DEF Spec

\* A row's normalization is of the row's own revision and a Job takes an analysis
\* of the current one only, whatever was observed while the model calls were
\* awaited (normalize_persisted_jobs, save_single_job).
THEOREM ResultsStayCurrent == Spec => ResultsAreCurrent
<1>1. IInv => \A l \in Listings : catalog[l].normalized \in {0, catalog[l].rev}
  BY DEF IInv, RowsInv
<1>2. IInv /\ [Next]_vars => [\A l \in Listings : job'[l] # job[l] => job'[l] = catalog[l].rev]_vars
  <2>. SUFFICES ASSUME IInv, Next, NEW l \in Listings, job'[l] # job[l] PROVE job'[l] = catalog[l].rev
    OBVIOUS
  <2>. DEFINE Answered == \E answered \in SUBSET consumer.left : Analyse(answered)
              Filtered == \E kept \in SUBSET consumer.left, normalizes, open \in BOOLEAN :
                            Filter(kept, normalizes, open)
              Settled == \E q \in Queries, items \in Items, failures, answers \in 0..1 :
                           \E ok \in SUBSET DOMAIN items : SettleQuery(q, items, ok, failures, answers)
              Saved == \E o \in consumer.left, fails \in BOOLEAN : Save(o, fails)
  <2>1. ~Answered /\ ~Filtered /\ ~Settled
    <3>1. ASSUME NEW kept \in SUBSET consumer.left, NEW normalizes, NEW open, Filter(kept, normalizes, open)
          PROVE  job' = job
      BY <3>1 DEF Filter
    <3>2. ASSUME NEW answered, Analyse(answered) PROVE job' = job
      BY <3>2 DEF Analyse, durable
    <3>3. ASSUME NEW q, NEW items, NEW ok, NEW failures, NEW answers,
                 SettleQuery(q, items, ok, failures, answers)
          PROVE  job' = job
      BY <3>3 DEF SettleQuery
    <3>. QED BY <3>1, <3>2, <3>3
  <2>2. /\ \A plan \in {{}, Queries} : ~Begin(plan)
        /\ \A q \in Queries : ~StartQuery(q)
        /\ ~CloseStream /\ ~TakeBatch /\ ~Finish /\ ~Interrupt
        /\ \A k \in Listings, c \in Contents : ~OtherObserves(k, c)
    BY DEF Begin, StartQuery, CloseStream, TakeBatch, Finish, Interrupt, OtherObserves,
       durable
  <2>3. Saved
    BY <2>1, <2>2 DEF Next, RunStep
  <2>4. PICK o \in consumer.left, fails \in BOOLEAN : Save(o, fails)
    BY <2>3
  <2>5. job' = [job EXCEPT ![o.listing] = o.rev] /\ Current(o)
    BY <2>4 DEF Save
  <2>6. job \in [Listings -> Nat]
    BY StateTyped DEF IInv
  <2>. QED BY <2>5, <2>6 DEF Current
<1>. QED BY <1>1, <1>2, Inductive, PTL DEF Spec, ResultsAreCurrent

\* The counters a receipt shows add up: every listing the providers returned is in
\* one place, however the batches of the queries and the exits of the pipeline
\* interleave (_run_pipeline, _processing_consumer).
THEOREM CountersAddUp == Spec => []Accounted
<1>1. IInv => Accounted
  BY DEF IInv
<1>. QED BY <1>1, Inductive, PTL

\* A run that ends "done" without an error has left no listing behind that nobody
\* else has changed meanwhile (_run_pipeline's terminal classification).
THEOREM DoneLeavesNothing == Spec => []DoneIsWhole
<1>1. IInv => DoneIsWhole
  <2>. SUFFICES ASSUME IInv, phase = "done", tally.errors = 0, NEW l \in seen.keys, l \notin outside
       PROVE  \/ job[l] = catalog[l].rev
              \/ \E o \in fate.filtered : o.listing = l /\ o.rev = catalog[l].rev
    BY DEF DoneIsWhole
  <2>1. Covered(l)
    BY DEF IInv, WholeInv
  <2>2. queue = <<>> /\ consumer.left = {}
    BY DEF IInv, StreamInv
  <2>3. Queued = {}
    BY <2>2, EmptyRange DEF Queued, QueuedIn
  <2>. QED BY <2>1, <2>2, <2>3 DEF Covered
<1>. QED BY <1>1, Inductive, PTL

\* The guards of the run's own steps; NeverStuck says the same with ENABLED.
CanGoOn ==
  \/ \E q \in Queries : \/ query[q] = "active"
                        \/ /\ query[q] = "waiting"
                           /\ Cardinality({p \in Queries : query[p] = "active"}) < Concurrency
  \/ ~closed /\ \A q \in Queries : query[q] = "settled"
  \/ consumer.at = "get" /\ queue # <<>>
  \/ consumer.at \in {"normalize", "analyze"}
  \/ consumer.at = "save" /\ \E o \in consumer.left : IsNext(o)
  \/ consumer.at = "end" /\ closed

\* While a run streams, the guard of one of its own steps holds: a query that can
\* start or settle, the end of the stream that is due, or the consumer with
\* something to take, to work on or to return from (_search_and_produce,
\* _processing_consumer).
THEOREM SomeoneCanGoOn == Spec => [](phase = "streaming" => CanGoOn)
<1>1. IInv => (phase = "streaming" => CanGoOn)
  <2>. SUFFICES ASSUME IInv, phase = "streaming", ~CanGoOn PROVE FALSE
    OBVIOUS
  <2>1. \A q \in Queries : query[q] = "settled"
    <3>1. \A q \in Queries : query[q] # "active"
      BY DEF CanGoOn
    <3>2. {p \in Queries : query[p] = "active"} = {} /\ Cardinality({}) = 0
      BY <3>1, FS_EmptySet
    <3>3. Cardinality({p \in Queries : query[p] = "active"}) < Concurrency
      BY <3>2, PipelineAssumption DEF PipelineAssumption
    <3>4. \A q \in Queries : query[q] # "waiting"
      BY <3>3 DEF CanGoOn
    <3>. QED BY <3>1, <3>4 DEF IInv, TypeOK
  <2>2. closed
    BY <2>1 DEF CanGoOn
  <2>3. consumer.at \notin {"get", "end"}
    BY <2>2 DEF IInv, StreamInv, CanGoOn
  <2>4. consumer.at = "save" /\ consumer.left # {}
    <3>1. consumer.at \in Stages
      BY StateTyped DEF IInv, ConsumerState
    <3>. QED BY <2>3, <3>1 DEF CanGoOn, Stages, IInv, StreamInv
  <2>. DEFINE batch == consumer.batch
              places == {i \in 1..Len(batch) : batch[i] \in consumer.left}
  <2>5. batch \in Seq(Observations) /\ Len(batch) \in Nat /\ DOMAIN batch = 1..Len(batch)
        /\ consumer.left \subseteq Range(batch)
    BY StateTyped, LenProperties DEF IInv
  <2>6. places \in SUBSET Nat /\ places # {}
    BY <2>4, <2>5 DEF Range
  <2>7. PICK i \in places : \A j \in places : i =< j
    <3>. HIDE DEF places
    <3>. QED BY <2>6, LeastNumber
  <2>8. IsNext(batch[i])
    <3>1. i \in 1..Len(batch) /\ batch[i] \in consumer.left
      BY <2>7
    <3>2. \A j \in 1..(i - 1) : batch[j] \notin consumer.left
      BY <2>5, <2>7
    <3>. QED BY <2>5, <3>1, <3>2 DEF IsNext
  <2>. QED BY <2>4, <2>7, <2>8 DEF CanGoOn
<1>. QED BY <1>1, Inductive, PTL
=============================================================================
