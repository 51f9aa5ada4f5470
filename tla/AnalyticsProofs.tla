--------------------------- MODULE AnalyticsProofs ---------------------------
(***************************************************************************)
(* Proofs about what is concluded from the histories of tickets            *)
(* (IssueHistory), for any tickets, edits and synchronizations, and from   *)
(* the tickets of a sprint (SprintDelivery).                               *)
(***************************************************************************)
EXTENDS IssueHistory, SprintDelivery, FiniteSetTheorems, TLAPS

-----------------------------------------------------------------------------
(* Numbers and finite sets.                                                *)

LEMMA SmallestOf ==
  ASSUME NEW S \in SUBSET Nat, S # {}
  PROVE  \E m \in S : \A n \in S : m <= n
<1> DEFINE T == {0 .. n : n \in S}
<1>1. T \subseteq FiniteSubsetsOf(Nat) /\ T # {}
  <2>1. \A n \in S : 0 .. n \in SUBSET Nat /\ IsFiniteSet(0 .. n)
    BY FS_Interval
  <2> QED
    BY <2>1 DEF FiniteSubsetsOf
<1>2. \E x \in T : \A y \in T : ~ (<<y, x>> \in StrictSubsetOrdering(Nat))
  BY <1>1, FS_StrictSubsetOrderingWellFounded, WFMin
<1>3. PICK m \in S : \A n \in S : ~ (<<0 .. n, 0 .. m>> \in StrictSubsetOrdering(Nat))
  BY <1>2
<1>4. ASSUME NEW n \in S, n < m
      PROVE  FALSE
  <2>1. m \in 0 .. m /\ m \notin 0 .. n
    BY <1>4
  <2>2. 0 .. n \in SUBSET Nat /\ 0 .. m \in SUBSET Nat /\ 0 .. n \subseteq 0 .. m
    BY <1>4
  <2> QED
    BY <2>1, <2>2, <1>3 DEF StrictSubsetOrdering
<1> QED
  BY <1>4

LEMMA GreatestOf ==
  ASSUME NEW S \in SUBSET Nat, S # {}, NEW n \in Nat, \A k \in S : k <= n
  PROVE  \E m \in S : \A k \in S : m >= k
<1> DEFINE T == {n - k : k \in S}
<1>1. T \in SUBSET Nat
  OBVIOUS
<1>2. T # {}
  <2>1. PICK k \in S : TRUE
    OBVIOUS
  <2>2. n - k \in T
    BY <2>1
  <2> QED
    BY <2>2
<1>3. \E m \in T : \A k \in T : m <= k
  <2> HIDE DEF T
  <2> QED
    BY <1>1, <1>2, SmallestOf
<1>4. PICK m \in S : \A k \in S : n - m <= n - k
  BY <1>3
<1>5. \A k \in S : m >= k
  BY <1>4
<1> QED
  BY <1>5

(* Induction over a set of numbers, and over finite sets.                  *)
LEMMA EveryNumber ==
  ASSUME NEW P, 0 \in P, \A n \in Nat : n \in P => n + 1 \in P
  PROVE  Nat \subseteq P
<1>1. SUFFICES ASSUME Nat \ P # {}
               PROVE  FALSE
  OBVIOUS
<1>2. PICK m \in Nat \ P : \A n \in Nat \ P : m <= n
  BY <1>1, SmallestOf
<1>3. m - 1 \in Nat /\ m - 1 \in P
  BY <1>2
<1> QED
  BY <1>2, <1>3

LEMMA EverySubset ==
  ASSUME NEW S, IsFiniteSet(S), NEW P, {} \in P,
         \A T \in SUBSET S : T # {} /\ (\A x \in T : T \ {x} \in P) => T \in P
  PROVE  S \in P
<1>1. SUFFICES ASSUME S \notin P
               PROVE  FALSE
  OBVIOUS
<1> DEFINE bad == {T \in SUBSET S : T \notin P}
<1>2. bad \subseteq FiniteSubsetsOf(S) /\ bad # {}
  BY <1>1, FS_FiniteSubsetsOfFinite
<1>3. \E T \in bad : \A U \in bad : ~ (<<U, T>> \in StrictSubsetOrdering(S))
  <2> HIDE DEF bad
  <2> QED
    BY <1>2, FS_StrictSubsetOrderingWellFounded, WFMin
<1>4. PICK T \in bad : \A U \in bad : ~ (<<U, T>> \in StrictSubsetOrdering(S))
  BY <1>3
<1>5. ASSUME NEW x \in T
      PROVE  T \ {x} \in P
  <2>1. T \ {x} \in SUBSET S /\ <<T \ {x}, T>> \in StrictSubsetOrdering(S)
    BY <1>4, <1>5 DEF StrictSubsetOrdering
  <2> QED
    BY <1>4, <2>1
<1>6. T # {} /\ T \in SUBSET S /\ T \notin P
  BY <1>4
<1> QED
  BY <1>5, <1>6

LEMMA MinOfNumbers ==
  ASSUME NEW S \in SUBSET Nat, S # {}
  PROVE  Min(S) \in S /\ \A n \in S : Min(S) <= n
BY SmallestOf DEF Min

LEMMA MaxOfNumbers ==
  ASSUME NEW S \in SUBSET Nat, S # {}, NEW n \in Nat, \A m \in S : m <= n
  PROVE  Max(S) \in S /\ \A m \in S : Max(S) >= m
BY GreatestOf DEF Max

LEMMA MinIs ==
  ASSUME NEW S \in SUBSET Int, NEW m \in S, \A n \in S : m <= n
  PROVE  Min(S) = m
<1> DEFINE least == Min(S)
<1>1. least \in S /\ \A n \in S : least <= n
  BY DEF Min
<1> HIDE DEF least
<1>2. least <= m /\ m <= least /\ m \in Int /\ least \in Int
  BY <1>1
<1>3. least = m
  BY <1>2
<1> QED
  BY <1>3 DEF least

LEMMA MaxIs ==
  ASSUME NEW S \in SUBSET Int, NEW m \in S, \A n \in S : m >= n
  PROVE  Max(S) = m
<1> DEFINE greatest == Max(S)
<1>1. greatest \in S /\ \A n \in S : greatest >= n
  BY DEF Max
<1> HIDE DEF greatest
<1>2. greatest >= m /\ m >= greatest /\ m \in Int /\ greatest \in Int
  BY <1>1
<1>3. greatest = m
  BY <1>2
<1> QED
  BY <1>3 DEF greatest

-----------------------------------------------------------------------------
(* A ticket and its changelog.                                             *)

TextsOf(t) == {t[f] : f \in Fields}
NewTexts == UNION {TextsOf(t) : t \in NewTickets}
GivenTexts == UNION {Values(f) : f \in Fields}
Texts == GivenTexts \cup NewTexts
HistoryEntry == [field : Fields, old : Texts, new : Texts, at : Nat]

Follows(h, i, j) ==
  /\ i < j /\ h[i].field = h[j].field
  /\ \A m \in DOMAIN h : h[m].field = h[i].field => m <= i \/ j <= m
Newest(h, i) == \A m \in DOMAIN h : h[m].field = h[i].field => m <= i

IsTicket(t) ==
  /\ DOMAIN t = Fields \cup {"created"}
  /\ \A f \in Fields : t[f] \in Texts
  /\ t.created \in Int
  /\ t.release \in BOOLEAN /\ t.earlier \in BOOLEAN /\ t.sprint \in BOOLEAN

(* Every entry found what the one before it left, the ticket has what the  *)
(* newest left, and no field is changed twice at the same time.            *)
Ordered(h) ==
  \A i, j \in DOMAIN h : i < j =>
    /\ h[i].at <= h[j].at
    /\ h[i].field = h[j].field => h[i].at < h[j].at
Linked(h) == \A i, j \in DOMAIN h : Follows(h, i, j) => h[j].old = h[i].new
Current(t, h) == \A i \in DOMAIN h : Newest(h, i) => t[h[i].field] = h[i].new
Lasting(t, h) == \A i \in DOMAIN h : h[i].old # h[i].new /\ t.created < h[i].at

Chained(t, h) == Ordered(h) /\ Linked(h) /\ Current(t, h) /\ Lasting(t, h)

LEMMA ChainGrows ==
  ASSUME NEW t, IsTicket(t), NEW h \in Seq(HistoryEntry), Chained(t, h),
         NEW e \in HistoryEntry, e.old = t[e.field], e.new # e.old, t.created < e.at,
         \A i \in DOMAIN h : /\ h[i].at <= e.at
                             /\ h[i].field = e.field => h[i].at < e.at,
         NEW u, u = [t EXCEPT ![e.field] = e.new],
         NEW g, g = Append(h, e)
  PROVE  Chained(u, g)
<1> DEFINE n == Len(h) + 1
<1>1. /\ n \in Nat /\ DOMAIN g = 1 .. n /\ g[n] = e
      /\ DOMAIN h = 1 .. (n - 1)
      /\ \A i \in DOMAIN h : g[i] = h[i] /\ i \in DOMAIN g /\ i < n
      /\ \A i \in DOMAIN g : i = n \/ i \in DOMAIN h
  OBVIOUS
<1> HIDE DEF n
<1>2. \A i \in DOMAIN g : g[i] \in HistoryEntry
  BY <1>1
<1>3. Ordered(g)
  <2>1. ASSUME NEW i \in DOMAIN g, NEW j \in DOMAIN g, i < j
        PROVE  /\ g[i].at <= g[j].at
               /\ g[i].field = g[j].field => g[i].at < g[j].at
    <3>1. i \in DOMAIN h
      BY <1>1, <2>1
    <3>2. CASE j = n
      BY <1>1, <3>1, <3>2
    <3>3. CASE j \in DOMAIN h
      BY <1>1, <2>1, <3>1, <3>3 DEF Chained, Ordered
    <3> QED
      BY <1>1, <3>2, <3>3
  <2> QED
    BY <2>1 DEF Ordered
<1>4. Linked(g)
  <2>1. ASSUME NEW i \in DOMAIN g, NEW j \in DOMAIN g, Follows(g, i, j)
        PROVE  g[j].old = g[i].new
    <3>1. i \in DOMAIN h
      BY <1>1, <2>1 DEF Follows
    <3>2. CASE j = n
      <4>1. Newest(h, i) /\ h[i].field = e.field
        BY <1>1, <2>1, <3>1, <3>2 DEF Follows, Newest
      <4> QED
        BY <1>1, <3>1, <3>2, <4>1 DEF Chained, Current
    <3>3. CASE j \in DOMAIN h
      <4>1. Follows(h, i, j)
        BY <1>1, <2>1, <3>1, <3>3 DEF Follows
      <4> QED
        BY <1>1, <3>1, <3>3, <4>1 DEF Chained, Linked
    <3> QED
      BY <1>1, <3>2, <3>3
  <2> QED
    BY <2>1 DEF Linked
<1>5. Current(u, g)
  <2>1. ASSUME NEW i \in DOMAIN g, Newest(g, i)
        PROVE  u[g[i].field] = g[i].new
    <3>1. CASE i = n
      BY <1>1, <3>1 DEF IsTicket, HistoryEntry
    <3>2. CASE i \in DOMAIN h
      <4>1. h[i].field # e.field
        BY <1>1, <2>1, <3>2 DEF Newest
      <4>2. Newest(h, i)
        BY <1>1, <2>1, <3>2 DEF Newest
      <4>3. t[h[i].field] = h[i].new
        BY <3>2, <4>2 DEF Chained, Current
      <4>4. h[i] \in HistoryEntry
        BY <3>2
      <4>5. h[i].field \in DOMAIN t
        BY <4>4 DEF IsTicket, HistoryEntry
      <4> QED
        BY <1>1, <3>2, <4>1, <4>3, <4>5
    <3> QED
      BY <1>1, <3>1, <3>2
  <2> QED
    BY <2>1 DEF Current
<1>6. Lasting(u, g)
  <2>1. u.created = t.created
    BY DEF IsTicket, HistoryEntry, Fields
  <2> QED
    BY <1>1, <2>1 DEF Chained, Lasting
<1> QED
  BY <1>3, <1>4, <1>5, <1>6 DEF Chained

(* What a field held after the first entries of a changelog.               *)
Of(h, f) == {i \in DOMAIN h : h[i].field = f}
UpTo(h, f, c) == {i \in Of(h, f) : i <= c}
After(t, h, f, c) ==
  IF UpTo(h, f, c) # {} THEN h[Max(UpTo(h, f, c))].new
  ELSE IF Of(h, f) # {} THEN h[Min(Of(h, f))].old ELSE t[f]

LEMMA OfFacts ==
  ASSUME NEW h \in Seq(HistoryEntry), NEW f
  PROVE  /\ Of(h, f) \in SUBSET Nat
         /\ Of(h, f) # {} => /\ Min(Of(h, f)) \in Of(h, f)
                             /\ \A i \in Of(h, f) : Min(Of(h, f)) <= i
         /\ \A c : UpTo(h, f, c) # {} => /\ Max(UpTo(h, f, c)) \in UpTo(h, f, c)
                                         /\ \A i \in UpTo(h, f, c) : Max(UpTo(h, f, c)) >= i
<1>1. Of(h, f) \in SUBSET Nat /\ \A i \in Of(h, f) : i <= Len(h)
  BY DEF Of
<1>2. Len(h) \in Nat
  OBVIOUS
<1>3. ASSUME NEW c, UpTo(h, f, c) # {}
      PROVE  /\ Max(UpTo(h, f, c)) \in UpTo(h, f, c)
             /\ \A i \in UpTo(h, f, c) : Max(UpTo(h, f, c)) >= i
  <2> DEFINE S == UpTo(h, f, c)
  <2>1. S \in SUBSET Nat /\ S # {} /\ \A i \in S : i <= Len(h)
    BY <1>1, <1>3 DEF UpTo
  <2> HIDE DEF S
  <2>2. Max(S) \in S /\ \A i \in S : Max(S) >= i
    BY <1>2, <2>1, MaxOfNumbers
  <2> QED
    BY <2>2 DEF S
<1>4. ASSUME Of(h, f) # {}
      PROVE  Min(Of(h, f)) \in Of(h, f) /\ \A i \in Of(h, f) : Min(Of(h, f)) <= i
  <2> DEFINE S == Of(h, f)
  <2>1. S \in SUBSET Nat /\ S # {}
    BY <1>1, <1>4
  <2> HIDE DEF S
  <2>2. Min(S) \in S /\ \A i \in S : Min(S) <= i
    BY <2>1, MinOfNumbers
  <2> QED
    BY <2>2 DEF S
<1> QED
  BY <1>1, <1>3, <1>4

LEMMA AfterAll ==
  ASSUME NEW t, IsTicket(t), NEW h \in Seq(HistoryEntry), Chained(t, h), NEW f \in Fields
  PROVE  After(t, h, f, Len(h)) = t[f]
<1>1. UpTo(h, f, Len(h)) = Of(h, f)
  BY DEF UpTo, Of
<1>2. CASE Of(h, f) = {}
  BY <1>1, <1>2 DEF After
<1>3. CASE Of(h, f) # {}
  <2> DEFINE m == Max(Of(h, f))
  <2>1. m \in Of(h, f) /\ \A i \in Of(h, f) : m >= i
    BY <1>1, <1>3, OfFacts
  <2>2. After(t, h, f, Len(h)) = h[m].new
    BY <1>1, <1>3 DEF After
  <2> HIDE DEF m
  <2>3. Newest(h, m) /\ m \in DOMAIN h /\ h[m].field = f
    BY <2>1 DEF Newest, Of
  <2> QED
    BY <2>2, <2>3 DEF Chained, Current
<1> QED
  BY <1>2, <1>3

LEMMA AfterStep ==
  ASSUME NEW t, IsTicket(t), NEW h \in Seq(HistoryEntry), Chained(t, h), NEW f \in Fields,
         NEW c \in Nat, c < Len(h)
  PROVE  IF h[c + 1].field = f
         THEN After(t, h, f, c) = h[c + 1].old /\ After(t, h, f, c + 1) = h[c + 1].new
         ELSE After(t, h, f, c + 1) = After(t, h, f, c)
<1>1. c + 1 \in DOMAIN h
  OBVIOUS
<1>2. CASE h[c + 1].field # f
  <2>1. UpTo(h, f, c + 1) = UpTo(h, f, c)
    BY <1>2 DEF UpTo, Of
  <2> QED
    BY <1>2, <2>1 DEF After
<1>3. CASE h[c + 1].field = f
  <2>1. c + 1 \in UpTo(h, f, c + 1) /\ \A i \in UpTo(h, f, c + 1) : c + 1 >= i
    BY <1>1, <1>3 DEF UpTo, Of
  <2>2. UpTo(h, f, c + 1) \in SUBSET Int
    BY OfFacts DEF UpTo
  <2>3. Max(UpTo(h, f, c + 1)) = c + 1
    BY <2>1, <2>2, MaxIs
  <2>4. After(t, h, f, c + 1) = h[c + 1].new
    BY <2>1, <2>3 DEF After
  <2>5. CASE UpTo(h, f, c) = {}
    <3>1. c + 1 \in Of(h, f) /\ \A i \in Of(h, f) : c + 1 <= i
      BY <1>1, <1>3, <2>5 DEF UpTo, Of
    <3>2. Min(Of(h, f)) = c + 1
      BY <3>1, OfFacts, MinIs
    <3> QED
      BY <1>3, <2>4, <2>5, <3>1, <3>2 DEF After
  <2>6. CASE UpTo(h, f, c) # {}
    <3> DEFINE m == Max(UpTo(h, f, c))
    <3>1. m \in UpTo(h, f, c) /\ \A i \in UpTo(h, f, c) : m >= i
      BY <2>6, OfFacts
    <3>2. After(t, h, f, c) = h[m].new
      BY <2>6 DEF After
    <3> HIDE DEF m
    <3>3. m \in DOMAIN h /\ Follows(h, m, c + 1)
      BY <1>1, <1>3, <3>1 DEF Follows, UpTo, Of
    <3>4. h[c + 1].old = h[m].new
      BY <1>1, <3>3 DEF Chained, Linked
    <3> QED
      BY <1>3, <2>4, <3>2, <3>4
  <2> QED
    BY <2>5, <2>6
<1> QED
  BY <1>2, <1>3

-----------------------------------------------------------------------------
(* Between two moments, a field entered a set of values as often as it     *)
(* left it, but for the difference between the two moments.                *)
One(b) == IF b THEN 1 ELSE 0
Entering(h, f, G, a, b) ==
  {i \in Of(h, f) : a < i /\ i <= b /\ h[i].old \notin G /\ h[i].new \in G}
Leaving(h, f, G, a, b) ==
  {i \in Of(h, f) : a < i /\ i <= b /\ h[i].old \in G /\ h[i].new \notin G}

LEMMA Balance ==
  ASSUME NEW t, IsTicket(t), NEW h \in Seq(HistoryEntry), Chained(t, h), NEW f \in Fields, NEW G,
         NEW a \in Nat, NEW b \in Nat, a <= b, b <= Len(h)
  PROVE  /\ IsFiniteSet(Entering(h, f, G, a, b)) /\ IsFiniteSet(Leaving(h, f, G, a, b))
         /\ Cardinality(Entering(h, f, G, a, b)) - Cardinality(Leaving(h, f, G, a, b))
              = One(After(t, h, f, b) \in G) - One(After(t, h, f, a) \in G)
<1> DEFINE into(n) == Entering(h, f, G, a, n)
           out(n) == Leaving(h, f, G, a, n)
           value(n) == After(t, h, f, n)
           even(n) == /\ IsFiniteSet(into(n)) /\ IsFiniteSet(out(n))
                      /\ Cardinality(into(n)) \in Nat /\ Cardinality(out(n)) \in Nat
                      /\ Cardinality(into(n)) - Cardinality(out(n))
                           = One(value(n) \in G) - One(value(a) \in G)
           P == {n \in Nat : a + n <= Len(h) => even(a + n)}
<1>0. Len(h) \in Nat
  OBVIOUS
<1>1. 0 \in P
  <2>1. into(a) = {} /\ out(a) = {}
    BY OfFacts DEF Entering, Leaving
  <2>2. even(a)
    BY <2>1, FS_EmptySet DEF One
  <2> HIDE DEF even
  <2> QED
    BY <2>2
<1>2. ASSUME NEW n \in Nat, n \in P
      PROVE  n + 1 \in P
  <2> DEFINE c == a + n
  <2>1. SUFFICES ASSUME c + 1 <= Len(h)
                 PROVE  even(c + 1)
    <3> HIDE DEF even
    <3> QED
      OBVIOUS
  <2>2. c \in Nat /\ c < Len(h) /\ a <= c
    BY <1>0, <2>1
  <2>3. even(c)
    <3> HIDE DEF even
    <3> QED
      BY <1>2, <2>2
  <2> HIDE DEF c
  <2>4. IF h[c + 1].field = f
        THEN value(c) = h[c + 1].old /\ value(c + 1) = h[c + 1].new
        ELSE value(c + 1) = value(c)
    BY <2>2, AfterStep
  <2>5. c + 1 \in DOMAIN h
    BY <2>2
  <2>6. into(c + 1) = IF h[c + 1].field = f /\ h[c + 1].old \notin G /\ h[c + 1].new \in G
                      THEN into(c) \cup {c + 1} ELSE into(c)
    BY <2>2, <2>5, OfFacts DEF Entering, Of
  <2>7. out(c + 1) = IF h[c + 1].field = f /\ h[c + 1].old \in G /\ h[c + 1].new \notin G
                     THEN out(c) \cup {c + 1} ELSE out(c)
    BY <2>2, <2>5, OfFacts DEF Leaving, Of
  <2>8. c + 1 \notin into(c) /\ c + 1 \notin out(c)
    BY <2>2 DEF Entering, Leaving
  <2> HIDE DEF into, out, value
  <2>9. /\ IsFiniteSet(into(c) \cup {c + 1})
        /\ Cardinality(into(c) \cup {c + 1}) = Cardinality(into(c)) + 1
        /\ IsFiniteSet(out(c) \cup {c + 1})
        /\ Cardinality(out(c) \cup {c + 1}) = Cardinality(out(c)) + 1
    BY <2>3, <2>8, FS_AddElement
  <2> DEFINE p == Cardinality(into(c))
             q == Cardinality(out(c))
  <2>10. p \in Nat /\ q \in Nat /\ p - q = One(value(c) \in G) - One(value(a) \in G)
    BY <2>3
  <2>11. /\ Cardinality(into(c) \cup {c + 1}) = p + 1
         /\ Cardinality(out(c) \cup {c + 1}) = q + 1
    BY <2>9
  <2>12. IsFiniteSet(into(c)) /\ IsFiniteSet(out(c)) /\ Cardinality(into(c)) = p
         /\ Cardinality(out(c)) = q
    BY <2>3
  <2> DEFINE s == One(value(a) \in G)
  <2>16. s \in Int
    BY DEF One
  <2>17. p - q = One(value(c) \in G) - s
    BY <2>10
  <2> HIDE DEF p, q, s
  <2>18. ASSUME IsFiniteSet(into(c + 1)), IsFiniteSet(out(c + 1)),
                Cardinality(into(c + 1)) \in Nat, Cardinality(out(c + 1)) \in Nat,
                Cardinality(into(c + 1)) - Cardinality(out(c + 1)) = One(value(c + 1) \in G) - s
         PROVE  even(c + 1)
    BY <2>18 DEF s
  <2> HIDE DEF even
  <2>13. CASE h[c + 1].field = f /\ h[c + 1].old \notin G /\ h[c + 1].new \in G
    <3>1. value(c) \notin G /\ value(c + 1) \in G
      BY <2>4, <2>13
    <3>2. into(c + 1) = into(c) \cup {c + 1} /\ out(c + 1) = out(c)
      BY <2>6, <2>7, <2>13
    <3>3. One(value(c) \in G) = 0 /\ One(value(c + 1) \in G) = 1
      BY <3>1 DEF One
    <3>4. /\ IsFiniteSet(into(c + 1)) /\ IsFiniteSet(out(c + 1))
          /\ Cardinality(into(c + 1)) = p + 1 /\ Cardinality(out(c + 1)) = q
      BY <2>9, <2>11, <2>12, <3>2
    <3> QED
      BY <2>10, <2>16, <2>17, <2>18, <3>3, <3>4
  <2>14. CASE h[c + 1].field = f /\ h[c + 1].old \in G /\ h[c + 1].new \notin G
    <3>1. value(c) \in G /\ value(c + 1) \notin G
      BY <2>4, <2>14
    <3>2. into(c + 1) = into(c) /\ out(c + 1) = out(c) \cup {c + 1}
      BY <2>6, <2>7, <2>14
    <3>3. One(value(c) \in G) = 1 /\ One(value(c + 1) \in G) = 0
      BY <3>1 DEF One
    <3>4. /\ IsFiniteSet(into(c + 1)) /\ IsFiniteSet(out(c + 1))
          /\ Cardinality(into(c + 1)) = p /\ Cardinality(out(c + 1)) = q + 1
      BY <2>9, <2>11, <2>12, <3>2
    <3> QED
      BY <2>10, <2>16, <2>17, <2>18, <3>3, <3>4
  <2>15. CASE h[c + 1].field # f \/ (h[c + 1].old \in G <=> h[c + 1].new \in G)
    <3>1. value(c) \in G <=> value(c + 1) \in G
      BY <2>4, <2>15
    <3>2. into(c + 1) = into(c) /\ out(c + 1) = out(c)
      BY <2>6, <2>7, <2>15
    <3>3. One(value(c) \in G) = One(value(c + 1) \in G)
      BY <3>1 DEF One
    <3>4. /\ IsFiniteSet(into(c + 1)) /\ IsFiniteSet(out(c + 1))
          /\ Cardinality(into(c + 1)) = p /\ Cardinality(out(c + 1)) = q
      BY <2>12, <3>2
    <3> QED
      BY <2>10, <2>17, <2>18, <3>3, <3>4
  <2> QED
    BY <2>13, <2>14, <2>15
<1>3. b - a \in P
  <2> HIDE DEF P
  <2>1. Nat \subseteq P
    BY <1>1, <1>2, EveryNumber
  <2> QED
    BY <2>1
<1>4. even(a + (b - a)) /\ a + (b - a) = b
  <2> HIDE DEF even
  <2> QED
    BY <1>3
<1>5. even(b)
  <2> HIDE DEF even
  <2> QED
    BY <1>4
<1> QED
  BY <1>5

-----------------------------------------------------------------------------
(* The inductive invariant: every changelog is a chain that leads to its   *)
(* ticket, and what is stored of it is how it once began.                  *)

(* A move gives a ticket a status; membership is TRUE or FALSE.            *)
Readable(e) ==
  /\ e.field = "status" => e.new # Missing
  /\ e.field \in {"release", "sprint"} => {e.old, e.new} \subseteq BOOLEAN

TicketsInv ==
  \A k \in DOMAIN jira :
    /\ IsTicket(jira[k]) /\ jira[k].created <= day
    /\ changelog[k] \in Seq(HistoryEntry)
    /\ Chained(jira[k], changelog[k])
    /\ \A i \in DOMAIN changelog[k] :
         /\ changelog[k][i].at <= day
         /\ Readable(changelog[k][i])

Begins(g, h) ==
  /\ g \in Seq(HistoryEntry) /\ Len(g) <= Len(h)
  /\ \A i \in DOMAIN g : g[i] = h[i]
  /\ \A i \in DOMAIN g : \A j \in DOMAIN h : j > Len(g) => h[i].at < h[j].at
StoredInv ==
  \A k \in DOMAIN stored : k \in DOMAIN jira /\ Begins(stored[k].history, changelog[k])

HistoryInv ==
  /\ day \in Nat /\ day >= 1
  /\ iteration \in Iterations
  /\ DOMAIN jira \subseteq Keys
  /\ DOMAIN changelog = DOMAIN jira
  /\ DOMAIN fetched \subseteq DOMAIN jira
  /\ TicketsInv
  /\ StoredInv

LEMMA BornTicket ==
  ASSUME NEW t \in NewTickets
  PROVE  IsTicket(t)
<1>1. ASSUME NEW f \in Fields
      PROVE  t[f] \in Texts
  <2>1. t[f] \in TextsOf(t)
    BY DEF TextsOf
  <2> DEFINE all == {TextsOf(u) : u \in NewTickets}
  <2>2. TextsOf(t) \in all
    OBVIOUS
  <2>3. NewTexts = UNION all
    BY DEF NewTexts
  <2> HIDE DEF all
  <2>4. t[f] \in NewTexts
    BY <2>1, <2>2, <2>3
  <2> QED
    BY <2>4 DEF Texts
<1> QED
  BY <1>1, HistoryAssumption DEF IsTicket

LEMMA NothingChained ==
  ASSUME NEW t
  PROVE  /\ <<>> \in Seq(HistoryEntry) /\ DOMAIN <<>> = {} /\ Len(<<>>) = 0
         /\ Chained(t, <<>>)
BY DEF Chained, Ordered, Linked, Current, Lasting

LEMMA HistoryStarts == HistoryInit => HistoryInv
<1> SUFFICES ASSUME HistoryInit
             PROVE  HistoryInv
  OBVIOUS
<1>1. PICK old \in SUBSET Keys, t \in NewTickets :
        /\ jira = [k \in old |-> t]
        /\ changelog = [k \in old |-> <<>>]
        /\ stored = [k \in old |-> [row |-> LinkRelease(t), history |-> <<>>,
                                    complete |-> FALSE]]
  BY DEF HistoryInit
<1>2. day = 1 /\ iteration \in Iterations /\ DOMAIN fetched = {}
  BY DEF HistoryInit
<1>3. TicketsInv
  BY <1>1, <1>2, BornTicket, NothingChained, HistoryAssumption DEF TicketsInv
<1>4. StoredInv
  <2>1. \A k \in DOMAIN stored : k \in old /\ stored[k].history = <<>> /\ changelog[k] = <<>>
    BY <1>1
  <2>2. Begins(<<>>, <<>>)
    BY NothingChained DEF Begins
  <2> QED
    BY <1>1, <2>1, <2>2 DEF StoredInv
<1> QED
  BY <1>1, <1>2, <1>3, <1>4 DEF HistoryInv

LEMMA AdvanceKeeps ==
  ASSUME HistoryInv, Advance
  PROVE  HistoryInv'
<1>1. day' = day + 1 /\ UNCHANGED <<jira, changelog, fetched, stored, iteration>>
  BY DEF Advance
<1>2. TicketsInv'
  <2>1. ASSUME NEW k \in DOMAIN jira
        PROVE  /\ jira[k].created <= day + 1
               /\ \A i \in DOMAIN changelog[k] : changelog[k][i].at <= day + 1
    <3>1. \A i \in DOMAIN changelog[k] : changelog[k][i] \in HistoryEntry
      BY DEF HistoryInv, TicketsInv
    <3>2. jira[k].created \in Int /\ \A i \in DOMAIN changelog[k] : changelog[k][i].at \in Nat
      BY <3>1 DEF HistoryInv, TicketsInv, IsTicket, HistoryEntry
    <3> QED
      BY <3>2 DEF HistoryInv, TicketsInv
  <2> QED
    BY <1>1, <2>1 DEF HistoryInv, TicketsInv
<1> QED
  BY <1>1, <1>2 DEF HistoryInv, StoredInv

LEMMA CreateKeeps ==
  ASSUME HistoryInv, NEW k \in Keys, Create(k)
  PROVE  HistoryInv'
<1>1. PICK t \in NewTickets : jira' = With(jira, k, [t EXCEPT !.created = day])
  BY DEF Create
<1>2. /\ k \notin DOMAIN jira /\ changelog' = With(changelog, k, <<>>)
      /\ UNCHANGED <<day, fetched, stored, iteration>>
  BY DEF Create
<1> DEFINE new == [t EXCEPT !.created = day]
<1>3. IsTicket(new) /\ new.created = day
  BY BornTicket DEF IsTicket, Fields, HistoryInv
<1> HIDE DEF new
<1>4. /\ DOMAIN jira' = DOMAIN jira \cup {k} /\ DOMAIN changelog' = DOMAIN jira'
      /\ jira'[k] = new /\ changelog'[k] = <<>>
      /\ \A j \in DOMAIN jira : jira'[j] = jira[j] /\ changelog'[j] = changelog[j]
  BY <1>1, <1>2 DEF With, HistoryInv, new
<1>5. TicketsInv'
  <2> SUFFICES ASSUME NEW j \in DOMAIN jira'
               PROVE  /\ IsTicket(jira'[j]) /\ jira'[j].created <= day
                      /\ changelog'[j] \in Seq(HistoryEntry)
                      /\ Chained(jira'[j], changelog'[j])
                      /\ \A i \in DOMAIN changelog'[j] :
                           /\ changelog'[j][i].at <= day
                           /\ Readable(changelog'[j][i])
    BY <1>2 DEF TicketsInv
  <2>1. CASE j = k
    BY <1>3, <1>4, <2>1, NothingChained DEF HistoryInv
  <2>2. CASE j \in DOMAIN jira
    BY <1>4, <2>2 DEF HistoryInv, TicketsInv
  <2> QED
    BY <1>4, <2>1, <2>2
<1>6. StoredInv'
  BY <1>2, <1>4 DEF HistoryInv, StoredInv
<1> QED
  BY <1>2, <1>4, <1>5, <1>6 DEF HistoryInv

LEMMA SyncRowKeeps ==
  ASSUME HistoryInv, NEW k \in Keys, SyncRow(k)
  PROVE  HistoryInv'
BY DEF HistoryInv, SyncRow, With, TicketsInv, StoredInv

LEMMA SyncChangelogKeeps ==
  ASSUME HistoryInv, NEW k \in Keys, SyncChangelog(k)
  PROVE  HistoryInv'
<1>1. /\ k \in DOMAIN fetched /\ UNCHANGED <<day, jira, changelog, iteration>>
      /\ fetched' = Without(fetched, k)
      /\ stored' = With(stored, k, [row |-> fetched[k], history |-> changelog[k],
                                    complete |-> TRUE])
  BY DEF SyncChangelog
<1>2. k \in DOMAIN jira
  BY <1>1 DEF HistoryInv
<1>3. /\ DOMAIN stored' = DOMAIN stored \cup {k} /\ stored'[k].history = changelog[k]
      /\ \A j \in DOMAIN stored \ {k} : stored'[j] = stored[j]
      /\ DOMAIN fetched' \subseteq DOMAIN fetched
  BY <1>1 DEF With, Without
<1>4. Begins(changelog[k], changelog[k])
  BY <1>2 DEF HistoryInv, TicketsInv, Begins
<1>5. StoredInv'
  BY <1>1, <1>2, <1>3, <1>4 DEF HistoryInv, StoredInv
<1> QED
  BY <1>1, <1>3, <1>5 DEF HistoryInv, TicketsInv

LEMMA StaysTicket ==
  ASSUME NEW t, IsTicket(t), NEW f \in Fields, NEW v \in Values(f)
  PROVE  IsTicket([t EXCEPT ![f] = v]) /\ [t EXCEPT ![f] = v].created = t.created
<1> DEFINE u == [t EXCEPT ![f] = v]
<1>1. DOMAIN u = DOMAIN t /\ \A g \in DOMAIN t : u[g] = IF g = f THEN v ELSE t[g]
  OBVIOUS
<1>2. v \in Texts
  BY DEF Texts, GivenTexts
<1>3. f # "created" /\ "created" \in DOMAIN t
  BY DEF IsTicket, Fields
<1> HIDE DEF u
<1>4. \A g \in Fields : u[g] \in Texts
  BY <1>1, <1>2 DEF IsTicket
<1>5. u["release"] \in BOOLEAN /\ u["earlier"] \in BOOLEAN /\ u["sprint"] \in BOOLEAN
  BY <1>1, HistoryAssumption DEF IsTicket, Fields
<1>6. u["created"] = t["created"]
  BY <1>1, <1>3
<1>7. IsTicket(u) /\ u.created = t.created
  BY <1>1, <1>4, <1>5, <1>6 DEF IsTicket
<1> QED
  BY <1>7 DEF u

(* An edit adds an entry for each field it changes.                        *)
LEMMA EditKeeps ==
  ASSUME HistoryInv, NEW k \in Keys, Edit(k)
  PROVE  HistoryInv'
<1> DEFINE t == jira[k]
           h == changelog[k]
<1>1. /\ k \in DOMAIN jira /\ Edited(k) < day
      /\ UNCHANGED <<day, fetched, stored, iteration>>
  BY DEF Edit
<1>2. PICK f \in Fields, g \in Fields :
        \E v \in Values(f) \ {jira[k][f]}, w \in Values(g) \ {jira[k][g]} :
          EditFields(k, f, v, g, w)
  BY DEF Edit
<1>3. PICK v \in Values(f) \ {t[f]}, w \in Values(g) \ {t[g]} : EditFields(k, f, v, g, w)
  BY <1>2
<1>4. /\ f = g => v = w
      /\ changelog' = [changelog EXCEPT ![k] = @ \o ChangeGroup(k, f, v, g, w)]
      /\ jira' = [jira EXCEPT ![k] = [@ EXCEPT ![f] = v, ![g] = w]]
  BY <1>3 DEF EditFields
<1>5. /\ IsTicket(t) /\ t.created <= day /\ h \in Seq(HistoryEntry) /\ Chained(t, h)
      /\ \A i \in DOMAIN h : h[i].at <= day /\ Readable(h[i])
      /\ day \in Nat
  BY <1>1 DEF HistoryInv, TicketsInv
<1>6. \A i \in DOMAIN h : h[i] \in HistoryEntry /\ h[i].at \in Nat /\ h[i].field \in Fields
  <2> HIDE DEF h
  <2>1. \A i \in DOMAIN h : h[i] \in HistoryEntry
    BY <1>5
  <2> QED
    BY <2>1 DEF HistoryEntry
<1>7. t.created < day /\ \A i \in DOMAIN h : h[i].at < day
  <2>1. CASE h = <<>>
    BY <1>1, <2>1 DEF Edited
  <2>2. CASE h # <<>>
    <3>1. Len(h) \in DOMAIN h /\ \A i \in DOMAIN h : i <= Len(h) /\ i \in Nat /\ Len(h) \in Nat
      BY <1>5, <2>2
    <3>2. h[Len(h)].at < day
      BY <1>1, <2>2 DEF Edited, Last
    <3>3. \A i \in DOMAIN h : h[i].at <= h[Len(h)].at
      BY <1>5, <1>6, <3>1 DEF Chained, Ordered
    <3>4. t.created < h[Len(h)].at /\ t.created \in Int
      BY <1>5, <3>1 DEF Chained, Lasting, IsTicket
    <3> HIDE DEF t, h
    <3> QED
      BY <1>5, <1>6, <3>1, <3>2, <3>3, <3>4
  <2> QED
    BY <2>1, <2>2
<1> DEFINE d == Change(k, f, v)
           e == Change(k, g, w)
           u == [t EXCEPT ![f] = v]
           uu == [u EXCEPT ![g] = w]
<1>8. /\ d = [field |-> f, old |-> t[f], new |-> v, at |-> day]
      /\ e = [field |-> g, old |-> t[g], new |-> w, at |-> day]
  BY DEF Change
<1>9. d \in HistoryEntry /\ e \in HistoryEntry
  <2>1. v \in Texts /\ w \in Texts
    BY DEF Texts, GivenTexts
  <2>2. t[f] \in Texts /\ t[g] \in Texts
    BY <1>5 DEF IsTicket
  <2> HIDE DEF t
  <2> QED
    BY <1>5, <1>8, <2>1, <2>2 DEF HistoryEntry
<1>10. /\ d.field = f /\ d.old = t[f] /\ d.new = v /\ d.at = day
      /\ e.field = g /\ e.old = t[g] /\ e.new = w /\ e.at = day
  BY <1>8
<1> HIDE DEF t, h, d, e
<1>11. u.created = t.created /\ IsTicket(u)
  BY <1>5, StaysTicket
<1>12. Chained(u, Append(h, d))
  <2>1. /\ d.old = t[d.field] /\ d.new # d.old /\ t.created < d.at
        /\ u = [t EXCEPT ![d.field] = d.new]
    BY <1>7, <1>10
  <2>2. \A i \in DOMAIN h : h[i].at <= d.at /\ (h[i].field = d.field => h[i].at < d.at)
    BY <1>5, <1>6, <1>7, <1>10
  <2> HIDE DEF u
  <2> QED
    BY <1>5, <1>9, <2>1, <2>2, ChainGrows
<1> DEFINE hh == Append(h, d)
<1>13. /\ hh \in Seq(HistoryEntry) /\ Len(hh) = Len(h) + 1 /\ hh[Len(h) + 1] = d
       /\ DOMAIN hh = DOMAIN h \cup {Len(h) + 1}
       /\ \A i \in DOMAIN h : hh[i] = h[i]
  BY <1>5, <1>9
<1>14. /\ jira'[k] = uu /\ changelog'[k] = h \o ChangeGroup(k, f, v, g, w)
       /\ DOMAIN jira' = DOMAIN jira /\ DOMAIN changelog' = DOMAIN changelog
       /\ \A j \in DOMAIN jira \ {k} : jira'[j] = jira[j] /\ changelog'[j] = changelog[j]
  BY <1>1, <1>4 DEF HistoryInv, t, h
<1>15. v # t[f] /\ w # t[g]
  OBVIOUS
<1>16. /\ IsTicket(uu) /\ uu.created = t.created
       /\ changelog'[k] \in Seq(HistoryEntry) /\ Chained(uu, changelog'[k])
       /\ Len(h) <= Len(changelog'[k])
       /\ \A i \in DOMAIN changelog'[k] :
            \/ i \in DOMAIN h /\ changelog'[k][i] = h[i]
            \/ i > Len(h) /\ changelog'[k][i] \in {d, e}
       /\ \A i \in DOMAIN h : i \in DOMAIN changelog'[k] /\ changelog'[k][i] = h[i]
  <2>1. CASE f = g
    <3>1. uu = u
      BY <1>4, <1>5, <2>1 DEF IsTicket
    <3>2. changelog'[k] = hh
      BY <1>5, <1>9, <1>14, <2>1 DEF ChangeGroup, d
    <3> HIDE DEF u, uu, hh
    <3> QED
      BY <1>5, <1>11, <1>12, <1>13, <3>1, <3>2 DEF hh
  <2>2. CASE f # g
    <3>1. changelog'[k] = Append(hh, e)
      BY <1>5, <1>9, <1>14, <2>2 DEF ChangeGroup, d, e
    <3>2. u[g] = t[g]
      BY <1>5, <2>2 DEF IsTicket
    <3>3. IsTicket(uu) /\ uu.created = u.created
      BY <1>11, StaysTicket
    <3>4. \A i \in DOMAIN hh : /\ hh[i].at <= e.at
                               /\ hh[i].field = e.field => hh[i].at < e.at
      BY <1>5, <1>6, <1>7, <1>10, <1>13, <2>2
    <3> HIDE DEF u, hh
    <3>5. Chained(uu, Append(hh, e))
      <4>1. /\ e.old = u[e.field] /\ e.new # e.old /\ u.created < e.at
            /\ uu = [u EXCEPT ![e.field] = e.new]
        BY <1>7, <1>10, <1>11, <1>15, <3>2
      <4>2. Chained(u, hh)
        BY <1>12 DEF hh
      <4>3. IsTicket(u) /\ e \in HistoryEntry /\ hh \in Seq(HistoryEntry)
        BY <1>9, <1>11, <1>13
      <4>4. \A i \in DOMAIN hh : hh[i].at <= e.at /\ (hh[i].field = e.field => hh[i].at < e.at)
        BY <3>4
      <4> HIDE DEF uu
      <4> QED
        BY <4>1, <4>2, <4>3, <4>4, ChainGrows
    <3>6. /\ Append(hh, e) \in Seq(HistoryEntry) /\ Len(Append(hh, e)) = Len(hh) + 1
          /\ Append(hh, e)[Len(hh) + 1] = e
          /\ DOMAIN Append(hh, e) = DOMAIN hh \cup {Len(hh) + 1}
          /\ \A i \in DOMAIN hh : Append(hh, e)[i] = hh[i]
      <4>1. hh \in Seq(HistoryEntry) /\ e \in HistoryEntry
        BY <1>9, <1>13
      <4>2. /\ Append(hh, e) \in Seq(HistoryEntry) /\ Len(Append(hh, e)) = Len(hh) + 1
            /\ Append(hh, e)[Len(hh) + 1] = e
        BY <4>1
      <4>3. /\ DOMAIN Append(hh, e) = DOMAIN hh \cup {Len(hh) + 1}
            /\ \A i \in DOMAIN hh : Append(hh, e)[i] = hh[i]
        BY <4>1
      <4> QED
        BY <4>2, <4>3
    <3>7. Len(h) \in Nat /\ DOMAIN h = 1 .. Len(h)
      BY <1>5
    <3> HIDE DEF uu
    <3> QED
      BY <1>11, <1>13, <3>1, <3>3, <3>5, <3>6, <3>7
  <2> QED
    BY <2>1, <2>2
<1>17. \A i \in DOMAIN changelog'[k] :
         /\ changelog'[k][i].at <= day
         /\ i > Len(h) => changelog'[k][i].at = day
         /\ Readable(changelog'[k][i])
  <2>1. /\ f \in {"release", "sprint"} => t[f] \in BOOLEAN /\ v \in BOOLEAN
        /\ g \in {"release", "sprint"} => t[g] \in BOOLEAN /\ w \in BOOLEAN
    BY <1>5, HistoryAssumption DEF IsTicket
  <2>2. /\ f = "status" => v # Missing
        /\ g = "status" => w # Missing
    BY HistoryAssumption
  <2>3. Readable(d) /\ Readable(e)
    BY <1>10, <2>1, <2>2 DEF Readable
  <2>4. \A i \in DOMAIN h : ~ (i > Len(h))
    BY <1>5
  <2> HIDE DEF u, uu, hh
  <2> QED
    BY <1>5, <1>10, <1>16, <2>3, <2>4
<1> HIDE DEF u, uu, hh
<1>18. TicketsInv'
  <2> SUFFICES ASSUME NEW j \in DOMAIN jira
               PROVE  /\ IsTicket(jira'[j]) /\ jira'[j].created <= day
                      /\ changelog'[j] \in Seq(HistoryEntry)
                      /\ Chained(jira'[j], changelog'[j])
                      /\ \A i \in DOMAIN changelog'[j] :
                           /\ changelog'[j][i].at <= day
                           /\ Readable(changelog'[j][i])
    BY <1>1, <1>14 DEF TicketsInv
  <2>1. CASE j = k
    BY <1>5, <1>14, <1>16, <1>17, <2>1
  <2>2. CASE j # k
    BY <1>14, <2>2 DEF HistoryInv, TicketsInv
  <2> QED
    BY <2>1, <2>2
<1>19. StoredInv'
  <2> SUFFICES ASSUME NEW j \in DOMAIN stored
               PROVE  j \in DOMAIN jira /\ Begins(stored[j].history, changelog'[j])
    BY <1>1, <1>14 DEF StoredInv
  <2>1. j \in DOMAIN jira /\ Begins(stored[j].history, changelog[j])
    BY DEF HistoryInv, StoredInv
  <2>2. CASE j # k
    BY <1>14, <2>1, <2>2
  <2>3. CASE j = k
    <3> DEFINE s == stored[k].history
               n == changelog'[k]
    <3>1. Begins(s, h)
      BY <2>1, <2>3 DEF h
    <3>2. Len(h) \in Nat /\ DOMAIN h = 1 .. Len(h) /\ Len(n) \in Nat
      BY <1>5, <1>16
    <3>3. \A i \in DOMAIN h : n[i] = h[i] /\ h[i].at < day
      BY <1>7, <1>16
    <3>4. \A i \in DOMAIN n : \/ i \in DOMAIN h /\ n[i] = h[i]
                              \/ i > Len(h) /\ n[i].at = day
      BY <1>16, <1>17
    <3>5. Len(h) <= Len(n)
      BY <1>16
    <3> HIDE DEF s, n
    <3>6. /\ Len(s) \in Nat /\ DOMAIN s = 1 .. Len(s)
          /\ s \in Seq(HistoryEntry) /\ Len(s) <= Len(h) /\ DOMAIN s \subseteq DOMAIN h
      BY <3>1, <3>2 DEF Begins
    <3>7. Begins(s, n)
      BY <3>1, <3>2, <3>3, <3>4, <3>5, <3>6 DEF Begins
    <3> QED
      BY <2>1, <2>3, <3>7 DEF s, n
  <2> QED
    BY <2>2, <2>3
<1> QED
  BY <1>1, <1>14, <1>18, <1>19 DEF HistoryInv

LEMMA HistoryInvStep == HistoryInv /\ [HistoryNext]_historyVars => HistoryInv'
<1> SUFFICES ASSUME HistoryInv, [HistoryNext]_historyVars
             PROVE  HistoryInv'
  OBVIOUS
<1>1. CASE UNCHANGED historyVars
  BY <1>1 DEF historyVars, HistoryInv, TicketsInv, StoredInv
<1>2. CASE HistoryNext
  BY <1>2, AdvanceKeeps, CreateKeeps, EditKeeps, SyncRowKeeps, SyncChangelogKeeps
     DEF HistoryNext
<1> QED
  BY <1>1, <1>2

(* Jira's changelogs stay chains that end in what the ticket is, and the   *)
(* stored ones are their beginnings, whatever edits and synchronizations   *)
(* overlap.                                                                *)
THEOREM HistoryInvariance == HistorySpec => []HistoryInv
BY HistoryStarts, HistoryInvStep, PTL DEF HistorySpec

-----------------------------------------------------------------------------
(* The reference: a ticket at some time is what its first entries left.    *)

Cut(h, c, u) ==
  \A i \in DOMAIN h : (i <= c => h[i].at <= u) /\ (i > c => h[i].at > u)

LEMMA CutAt ==
  ASSUME NEW h \in Seq(HistoryEntry), Ordered(h), NEW u \in Int
  PROVE  \E c \in 0 .. Len(h) : Cut(h, c, u)
<1> DEFINE S == {i \in DOMAIN h : h[i].at > u}
<1>1. /\ Len(h) \in Nat /\ DOMAIN h = 1 .. Len(h)
      /\ \A i \in DOMAIN h : h[i].at \in Nat
  <2>1. \A i \in DOMAIN h : h[i] \in HistoryEntry
    OBVIOUS
  <2> QED
    BY <2>1 DEF HistoryEntry
<1>2. CASE S = {}
  <2>1. \A i \in DOMAIN h : h[i].at <= u /\ ~(i > Len(h))
    BY <1>1, <1>2
  <2>2. Cut(h, Len(h), u)
    BY <2>1 DEF Cut
  <2> QED
    BY <1>1, <2>2
<1>3. CASE S # {}
  <2>1. S \in SUBSET Nat
    BY <1>1
  <2> HIDE DEF S
  <2>2. PICK m \in S : \A i \in S : m <= i
    BY <1>3, <2>1, SmallestOf
  <2>3. m \in DOMAIN h /\ h[m].at > u
    BY <2>2 DEF S
  <2>4. \A i \in DOMAIN h : i <= m - 1 => h[i].at <= u
    <3>1. \A i \in DOMAIN h : i <= m - 1 => i \notin S
      BY <1>1, <2>2, <2>3
    <3> QED
      BY <1>1, <3>1 DEF S
  <2>5. \A i \in DOMAIN h : i > m - 1 => h[i].at > u
    BY <1>1, <2>3 DEF Ordered
  <2> QED
    <3>1. Cut(h, m - 1, u)
      BY <2>4, <2>5 DEF Cut
    <3>2. m - 1 \in 0 .. Len(h)
      BY <1>1, <2>3
    <3> QED
      BY <3>1, <3>2
<1> QED
  BY <1>2, <1>3

LEMMA TicketFacts ==
  ASSUME HistoryInv, NEW k \in DOMAIN jira
  PROVE  /\ IsTicket(jira[k]) /\ changelog[k] \in Seq(HistoryEntry)
         /\ Chained(jira[k], changelog[k]) /\ Ordered(changelog[k])
         /\ Len(changelog[k]) \in Nat /\ DOMAIN changelog[k] = 1 .. Len(changelog[k])
         /\ \A i \in DOMAIN changelog[k] :
              /\ changelog[k][i] \in HistoryEntry
              /\ changelog[k][i].at \in Nat /\ changelog[k][i].at <= day
              /\ changelog[k][i].field \in Fields
              /\ changelog[k][i].old # changelog[k][i].new
              /\ changelog[k][i].at > jira[k].created
              /\ Readable(changelog[k][i])
         /\ day \in Nat /\ jira[k].created \in Int
<1>1. /\ IsTicket(jira[k]) /\ changelog[k] \in Seq(HistoryEntry)
      /\ Chained(jira[k], changelog[k])
      /\ \A i \in DOMAIN changelog[k] :
           /\ changelog[k][i].at <= day
           /\ Readable(changelog[k][i])
  BY DEF HistoryInv, TicketsInv
<1> DEFINE t == jira[k]
           h == changelog[k]
<1> HIDE DEF t, h
<1>2. /\ IsTicket(t) /\ h \in Seq(HistoryEntry) /\ Chained(t, h) /\ Ordered(h)
  BY <1>1 DEF t, h, Chained
<1>3. \A i \in DOMAIN h : h[i] \in HistoryEntry
  BY <1>2
<1>4. \A i \in DOMAIN h : h[i].at \in Nat /\ h[i].field \in Fields
  BY <1>3 DEF HistoryEntry
<1>5. t.created \in Int
  BY <1>2 DEF IsTicket
<1>6. \A i \in DOMAIN h : h[i].old # h[i].new /\ h[i].at > t.created
  BY <1>2, <1>4, <1>5 DEF Chained, Lasting
<1>7. Len(h) \in Nat /\ DOMAIN h = 1 .. Len(h)
  BY <1>2
<1> QED
  BY <1>1, <1>2, <1>3, <1>4, <1>5, <1>6, <1>7 DEF t, h, HistoryInv

LEMMA StateAtCut ==
  ASSUME HistoryInv, NEW k \in DOMAIN jira, NEW u \in Int,
         NEW c \in Nat, Cut(changelog[k], c, u), NEW f \in Fields
  PROVE  StateAt(k, u)[f] = After(jira[k], changelog[k], f, c)
<1>1. Edits(k, f) = Of(changelog[k], f)
  BY DEF Edits, Of
<1>2. {i \in Edits(k, f) : changelog[k][i].at <= u} = UpTo(changelog[k], f, c)
  <2>1. \A i \in DOMAIN changelog[k] : /\ i \in Nat /\ changelog[k][i].at \in Nat
                                       /\ i <= c \/ i > c
    BY TicketFacts
  <2>2. \A i \in DOMAIN changelog[k] : changelog[k][i].at <= u <=> i <= c
    BY <2>1 DEF Cut
  <2> QED
    BY <1>1, <2>2 DEF UpTo, Of
<1>3. f \in DOMAIN jira[k]
  BY TicketFacts DEF IsTicket
<1> QED
  BY <1>1, <1>2, <1>3 DEF StateAt, After

(* Cardinalities of images.                                                *)
LEMMA Relabelled ==
  ASSUME NEW S, IsFiniteSet(S), NEW F, DOMAIN F = S,
         \A i, j \in S : F[i] = F[j] => i = j
  PROVE  /\ IsFiniteSet({F[i] : i \in S})
         /\ Cardinality({F[i] : i \in S}) = Cardinality(S)
<1> DEFINE T == {F[i] : i \in S}
           G == [i \in S |-> F[i]]
<1>1. G \in [S -> T] /\ \A i \in S : G[i] = F[i]
  OBVIOUS
<1>2. \A y \in T : \E i \in S : G[i] = y
  OBVIOUS
<1> HIDE DEF G, T
<1>3. G \in Bijection(S, T)
  BY <1>1, <1>2 DEF Bijection, Injection, Surjection, IsInjective
<1> QED
  BY <1>3, FS_Bijection DEF ExistsBijection, T

-----------------------------------------------------------------------------
(* Reopened work.                                                          *)

(* A stored ticket differs from Jira's in nothing but its release.         *)
LEMMA LinkedRow ==
  ASSUME HistoryInv, NEW k \in DOMAIN stored, Known(k)
  PROVE  /\ k \in DOMAIN jira /\ History(k) = changelog[k] /\ stored[k].complete
         /\ DOMAIN Row(k) = DOMAIN jira[k] /\ Row(k).created = jira[k].created
         /\ \A f \in Fields \ {"release"} : Row(k)[f] = jira[k][f]
         /\ Row(k)["release"] = (jira[k].release /\ ~jira[k].earlier)
<1>1. k \in DOMAIN jira /\ History(k) = changelog[k] /\ stored[k].complete
  BY DEF HistoryInv, StoredInv, Known, History
<1>2. Row(k) = LinkRelease(jira[k])
  BY DEF Known, Row
<1> DEFINE t == jira[k]
<1>3. DOMAIN t = Fields \cup {"created"}
  BY <1>1, TicketFacts DEF IsTicket
<1> HIDE DEF t
<1>4. LinkRelease(t) = [t EXCEPT !["release"] = t["release"] /\ ~t["earlier"]]
  BY DEF LinkRelease
<1>5. "created" \notin Fields /\ "release" \in Fields
  BY DEF Fields
<1>6. /\ DOMAIN LinkRelease(t) = DOMAIN t /\ LinkRelease(t)["created"] = t["created"]
      /\ \A f \in Fields \ {"release"} : LinkRelease(t)[f] = t[f]
      /\ LinkRelease(t)["release"] = (t["release"] /\ ~t["earlier"])
  BY <1>3, <1>4, <1>5
<1> QED
  BY <1>1, <1>2, <1>6 DEF t

LEMMA ReopensCounted ==
  ASSUME HistoryInv, NEW k \in DOMAIN stored, Known(k), Eligible(k)
  PROVE  Cardinality(ReopenEvents(k)) + One(IsDone(Classification, Row(k)))
           = Cardinality(BecameDone(k))
               + One(IsDone(Classification, StateAt(k, jira[k].created - 1)))
<1> DEFINE t == jira[k]
           h == changelog[k]
           G == Classification.done
           n == Len(changelog[k])
<1>1. k \in DOMAIN jira /\ History(k) = h /\ Row(k).status = t.status
  BY LinkedRow DEF Fields
<1>2. /\ IsTicket(t) /\ h \in Seq(HistoryEntry) /\ Chained(t, h) /\ n \in Nat /\ Len(h) = n
      /\ "status" \in Fields /\ t.created \in Int /\ t.created - 1 \in Int
  BY <1>1, TicketFacts DEF Fields
<1>3. \A i \in DOMAIN h : /\ i \in Nat /\ i > 0 /\ i <= n
                          /\ h[i].at > t.created - 1
                          /\ h[i].field = "status" => h[i].new # Missing
  <2>1. \A i \in DOMAIN h : /\ i \in 1 .. n /\ h[i].at \in Nat /\ h[i].at > t.created
                            /\ h[i].field = "status" => h[i].new # Missing
    BY <1>1, TicketFacts DEF Readable
  <2> HIDE DEF t, h, n
  <2> QED
    BY <1>2, <2>1
<1> DEFINE into == Entering(h, "status", G, 0, n)
           out == Leaving(h, "status", G, 0, n)
<1>4. /\ IsFiniteSet(into) /\ IsFiniteSet(out)
      /\ Cardinality(into) - Cardinality(out)
           = One(After(t, h, "status", n) \in G) - One(After(t, h, "status", 0) \in G)
  <2>1. 0 \in Nat /\ 0 <= n /\ n <= Len(h)
    BY <1>2
  <2> HIDE DEF t, h, n, G
  <2> QED
    BY <1>2, <2>1, Balance
<1>5. After(t, h, "status", n) = t.status
  <2> HIDE DEF t, h
  <2> QED
    BY <1>2, AfterAll
<1>6. After(t, h, "status", 0) = StateAt(k, t.created - 1).status
  <2>1. Cut(h, 0, t.created - 1)
    <3> HIDE DEF t, h, n
    <3> QED
      BY <1>3 DEF Cut
  <2> QED
    BY <1>1, <1>2, <2>1, StateAtCut
<1>7. BecameDone(k) = into
  BY <1>1, <1>3 DEF BecameDone, Entries, Entering, Of
<1> DEFINE event(i) == [at |-> h[i].at, old |-> h[i].old, new |-> h[i].new]
           F == [i \in out |-> event(i)]
<1>8. ReopenEvents(k) = {event(i) : i \in out}
  <2>1. out = {i \in Entries(k, "status") : /\ History(k)[i].old \in G
                                            /\ History(k)[i].new \notin G \cup {Missing}}
    BY <1>1, <1>3 DEF Entries, Leaving, Of
  <2> HIDE DEF out
  <2> QED
    BY <1>1, <2>1 DEF ReopenEvents
<1>9. Cardinality(ReopenEvents(k)) = Cardinality(out)
  <2>1. \A i, j \in out : F[i] = F[j] => i = j
    <3>1. \A i \in out : i \in DOMAIN h /\ h[i].field = "status" /\ F[i].at = h[i].at
      BY DEF Leaving, Of
    <3>2. \A i, j \in DOMAIN h : i < j /\ h[i].field = h[j].field => h[i].at < h[j].at
      BY <1>2 DEF Chained, Ordered
    <3>3. \A i \in DOMAIN h : i \in Nat /\ h[i].at \in Nat
      BY <1>1, <1>3, TicketFacts
    <3> HIDE DEF F, out, h, t, n
    <3>4. ASSUME NEW i \in out, NEW j \in out, F[i] = F[j]
          PROVE  ~(i < j)
      <4>1. h[i].at = h[j].at
        BY <3>1, <3>4
      <4>2. h[i].at \in Nat
        BY <3>1, <3>3
      <4> QED
        BY <3>1, <3>2, <4>1, <4>2
    <3> QED
      BY <3>1, <3>3, <3>4
  <2>2. DOMAIN F = out /\ {event(i) : i \in out} = {F[i] : i \in out}
    OBVIOUS
  <2> HIDE DEF F, out
  <2> QED
    BY <1>4, <1>8, <2>1, <2>2, Relabelled
<1> DEFINE p == Cardinality(into)
           q == Cardinality(out)
           x == One(t.status \in G)
           y == One(StateAt(k, t.created - 1).status \in G)
<1>10. p - q = x - y
  BY <1>4, <1>5, <1>6
<1>11. p \in Nat /\ q \in Nat
  <2> HIDE DEF into, out
  <2> QED
    BY <1>4, FS_CardinalityType
<1>12. x \in Int /\ y \in Int
  BY DEF One
<1>13. q + x = p + y
  <2> HIDE DEF p, q, x, y
  <2> QED
    BY <1>10, <1>11, <1>12
<1> QED
  BY <1>1, <1>7, <1>9, <1>13 DEF IsDone

(* Every completion that is not undone by now was followed by one counted  *)
(* reopening, for any edits and whenever the changelog is read.            *)
THEOREM ReopeningsAreCounted == HistorySpec => []ReopensBalance
<1>1. ASSUME HistoryInv
      PROVE  ReopensBalance
  <2> SUFFICES ASSUME NEW k \in DOMAIN stored, Known(k)
               PROVE  LET one(b) == IF b THEN 1 ELSE 0
                      IN IF Eligible(k)
                         THEN Cardinality(ReopenEvents(k)) + one(IsDone(Classification, Row(k))) =
                                Cardinality(BecameDone(k))
                                  + one(IsDone(Classification, StateAt(k, jira[k].created - 1)))
                         ELSE ReopenEvents(k) = {}
    BY DEF ReopensBalance
  <2>1. CASE Eligible(k)
    BY <1>1, <2>1, ReopensCounted DEF One
  <2>2. CASE ~Eligible(k)
    BY <2>2 DEF ReopenEvents
  <2> QED
    BY <2>1, <2>2
<1> QED
  BY <1>1, HistoryInvariance, PTL

-----------------------------------------------------------------------------
(* Cycle times.                                                            *)

LEMMA HistoriesExtend ==
  ASSUME HistoryInv, [HistoryNext]_historyVars, NEW k \in DOMAIN stored
  PROVE  /\ stored'[k].history \in Seq(HistoryEntry)
         /\ Begins(stored[k].history, stored'[k].history)
<1>1. /\ k \in DOMAIN jira /\ Begins(stored[k].history, changelog[k])
      /\ changelog[k] \in Seq(HistoryEntry)
  BY DEF HistoryInv, StoredInv, TicketsInv
<1>2. CASE stored'[k] = stored[k]
  BY <1>1, <1>2 DEF Begins
<1>3. ASSUME NEW j \in Keys, SyncChangelog(j), stored'[k] # stored[k]
      PROVE  stored'[k].history = changelog[k]
  BY <1>3 DEF SyncChangelog, With
<1>4. CASE stored'[k] # stored[k]
  BY <1>1, <1>3, <1>4 DEF HistoryNext, historyVars, Advance, Create, Edit, SyncRow
<1> QED
  BY <1>2, <1>4

(* The moments at which a ticket entered some statuses.                    *)
LEMMA EnteredGrows ==
  ASSUME HistoryInv, [HistoryNext]_historyVars, NEW k \in DOMAIN stored, NEW S
  PROVE  /\ Entered(k, S) \subseteq Entered(k, S)' /\ Entered(k, S)' \subseteq Nat
         /\ \A T : \A u \in Entered(k, T) : \A v \in Entered(k, S)' \ Entered(k, S) : u < v
<1> DEFINE g == stored[k].history
           h == stored'[k].history
<1>1. h \in Seq(HistoryEntry) /\ Begins(g, h)
  BY HistoriesExtend
<1>2. History(k) = g /\ History(k)' = h
  BY DEF History
<1> HIDE DEF g, h
<1>3. /\ \A i \in DOMAIN h : h[i] \in HistoryEntry
      /\ Len(g) \in Nat /\ DOMAIN g = 1 .. Len(g) /\ DOMAIN g \subseteq DOMAIN h
      /\ DOMAIN h \subseteq Nat /\ \A i \in DOMAIN h : i > 0
  BY <1>1 DEF Begins
<1>4. \A i \in DOMAIN h : h[i].at \in Nat
  BY <1>3 DEF HistoryEntry
<1>5. \A T : \A u : u \in Entered(k, T) <=>
        \E i \in DOMAIN g : g[i].field = "status" /\ g[i].new \in T /\ u = g[i].at
  BY <1>2 DEF Entered, Entries
<1>6. \A T : \A u : u \in Entered(k, T)' <=>
        \E i \in DOMAIN h : h[i].field = "status" /\ h[i].new \in T /\ u = h[i].at
  BY <1>2 DEF Entered, Entries
<1>7. \A i \in DOMAIN g : g[i] = h[i] /\ i \in DOMAIN h
  BY <1>1, <1>3 DEF Begins
<1>8. \A i \in DOMAIN h : i \in DOMAIN g \/ i > Len(g)
  BY <1>3
<1>9. \A i \in DOMAIN g : \A j \in DOMAIN h : j > Len(g) => h[i].at < h[j].at
  BY <1>1 DEF Begins
<1>10. ASSUME NEW T, NEW u \in Entered(k, T), NEW v \in Entered(k, S)' \ Entered(k, S)
       PROVE  u < v
  <2>1. PICK i \in DOMAIN g : u = g[i].at
    BY <1>5, <1>10
  <2>2. PICK j \in DOMAIN h : h[j].field = "status" /\ h[j].new \in S /\ v = h[j].at
    BY <1>6, <1>10
  <2>3. j > Len(g)
    BY <1>5, <1>7, <1>8, <1>10, <2>2
  <2> QED
    BY <1>7, <1>9, <2>1, <2>2, <2>3
<1> QED
  BY <1>4, <1>5, <1>6, <1>7, <1>10

LEMMA CycleStays ==
  ASSUME HistoryInv, [HistoryNext]_historyVars, NEW k \in DOMAIN stored, Cycle(k) # None
  PROVE  Cycle(k)' = Cycle(k)
<1> DEFINE W == Classification.inProgress
           D == Classification.done
           starts == Entered(k, W)
           done == Entered(k, D)
           starts1 == Entered(k, W)'
           done1 == Entered(k, D)'
           s == Min(starts)
           ends == {u \in done : starts # {} /\ u > s}
           ends1 == {u \in done1 : starts1 # {} /\ u > Min(starts1)}
<1>1. /\ starts \subseteq starts1 /\ starts1 \subseteq Nat
      /\ done \subseteq done1 /\ done1 \subseteq Nat
      /\ \A u \in starts : \A v \in starts1 \ starts : u < v
      /\ \A u \in done : \A v \in done1 \ done : u < v
  BY EnteredGrows
<1>2. /\ Cycle(k) = IF ends = {} THEN None ELSE Min(ends) - s
      /\ Cycle(k)' = IF ends1 = {} THEN None ELSE Min(ends1) - Min(starts1)
  BY DEF Cycle
<1>3. ends # {} /\ starts # {}
  <2>1. ends # {}
    BY <1>2
  <2> QED
    BY <2>1
<1> HIDE DEF starts, done, starts1, done1, s
<1>4. s \in starts /\ \A u \in starts : s <= u
  BY <1>1, <1>3, MinOfNumbers DEF s
<1>5. Min(starts1) = s
  <2>1. s \in starts1 /\ \A u \in starts1 : s <= u
    BY <1>1, <1>4
  <2> QED
    BY <1>1, <2>1, MinIs
<1>10. \A u : u \in ends <=> u \in done /\ u > s
  BY <1>3
<1>11. \A u : u \in ends1 <=> u \in done1 /\ u > s
  <2> DEFINE s1 == Min(starts1)
  <2>1. s1 = s /\ starts1 # {}
    BY <1>1, <1>4, <1>5
  <2>2. ends1 = {u \in done1 : starts1 # {} /\ u > s1}
    OBVIOUS
  <2> HIDE DEF s1, ends1
  <2> QED
    BY <2>1, <2>2
<1> HIDE DEF ends, ends1
<1> DEFINE e == Min(ends)
<1>6. e \in ends /\ \A u \in ends : e <= u
  <2>1. ends \in SUBSET Nat
    BY <1>1, <1>10
  <2> QED
    BY <2>1, <1>3, MinOfNumbers
<1> HIDE DEF e
<1>7. e \in ends1 /\ \A u \in ends1 : e <= u
  <2>1. e \in done /\ e > s /\ e \in done1
    BY <1>1, <1>6, <1>10
  <2>2. ASSUME NEW u \in ends1
        PROVE  e <= u
    <3>1. u \in done1 /\ u > s /\ u \in Nat /\ e \in Nat
      BY <1>1, <1>11, <2>1
    <3>2. CASE u \in done
      BY <1>6, <1>10, <3>1, <3>2
    <3>3. CASE u \notin done
      BY <1>1, <2>1, <3>1, <3>3
    <3> QED
      BY <3>2, <3>3
  <2> QED
    BY <1>11, <2>1, <2>2
<1>8. ends1 \in SUBSET Int
  <2>1. \A u \in ends1 : u \in Nat
    BY <1>1, <1>11
  <2> QED
    BY <2>1
<1>9. Min(ends1) = e
  BY <1>7, <1>8, MinIs
<1> QED
  BY <1>2, <1>3, <1>5, <1>7, <1>9 DEF e

(* What was measured of a finished piece of work never changes.            *)
THEOREM CycleTimesAreFixed == HistorySpec => CycleIsFixed
<1>1. HistoryInv /\ [HistoryNext]_historyVars => [CyclesStay]_historyVars
  BY CycleStays DEF CyclesStay
<1> QED
  BY <1>1, HistoryInvariance, PTL DEF HistorySpec, CycleIsFixed

-----------------------------------------------------------------------------
(* The start of a risk.                                                    *)

LEMMA MinOfBounded ==
  ASSUME NEW S \in SUBSET Int, S # {}, NEW b \in Int, \A n \in S : b <= n
  PROVE  Min(S) \in S /\ \A n \in S : Min(S) <= n
<1> DEFINE T == {n - b : n \in S}
<1>1. T \in SUBSET Nat /\ T # {}
  <2>1. T \in SUBSET Nat
    OBVIOUS
  <2>2. PICK n \in S : TRUE
    OBVIOUS
  <2>3. n - b \in T
    OBVIOUS
  <2> QED
    BY <2>1, <2>3
<1>2. \E m \in T : \A n \in T : m <= n
  <2> HIDE DEF T
  <2> QED
    BY <1>1, SmallestOf
<1>3. PICK m \in S : \A n \in S : m - b <= n - b
  BY <1>2
<1>4. \A n \in S : m <= n
  BY <1>3
<1> QED
  BY <1>4 DEF Min

RiskAfter(t, h, c) == RiskActive([f \in RiskFields |-> After(t, h, f, c)])

LEMMA SameRisk ==
  ASSUME NEW s, NEW t, \A f \in RiskFields : s[f] = t[f]
  PROVE  RiskActive(s) <=> RiskActive(t)
BY DEF RiskActive, ClassifyBlocker, IsDone, RiskFields

LEMMA RiskAfterStep ==
  ASSUME NEW t, IsTicket(t), NEW h \in Seq(HistoryEntry), Chained(t, h),
         NEW c \in Nat, c < Len(h), h[c + 1].field \notin RiskFields
  PROVE  RiskAfter(t, h, c + 1) <=> RiskAfter(t, h, c)
<1>1. \A f \in RiskFields : f \in Fields /\ After(t, h, f, c + 1) = After(t, h, f, c)
  BY AfterStep DEF RiskFields, Fields
<1> QED
  BY <1>1 DEF RiskAfter

LEMMA RiskAfterAll ==
  ASSUME NEW t, IsTicket(t), NEW h \in Seq(HistoryEntry), Chained(t, h)
  PROVE  RiskAfter(t, h, Len(h)) <=> RiskActive(t)
<1> DEFINE s == [f \in RiskFields |-> After(t, h, f, Len(h))]
<1>1. \A f \in RiskFields : f \in Fields /\ After(t, h, f, Len(h)) = t[f]
  BY AfterAll DEF RiskFields, Fields
<1>2. \A f \in RiskFields : s[f] = t[f]
  BY <1>1
<1> HIDE DEF s
<1>3. RiskActive(s) <=> RiskActive(t)
  BY <1>2, SameRisk
<1> QED
  BY <1>3 DEF RiskAfter, s

(* Undoing the entries from one on shows what the others left.             *)
LEMMA UndoneIsAfter ==
  ASSUME NEW t, IsTicket(t), NEW h \in Seq(HistoryEntry), Chained(t, h),
         NEW i \in Nat, i > 0, i <= Len(h) + 1, NEW f \in RiskFields
  PROVE  Undone(t, h, {j \in {m \in DOMAIN h : h[m].field \in RiskFields} : j >= i})[f]
           = After(t, h, f, i - 1)
<1> DEFINE entries == {j \in {m \in DOMAIN h : h[m].field \in RiskFields} : j >= i}
           changes == {j \in entries : h[j].field = f}
<1>1. f \in Fields /\ f \in DOMAIN t
  BY DEF RiskFields, Fields, IsTicket
<1>2. Undone(t, h, entries)[f] = IF changes = {} THEN t[f] ELSE h[Min(changes)].old
  BY <1>1 DEF Undone
<1>3. \A j : j \in changes <=> j \in Of(h, f) /\ j >= i
  BY DEF Of
<1>4. /\ Len(h) \in Nat /\ Of(h, f) \in SUBSET Nat
      /\ \A j \in Of(h, f) : j > 0 /\ j <= Len(h) /\ h[j].field = f /\ j \in DOMAIN h
  BY DEF Of
<1> HIDE DEF changes, entries
<1>5. CASE changes = {}
  <2>1. UpTo(h, f, i - 1) = UpTo(h, f, Len(h))
    BY <1>3, <1>4, <1>5 DEF UpTo
  <2>2. After(t, h, f, i - 1) = After(t, h, f, Len(h))
    BY <2>1 DEF After
  <2> QED
    BY <1>1, <1>2, <1>5, <2>2, AfterAll DEF entries
<1>6. CASE changes # {}
  <2> DEFINE m == Min(changes)
  <2>1. changes \in SUBSET Nat
    BY <1>3, <1>4
  <2>2. m \in changes /\ \A j \in changes : m <= j
    BY <1>6, <2>1, MinOfNumbers
  <2> HIDE DEF m
  <2>3. m \in Nat /\ m >= i /\ m <= Len(h) /\ h[m].field = f /\ m - 1 \in Nat /\ m - 1 < Len(h)
    BY <1>3, <1>4, <2>2
  <2>4. After(t, h, f, m - 1) = h[m].old
    <3> DEFINE c == m - 1
    <3>1. c \in Nat /\ c < Len(h) /\ c + 1 = m
      BY <2>3
    <3> HIDE DEF c
    <3>2. After(t, h, f, c) = h[c + 1].old
      BY <1>1, <2>3, <3>1, AfterStep
    <3> QED
      BY <3>1, <3>2 DEF c
  <2>5. UpTo(h, f, i - 1) = UpTo(h, f, m - 1)
    BY <1>3, <1>4, <2>2, <2>3 DEF UpTo
  <2>6. After(t, h, f, i - 1) = After(t, h, f, m - 1)
    BY <2>5 DEF After
  <2> QED
    BY <1>2, <1>6, <2>4, <2>6 DEF entries, m
<1> QED
  BY <1>5, <1>6

(* A risk that is active now was active since its last inactive moment.    *)
LEMMA ActiveSince ==
  ASSUME NEW t, IsTicket(t), NEW h \in Seq(HistoryEntry), Chained(t, h), RiskActive(t),
         NEW c \in Nat, c <= Len(h),
         \A i \in DOMAIN h : h[i].field \in RiskFields /\ ~RiskAfter(t, h, i - 1) => i <= c
  PROVE  RiskAfter(t, h, c)
<1> DEFINE S == {d \in 0 .. Len(h) : c <= d /\ ~RiskAfter(t, h, d)}
<1>1. SUFFICES ASSUME ~RiskAfter(t, h, c)
               PROVE  FALSE
  OBVIOUS
<1>2. Len(h) \in Nat /\ DOMAIN h = 1 .. Len(h)
  OBVIOUS
<1>3. c \in S /\ S \in SUBSET Nat /\ \A d \in S : d <= Len(h)
  BY <1>1, <1>2
<1>4. PICK d \in S : \A e \in S : d >= e
  <2> HIDE DEF S
  <2> QED
    BY <1>2, <1>3, GreatestOf
<1>5. d \in Nat /\ d < Len(h) /\ c <= d /\ ~RiskAfter(t, h, d)
  <2>1. d \in 0 .. Len(h) /\ c <= d /\ ~RiskAfter(t, h, d)
    BY <1>4
  <2>2. d # Len(h)
    BY <2>1, RiskAfterAll
  <2>3. d \in Nat /\ c <= d /\ d <= Len(h)
    BY <1>2, <2>1
  <2> HIDE DEF S
  <2>4. d < Len(h)
    <3> DEFINE n == Len(h)
    <3>1. n \in Nat /\ d \in Nat /\ d <= n /\ d # n
      BY <1>2, <2>2, <2>3
    <3> HIDE DEF n
    <3>2. d < n
      BY <3>1
    <3> QED
      BY <3>2 DEF n
  <2> QED
    BY <2>1, <2>3, <2>4
<1>6. RiskAfter(t, h, d + 1)
  <2>1. d + 1 \notin S
    BY <1>4, <1>5
  <2> QED
    BY <1>2, <1>5, <2>1
<1>7. h[d + 1].field \in RiskFields
  BY <1>5, <1>6, RiskAfterStep
<1>8. d + 1 \in DOMAIN h /\ (d + 1) - 1 = d
  BY <1>2, <1>5
<1> QED
  BY <1>5, <1>7, <1>8

LEMMA ActiveBeforeIs ==
  ASSUME HistoryInv, NEW k \in DOMAIN stored, Known(k),
         NEW i \in Nat, i > 0, i <= Len(changelog[k]) + 1
  PROVE  ActiveBefore(k, i) <=> RiskAfter(jira[k], changelog[k], i - 1)
<1> DEFINE t == jira[k]
           h == changelog[k]
           late == {j \in {m \in DOMAIN h : h[m].field \in RiskFields} : j >= i}
           s == Undone(Row(k), h, late)
           r == [f \in RiskFields |-> After(t, h, f, i - 1)]
<1>1. /\ k \in DOMAIN jira /\ History(k) = h /\ RiskFields \subseteq DOMAIN t
      /\ DOMAIN Row(k) = DOMAIN t /\ \A f \in RiskFields : Row(k)[f] = t[f]
  BY LinkedRow, TicketFacts DEF IsTicket, RiskFields, Fields
<1>2. IsTicket(t) /\ h \in Seq(HistoryEntry) /\ Chained(t, h) /\ \A j \in DOMAIN h : h[j].at <= day
  BY <1>1, TicketFacts
<1>3. RiskEntries(k) = {m \in DOMAIN h : h[m].field \in RiskFields}
  BY <1>1, <1>2 DEF RiskEntries
<1>4. ActiveBefore(k, i) <=> RiskActive(s)
  BY <1>1, <1>3 DEF ActiveBefore
<1>5. \A f \in RiskFields : s[f] = r[f]
  <2>1. \A f \in RiskFields : s[f] = After(t, h, f, i - 1)
    <3> SUFFICES ASSUME NEW f \in RiskFields
                 PROVE  s[f] = After(t, h, f, i - 1)
      OBVIOUS
    <3>1. i <= Len(h) + 1
      OBVIOUS
    <3> HIDE DEF t, h
    <3>2. Undone(t, h, {j \in {m \in DOMAIN h : h[m].field \in RiskFields} : j >= i})[f]
            = After(t, h, f, i - 1)
      BY <1>2, <3>1, UndoneIsAfter
    <3> HIDE DEF late
    <3>3. Undone(Row(k), h, late)[f] = Undone(t, h, late)[f]
      BY <1>1 DEF Undone
    <3> QED
      BY <3>2, <3>3 DEF late
  <2> HIDE DEF s, t, h
  <2> QED
    BY <2>1
<1> HIDE DEF s, r
<1>6. RiskActive(s) <=> RiskActive(r)
  BY <1>5, SameRisk
<1> QED
  BY <1>4, <1>6 DEF RiskAfter, r

LEMMA ActiveAtCut ==
  ASSUME HistoryInv, NEW k \in DOMAIN jira, NEW u \in Int,
         NEW c \in Nat, Cut(changelog[k], c, u)
  PROVE  RiskActive(StateAt(k, u)) <=> RiskAfter(jira[k], changelog[k], c)
<1> DEFINE s == StateAt(k, u)
           r == [f \in RiskFields |-> After(jira[k], changelog[k], f, c)]
<1>1. \A f \in RiskFields : s[f] = r[f]
  <2>1. RiskFields \subseteq Fields
    BY DEF RiskFields, Fields
  <2>2. \A f \in RiskFields : s[f] = After(jira[k], changelog[k], f, c)
    BY <2>1, StateAtCut
  <2> HIDE DEF s
  <2> QED
    BY <2>2
<1> HIDE DEF s, r
<1>2. RiskActive(s) <=> RiskActive(r)
  BY <1>1, SameRisk
<1> QED
  BY <1>2 DEF RiskAfter, s, r

LEMMA RiskIsProven ==
  ASSUME HistoryInv, NEW k \in DOMAIN stored, Known(k), RiskActive(Row(k))
  PROVE  /\ RiskStart(k) \in EditTimes(k)
         /\ RiskStart(k) >= TrueRiskStart(k)
         /\ OneFieldEdits(k) => RiskStart(k) = TrueRiskStart(k)
<1> DEFINE t == jira[k]
           h == changelog[k]
           times == EditTimes(k)
           A == {a \in times : \A u \in times : u >= a => RiskActive(StateAt(k, u))}
           inactive == {i \in RiskEntries(k) : ~ActiveBefore(k, i)}
<1>1. /\ k \in DOMAIN jira /\ History(k) = h /\ Row(k).created = t.created
      /\ stored[k].complete /\ RiskActive(t)
  <2>1. \A f \in RiskFields : Row(k)[f] = t[f]
    BY LinkedRow DEF RiskFields, Fields
  <2> QED
    BY <2>1, LinkedRow, SameRisk
<1>2. /\ IsTicket(t) /\ h \in Seq(HistoryEntry) /\ Chained(t, h) /\ Ordered(h)
      /\ Len(h) \in Nat /\ DOMAIN h = 1 .. Len(h)
      /\ \A i \in DOMAIN h : h[i].at <= day /\ h[i].at \in Nat /\ h[i].at > t.created
      /\ t.created \in Int
  BY <1>1, TicketFacts
<1>3. /\ \A u \in times : u = t.created \/ \E i \in DOMAIN h : u = h[i].at
      /\ t.created \in times /\ \A i \in DOMAIN h : h[i].at \in times
  BY DEF EditTimes
<1>4. times \subseteq Int /\ \A u \in times : t.created <= u
  <2> HIDE DEF times, t, h
  <2>1. ASSUME NEW u \in times
        PROVE  u \in Int /\ t.created <= u
    BY <1>2, <1>3
  <2> QED
    BY <2>1
<1>5. TrueRiskStart(k) = Min(A)
  BY DEF TrueRiskStart
<1>6. RiskStart(k) = IF inactive # {} THEN h[Max(inactive)].at
                     ELSE IF ActiveBefore(k, 1) THEN t.created ELSE None
  BY <1>1 DEF RiskStart, RiskStartOf
<1>7. \A i \in DOMAIN h : ActiveBefore(k, i) <=> RiskAfter(t, h, i - 1)
  BY <1>2, ActiveBeforeIs
<1>8. \A i : i \in inactive <=> /\ i \in DOMAIN h /\ h[i].field \in RiskFields
                                /\ ~RiskAfter(t, h, i - 1)
  BY <1>1, <1>2, <1>7 DEF RiskEntries
<1>9. \A u \in times : \E c \in 0 .. Len(h) : Cut(h, c, u)
  BY <1>2, <1>4, CutAt
<1>10. \A u \in Int : \A c \in Nat : Cut(h, c, u) =>
         (RiskActive(StateAt(k, u)) <=> RiskAfter(t, h, c))
  BY <1>1, ActiveAtCut
<1>11. \A c \in Nat : c <= Len(h) /\ (\A i \in inactive : i <= c) => RiskAfter(t, h, c)
  <2> HIDE DEF inactive, t, h
  <2> QED
    BY <1>1, <1>2, <1>8, ActiveSince
<1> HIDE DEF inactive, times, t, h
(* From a time on that no inactive moment follows, the risk was active.    *)
<1>12. ASSUME NEW a \in times, \A i \in inactive : h[i].at <= a
       PROVE  a \in A
  <2> SUFFICES ASSUME NEW u \in times, u >= a
               PROVE  RiskActive(StateAt(k, u))
    BY <1>12
  <2>1. PICK c \in 0 .. Len(h) : Cut(h, c, u)
    BY <1>9
  <2>2. \A i \in inactive : i <= c
    <3>1. \A i \in inactive : i \in DOMAIN h /\ h[i].at <= a /\ i \in Nat /\ h[i].at \in Nat
      BY <1>2, <1>8, <1>12
    <3>2. a \in Int /\ u \in Int
      BY <1>4
    <3>3. \A i \in inactive : ~(h[i].at > u)
      BY <3>1, <3>2
    <3> QED
      BY <2>1, <3>1, <3>3 DEF Cut
  <2>3. RiskAfter(t, h, c)
    BY <1>2, <1>11, <2>1, <2>2
  <2> QED
    BY <1>4, <1>10, <2>1, <2>3
<1>13. A \subseteq times
  OBVIOUS
<1>14. \A a \in A : \A u \in times : u >= a => RiskActive(StateAt(k, u))
  OBVIOUS
<1> HIDE DEF A
<1>15. A \in SUBSET Int /\ \A a \in A : t.created <= a
  BY <1>4, <1>13
<1>16. A # {} => Min(A) \in A /\ \A a \in A : Min(A) <= a
  BY <1>2, <1>15, MinOfBounded
<1>17. CASE inactive = {}
  <2>1. t.created \in A
    BY <1>3, <1>12, <1>17
  <2>2. Min(A) = t.created
    BY <1>15, <2>1, MinIs
  <2>3. ActiveBefore(k, 1)
    <3>1. RiskAfter(t, h, 0)
      BY <1>2, <1>11, <1>17
    <3>2. 1 \in Nat /\ 1 > 0 /\ 1 <= Len(changelog[k]) + 1 /\ 1 - 1 = 0
      BY <1>2 DEF h
    <3> QED
      BY <3>1, <3>2, ActiveBeforeIs DEF t, h
  <2>4. RiskStart(k) = t.created
    BY <1>6, <1>17, <2>3
  <2> QED
    BY <1>2, <1>3, <1>5, <2>2, <2>4 DEF times
<1>18. CASE inactive # {}
  <2> DEFINE m == Max(inactive)
             s == h[m].at
  <2>1. m \in inactive /\ \A i \in inactive : m >= i
    <3>1. inactive \in SUBSET Nat /\ \A i \in inactive : i <= Len(h)
      BY <1>2, <1>8
    <3> QED
      BY <1>2, <1>18, <3>1, MaxOfNumbers
  <2>2. RiskStart(k) = s
    BY <1>6, <1>18
  <2> HIDE DEF m
  <2>3. m \in DOMAIN h /\ m \in Nat /\ m > 0 /\ m <= Len(h) /\ ~RiskAfter(t, h, m - 1)
    BY <1>2, <1>8, <2>1
  <2>4. s \in times /\ s \in Nat
    BY <1>2, <1>3, <2>3
  <2>5. s \in A
    <3>1. \A i \in inactive : i \in DOMAIN h /\ (i < m \/ i = m)
      BY <1>2, <1>8, <2>1, <2>3
    <3>2. \A i \in inactive : h[i].at <= s
      BY <1>2, <2>3, <3>1 DEF Ordered
    <3> QED
      BY <1>12, <2>4, <3>2
  <2>6. Min(A) <= s /\ Min(A) \in A /\ Min(A) \in Int
    BY <1>15, <1>16, <2>5
  <2>7. ASSUME OneFieldEdits(k), NEW a \in A, a < s
        PROVE  FALSE
    <3> DEFINE u == IF m = 1 THEN t.created ELSE h[m - 1].at
    <3>1. \A i, j \in DOMAIN h : h[i].at = h[j].at => i = j
      BY <2>7 DEF OneFieldEdits, h
    <3>2. \A i, j \in DOMAIN h : i < j => h[i].at < h[j].at
      BY <1>2, <3>1 DEF Ordered
    <3>3. u \in times /\ u \in Int
      BY <1>2, <1>3, <2>3
    <3>4. Cut(h, m - 1, u)
      <4>1. CASE m = 1
        BY <1>2, <2>3, <4>1 DEF Cut
      <4>2. CASE m # 1
        <5>1. m - 1 \in DOMAIN h
          BY <1>2, <2>3, <4>2
        <5>2. \A i \in DOMAIN h : i <= m - 1 => h[i].at <= h[m - 1].at
          BY <1>2, <2>3, <3>2, <5>1
        <5>3. \A i \in DOMAIN h : i > m - 1 => h[i].at > h[m - 1].at
          BY <1>2, <2>3, <3>2, <5>1
        <5> QED
          BY <4>2, <5>2, <5>3 DEF Cut
      <4> QED
        BY <4>1, <4>2
    <3>5. u >= a
      <4>1. CASE a = t.created
        BY <1>2, <2>3, <4>1
      <4>2. ASSUME NEW j \in DOMAIN h, a = h[j].at
            PROVE  u >= a
        <5>1. j < m
          BY <1>2, <2>3, <2>7, <3>2, <4>2
        <5>2. m # 1 /\ j <= m - 1 /\ m - 1 \in DOMAIN h
          BY <1>2, <2>3, <5>1
        <5>3. h[j].at <= h[m - 1].at
          BY <1>2, <3>2, <5>2
        <5> QED
          BY <4>2, <5>2, <5>3
      <4> QED
        BY <1>3, <1>13, <2>7, <4>1, <4>2
    <3> HIDE DEF u
    <3>6. RiskActive(StateAt(k, u))
      BY <1>14, <3>3, <3>5
    <3>7. m - 1 \in Nat
      BY <2>3
    <3> QED
      BY <1>10, <2>3, <3>3, <3>4, <3>6, <3>7
  <2>8. OneFieldEdits(k) => Min(A) = s
    <3>1. OneFieldEdits(k) => ~(Min(A) < s)
      BY <2>6, <2>7
    <3> HIDE DEF s
    <3> QED
      BY <2>4, <2>6, <3>1
  <2> HIDE DEF s
  <2> QED
    BY <1>5, <2>2, <2>4, <2>6, <2>8 DEF times
<1> QED
  BY <1>17, <1>18

(* The start reported for a risk is a time its ticket was edited or        *)
(* created, never before the risk began, and exactly then when every edit  *)
(* changes one field.                                                      *)
THEOREM RiskStartsAreProven == HistorySpec => []RiskStartIsProven
<1>1. HistoryInv => RiskStartIsProven
  BY RiskIsProven DEF RiskStartIsProven
<1> QED
  BY <1>1, HistoryInvariance, PTL

-----------------------------------------------------------------------------
(* The scope: moves of all tickets, counted together.                      *)

Pairs(K, A) == UNION {{k} \X A[k] : k \in K}

LEMMA PairsOf ==
  ASSUME NEW K, NEW A, NEW p
  PROVE  p \in Pairs(K, A) <=> \E k \in K : p \in {k} \X A[k]
<1> DEFINE all == {{k} \X A[k] : k \in K}
<1>1. Pairs(K, A) = UNION all
  BY DEF Pairs
<1>2. p \in UNION all <=> \E S \in all : p \in S
  <2> HIDE DEF all
  <2> QED
    OBVIOUS
<1>3. (\E S \in all : p \in S) <=> \E k \in K : p \in {k} \X A[k]
  OBVIOUS
<1> HIDE DEF all
<1> QED
  BY <1>1, <1>2, <1>3

LEMMA OneMore ==
  ASSUME NEW T, NEW x \in T, NEW A, IsFiniteSet(A[x]), IsFiniteSet(Pairs(T \ {x}, A))
  PROVE  /\ IsFiniteSet(Pairs(T, A))
         /\ Cardinality(Pairs(T, A)) = Cardinality(Pairs(T \ {x}, A)) + Cardinality(A[x])
<1> DEFINE F == [a \in A[x] |-> <<x, a>>]
           S == {F[a] : a \in A[x]}
           rest == Pairs(T \ {x}, A)
<1>1. IsFiniteSet(S) /\ Cardinality(S) = Cardinality(A[x])
  <2>1. DOMAIN F = A[x] /\ \A i, j \in A[x] : F[i] = F[j] => i = j
    OBVIOUS
  <2> HIDE DEF F
  <2> QED
    BY <2>1, Relabelled
<1>2. S = {x} \X A[x]
  <2>1. S = {<<x, a>> : a \in A[x]}
    OBVIOUS
  <2> HIDE DEF S, F
  <2>2. \A p \in {x} \X A[x] : p[1] = x /\ p[2] \in A[x] /\ p = <<p[1], p[2]>>
    OBVIOUS
  <2>3. {x} \X A[x] \subseteq S
    BY <2>1, <2>2
  <2>4. S \subseteq {x} \X A[x]
    BY <2>1
  <2> QED
    BY <2>3, <2>4
<1> HIDE DEF S, F
<1>3. Pairs(T, A) = rest \cup S
  <2>1. \A p : p \in Pairs(T, A) <=> \E k \in T : p \in {k} \X A[k]
    BY PairsOf
  <2>2. \A p : p \in rest <=> \E k \in T \ {x} : p \in {k} \X A[k]
    BY PairsOf
  <2> HIDE DEF rest
  <2> QED
    BY <1>2, <2>1, <2>2
<1>4. rest \cap S = {}
  <2>1. \A p : p \in rest <=> \E k \in T \ {x} : p \in {k} \X A[k]
    BY PairsOf
  <2> HIDE DEF rest
  <2> QED
    BY <1>2, <2>1
<1>5. IsFiniteSet(rest)
  OBVIOUS
<1> HIDE DEF rest
<1>6. /\ IsFiniteSet(rest \cup S)
      /\ Cardinality(rest \cup S) = Cardinality(rest) + Cardinality(S) - Cardinality({})
  BY <1>1, <1>4, <1>5, FS_Union
<1> DEFINE p == Cardinality(rest)
           q == Cardinality(S)
<1>7. p \in Nat /\ q \in Nat /\ Cardinality({}) = 0
  BY <1>1, <1>5, FS_CardinalityType, FS_EmptySet
<1>8. Cardinality(rest \cup S) = p + q - Cardinality({})
  BY <1>6
<1>9. Cardinality(Pairs(T, A)) = p + q /\ q = Cardinality(A[x])
  <2> HIDE DEF p
  <2>1. q = Cardinality(A[x])
    BY <1>1
  <2> HIDE DEF q
  <2> QED
    BY <1>3, <1>7, <1>8, <2>1
<1> QED
  BY <1>3, <1>6, <1>9 DEF rest

LEMMA Common ==
  ASSUME NEW T, NEW x \in T, NEW X, IsFiniteSet(T)
  PROVE  /\ Cardinality(X \cap T) \in Nat /\ Cardinality(X \cap (T \ {x})) \in Nat
         /\ Cardinality(X \cap T) = Cardinality(X \cap (T \ {x})) + One(x \in X)
<1>1. IsFiniteSet(X \cap T) /\ IsFiniteSet(X \cap (T \ {x}))
  <2>1. X \cap T \subseteq T /\ X \cap (T \ {x}) \subseteq T
    OBVIOUS
  <2> QED
    BY <2>1, FS_Subset
<1>2. Cardinality(X \cap T) \in Nat /\ Cardinality(X \cap (T \ {x})) \in Nat
  BY <1>1, FS_CardinalityType
<1>3. CASE x \in X
  <2>1. X \cap T = (X \cap (T \ {x})) \cup {x} /\ x \notin X \cap (T \ {x})
    BY <1>3
  <2>2. Cardinality((X \cap (T \ {x})) \cup {x}) = Cardinality(X \cap (T \ {x})) + 1
    BY <1>1, <2>1, FS_AddElement
  <2> QED
    BY <1>2, <1>3, <2>1, <2>2 DEF One
<1>4. CASE x \notin X
  <2>1. X \cap T = X \cap (T \ {x})
    BY <1>4
  <2> QED
    BY <1>2, <1>4, <2>1 DEF One
<1> QED
  BY <1>2, <1>3, <1>4

Accounted(K, A, B, X, Y) ==
  \A k \in K : /\ IsFiniteSet(A[k]) /\ IsFiniteSet(B[k])
               /\ Cardinality(A[k]) - Cardinality(B[k]) = One(k \in X) - One(k \in Y)

LEMMA Together ==
  ASSUME NEW K, IsFiniteSet(K), NEW A, NEW B, NEW X, NEW Y, Accounted(K, A, B, X, Y)
  PROVE  /\ IsFiniteSet(Pairs(K, A)) /\ IsFiniteSet(Pairs(K, B))
         /\ Cardinality(Pairs(K, A)) - Cardinality(Pairs(K, B))
              = Cardinality(X \cap K) - Cardinality(Y \cap K)
<1> DEFINE even(T) == /\ IsFiniteSet(T)
                      /\ IsFiniteSet(Pairs(T, A)) /\ IsFiniteSet(Pairs(T, B))
                      /\ Cardinality(Pairs(T, A)) - Cardinality(Pairs(T, B))
                           = Cardinality(X \cap T) - Cardinality(Y \cap T)
           P == {T \in SUBSET K : even(T)}
<1>1. {} \in P
  <2>1. Pairs({}, A) = {} /\ Pairs({}, B) = {}
    BY PairsOf
  <2>2. X \cap {} = {} /\ Y \cap {} = {}
    OBVIOUS
  <2> QED
    BY <2>1, <2>2, FS_EmptySet
<1>2. ASSUME NEW T \in SUBSET K, NEW x \in T, T \ {x} \in P
      PROVE  T \in P
  <2> DEFINE R == T \ {x}
  <2>1. IsFiniteSet(T) /\ IsFiniteSet(A[x]) /\ IsFiniteSet(B[x])
    BY FS_Subset DEF Accounted
  <2>2. /\ IsFiniteSet(Pairs(R, A)) /\ IsFiniteSet(Pairs(R, B))
        /\ Cardinality(Pairs(R, A)) - Cardinality(Pairs(R, B))
             = Cardinality(X \cap R) - Cardinality(Y \cap R)
    BY <1>2
  <2>3. /\ IsFiniteSet(Pairs(T, A)) /\ IsFiniteSet(Pairs(T, B))
        /\ Cardinality(Pairs(T, A)) = Cardinality(Pairs(R, A)) + Cardinality(A[x])
        /\ Cardinality(Pairs(T, B)) = Cardinality(Pairs(R, B)) + Cardinality(B[x])
    BY <2>1, <2>2, OneMore
  <2>4. /\ Cardinality(X \cap T) = Cardinality(X \cap R) + One(x \in X)
        /\ Cardinality(Y \cap T) = Cardinality(Y \cap R) + One(x \in Y)
        /\ Cardinality(X \cap R) \in Nat /\ Cardinality(Y \cap R) \in Nat
    BY <2>1, Common
  <2>5. Cardinality(A[x]) - Cardinality(B[x]) = One(x \in X) - One(x \in Y)
    BY DEF Accounted
  <2>6. /\ Cardinality(A[x]) \in Nat /\ Cardinality(B[x]) \in Nat
        /\ Cardinality(Pairs(R, A)) \in Nat /\ Cardinality(Pairs(R, B)) \in Nat
        /\ One(x \in X) \in Int /\ One(x \in Y) \in Int
    BY <2>1, <2>2, FS_CardinalityType DEF One
  <2> DEFINE a == Cardinality(A[x])
             b == Cardinality(B[x])
             c == Cardinality(Pairs(R, A))
             d == Cardinality(Pairs(R, B))
             g == One(x \in X)
             h == One(x \in Y)
             m == Cardinality(X \cap R)
             n == Cardinality(Y \cap R)
  <2>7. /\ a \in Nat /\ b \in Nat /\ c \in Nat /\ d \in Nat /\ m \in Nat /\ n \in Nat
        /\ g \in Int /\ h \in Int /\ a - b = g - h /\ c - d = m - n
    BY <2>2, <2>4, <2>5, <2>6
  <2>8. /\ Cardinality(Pairs(T, A)) = c + a /\ Cardinality(Pairs(T, B)) = d + b
        /\ Cardinality(X \cap T) = m + g /\ Cardinality(Y \cap T) = n + h
    BY <2>3, <2>4
  <2> HIDE DEF a, b, c, d, g, h, m, n, R
  <2>9. (c + a) - (d + b) = (m + g) - (n + h)
    BY <2>7
  <2> QED
    BY <2>1, <2>3, <2>8, <2>9
<1>3. K \in P
  <2> HIDE DEF P
  <2> QED
    BY <1>1, <1>2, EverySubset
<1> QED
  BY <1>3

(* The moves of one ticket after some moment are the difference between    *)
(* its membership then and now.                                            *)
Membership == {"release", "sprint"}

LEMMA MembershipOf ==
  ASSUME HistoryInv, NEW k \in DOMAIN jira, NEW f \in Membership
  PROVE  /\ jira[k][f] \in BOOLEAN
         /\ \A i \in Of(changelog[k], f) : /\ changelog[k][i].old \in BOOLEAN
                                           /\ changelog[k][i].new \in BOOLEAN
<1>1. jira[k][f] \in BOOLEAN
  BY TicketFacts DEF IsTicket, Membership
<1>2. \A i \in DOMAIN changelog[k] : Readable(changelog[k][i])
  BY TicketFacts
<1>3. f \in {"release", "sprint"}
  BY DEF Membership
<1>4. ASSUME NEW i \in Of(changelog[k], f)
      PROVE  {changelog[k][i].old, changelog[k][i].new} \subseteq BOOLEAN
  <2>1. i \in DOMAIN changelog[k] /\ changelog[k][i].field = f
    BY DEF Of
  <2> QED
    BY <1>2, <1>3, <2>1 DEF Readable
<1> QED
  BY <1>1, <1>4

LEMMA MovesAccount ==
  ASSUME HistoryInv, NEW k \in DOMAIN stored, Known(k), NEW f \in Membership,
         NEW u \in Int, NEW to \in Int,
         \A i \in Of(changelog[k], f) : changelog[k][i].at > u => changelog[k][i].at <= to
  PROVE  /\ IsFiniteSet(MovesOf(k, f, TRUE, u + 1, to))
         /\ IsFiniteSet(MovesOf(k, f, FALSE, u + 1, to))
         /\ Cardinality(MovesOf(k, f, TRUE, u + 1, to))
              - Cardinality(MovesOf(k, f, FALSE, u + 1, to))
              = One(jira[k][f]) - One(StateAt(k, u)[f])
<1> DEFINE t == jira[k]
           h == changelog[k]
           n == Len(changelog[k])
<1>1. k \in DOMAIN jira /\ History(k) = h
  BY LinkedRow
<1>2. /\ IsTicket(t) /\ h \in Seq(HistoryEntry) /\ Chained(t, h) /\ Ordered(h) /\ n \in Nat
      /\ Len(h) = n /\ DOMAIN h = 1 .. n
      /\ \A i \in DOMAIN h : h[i].at \in Nat /\ h[i].old # h[i].new
  BY <1>1, TicketFacts
<1>3. t[f] \in BOOLEAN /\ \A i \in Of(h, f) : h[i].old \in BOOLEAN /\ h[i].new \in BOOLEAN
  BY <1>1, MembershipOf
<1>4. f \in Fields
  BY DEF Membership, Fields
<1>5. \A i \in Of(h, f) : h[i].at > u => h[i].at <= to
  OBVIOUS
<1>6. PICK c \in 0 .. n : Cut(h, c, u)
  <2> HIDE DEF t, h, n
  <2> QED
    BY <1>2, CutAt
<1> DEFINE G == {TRUE}
           into == Entering(h, f, G, c, n)
           out == Leaving(h, f, G, c, n)
<1>7. /\ IsFiniteSet(into) /\ IsFiniteSet(out)
      /\ Cardinality(into) - Cardinality(out)
           = One(After(t, h, f, n) \in G) - One(After(t, h, f, c) \in G)
  <2>1. c \in Nat /\ c <= n
    BY <1>2, <1>6
  <2> HIDE DEF t, h, n, G
  <2> QED
    BY <1>2, <1>4, <2>1, Balance
<1>8. After(t, h, f, n) = t[f]
  <2> HIDE DEF t, h
  <2> QED
    BY <1>2, <1>4, AfterAll
<1>9. After(t, h, f, c) = StateAt(k, u)[f]
  <2>1. c \in Nat
    BY <1>2, <1>6
  <2> QED
    BY <1>1, <1>4, <1>6, <2>1, StateAtCut
<1>10. \A i \in Of(h, f) : /\ h[i].at \in (u + 1) .. to <=> c < i /\ i <= n
                           /\ i \in DOMAIN h /\ h[i].old # h[i].new
  <2> HIDE DEF t, h, n
  <2>1. ASSUME NEW i \in Of(h, f)
        PROVE  h[i].at \in (u + 1) .. to <=> c < i /\ i <= n
    <3>1. i \in DOMAIN h /\ i \in Nat /\ i <= n /\ h[i].at \in Nat /\ c \in Nat
      BY <1>2, <1>6 DEF Of
    <3>2. (i <= c => h[i].at <= u) /\ (i > c => h[i].at > u)
      BY <1>6, <3>1 DEF Cut
    <3>3. h[i].at > u => h[i].at <= to
      BY <1>5
    <3> DEFINE v == h[i].at
    <3>4. v \in Nat
      BY <3>1
    <3> HIDE DEF v
    <3>5. v \in (u + 1) .. to <=> v > u
      BY <3>3, <3>4 DEF v
    <3> QED
      BY <3>1, <3>2, <3>4, <3>5 DEF v
  <2> QED
    BY <1>2, <2>1 DEF Of
<1>11. \A x : MovesOf(k, f, x, u + 1, to)
               = {i \in Of(h, f) : h[i].new = x /\ h[i].at \in (u + 1) .. to}
  BY <1>1 DEF MovesOf, Entries, Of
<1> HIDE DEF t, h, n
<1>12. MovesOf(k, f, TRUE, u + 1, to) = into
  BY <1>3, <1>10, <1>11 DEF Entering
<1>13. MovesOf(k, f, FALSE, u + 1, to) = out
  <2>1. \A i \in Of(h, f) : h[i].new = FALSE <=> h[i].old \in G /\ h[i].new \notin G
    BY <1>3, <1>10
  <2> HIDE DEF G
  <2>2. MovesOf(k, f, FALSE, u + 1, to)
          = {i \in Of(h, f) : h[i].new = FALSE /\ h[i].at \in (u + 1) .. to}
    BY <1>11
  <2> QED
    BY <1>10, <2>1, <2>2 DEF Leaving
<1>14. One(After(t, h, f, n) \in G) = One(t[f])
  BY <1>3, <1>8 DEF One
<1>15. StateAt(k, u)[f] \in BOOLEAN
  <2>1. After(t, h, f, c) \in BOOLEAN
    BY <1>2, <1>3, OfFacts DEF After, UpTo
  <2> QED
    BY <1>9, <2>1
<1>16. One(After(t, h, f, c) \in G) = One(StateAt(k, u)[f])
  BY <1>9, <1>15 DEF One
<1> QED
  BY <1>7, <1>12, <1>13, <1>14, <1>16 DEF t

LEMMA ScopeAccounts ==
  ASSUME HistoryInv, AllKnown, NEW f \in Membership, NEW u \in Int, NEW to \in Int,
         \A k \in DOMAIN jira : \A i \in Of(changelog[k], f) :
           changelog[k][i].at > u => changelog[k][i].at <= to
  PROVE  /\ Cardinality(Moves(f, TRUE, u + 1, to)) \in Nat
         /\ Cardinality(Moves(f, FALSE, u + 1, to)) \in Nat
         /\ Cardinality({k \in DOMAIN jira : jira[k][f]}) \in Nat
         /\ Cardinality({k \in DOMAIN jira : StateAt(k, u)[f]}) \in Nat
         /\ Cardinality(Moves(f, TRUE, u + 1, to)) - Cardinality(Moves(f, FALSE, u + 1, to))
              = Cardinality({k \in DOMAIN jira : jira[k][f]})
                  - Cardinality({k \in DOMAIN jira : StateAt(k, u)[f]})
<1> DEFINE K == DOMAIN jira
           A == [k \in K |-> MovesOf(k, f, TRUE, u + 1, to)]
           B == [k \in K |-> MovesOf(k, f, FALSE, u + 1, to)]
           X == {k \in K : jira[k][f]}
           Y == {k \in K : StateAt(k, u)[f]}
<1>1. DOMAIN stored = K /\ \A k \in K : Known(k)
  BY DEF AllKnown, Known, HistoryInv, StoredInv
<1>2. IsFiniteSet(K)
  BY HistoryAssumption, FS_Subset DEF HistoryInv
<1>3. \A k \in K : /\ IsFiniteSet(MovesOf(k, f, TRUE, u + 1, to))
                   /\ IsFiniteSet(MovesOf(k, f, FALSE, u + 1, to))
                   /\ Cardinality(MovesOf(k, f, TRUE, u + 1, to))
                        - Cardinality(MovesOf(k, f, FALSE, u + 1, to))
                        = One(jira[k][f]) - One(StateAt(k, u)[f])
  BY <1>1, MovesAccount
<1>4. \A k \in K : /\ One(jira[k][f]) = One(k \in X)
                   /\ One(StateAt(k, u)[f]) = One(k \in Y)
  BY DEF One
<1>5. Moves(f, TRUE, u + 1, to) = Pairs(K, A) /\ Moves(f, FALSE, u + 1, to) = Pairs(K, B)
  <2>1. \A x : Moves(f, x, u + 1, to) = UNION {{k} \X MovesOf(k, f, x, u + 1, to) : k \in K}
    BY <1>1 DEF Moves
  <2>2. /\ {{k} \X A[k] : k \in K} = {{k} \X MovesOf(k, f, TRUE, u + 1, to) : k \in K}
        /\ {{k} \X B[k] : k \in K} = {{k} \X MovesOf(k, f, FALSE, u + 1, to) : k \in K}
    OBVIOUS
  <2> HIDE DEF A, B, K
  <2> QED
    BY <2>1, <2>2 DEF Pairs
<1>6. Accounted(K, A, B, X, Y)
  BY <1>3, <1>4 DEF Accounted
<1>7. X \subseteq K /\ Y \subseteq K
  OBVIOUS
<1> HIDE DEF K, A, B, X, Y
<1>8. /\ IsFiniteSet(Pairs(K, A)) /\ IsFiniteSet(Pairs(K, B))
      /\ Cardinality(Pairs(K, A)) - Cardinality(Pairs(K, B))
           = Cardinality(X \cap K) - Cardinality(Y \cap K)
  BY <1>2, <1>6, Together
<1>9. X \cap K = X /\ Y \cap K = Y
  BY <1>7
<1>10. /\ Cardinality(X) \in Nat /\ Cardinality(Y) \in Nat
       /\ Cardinality(Pairs(K, A)) \in Nat /\ Cardinality(Pairs(K, B)) \in Nat
  <2>1. IsFiniteSet(X) /\ IsFiniteSet(Y)
    BY <1>2, <1>7, FS_Subset
  <2> QED
    BY <1>8, <2>1, FS_CardinalityType
<1> QED
  BY <1>5, <1>8, <1>9, <1>10 DEF X, Y, K

(* The tickets that Jira has in the release are those of its stored scope  *)
(* and those linked to an earlier fix version.                             *)
LEMMA ReleaseSplits ==
  ASSUME HistoryInv, AllKnown
  PROVE  /\ Cardinality(ReleaseScope) \in Nat /\ Cardinality(LinkedElsewhere) \in Nat
         /\ Cardinality({k \in DOMAIN jira : jira[k]["release"]})
              = Cardinality(ReleaseScope) + Cardinality(LinkedElsewhere)
<1> DEFINE R == {k \in DOMAIN jira : jira[k]["release"]}
<1>1. DOMAIN stored = DOMAIN jira /\ \A k \in DOMAIN jira : Known(k)
  BY DEF AllKnown, Known, HistoryInv, StoredInv
<1>2. \A k \in DOMAIN jira : Row(k)["release"] = (jira[k].release /\ ~jira[k].earlier)
  BY <1>1, LinkedRow
<1>3. ReleaseScope = {k \in DOMAIN jira : jira[k].release /\ ~jira[k].earlier}
  BY <1>1, <1>2 DEF ReleaseScope, Members
<1>4. R = ReleaseScope \cup LinkedElsewhere /\ ReleaseScope \cap LinkedElsewhere = {}
  BY <1>3 DEF LinkedElsewhere
<1>5. IsFiniteSet(ReleaseScope) /\ IsFiniteSet(LinkedElsewhere)
  <2>1. IsFiniteSet(DOMAIN jira)
    BY HistoryAssumption, FS_Subset DEF HistoryInv
  <2> QED
    BY <1>3, <2>1, FS_Subset DEF LinkedElsewhere
<1> HIDE DEF R
<1>6. Cardinality(R) = Cardinality(ReleaseScope) + Cardinality(LinkedElsewhere) - 0
  BY <1>4, <1>5, FS_Union, FS_EmptySet
<1> QED
  BY <1>5, <1>6, FS_CardinalityType DEF R

LEMMA ReleaseBalances ==
  ASSUME HistoryInv, AllKnown
  PROVE  Cardinality(ChurnMoves(TRUE)) - Cardinality(ChurnMoves(FALSE)) =
           Cardinality(ReleaseScope) + Cardinality(LinkedElsewhere)
             - Cardinality({k \in DOMAIN jira : StateAt(k, day - ChurnWindow - 1).release})
<1> DEFINE u == day - ChurnWindow - 1
<1>1. day \in Nat /\ ChurnWindow \in Nat
  BY HistoryAssumption DEF HistoryInv
<1>2. u \in Int /\ u + 1 = day - ChurnWindow /\ "release" \in Membership /\ day \in Int
  BY <1>1 DEF Membership
<1>3. \A k \in DOMAIN jira : \A i \in Of(changelog[k], "release") :
        changelog[k][i].at > u => changelog[k][i].at <= day
  BY TicketFacts DEF Of
<1> HIDE DEF u
<1>4. Cardinality(Moves("release", TRUE, u + 1, day))
        - Cardinality(Moves("release", FALSE, u + 1, day))
        = Cardinality({k \in DOMAIN jira : jira[k]["release"]})
            - Cardinality({k \in DOMAIN jira : StateAt(k, u)["release"]})
  BY <1>2, <1>3, ScopeAccounts
<1>5. /\ ChurnMoves(TRUE) = Moves("release", TRUE, u + 1, day)
      /\ ChurnMoves(FALSE) = Moves("release", FALSE, u + 1, day)
  BY <1>2 DEF ChurnMoves
<1>6. \A k \in DOMAIN jira : StateAt(k, u)["release"] = StateAt(k, u).release
  OBVIOUS
<1>7. {k \in DOMAIN jira : StateAt(k, u)["release"]}
        = {k \in DOMAIN jira : StateAt(k, day - ChurnWindow - 1).release}
  BY <1>6 DEF u
<1> DEFINE r == Cardinality({k \in DOMAIN jira : jira[k]["release"]})
           s == Cardinality({k \in DOMAIN jira : StateAt(k, u)["release"]})
           a == Cardinality(ReleaseScope)
           b == Cardinality(LinkedElsewhere)
<1>8. r = a + b /\ a \in Nat /\ b \in Nat /\ s \in Nat
  BY <1>2, <1>3, ReleaseSplits, ScopeAccounts
<1>9. s = Cardinality({k \in DOMAIN jira : StateAt(k, day - ChurnWindow - 1).release})
  BY <1>7
<1>10. Cardinality(ChurnMoves(TRUE)) - Cardinality(ChurnMoves(FALSE)) = r - s
  BY <1>4, <1>5
<1> HIDE DEF r, s, a, b
<1>11. r - s = a + b - s
  BY <1>8
<1> QED
  BY <1>9, <1>10, <1>11 DEF a, b

(* No ticket entered or left the sprint after the end of its window.       *)
Settled ==
  Moves("sprint", TRUE, WindowEnd + 1, day) \cup Moves("sprint", FALSE, WindowEnd + 1, day) = {}

LEMMA SprintEntries ==
  ASSUME HistoryInv, AllKnown, iteration.start # None, WindowEnd >= iteration.start, Settled
  PROVE  /\ iteration.start \in Int /\ WindowEnd \in Int
         /\ \A k \in DOMAIN jira : \A i \in Of(changelog[k], "sprint") :
              changelog[k][i].at <= WindowEnd
<1>1. iteration.start \in Int /\ WindowEnd \in Int
  <2>1. iteration.start \in Int /\ iteration.end \in Int /\ iteration.complete \in Int
    BY HistoryAssumption DEF HistoryInv
  <2>2. day \in Int
    BY DEF HistoryInv
  <2> QED
    BY <2>1, <2>2 DEF WindowEnd
<1> DEFINE to == WindowEnd
<1>2. SUFFICES ASSUME NEW k \in DOMAIN jira, NEW i \in Of(changelog[k], "sprint"),
                      ~(changelog[k][i].at <= to)
               PROVE  FALSE
  BY <1>1
<1>3. /\ DOMAIN stored = DOMAIN jira /\ Known(k) /\ History(k) = changelog[k]
  BY DEF AllKnown, Known, HistoryInv, StoredInv, History
<1>4. i \in DOMAIN changelog[k] /\ changelog[k][i].field = "sprint"
  BY DEF Of
<1> DEFINE v == changelog[k][i].at
           b == changelog[k][i].new
<1>5. v \in Nat /\ v <= day /\ day \in Nat
  BY <1>4, TicketFacts
<1>6. b \in BOOLEAN
  BY MembershipOf DEF Membership
<1>7. i \in Entries(k, "sprint")
  BY <1>3, <1>4 DEF Entries
<1>8. History(k)[i].at = v /\ History(k)[i].new = b
  BY <1>3
<1>9. ~(v <= to) /\ to \in Int
  BY <1>1, <1>2
<1> HIDE DEF v, b, to
<1>10. v \in (to + 1) .. day
  BY <1>5, <1>9
<1>11. i \in MovesOf(k, "sprint", b, to + 1, day)
  BY <1>7, <1>8, <1>10 DEF MovesOf
<1>12. <<k, i>> \in Moves("sprint", b, to + 1, day)
  <2> DEFINE S == {k} \X MovesOf(k, "sprint", b, to + 1, day)
             all == {{j} \X MovesOf(j, "sprint", b, to + 1, day) : j \in DOMAIN stored}
  <2>1. <<k, i>> \in S /\ S \in all
    BY <1>3, <1>11
  <2>2. Moves("sprint", b, to + 1, day) = UNION all
    BY DEF Moves
  <2> HIDE DEF S, all
  <2> QED
    BY <2>1, <2>2
<1> QED
  BY <1>6, <1>12 DEF Settled, to

LEMMA CommitmentIsInitial ==
  ASSUME HistoryInv, AllKnown, iteration.start # None, WindowEnd >= iteration.start, Settled
  PROVE  InitialCommitment
           = Cardinality({k \in DOMAIN jira : StateAt(k, iteration.start).sprint})
<1> DEFINE u == iteration.start
           p == Cardinality(SprintMoves(TRUE))
           q == Cardinality(SprintMoves(FALSE))
           m == Cardinality(Members("sprint"))
           n == Cardinality({k \in DOMAIN jira : StateAt(k, u)["sprint"]})
<1>1. /\ u \in Int /\ WindowEnd \in Int
      /\ \A k \in DOMAIN jira : \A i \in Of(changelog[k], "sprint") :
           changelog[k][i].at <= WindowEnd
  BY SprintEntries
<1>2. /\ p \in Nat /\ q \in Nat /\ m \in Nat /\ n \in Nat /\ p - q = m - n
  <2>1. "sprint" \in Membership
    BY DEF Membership
  <2> HIDE DEF u
  <2>2. /\ SprintMoves(TRUE) = Moves("sprint", TRUE, u + 1, WindowEnd)
        /\ SprintMoves(FALSE) = Moves("sprint", FALSE, u + 1, WindowEnd)
    BY DEF SprintMoves, u
  <2>3. Members("sprint") = {k \in DOMAIN jira : jira[k]["sprint"]}
    <3>1. DOMAIN stored = DOMAIN jira /\ \A k \in DOMAIN jira : Known(k)
      BY DEF AllKnown, Known, HistoryInv, StoredInv
    <3>2. \A k \in DOMAIN jira : Row(k)["sprint"] = jira[k]["sprint"]
      BY <3>1, LinkedRow DEF Fields
    <3> QED
      BY <3>1, <3>2 DEF Members
  <2> QED
    BY <1>1, <2>1, <2>2, <2>3, ScopeAccounts
<1>3. InitialCommitment = IF m - p + q < 0 THEN 0 ELSE m - p + q
  BY DEF InitialCommitment
<1> HIDE DEF p, q, m, n
<1>4. InitialCommitment = n
  BY <1>2, <1>3
<1>5. \A k \in DOMAIN jira : StateAt(k, u)["sprint"] = StateAt(k, iteration.start).sprint
  OBVIOUS
<1> QED
  BY <1>4, <1>5 DEF n

(* The oldest move after a moment found what the moment left.              *)
LEMMA FlagIsInitial ==
  ASSUME HistoryInv, AllKnown, iteration.start # None, WindowEnd >= iteration.start, Settled,
         NEW k \in Members("sprint")
  PROVE  InitialScopeFlag(k) = StateAt(k, iteration.start).sprint
<1> DEFINE t == jira[k]
           h == changelog[k]
           u == iteration.start
           to == WindowEnd
           after == {i \in Entries(k, "sprint") : History(k)[i].at \in (u + 1) .. to}
<1>1. /\ k \in DOMAIN jira /\ Known(k) /\ History(k) = h /\ t.sprint
  <2>1. k \in DOMAIN stored /\ Known(k) /\ Row(k)["sprint"]
    BY DEF AllKnown, HistoryInv, StoredInv, Members
  <2>2. Row(k)["sprint"] = t["sprint"]
    BY <2>1, LinkedRow DEF Fields
  <2> QED
    BY <2>1, <2>2, LinkedRow
<1>2. /\ u \in Int /\ to \in Int /\ u <= to /\ u # None
      /\ \A i \in Of(h, "sprint") : h[i].at <= to
  BY <1>1, SprintEntries
<1>3. /\ IsTicket(t) /\ h \in Seq(HistoryEntry) /\ Chained(t, h) /\ Ordered(h)
      /\ Len(h) \in Nat /\ DOMAIN h = 1 .. Len(h) /\ \A i \in DOMAIN h : h[i].at \in Nat
  BY <1>1, TicketFacts
<1>4. t.sprint = TRUE
  BY <1>1, <1>3 DEF IsTicket
<1>5. InitialScopeFlag(k) = IF to <= u \/ after = {} THEN TRUE ELSE h[Min(after)].old
  BY <1>1, <1>2 DEF InitialScopeFlag
<1>6. PICK c \in 0 .. Len(h) : Cut(h, c, u)
  <2> HIDE DEF h, u
  <2> QED
    BY <1>2, <1>3, CutAt
<1>7. StateAt(k, u).sprint = After(t, h, "sprint", c)
  <2>1. c \in Nat /\ "sprint" \in Fields
    BY <1>3, <1>6 DEF Fields
  <2>2. StateAt(k, u)["sprint"] = After(t, h, "sprint", c)
    BY <1>1, <1>2, <1>6, <2>1, StateAtCut
  <2> QED
    BY <2>2
<1>8. after = {i \in Of(h, "sprint") : i > c}
  <2>1. after = {i \in Of(h, "sprint") : h[i].at \in (u + 1) .. to}
    BY <1>1 DEF Entries, Of
  <2> HIDE DEF t, h, u, to, after
  <2>2. ASSUME NEW i \in Of(h, "sprint")
        PROVE  h[i].at \in (u + 1) .. to <=> i > c
    <3> DEFINE v == h[i].at
    <3>1. i \in DOMAIN h /\ i \in Nat /\ v \in Nat /\ c \in Nat
      BY <1>3, <1>6 DEF Of
    <3>2. (i <= c => v <= u) /\ (i > c => v > u) /\ v <= to
      BY <1>2, <1>6, <3>1 DEF Cut
    <3> HIDE DEF v
    <3>3. v \in (u + 1) .. to <=> i > c
      BY <1>2, <3>1, <3>2
    <3> QED
      BY <3>3 DEF v
  <2> QED
    BY <2>1, <2>2
<1> HIDE DEF t, h, u, to, after
<1>9. CASE after = {}
  <2>1. UpTo(h, "sprint", c) = UpTo(h, "sprint", Len(h))
    <3>1. \A i \in Of(h, "sprint") : /\ i <= Len(h)
                                     /\ ~(i > c) /\ i \in Nat /\ c \in Nat
      BY <1>3, <1>6, <1>8, <1>9 DEF Of
    <3> QED
      BY <3>1 DEF UpTo
  <2>2. After(t, h, "sprint", c) = t.sprint
    <3>1. After(t, h, "sprint", Len(h)) = t["sprint"]
      BY <1>3, AfterAll DEF Fields
    <3> QED
      BY <2>1, <3>1 DEF After
  <2> QED
    BY <1>4, <1>5, <1>7, <1>9, <2>2 DEF u
<1>10. CASE after # {}
  <2> DEFINE m == Min(after)
  <2>1. m \in after /\ \A i \in after : m <= i
    <3>1. after \in SUBSET Nat
      BY <1>3, <1>8 DEF Of
    <3> QED
      BY <1>10, <3>1, MinOfNumbers
  <2>2. InitialScopeFlag(k) = IF to <= u THEN TRUE ELSE h[m].old
    BY <1>5, <1>10
  <2> HIDE DEF m
  <2>3. m \in DOMAIN h /\ m \in Nat /\ m > c /\ m <= Len(h) /\ c \in Nat
        /\ h[m].field = "sprint" /\ m \in Of(h, "sprint")
    BY <1>3, <1>6, <1>8, <2>1 DEF Of
  <2>4. ~(to <= u)
    <3> DEFINE v == h[m].at
    <3>1. v \in Nat /\ v > u /\ v <= to
      BY <1>2, <1>3, <1>6, <2>3 DEF Cut
    <3> HIDE DEF v
    <3> QED
      BY <1>2, <3>1
  <2>5. UpTo(h, "sprint", m - 1) = UpTo(h, "sprint", c)
    <3>1. \A i \in Of(h, "sprint") : i \in Nat /\ (i > c => m <= i)
      BY <1>3, <1>8, <2>1 DEF Of
    <3> QED
      BY <2>3, <3>1 DEF UpTo
  <2>6. After(t, h, "sprint", m - 1) = h[m].old
    <3>1. m - 1 \in Nat /\ m - 1 < Len(h) /\ (m - 1) + 1 = m
      BY <1>3, <2>3
    <3> DEFINE d == m - 1
    <3>2. "sprint" \in Fields
      BY DEF Fields
    <3>3. d \in Nat /\ d < Len(h) /\ d + 1 = m
      BY <3>1
    <3> HIDE DEF d
    <3>4. After(t, h, "sprint", d) = h[d + 1].old
      BY <1>3, <2>3, <3>2, <3>3, AfterStep
    <3> QED
      BY <3>3, <3>4 DEF d
  <2>7. After(t, h, "sprint", m - 1) = After(t, h, "sprint", c)
    BY <2>5 DEF After
  <2> QED
    BY <1>7, <2>2, <2>4, <2>6, <2>7 DEF u
<1> QED
  BY <1>9, <1>10

(* Additions and removals account for every difference of a scope, and the *)
(* initial commitment is the scope at the start of the sprint, for any     *)
(* number of tickets and edits.                                            *)
THEOREM ScopesBalance == HistorySpec => []ScopeBalances
<1>1. HistoryInv => ScopeBalances
  BY ReleaseBalances, CommitmentIsInitial, FlagIsInitial DEF ScopeBalances, Settled
<1> QED
  BY <1>1, HistoryInvariance, PTL

-----------------------------------------------------------------------------
(* Sums, and quotients.  A sum of integers over a set counts units that    *)
(* are added and debts that are taken away.                                *)

Some(s) == CHOOSE x \in s : TRUE
IsSums(G, sums) ==
  sums = [s \in SUBSET DOMAIN G |-> IF s = {} THEN 0
                                     ELSE G[Some(s)] + sums[s \ {Some(s)}]]
SumsOf(G) == CHOOSE sums : IsSums(G, sums)

LEMMA SumUnfolds ==
  ASSUME NEW G
  PROVE  SumFunction(G) = SumsOf(G)[DOMAIN G]
BY DEF SumFunction, SumFunctionOnSet, FoldFunctionOnSet, MapThenFoldSet, SumsOf, IsSums, Some

(* A sum without recursion: what is to be added and what to be taken away, *)
(* as sets.                                                                *)
Units(G) == [k \in DOMAIN G |-> 1 .. G[k]]
Debts(G) == [k \in DOMAIN G |-> 1 .. (-G[k])]
Counted(G, T) == Cardinality(Pairs(T, Units(G))) - Cardinality(Pairs(T, Debts(G)))

LEMMA UnitsOf ==
  ASSUME NEW S, NEW G \in [S -> Int], NEW k \in S
  PROVE  /\ IsFiniteSet(Units(G)[k]) /\ IsFiniteSet(Debts(G)[k])
         /\ Cardinality(Units(G)[k]) \in Nat /\ Cardinality(Debts(G)[k]) \in Nat
         /\ Cardinality(Units(G)[k]) - Cardinality(Debts(G)[k]) = G[k]
<1> DEFINE n == G[k]
<1>1. n \in Int /\ Units(G)[k] = 1 .. n /\ Debts(G)[k] = 1 .. (-n)
  BY DEF Units, Debts
<1> HIDE DEF n
<1>2. -n \in Int
  BY <1>1
<1>3. /\ IsFiniteSet(1 .. n) /\ Cardinality(1 .. n) = IF 1 > n THEN 0 ELSE n - 1 + 1
      /\ IsFiniteSet(1 .. (-n)) /\ Cardinality(1 .. (-n)) = IF 1 > -n THEN 0 ELSE (-n) - 1 + 1
  BY <1>1, <1>2, FS_Interval
<1>4. /\ Cardinality(1 .. n) \in Nat /\ Cardinality(1 .. (-n)) \in Nat
      /\ Cardinality(1 .. n) - Cardinality(1 .. (-n)) = n
  BY <1>1, <1>2, <1>3
<1> QED
  BY <1>1, <1>3, <1>4 DEF n

LEMMA AllFinite ==
  ASSUME NEW S, IsFiniteSet(S), NEW G \in [S -> Int]
  PROVE  IsFiniteSet(Pairs(S, Units(G))) /\ IsFiniteSet(Pairs(S, Debts(G)))
<1> DEFINE P == {T \in SUBSET S : /\ IsFiniteSet(Pairs(T, Units(G)))
                                 /\ IsFiniteSet(Pairs(T, Debts(G)))}
<1>1. {} \in P
  <2>1. Pairs({}, Units(G)) = {} /\ Pairs({}, Debts(G)) = {}
    BY PairsOf
  <2> QED
    BY <2>1, FS_EmptySet
<1>2. ASSUME NEW T \in SUBSET S, T # {}, \A x \in T : T \ {x} \in P
      PROVE  T \in P
  <2>1. PICK x \in T : TRUE
    BY <1>2
  <2>2. IsFiniteSet(Units(G)[x]) /\ IsFiniteSet(Debts(G)[x])
    BY UnitsOf
  <2>3. IsFiniteSet(Pairs(T \ {x}, Units(G))) /\ IsFiniteSet(Pairs(T \ {x}, Debts(G)))
    BY <1>2
  <2> QED
    BY <2>2, <2>3, OneMore
<1>3. S \in P
  <2> HIDE DEF P
  <2> QED
    BY <1>1, <1>2, EverySubset
<1> QED
  BY <1>3

LEMMA CountedStep ==
  ASSUME NEW S, IsFiniteSet(S), NEW G \in [S -> Int], NEW T \in SUBSET S, NEW x \in T
  PROVE  /\ Counted(G, T) \in Int /\ Counted(G, T \ {x}) \in Int
         /\ Counted(G, T) = G[x] + Counted(G, T \ {x})
<1> DEFINE A == Units(G)
           B == Debts(G)
           R == T \ {x}
<1>1. IsFiniteSet(Pairs(R, A)) /\ IsFiniteSet(Pairs(R, B))
  <2>1. Pairs(R, A) \subseteq Pairs(S, A) /\ Pairs(R, B) \subseteq Pairs(S, B)
    BY PairsOf
  <2> QED
    BY <2>1, AllFinite, FS_Subset
<1>2. /\ IsFiniteSet(A[x]) /\ IsFiniteSet(B[x])
      /\ Cardinality(A[x]) \in Nat /\ Cardinality(B[x]) \in Nat
      /\ Cardinality(A[x]) - Cardinality(B[x]) = G[x]
  BY UnitsOf
<1>3. /\ Cardinality(Pairs(T, A)) = Cardinality(Pairs(R, A)) + Cardinality(A[x])
      /\ Cardinality(Pairs(T, B)) = Cardinality(Pairs(R, B)) + Cardinality(B[x])
  BY <1>1, <1>2, OneMore
<1>4. Cardinality(Pairs(R, A)) \in Nat /\ Cardinality(Pairs(R, B)) \in Nat
  BY <1>1, FS_CardinalityType
<1> DEFINE a == Cardinality(A[x])
           b == Cardinality(B[x])
           p == Cardinality(Pairs(R, A))
           q == Cardinality(Pairs(R, B))
           n == G[x]
<1>5. a \in Nat /\ b \in Nat /\ p \in Nat /\ q \in Nat /\ a - b = n
  BY <1>2, <1>4
<1>6. Counted(G, T) = (p + a) - (q + b) /\ Counted(G, R) = p - q
  BY <1>3 DEF Counted
<1> HIDE DEF a, b, p, q, n, R
<1>7. Counted(G, T) \in Int /\ Counted(G, R) \in Int /\ Counted(G, T) = n + Counted(G, R)
  BY <1>5, <1>6
<1> QED
  BY <1>7 DEF n, R

LEMMA CountedNothing ==
  ASSUME NEW G
  PROVE  Counted(G, {}) = 0
<1>1. Pairs({}, Units(G)) = {} /\ Pairs({}, Debts(G)) = {}
  BY PairsOf
<1> QED
  BY <1>1, FS_EmptySet DEF Counted

LEMMA SumIsCounted ==
  ASSUME NEW S, IsFiniteSet(S), NEW G \in [S -> Int]
  PROVE  SumFunction(G) = Counted(G, S)
<1> DEFINE sums == [s \in SUBSET S |-> Counted(G, s)]
           iter == SumsOf(G)
<1>1. \A s \in SUBSET S : s # {} => Some(s) \in s
  BY DEF Some
<1>2. IsSums(G, sums)
  <2>1. ASSUME NEW s \in SUBSET S
        PROVE  sums[s] = IF s = {} THEN 0 ELSE G[Some(s)] + sums[s \ {Some(s)}]
    <3>1. CASE s = {}
      BY <3>1, CountedNothing
    <3>2. CASE s # {}
      <4>1. Counted(G, s) = G[Some(s)] + Counted(G, s \ {Some(s)})
        BY <1>1, <3>2, CountedStep
      <4> QED
        BY <3>2, <4>1
    <3> QED
      BY <3>1, <3>2
  <2>2. DOMAIN G = S
    OBVIOUS
  <2>3. sums = [s \in SUBSET S |-> sums[s]]
    OBVIOUS
  <2> HIDE DEF sums
  <2> QED
    BY <2>1, <2>2, <2>3 DEF IsSums
<1>3. IsSums(G, iter)
  BY <1>2 DEF SumsOf
<1>4. \A s \in SUBSET S : iter[s] = IF s = {} THEN 0 ELSE G[Some(s)] + iter[s \ {Some(s)}]
  <2> HIDE DEF iter
  <2> QED
    BY <1>3 DEF IsSums
<1> DEFINE P == {s \in SUBSET S : iter[s] = Counted(G, s)}
<1> HIDE DEF iter
<1>5. {} \in P
  BY <1>4, CountedNothing
<1>6. ASSUME NEW s \in SUBSET S, s # {}, \A x \in s : s \ {x} \in P
      PROVE  s \in P
  <2>1. Counted(G, s) = G[Some(s)] + Counted(G, s \ {Some(s)})
    BY <1>1, <1>6, CountedStep
  <2>2. iter[s \ {Some(s)}] = Counted(G, s \ {Some(s)})
    BY <1>1, <1>6
  <2> QED
    BY <1>4, <1>6, <2>1, <2>2
<1>7. S \in P
  <2> HIDE DEF P
  <2> QED
    BY <1>5, <1>6, EverySubset
<1> QED
  BY <1>7, SumUnfolds DEF iter

LEMMA PartOfSum ==
  ASSUME NEW S, IsFiniteSet(S), NEW G \in [S -> Int], NEW T \in SUBSET S
  PROVE  SumFunction([k \in T |-> G[k]]) = Counted(G, T)
<1> DEFINE H == [k \in T |-> G[k]]
<1>1. IsFiniteSet(T)
  BY FS_Subset
<1>2. H \in [T -> Int]
  OBVIOUS
<1>3. \A k \in T : Units(H)[k] = Units(G)[k] /\ Debts(H)[k] = Debts(G)[k]
  BY DEF Units, Debts
<1>4. SumFunction(H) = Counted(H, T)
  <2> HIDE DEF H
  <2> QED
    BY <1>1, <1>2, SumIsCounted
<1>5. Pairs(T, Units(H)) = Pairs(T, Units(G)) /\ Pairs(T, Debts(H)) = Pairs(T, Debts(G))
  <2> HIDE DEF H
  <2> QED
    BY <1>3 DEF Pairs
<1>6. Counted(H, T) = Counted(G, T)
  <2> HIDE DEF H
  <2> QED
    BY <1>5 DEF Counted
<1> QED
  BY <1>4, <1>6

LEMMA SumsGrow ==
  ASSUME NEW S, IsFiniteSet(S), NEW G \in [S -> Int], NEW T \in SUBSET S, NEW U \in SUBSET T,
         \A k \in T : G[k] >= 0
  PROVE  /\ SumFunction([k \in U |-> G[k]]) \in Nat
         /\ SumFunction([k \in T |-> G[k]]) \in Nat
         /\ SumFunction([k \in U |-> G[k]]) <= SumFunction([k \in T |-> G[k]])
<1>1. SumFunction([k \in U |-> G[k]]) = Counted(G, U)
  <2>1. U \in SUBSET S
    OBVIOUS
  <2> QED
    BY <2>1, PartOfSum
<1>2. SumFunction([k \in T |-> G[k]]) = Counted(G, T)
  BY PartOfSum
<1>3. \A k \in T : Debts(G)[k] = {}
  BY DEF Debts
<1>4. Pairs(T, Debts(G)) = {} /\ Pairs(U, Debts(G)) = {}
  BY <1>3 DEF Pairs
<1>5. IsFiniteSet(Pairs(T, Units(G))) /\ Pairs(U, Units(G)) \subseteq Pairs(T, Units(G))
  <2>1. /\ Pairs(U, Units(G)) \subseteq Pairs(T, Units(G))
        /\ Pairs(T, Units(G)) \subseteq Pairs(S, Units(G))
    BY DEF Pairs
  <2> QED
    BY <2>1, AllFinite, FS_Subset
<1>6. /\ Cardinality(Pairs(T, Units(G))) \in Nat /\ Cardinality(Pairs(U, Units(G))) \in Nat
      /\ Cardinality(Pairs(U, Units(G))) <= Cardinality(Pairs(T, Units(G)))
  BY <1>5, FS_Subset, FS_CardinalityType
<1>7. /\ Counted(G, T) = Cardinality(Pairs(T, Units(G)))
      /\ Counted(G, U) = Cardinality(Pairs(U, Units(G)))
  BY <1>4, <1>6, FS_EmptySet DEF Counted
<1> QED
  BY <1>1, <1>2, <1>6, <1>7

LEMMA NamesAreFinite ==
  IsFiniteSet(ComponentNames)
<1> DEFINE F == <<"progress_alignment", "velocity_fit", "blocker_penalty", "scope_stability">>
<1>1. DOMAIN F = 1 .. 4 /\ \A i, j \in 1 .. 4 : F[i] = F[j] => i = j
  OBVIOUS
<1>2. ComponentNames = {F[i] : i \in 1 .. 4}
  <2>1. 1 .. 4 = {1, 2, 3, 4}
    OBVIOUS
  <2>2. /\ F[1] = "progress_alignment" /\ F[2] = "velocity_fit"
        /\ F[3] = "blocker_penalty" /\ F[4] = "scope_stability"
    OBVIOUS
  <2> HIDE DEF F
  <2> QED
    BY <2>1, <2>2 DEF ComponentNames
<1>3. IsFiniteSet(1 .. 4)
  <2>1. 1 \in Int /\ 4 \in Int
    OBVIOUS
  <2> QED
    BY <2>1, FS_Interval
<1> HIDE DEF F
<1> QED
  BY <1>1, <1>2, <1>3, Relabelled

LEMMA FourAdded ==
  ASSUME NEW G \in [ComponentNames -> Int]
  PROVE  SumFunction(G) = G["progress_alignment"] + G["velocity_fit"]
                            + G["blocker_penalty"] + G["scope_stability"]
<1> DEFINE A == ComponentNames \ {"progress_alignment"}
           B == A \ {"velocity_fit"}
           C == B \ {"blocker_penalty"}
           D == C \ {"scope_stability"}
<1>1. SumFunction(G) = Counted(G, ComponentNames)
  BY NamesAreFinite, SumIsCounted
<1>2. /\ "progress_alignment" \in ComponentNames /\ "velocity_fit" \in A
      /\ "blocker_penalty" \in B /\ "scope_stability" \in C
      /\ D = {}
      /\ A \in SUBSET ComponentNames /\ B \in SUBSET ComponentNames
      /\ C \in SUBSET ComponentNames
  BY DEF ComponentNames
<1> HIDE DEF A, B, C, D
<1>3. /\ Counted(G, A) \in Int
      /\ Counted(G, ComponentNames) = G["progress_alignment"] + Counted(G, A)
  <2>1. ComponentNames \in SUBSET ComponentNames /\ "progress_alignment" \in ComponentNames
    BY <1>2
  <2>2. /\ Counted(G, ComponentNames \ {"progress_alignment"}) \in Int
        /\ Counted(G, ComponentNames) =
             G["progress_alignment"] + Counted(G, ComponentNames \ {"progress_alignment"})
    BY <2>1, NamesAreFinite, CountedStep
  <2> QED
    BY <2>2 DEF A
<1>4. /\ Counted(G, B) \in Int
      /\ Counted(G, A) = G["velocity_fit"] + Counted(G, B)
  <2>1. A \in SUBSET ComponentNames /\ "velocity_fit" \in A
    BY <1>2
  <2>2. /\ Counted(G, A \ {"velocity_fit"}) \in Int
        /\ Counted(G, A) = G["velocity_fit"] + Counted(G, A \ {"velocity_fit"})
    BY <2>1, NamesAreFinite, CountedStep
  <2> QED
    BY <2>2 DEF B
<1>5. /\ Counted(G, C) \in Int
      /\ Counted(G, B) = G["blocker_penalty"] + Counted(G, C)
  <2>1. B \in SUBSET ComponentNames /\ "blocker_penalty" \in B
    BY <1>2
  <2>2. /\ Counted(G, B \ {"blocker_penalty"}) \in Int
        /\ Counted(G, B) = G["blocker_penalty"] + Counted(G, B \ {"blocker_penalty"})
    BY <2>1, NamesAreFinite, CountedStep
  <2> QED
    BY <2>2 DEF C
<1>6. Counted(G, C) = G["scope_stability"] + Counted(G, D)
  <2>1. C \in SUBSET ComponentNames /\ "scope_stability" \in C
    BY <1>2
  <2>2. /\ Counted(G, C \ {"scope_stability"}) \in Int
        /\ Counted(G, C) = G["scope_stability"] + Counted(G, C \ {"scope_stability"})
    BY <2>1, NamesAreFinite, CountedStep
  <2> QED
    BY <2>2 DEF D
<1>7. Counted(G, D) = 0
  BY <1>2, CountedNothing
<1>8. /\ G["progress_alignment"] \in Int /\ G["velocity_fit"] \in Int
      /\ G["blocker_penalty"] \in Int /\ G["scope_stability"] \in Int
  BY DEF ComponentNames
<1> DEFINE p == G["progress_alignment"]
           v == G["velocity_fit"]
           b == G["blocker_penalty"]
           s == G["scope_stability"]
           a1 == Counted(G, A)
           b1 == Counted(G, B)
           c1 == Counted(G, C)
<1>9. /\ p \in Int /\ v \in Int /\ b \in Int /\ s \in Int /\ a1 \in Int /\ b1 \in Int
      /\ c1 \in Int /\ SumFunction(G) = p + a1 /\ a1 = v + b1 /\ b1 = b + c1 /\ c1 = s + 0
  BY <1>1, <1>3, <1>4, <1>5, <1>6, <1>7, <1>8
<1> HIDE DEF p, v, b, s, a1, b1, c1
<1>10. SumFunction(G) = p + v + b + s
  BY <1>9
<1> QED
  BY <1>10 DEF p, v, b, s

LEMMA DivIs ==
  ASSUME NEW a \in Int, NEW d \in Nat, d > 0
  PROVE  /\ a \div d \in Int
         /\ d * (a \div d) <= a /\ a < d * (a \div d) + d
OBVIOUS

LEMMA DivGrows ==
  ASSUME NEW a \in Int, NEW b \in Int, NEW d \in Nat, d > 0, a <= b
  PROVE  a \div d <= b \div d
OBVIOUS

LEMMA DivShrinks ==
  ASSUME NEW a \in Nat, NEW d \in Nat, NEW e \in Nat, d > 0, d <= e
  PROVE  a \div e <= a \div d
OBVIOUS

LEMMA DivNat ==
  ASSUME NEW a \in Nat, NEW d \in Nat, d > 0
  PROVE  a \div d \in Nat
OBVIOUS

-----------------------------------------------------------------------------
(* The numbers a sprint is measured by.                                    *)

SprintTypes ==
  /\ IsFiniteSet(Scope)
  /\ \A k \in Scope : DOMAIN tickets[k] = TicketFields /\ tickets[k].points \in Int
  /\ DOMAIN sprint = {"closed", "start", "end"}
  /\ sprint.start \in Int /\ sprint.end \in Int
  /\ now \in Int
  /\ events \in Histories
  /\ others \in OtherSprints

LEMMA PointsOf ==
  ASSUME SprintTypes, NEW S \in SUBSET Pointed, NEW T \in SUBSET S
  PROVE  /\ PointsIn(S) \in Nat /\ PointsIn(T) \in Nat /\ PointsIn(T) <= PointsIn(S)
         /\ S = {} => PointsIn(S) = 0
<1> DEFINE G == [k \in Scope |-> tickets[k].points]
<1>1. IsFiniteSet(Scope) /\ G \in [Scope -> Int] /\ S \in SUBSET Scope
  BY DEF SprintTypes, Pointed
<1>2. \A k \in S : G[k] >= 0
  BY DEF Pointed, ValidPoints
<1>3. /\ [k \in S |-> G[k]] = [k \in S |-> tickets[k].points]
      /\ [k \in T |-> G[k]] = [k \in T |-> tickets[k].points]
  BY <1>1
<1> HIDE DEF G
<1>4. /\ SumFunction([k \in T |-> G[k]]) \in Nat
      /\ SumFunction([k \in S |-> G[k]]) \in Nat
      /\ SumFunction([k \in T |-> G[k]]) <= SumFunction([k \in S |-> G[k]])
  BY <1>1, <1>2, SumsGrow
<1>5. /\ PointsIn(S) = SumFunction([k \in S |-> G[k]])
      /\ PointsIn(T) = SumFunction([k \in T |-> G[k]])
  BY <1>3 DEF PointsIn
<1>6. S = {} => SumFunction([k \in S |-> G[k]]) = 0
  BY <1>1, PartOfSum, CountedNothing
<1> QED
  BY <1>4, <1>5, <1>6

LEMMA CoverageIs ==
  ASSUME SprintTypes
  PROVE  /\ Coverage \in Int
         /\ Scope # {} /\ Coverage >= Full => Pointed = Scope
<1> DEFINE p == Cardinality(Pointed)
           n == Cardinality(Scope)
<1>1. Pointed \in SUBSET Scope /\ IsFiniteSet(Scope)
  BY DEF Pointed, SprintTypes
<1>2. p \in Nat /\ n \in Nat /\ p <= n /\ (n = p => Scope = Pointed) /\ (n = 0 <=> Scope = {})
  BY <1>1, FS_Subset, FS_CardinalityType, FS_EmptySet
<1>3. Coverage = IF Scope = {} THEN 0 ELSE (Full * p) \div n
  BY DEF Coverage, PctOf
<1>4. Full = 10000
  BY DEF Full, Hundredths
<1> HIDE DEF p, n
<1>5. ASSUME Scope # {}
      PROVE  /\ (10000 * p) \div n \in Int
             /\ (10000 * p) \div n >= 10000 => n = p
  <2>1. n > 0
    BY <1>2, <1>5
  <2>2. p < n => 10000 * p < 10000 * n
    BY <1>2
  <2>3. n * ((10000 * p) \div n) <= 10000 * p /\ (10000 * p) \div n \in Int
    BY <1>2, <2>1, DivIs
  <2>4. (10000 * p) \div n >= 10000 => n * ((10000 * p) \div n) >= n * 10000
    BY <1>2, <2>1, <2>3
  <2> QED
    BY <1>2, <2>2, <2>3, <2>4
<1> QED
  BY <1>2, <1>3, <1>4, <1>5

LEMMA ConcentrationIs ==
  ASSUME SprintTypes, NEW S \in SUBSET Pointed, PointsIn(S) # 0, NEW f
  PROVE  Concentration(S, f) \in Nat
<1> DEFINE Part(k) == {j \in S : f[j] = f[k]}
           share == {PctOf(PointsIn(Part(k)), PointsIn(S)) : k \in S}
<1>1. S # {} /\ PointsIn(S) \in Nat /\ PointsIn(S) > 0
  BY PointsOf
<1>2. ASSUME NEW k \in S
      PROVE  /\ PctOf(PointsIn(Part(k)), PointsIn(S)) \in Nat
             /\ PctOf(PointsIn(Part(k)), PointsIn(S)) <= 10000
  <2> DEFINE a == PointsIn(Part(k))
             b == PointsIn(S)
  <2>1. a \in Nat /\ b \in Nat /\ a <= b /\ b > 0
    BY <1>1, PointsOf
  <2>2. PctOf(a, b) = (10000 * a) \div b
    BY DEF PctOf, Full, Hundredths
  <2> HIDE DEF a, b
  <2>3. (10000 * a) \div b \in Nat
    BY <2>1, DivNat
  <2>4. b * ((10000 * a) \div b) <= 10000 * a
    BY <2>1, DivIs
  <2>5. (10000 * a) \div b > 10000 => b * ((10000 * a) \div b) > b * 10000
    BY <2>1, <2>3
  <2>6. (10000 * a) \div b <= 10000
    BY <2>1, <2>3, <2>4, <2>5
  <2> QED
    BY <2>2, <2>3, <2>6 DEF a, b
<1>3. share \in SUBSET Nat /\ share # {} /\ Full \in Nat /\ \A v \in share : v <= Full
  <2>1. share # {}
    BY <1>1
  <2> HIDE DEF Part
  <2>2. \A v \in share : v \in Nat /\ v <= Full
    BY <1>2 DEF Full, Hundredths
  <2>3. Full \in Nat
    BY DEF Full, Hundredths
  <2> QED
    BY <2>1, <2>2, <2>3
<1>4. Concentration(S, f) = CHOOSE v \in share : \A w \in share : v >= w
  BY DEF Concentration
<1> HIDE DEF share
<1> DEFINE greatest == CHOOSE v \in share : \A w \in share : v >= w
<1>5. \E v \in share : \A w \in share : v >= w
  BY <1>3, GreatestOf
<1>6. greatest \in share
  BY <1>5
<1> HIDE DEF greatest
<1>7. greatest \in Nat
  BY <1>3, <1>6
<1> QED
  BY <1>4, <1>7 DEF greatest

LEMMA FullIs ==
  Full \in Nat /\ Full > 0 /\ Hundredths(50) \in 0 .. Full
BY DEF Full, Hundredths

LEMMA ClampIs ==
  ASSUME NEW n \in Int, NEW high \in Nat
  PROVE  Clamp(n, high) \in 0 .. high
BY DEF Clamp

LEMMA PctIs ==
  ASSUME NEW part \in Int, NEW whole \in Int, whole > 0
  PROVE  PctOf(part, whole) \in Int /\ (part >= 0 => PctOf(part, whole) \in Nat)
<1> DEFINE a == Full * part
<1>1. a \in Int /\ (part >= 0 => a \in Nat) /\ whole \in Nat
  BY FullIs
<1> HIDE DEF a
<1>2. a \div whole \in Int
  BY <1>1, DivIs
<1>3. part >= 0 => a \div whole \in Nat
  BY <1>1, DivNat
<1> QED
  BY <1>2, <1>3 DEF PctOf, a

LEMMA BaselinesAre ==
  ASSUME SprintTypes
  PROVE  IsFiniteSet(Baselines) /\ \A s \in Baselines : s.completed \in Nat
<1>1. Baselines \in SUBSET others
  BY DEF Baselines
<1>2. IsFiniteSet(others) /\ \A s \in others : s.completed \in Nat
  BY DeliveryAssumption DEF SprintTypes
<1> QED
  BY <1>1, <1>2, FS_Subset

LEMMA VelocityIs ==
  ASSUME SprintTypes, Baselines # {}
  PROVE  Velocity \in Nat
<1> DEFINE S == Baselines
           G == [s \in S |-> Hundredths(s.completed)]
<1>1. IsFiniteSet(S) /\ G \in [S -> Nat] /\ S # {}
  BY BaselinesAre DEF Hundredths
<1>2. Velocity = SumFunction(G) \div Cardinality(S)
  BY DEF Velocity
<1> HIDE DEF S, G
<1>3. Cardinality(S) \in Nat /\ Cardinality(S) > 0
  BY <1>1, FS_CardinalityType, FS_EmptySet
<1>4. SumFunction(G) \in Nat
  <2>1. G \in [S -> Int] /\ \A k \in S : G[k] >= 0
    BY <1>1
  <2>2. SumFunction([k \in S |-> G[k]]) \in Nat
    BY <1>1, <2>1, SumsGrow
  <2>3. G = [k \in S |-> G[k]]
    BY <1>1
  <2> QED
    BY <2>2, <2>3
<1> QED
  BY <1>2, <1>3, <1>4, DivNat

LEMMA CapacityIs ==
  ASSUME SprintTypes, Baselines # {}, NEW e \in 0 .. Full
  PROVE  Capacity(e) \in Nat
<1> DEFINE v == Velocity
           a == v * (Full - e)
<1>1. v \in Nat
  BY VelocityIs
<1> HIDE DEF v
<1>2. a \in Nat
  BY <1>1, FullIs
<1>3. Capacity(e) = a \div Full
  BY DEF Capacity, v
<1> HIDE DEF a
<1> QED
  BY <1>2, <1>3, FullIs, DivNat

LEMMA CommitmentIs ==
  ASSUME SprintTypes
  PROVE  /\ Committed \in Nat /\ Completed \in Nat /\ Completed <= Committed
         /\ Remaining \in Nat /\ Remaining = Committed - Completed
         /\ Progress \in Nat
<1> DEFINE done == {k \in Pointed : IsDone(Settings, tickets[k])}
<1>1. /\ PointsIn(Pointed) \in Nat /\ PointsIn(done) \in Nat
      /\ PointsIn(done) <= PointsIn(Pointed)
  <2>1. Pointed \in SUBSET Pointed /\ done \in SUBSET Pointed
    OBVIOUS
  <2> QED
    BY <2>1, PointsOf
<1>2. Committed \in Nat /\ Completed \in Nat /\ Completed <= Committed
  BY <1>1 DEF Committed, Completed
<1>3. Remaining \in Nat /\ Remaining = Committed - Completed
  BY <1>2 DEF Remaining, Clamp
<1>4. Progress \in Nat
  BY <1>2, FullIs, PctIs DEF Progress
<1> QED
  BY <1>2, <1>3, <1>4

LEMMA BlockerCountIs ==
  ASSUME SprintTypes, Scope # {}
  PROVE  /\ OpenBlockerCount \in Nat
         /\ Cardinality(Scope) \in Nat /\ Cardinality(Scope) > 0
<1>1. IsFiniteSet(Scope) /\ {k \in Scope : OpenBlocker(Settings, tickets[k])} \in SUBSET Scope
  BY DEF SprintTypes
<1> QED
  BY <1>1, FS_Subset, FS_CardinalityType, FS_EmptySet DEF OpenBlockerCount

(* What a score needs for its components to be numbers.                    *)
Scored == Scope # {} /\ DurationValid /\ events.creep.status = "COMPUTED"

LEMMA ElapsedIn ==
  ASSUME SprintTypes, DurationValid
  PROVE  Elapsed \in 0 .. Full
<1> DEFINE a == now - sprint.start
           b == sprint.end - sprint.start
<1>1. a \in Int /\ b \in Int /\ b > 0 /\ Elapsed = Clamp(PctOf(a, b), Full)
  BY DEF SprintTypes, DurationValid, Elapsed
<1> HIDE DEF a, b
<1> QED
  BY <1>1, PctIs, ClampIs, FullIs

LEMMA VelocityFitIs ==
  ASSUME SprintTypes, DurationValid
  PROVE  /\ VelocityFit(Remaining, Elapsed) \in 0 .. Full
         /\ VelocityFit(Remaining, Elapsed) < Full => Remaining > 0
<1> DEFINE r == Remaining
           e == Elapsed
<1>1. r \in Nat /\ e \in 0 .. Full
  BY CommitmentIs, ElapsedIn
<1> HIDE DEF r, e
<1>2. CASE r <= 0
  BY <1>1, <1>2, FullIs DEF VelocityFit, r, e
<1>3. CASE r > 0 /\ Baselines = {}
  BY <1>1, <1>3, FullIs DEF VelocityFit, Hundredths, r, e
<1>4. CASE r > 0 /\ Baselines # {}
  <2>1. Hundredths(r) \in Int /\ Hundredths(r) > 0
    BY <1>1, <1>4 DEF Hundredths
  <2>2. PctOf(Capacity(e), Hundredths(r)) \in Int
    BY <1>1, <1>4, <2>1, CapacityIs, PctIs
  <2>3. VelocityFit(r, e) = Clamp(PctOf(Capacity(e), Hundredths(r)), Full)
    BY <1>1, <1>4 DEF VelocityFit
  <2>4. VelocityFit(r, e) \in 0 .. Full
    BY <2>2, <2>3, ClampIs, FullIs
  <2> QED
    BY <1>4, <2>4 DEF r, e
<1> QED
  BY <1>1, <1>2, <1>3, <1>4

LEMMA ComponentsAre ==
  ASSUME SprintTypes, Scored
  PROVE  /\ Components.progress_alignment \in 0 .. Full
         /\ Components.velocity_fit \in 0 .. Full
         /\ Components.blocker_penalty \in 0 .. Full
         /\ Components.scope_stability \in 0 .. Full
         /\ Components.velocity_fit < Full => Remaining > 0
         /\ Components.blocker_penalty < Full => OpenBlockerCount > 0
<1>1. /\ Components.progress_alignment = ProgressAlignment(Progress, Elapsed)
      /\ Components.velocity_fit = VelocityFit(Remaining, Elapsed)
      /\ Components.blocker_penalty =
           Clamp(Full - PctOf(OpenBlockerCount, Cardinality(Scope)), Full)
      /\ Components.scope_stability = Clamp(Full - events.creep.value, Full)
  BY DEF Components
<1>2. ProgressAlignment(Progress, Elapsed) \in 0 .. Full
  <2> DEFINE p == Progress
             e == Elapsed
  <2>1. p \in Nat /\ e \in Int
    BY CommitmentIs, ElapsedIn, FullIs DEF Scored
  <2> HIDE DEF p, e
  <2>2. e <= 0 => ProgressAlignment(p, e) \in 0 .. Full
    BY <2>1, FullIs DEF ProgressAlignment
  <2>3. ASSUME e > 0
        PROVE  ProgressAlignment(p, e) \in 0 .. Full
    <3>1. PctOf(p, e) \in Int
      BY <2>1, <2>3, PctIs
    <3>2. ProgressAlignment(p, e) = Clamp(PctOf(p, e), Full)
      BY <2>1, <2>3 DEF ProgressAlignment
    <3> QED
      BY <3>1, <3>2, ClampIs, FullIs
  <2>4. ProgressAlignment(p, e) \in 0 .. Full
    BY <2>1, <2>2, <2>3
  <2> QED
    BY <2>4 DEF p, e
<1>3. /\ VelocityFit(Remaining, Elapsed) \in 0 .. Full
      /\ VelocityFit(Remaining, Elapsed) < Full => Remaining > 0
  BY VelocityFitIs DEF Scored
<1>4. /\ Clamp(Full - PctOf(OpenBlockerCount, Cardinality(Scope)), Full) \in 0 .. Full
      /\ Clamp(Full - PctOf(OpenBlockerCount, Cardinality(Scope)), Full) < Full
           => OpenBlockerCount > 0
  <2> DEFINE b == OpenBlockerCount
             n == Cardinality(Scope)
             q == PctOf(b, n)
  <2>1. b \in Nat /\ n \in Nat /\ n > 0
    BY BlockerCountIs DEF Scored
  <2> HIDE DEF b, n
  <2>2. q \in Int
    BY <2>1, PctIs
  <2>3. b = 0 => q = 0
    <3>1. 0 \div n = 0
      BY <2>1
    <3>2. Full * 0 = 0
      BY FullIs
    <3> QED
      BY <3>1, <3>2 DEF PctOf
  <2> HIDE DEF q
  <2>4. /\ Clamp(Full - q, Full) \in 0 .. Full
        /\ Clamp(Full - q, Full) < Full => b > 0
    BY <2>1, <2>2, <2>3, FullIs DEF Clamp
  <2> QED
    BY <2>4 DEF b, n, q
<1>5. Clamp(Full - events.creep.value, Full) \in 0 .. Full
  <2> DEFINE c == events.creep.value
  <2>1. c \in Int
    BY DeliveryAssumption DEF SprintTypes
  <2> HIDE DEF c
  <2>2. Full - c \in Int
    BY <2>1, FullIs
  <2>3. Clamp(Full - c, Full) \in 0 .. Full
    BY <2>2, FullIs, ClampIs
  <2> QED
    BY <2>3 DEF c
<1> QED
  BY <1>1, <1>2, <1>3, <1>4, <1>5

-----------------------------------------------------------------------------
(* Scores and drivers.                                                     *)

LEMMA ScoreIs ==
  ASSUME NEW c, c.progress_alignment \in Int, c.velocity_fit \in Int,
         c.blocker_penalty \in Int, c.scope_stability \in Int
  PROVE  /\ Score(c) \in Int
         /\ Score(c) = 4 * c.progress_alignment + 3 * c.velocity_fit
                         + 2 * c.blocker_penalty + c.scope_stability
<1> DEFINE G == [n \in ComponentNames |-> Weight[n] * c[n]]
           p == c.progress_alignment
           v == c.velocity_fit
           b == c.blocker_penalty
           s == c.scope_stability
<1>1. Score(c) = SumFunction(G)
  BY DEF Score
<1>2. /\ G["progress_alignment"] = 4 * p /\ G["velocity_fit"] = 3 * v
      /\ G["blocker_penalty"] = 2 * b /\ G["scope_stability"] = 1 * s
  BY DEF ComponentNames, Weight
<1>3. p \in Int /\ v \in Int /\ b \in Int /\ s \in Int
  OBVIOUS
<1>4. G \in [ComponentNames -> Int]
  <2>1. ASSUME NEW n \in ComponentNames
        PROVE  Weight[n] * c[n] \in Int
    <3>1. Weight[n] \in Int /\ c[n] \in Int
      BY <1>3 DEF ComponentNames, Weight
    <3> DEFINE w == Weight[n]
               x == c[n]
    <3>2. w \in Int /\ x \in Int
      BY <3>1
    <3> HIDE DEF w, x
    <3>3. w * x \in Int
      BY <3>2
    <3> QED
      BY <3>3 DEF w, x
  <2> QED
    BY <2>1
<1> HIDE DEF G, p, v, b, s
<1>5. SumFunction(G) = 4 * p + 3 * v + 2 * b + 1 * s
  BY <1>2, <1>4, FourAdded
<1>6. Score(c) \in Int /\ Score(c) = 4 * p + 3 * v + 2 * b + s
  BY <1>1, <1>3, <1>5
<1> QED
  BY <1>6 DEF p, v, b, s

LEMMA DriverIs ==
  ASSUME NEW c, c.progress_alignment \in 0 .. Full, c.velocity_fit \in 0 .. Full,
         c.blocker_penalty \in 0 .. Full, c.scope_stability \in 0 .. Full
  PROVE  Driver(c) = "none" <=> Score(c) = Highest
<1> DEFINE losing == {n \in ComponentNames : Loss(c, n) > 0}
           p == c.progress_alignment
           v == c.velocity_fit
           b == c.blocker_penalty
           s == c.scope_stability
<1>1. p \in 0 .. Full /\ v \in 0 .. Full /\ b \in 0 .. Full /\ s \in 0 .. Full
  OBVIOUS
<1>2. /\ Loss(c, "progress_alignment") = 4 * (Full - p)
      /\ Loss(c, "velocity_fit") = 3 * (Full - v)
      /\ Loss(c, "blocker_penalty") = 2 * (Full - b)
      /\ Loss(c, "scope_stability") = 1 * (Full - s)
  BY DEF Loss, Weight
<1>3. Score(c) = 4 * p + 3 * v + 2 * b + s
  <2>1. /\ c.progress_alignment \in Int /\ c.velocity_fit \in Int
        /\ c.blocker_penalty \in Int /\ c.scope_stability \in Int
    BY FullIs
  <2> QED
    BY <2>1, ScoreIs
<1> HIDE DEF p, v, b, s
<1>4. \A n \in ComponentNames : Loss(c, n) \in Nat
  <2>1. /\ Loss(c, "progress_alignment") \in Nat /\ Loss(c, "velocity_fit") \in Nat
        /\ Loss(c, "blocker_penalty") \in Nat /\ Loss(c, "scope_stability") \in Nat
    BY <1>1, <1>2, FullIs
  <2> QED
    BY <2>1 DEF ComponentNames
<1>5. losing = {} <=> Score(c) = Highest
  <2>1. losing = {} <=> /\ ~ (Loss(c, "progress_alignment") > 0)
                        /\ ~ (Loss(c, "velocity_fit") > 0)
                        /\ ~ (Loss(c, "blocker_penalty") > 0)
                        /\ ~ (Loss(c, "scope_stability") > 0)
    BY DEF ComponentNames
  <2>2. losing = {} <=> p = Full /\ v = Full /\ b = Full /\ s = Full
    BY <1>1, <1>2, <2>1, FullIs
  <2>3. Highest = 10 * Full
    BY DEF Highest
  <2>4. 4 * p + 3 * v + 2 * b + s = 10 * Full
          <=> p = Full /\ v = Full /\ b = Full /\ s = Full
    BY <1>1, FullIs
  <2> HIDE DEF losing
  <2> QED
    BY <1>3, <2>2, <2>3, <2>4
<1> DEFINE Beats(n, m) ==
             \/ Loss(c, n) > Loss(c, m)
             \/ Loss(c, n) = Loss(c, m) /\ Order[n] <= Order[m]
           first == CHOOSE n \in losing : \A m \in losing : Beats(n, m)
<1>6. Driver(c) = IF losing = {} THEN "none" ELSE first
  BY DEF Driver
<1>7. ASSUME losing # {}
      PROVE  first # "none"
  <2> DEFINE Key(n) == 5 * Loss(c, n) + (4 - Order[n])
             keys == {Key(n) : n \in losing}
             top == 5 * Loss(c, "progress_alignment") + 5 * Loss(c, "velocity_fit")
                      + 5 * Loss(c, "blocker_penalty") + 5 * Loss(c, "scope_stability") + 4
  <2>1. \A n \in ComponentNames : Order[n] \in 1 .. 4
    BY DEF ComponentNames, Order
  <2>2. /\ Loss(c, "progress_alignment") \in Nat /\ Loss(c, "velocity_fit") \in Nat
        /\ Loss(c, "blocker_penalty") \in Nat /\ Loss(c, "scope_stability") \in Nat
    BY <1>4 DEF ComponentNames
  <2>3. ASSUME NEW n \in ComponentNames
        PROVE  Key(n) \in Nat /\ Key(n) <= top
    <3> DEFINE x == Loss(c, n)
               o == Order[n]
               lp == Loss(c, "progress_alignment")
               lv == Loss(c, "velocity_fit")
               lb == Loss(c, "blocker_penalty")
               ls == Loss(c, "scope_stability")
    <3>1. /\ x \in Nat /\ o \in 1 .. 4 /\ lp \in Nat /\ lv \in Nat /\ lb \in Nat /\ ls \in Nat
          /\ (x = lp \/ x = lv \/ x = lb \/ x = ls)
      BY <1>4, <2>1, <2>2 DEF ComponentNames
    <3> HIDE DEF x, o, lp, lv, lb, ls
    <3>2. /\ 5 * x + (4 - o) \in Nat
          /\ 5 * x + (4 - o) <= 5 * lp + 5 * lv + 5 * lb + 5 * ls + 4
      BY <3>1
    <3> QED
      BY <3>2 DEF x, o, lp, lv, lb, ls
  <2>4. top \in Nat
    <3> DEFINE lp == Loss(c, "progress_alignment")
               lv == Loss(c, "velocity_fit")
               lb == Loss(c, "blocker_penalty")
               ls == Loss(c, "scope_stability")
    <3>1. lp \in Nat /\ lv \in Nat /\ lb \in Nat /\ ls \in Nat
      BY <2>2
    <3> HIDE DEF lp, lv, lb, ls
    <3>2. 5 * lp + 5 * lv + 5 * lb + 5 * ls + 4 \in Nat
      BY <3>1
    <3> QED
      BY <3>2 DEF lp, lv, lb, ls
  <2>5. keys \in SUBSET Nat /\ keys # {} /\ \A x \in keys : x <= top
    <3> HIDE DEF Key, top
    <3> QED
      BY <1>7, <2>3
  <2>6. \E x \in keys : \A y \in keys : x >= y
    <3> HIDE DEF keys, top
    <3> QED
      BY <2>4, <2>5, GreatestOf
  <2>7. PICK n \in losing : \A m \in losing : Key(n) >= Key(m)
    BY <2>6
  <2>8. ASSUME NEW m \in losing
        PROVE  Beats(n, m)
    <3> DEFINE x == Loss(c, n)
               y == Loss(c, m)
               i == Order[n]
               j == Order[m]
    <3>1. /\ x \in Nat /\ y \in Nat /\ i \in 1 .. 4 /\ j \in 1 .. 4
          /\ 5 * x + (4 - i) >= 5 * y + (4 - j)
      BY <1>4, <2>1, <2>7
    <3> HIDE DEF x, y, i, j
    <3>2. x > y \/ (x = y /\ i <= j)
      BY <3>1
    <3> QED
      BY <3>2 DEF x, y, i, j
  <2>9. \E k \in losing : \A m \in losing : Beats(k, m)
    <3> HIDE DEF Beats, losing
    <3> QED
      BY <2>8
  <2>10. first \in losing
    <3> HIDE DEF Beats, losing
    <3> QED
      BY <2>9
  <2> QED
    BY <2>10 DEF ComponentNames
<1> QED
  <2> HIDE DEF losing, first
  <2> QED
    BY <1>5, <1>6, <1>7

-----------------------------------------------------------------------------
(* What is concluded from the tickets of a sprint.                         *)

LEMMA WorkloadIs ==
  ASSUME SprintTypes
  PROVE  /\ Workload.status \in {"COMPUTED", "PARTIAL"} =>
              /\ Workload.value \in Nat
              /\ Scope # {} /\ LackingStatus = {}
         /\ Workload.status = "COMPUTED" =>
              /\ Pointed = Scope
              /\ \A k \in Active \cap Pointed : ~Fallback(k)
              /\ Workload.value =
                   Concentration(Active \cap Pointed,
                                 [k \in Active \cap Pointed |-> Bucket(k)])
         /\ Workload.status = "INCONCLUSIVE" => ~Estimated \/ LackingStatus # {}
<1> DEFINE included == Active \cap Pointed
           f == [k \in included |-> Bucket(k)]
           none(status) == [status |-> status, value |-> None]
           measured == [status |-> IF Coverage < Full \/ \E k \in included : Fallback(k)
                                   THEN "PARTIAL" ELSE "COMPUTED",
                        value |-> Concentration(included, f)]
<1>1. Workload = IF Scope = {} THEN none("NOT_COMPUTED")
                 ELSE IF ~Estimated \/ LackingStatus # {} THEN none("INCONCLUSIVE")
                 ELSE IF Active = {} THEN none("NOT_APPLICABLE")
                 ELSE IF PointsIn(included) = 0 THEN none("NOT_COMPUTED")
                 ELSE measured
  BY DEF Workload
<1>2. \A x : none(x).status = x
  OBVIOUS
<1>3. /\ measured.status = IF Coverage < Full \/ \E k \in included : Fallback(k)
                           THEN "PARTIAL" ELSE "COMPUTED"
      /\ measured.value = Concentration(included, f)
  OBVIOUS
<1>4. PointsIn(included) # 0 => Concentration(included, f) \in Nat
  <2>1. included \in SUBSET Pointed
    OBVIOUS
  <2> HIDE DEF included, f
  <2> QED
    BY <2>1, ConcentrationIs
<1>5. Scope # {} /\ ~ (Coverage < Full) => Pointed = Scope
  BY CoverageIs, FullIs
<1> HIDE DEF included, f, none, measured
<1>6. Workload.status \in {"COMPUTED", "PARTIAL"} =>
        /\ Workload = measured /\ Scope # {} /\ LackingStatus = {} /\ PointsIn(included) # 0
  BY <1>1, <1>2
<1>7. Workload.status = "INCONCLUSIVE" => ~Estimated \/ LackingStatus # {}
  BY <1>1, <1>2, <1>3
<1>8. ASSUME Workload.status \in {"COMPUTED", "PARTIAL"}
      PROVE  Workload.value \in Nat /\ Scope # {} /\ LackingStatus = {}
  BY <1>3, <1>4, <1>6, <1>8
<1>9. ASSUME Workload.status = "COMPUTED"
      PROVE  /\ Pointed = Scope
             /\ \A k \in included : ~Fallback(k)
             /\ Workload.value = Concentration(included, f)
  BY <1>3, <1>5, <1>6, <1>9
<1> QED
  BY <1>7, <1>8, <1>9 DEF included, f

(* Without fallback names, tickets count for the same person exactly when  *)
(* they are assigned to the same.                                          *)
LEMMA WorkloadHolds ==
  ASSUME SprintTypes
  PROVE  WorkloadIsTrue
<1>1. SUFFICES ASSUME Workload.status = "COMPUTED"
               PROVE  Workload.value =
                        Concentration(Active, [k \in Active |-> tickets[k].person])
  BY DEF WorkloadIsTrue
<1> DEFINE f == [k \in Active |-> Bucket(k)]
           g == [k \in Active |-> tickets[k].person]
<1>2. Active \cap Pointed = Active /\ \A k \in Active : ~Fallback(k)
  BY <1>1, WorkloadIs DEF Active
<1>3. Workload.value = Concentration(Active, f)
  BY <1>1, <1>2, WorkloadIs
<1>4. \A j \in Active : \A k \in Active : f[j] = f[k] <=> g[j] = g[k]
  <2>1. SUFFICES ASSUME NEW j \in Active, NEW k \in Active
                 PROVE  Bucket(j) = Bucket(k) <=> tickets[j].person = tickets[k].person
    OBVIOUS
  <2>2. \A i \in {j, k} :
          Bucket(i) = IF tickets[i].person = Nobody THEN <<"unassigned">>
                      ELSE <<"jira", tickets[i].person>>
    BY <1>2 DEF Bucket, Fallback
  <2> QED
    BY <2>2
<1> HIDE DEF f, g
<1>5. \A k \in Active : {j \in Active : f[j] = f[k]} = {j \in Active : g[j] = g[k]}
  BY <1>4
<1>6. {PctOf(PointsIn({j \in Active : f[j] = f[k]}), PointsIn(Active)) : k \in Active}
        = {PctOf(PointsIn({j \in Active : g[j] = g[k]}), PointsIn(Active)) : k \in Active}
  BY <1>5
<1>7. Concentration(Active, f) = Concentration(Active, g)
  BY <1>6 DEF Concentration
<1> QED
  BY <1>3, <1>7 DEF g

LEMMA DeliveryIs ==
  ASSUME SprintTypes
  PROVE  LET d == DeliveryConfidence
             scored == /\ Scope # {} /\ Estimated /\ Prerequisites
                       /\ events.creep.status = "COMPUTED"
         IN /\ d.score # None <=> scored
            /\ d.status = "INCONCLUSIVE" <=> Scope # {} /\ ~scored
            /\ d.status = "COMPUTED" => scored
            /\ scored => /\ d.score = Score(Components)
                         /\ d.components = Components
                         /\ d.remaining = Remaining
                         /\ d.score \in Int /\ d.score >= 0
<1> DEFINE d == DeliveryConfidence
           scored == /\ Scope # {} /\ Estimated /\ Prerequisites
                     /\ events.creep.status = "COMPUTED"
           none(status) ==
             [status |-> status, score |-> None, components |-> NoComponents, remaining |-> 0]
           measured ==
             [status |-> IF Coverage = Full /\ \A s \in Baselines : s.coverage = Full
                         THEN "COMPUTED" ELSE "PARTIAL",
              score |-> Score(Components),
              components |-> Components,
              remaining |-> Remaining]
<1>1. d = IF Scope = {} THEN none("NOT_COMPUTED")
          ELSE IF ~scored THEN none("INCONCLUSIVE") ELSE measured
  BY DEF DeliveryConfidence
<1>2. \A x : none(x).status = x /\ none(x).score = None
  OBVIOUS
<1>3. /\ measured.status \in {"COMPUTED", "PARTIAL"}
      /\ measured.score = Score(Components)
      /\ measured.components = Components
      /\ measured.remaining = Remaining
  OBVIOUS
<1>4. scored => Score(Components) \in Int /\ Score(Components) >= 0
  <2> DEFINE p == Components.progress_alignment
             v == Components.velocity_fit
             b == Components.blocker_penalty
             s == Components.scope_stability
  <2>1. scored => Scored
    BY DEF Scored, Prerequisites
  <2>2. scored => p \in 0 .. Full /\ v \in 0 .. Full /\ b \in 0 .. Full /\ s \in 0 .. Full
    <3> HIDE DEF scored
    <3> QED
      BY <2>1, ComponentsAre
  <2>3. p \in Int /\ v \in Int /\ b \in Int /\ s \in Int =>
          /\ Score(Components) \in Int
          /\ Score(Components) = 4 * p + 3 * v + 2 * b + s
    BY ScoreIs
  <2> HIDE DEF scored, p, v, b, s
  <2> QED
    BY <2>2, <2>3, FullIs
<1>5. None = -1
  BY DEF None
<1>6. scored => Scope # {}
  OBVIOUS
<1> HIDE DEF d, scored, none, measured
<1>7. /\ d.score # None <=> scored
      /\ d.status = "INCONCLUSIVE" <=> Scope # {} /\ ~scored
      /\ d.status = "COMPUTED" => scored
  <2>1. CASE Scope = {}
    BY <1>1, <1>2, <1>6, <2>1
  <2>2. CASE Scope # {} /\ ~scored
    BY <1>1, <1>2, <2>2
  <2>3. CASE Scope # {} /\ scored
    BY <1>1, <1>3, <1>4, <1>5, <2>3
  <2> QED
    BY <2>1, <2>2, <2>3
<1>8. scored => /\ d.score = Score(Components)
                /\ d.components = Components
                /\ d.remaining = Remaining
                /\ d.score \in Int /\ d.score >= 0
  BY <1>1, <1>3, <1>4, <1>6
<1> QED
  BY <1>7, <1>8 DEF d, scored

-----------------------------------------------------------------------------
(* What a recalculation stores.                                            *)

(* What is so of every stored snapshot, whatever has happened since.       *)
AvailabilityAgreesWith(s) ==
  /\ \A m \in SprintMetrics \ {"bugs_created_during_sprint"} :
       Shown(s, m) # None <=> s.availability[m].available
  /\ s.state = "COMPUTED" =>
       /\ s.delivery.score # None
       /\ s.workload.status \in {"COMPUTED", "NOT_APPLICABLE"}
  /\ s.delivery.status = "COMPUTED" => s.workload.status # "INCONCLUSIVE"

ScoreIsMadeOf(s) ==
  LET c == s.delivery.components
  IN /\ c.progress_alignment \in 0 .. Full /\ c.velocity_fit \in 0 .. Full
     /\ c.blocker_penalty \in 0 .. Full /\ c.scope_stability \in 0 .. Full
     /\ s.delivery.score = Score(c)
     /\ s.driver = Driver(c)
     /\ c.velocity_fit < Full => s.delivery.remaining > 0
     /\ c.blocker_penalty < Full => s.values["open_blockers"] > 0

Sound(s) ==
  /\ AvailabilityAgreesWith(s)
  /\ s.delivery.score # None => ScoreIsMadeOf(s)

EvaluatedMetrics ==
  {"committed_scope", "completed_scope_pct", "open_blockers", "open_high_severity_bugs",
   "in_progress_count", "not_started_count", "rollover_count", "median_cycle_time_days",
   "reopen_rate_pct"}

LEMMA SnapshotIs ==
  /\ Snapshot.values = [m \in EvaluatedMetrics |-> Evaluated[m].value]
  /\ Snapshot.creep = events.creep
  /\ Snapshot.workload = Workload
  /\ Snapshot.delivery = DeliveryConfidence
  /\ Snapshot.driver = IF DeliveryConfidence.score # None
                       THEN Driver(DeliveryConfidence.components) ELSE "none"
  /\ Snapshot.availability = Availability(Workload, DeliveryConfidence)
  /\ Snapshot.state = ComputationState(Snapshot.availability)
<1>1. DOMAIN Evaluated = EvaluatedMetrics
  BY DEF Evaluated, EvaluatedMetrics
<1> QED
  BY <1>1 DEF Snapshot

LEMMA MetricsAre ==
  /\ SprintMetrics = EvaluatedMetrics \cup
       {"scope_creep_pct", "bugs_created_during_sprint", "workload_concentration_pct",
        "delivery_confidence_score"}
  /\ DOMAIN Evaluated = EvaluatedMetrics
BY DEF SprintMetrics, Sprint, EvaluatedMetrics, Evaluated

LEMMA AvailabilityIs ==
  ASSUME NEW w, NEW d
  PROVE  LET items == Availability(w, d)
         IN /\ \A m \in EvaluatedMetrics : items[m].available <=> Evaluated[m].value # None
            /\ items["scope_creep_pct"].available <=> events.creep.status = "COMPUTED"
            /\ items["workload_concentration_pct"] = WorkloadItem(w)
            /\ items["delivery_confidence_score"] = DeliveryItem(d)
<1>1. \A m \in EvaluatedMetrics : Availability(w, d)[m] = Valued(Evaluated[m])
  BY MetricsAre DEF Availability
<1>2. Availability(w, d)["scope_creep_pct"]
        = Item(events.creep.status, events.creep.status = "COMPUTED")
  BY MetricsAre DEF Availability, EvaluatedMetrics
<1>3. Availability(w, d)["workload_concentration_pct"] = WorkloadItem(w)
  BY MetricsAre DEF Availability, EvaluatedMetrics
<1>4. Availability(w, d)["delivery_confidence_score"] = DeliveryItem(d)
  BY MetricsAre DEF Availability, EvaluatedMetrics
<1>5. ASSUME NEW m \in EvaluatedMetrics
      PROVE  Availability(w, d)[m].available <=> Evaluated[m].value # None
  <2> DEFINE r == Evaluated[m]
  <2>0. Availability(w, d)[m] = Item(r.status, r.value # None)
    BY <1>1 DEF Valued
  <2> HIDE DEF r
  <2>1. Availability(w, d)[m].available = (r.value # None)
    BY <2>0 DEF Item
  <2>2. Availability(w, d)[m].available <=> r.value # None
    BY <2>1, Zenon
  <2> QED
    BY <2>2 DEF r
<1>6. Availability(w, d)["scope_creep_pct"].available <=> events.creep.status = "COMPUTED"
  <2>1. Availability(w, d)["scope_creep_pct"].available = (events.creep.status = "COMPUTED")
    BY <1>2 DEF Item
  <2> QED
    BY <2>1, Zenon
<1> QED
  BY <1>3, <1>4, <1>5, <1>6

LEMMA DeliveryItemIs ==
  ASSUME SprintTypes
  PROVE  LET d == DeliveryConfidence
         IN /\ DeliveryItem(d).available <=> d.score # None
            /\ DeliveryItem(d).status \in {"COMPUTED", "NOT_COMPUTED"}
<1> DEFINE d == DeliveryConfidence
           scored == /\ Scope # {} /\ Estimated /\ Prerequisites
                     /\ events.creep.status = "COMPUTED"
           needed == Sprint["delivery_confidence_score"].needs \subseteq Satisfied
<1>1. /\ d.score # None <=> scored
      /\ d.status = "INCONCLUSIVE" <=> Scope # {} /\ ~scored
  BY DeliveryIs
<1>2. needed <=> Scope # {} /\ Estimated
  <2>1. Sprint["delivery_confidence_score"].needs =
          {"ticket_count", "sprint_assignment", "story_points", "ticket_status",
           "blocker_classification", "sprint_duration", "project_changelog_completeness"}
    BY DEF Sprint, SprintDeliveryConfidence, Planned, Entry
  <2> QED
    BY <2>1 DEF Satisfied
<1>3. DeliveryItem(d) = IF Estimated /\ (~Prerequisites \/ d.status = "INCONCLUSIVE")
                        THEN Item("NOT_COMPUTED", FALSE)
                        ELSE Item(IF needed THEN "COMPUTED" ELSE "NOT_COMPUTED", needed)
  BY DEF DeliveryItem, DependencyItem
<1>4. \A x, b : Item(x, b).status = x /\ Item(x, b).available = b
  BY DEF Item
<1> HIDE DEF d, needed
<1>5. DeliveryItem(d).status \in {"COMPUTED", "NOT_COMPUTED"}
  BY <1>3, <1>4
<1>6. ASSUME Estimated, ~Prerequisites \/ d.status = "INCONCLUSIVE"
      PROVE  ~DeliveryItem(d).available /\ d.score = None
  <2>1. DeliveryItem(d) = Item("NOT_COMPUTED", FALSE)
    BY <1>3, <1>6
  <2>2. ~DeliveryItem(d).available
    BY <1>4, <2>1
  <2> QED
    BY <1>1, <1>6, <2>2
<1>7. ASSUME ~ (Estimated /\ (~Prerequisites \/ d.status = "INCONCLUSIVE"))
      PROVE  DeliveryItem(d).available <=> d.score # None
  <2>1. DeliveryItem(d) = Item(IF needed THEN "COMPUTED" ELSE "NOT_COMPUTED", needed)
    BY <1>3, <1>7
  <2>2. DeliveryItem(d).available = needed
    BY <1>4, <2>1
  <2> QED
    BY <1>1, <1>2, <1>7, <2>2
<1> QED
  BY <1>5, <1>6, <1>7 DEF d

LEMMA SnapshotAvailability ==
  ASSUME SprintTypes
  PROVE  AvailabilityAgreesWith(Snapshot)
<1> DEFINE s == Snapshot
           w == Workload
           d == DeliveryConfidence
<1>0. None = -1
  BY DEF None
<1>1. /\ \A m \in EvaluatedMetrics : s.values[m] = Evaluated[m].value
      /\ s.creep = events.creep /\ s.workload = w /\ s.delivery = d
      /\ s.state = ComputationState(s.availability)
      /\ \A m \in EvaluatedMetrics : s.availability[m].available <=> s.values[m] # None
      /\ s.availability["scope_creep_pct"].available <=> events.creep.status = "COMPUTED"
      /\ s.availability["workload_concentration_pct"] = WorkloadItem(w)
      /\ s.availability["delivery_confidence_score"] = DeliveryItem(d)
  <2>1. /\ s.values = [m \in EvaluatedMetrics |-> Evaluated[m].value]
        /\ s.creep = events.creep /\ s.workload = w /\ s.delivery = d
        /\ s.availability = Availability(w, d)
        /\ s.state = ComputationState(s.availability)
    BY SnapshotIs
  <2>2. /\ \A m \in EvaluatedMetrics : Availability(w, d)[m].available <=> Evaluated[m].value # None
        /\ Availability(w, d)["scope_creep_pct"].available <=> events.creep.status = "COMPUTED"
        /\ Availability(w, d)["workload_concentration_pct"] = WorkloadItem(w)
        /\ Availability(w, d)["delivery_confidence_score"] = DeliveryItem(d)
    BY AvailabilityIs
  <2> HIDE DEF s, w, d
  <2>3. \A m \in EvaluatedMetrics : s.values[m] = Evaluated[m].value
    BY <2>1
  <2>4. \A m \in EvaluatedMetrics : s.availability[m].available <=> s.values[m] # None
    BY <2>1, <2>2, <2>3
  <2> QED
    BY <2>1, <2>2, <2>3, <2>4
<1>2. /\ w.status \in {"COMPUTED", "PARTIAL"} => w.value \in Nat
      /\ w.status = "INCONCLUSIVE" => ~Estimated \/ LackingStatus # {}
  BY WorkloadIs
<1>3. /\ WorkloadItem(w).available <=> w.status \in {"COMPUTED", "PARTIAL"}
      /\ WorkloadItem(w).status = IF w.status = "INCONCLUSIVE" THEN "NOT_COMPUTED" ELSE w.status
  BY DEF WorkloadItem, Item
<1>4. /\ DeliveryItem(d).available <=> d.score # None
      /\ DeliveryItem(d).status \in {"COMPUTED", "NOT_COMPUTED"}
  BY DeliveryItemIs
<1>5. d.status = "COMPUTED" => Estimated /\ LackingStatus = {}
  <2>1. d.status = "COMPUTED" => Estimated /\ Prerequisites
    BY DeliveryIs
  <2>2. Prerequisites => LackingStatus = {}
    BY DEF Prerequisites, LackingStatus, BlockerIndeterminate
  <2> QED
    BY <2>1, <2>2
<1>6. events.creep.status = "COMPUTED" => events.creep.value # None
  <2> DEFINE v == events.creep.value
  <2>1. events.creep.status = "COMPUTED" => v \in Int /\ v >= 0
    BY DeliveryAssumption DEF SprintTypes
  <2> HIDE DEF v
  <2>2. events.creep.status = "COMPUTED" => v # None
    BY <1>0, <2>1
  <2> QED
    BY <2>2 DEF v
<1> HIDE DEF s, w, d
<1>7. ASSUME NEW m \in SprintMetrics \ {"bugs_created_during_sprint"}
      PROVE  Shown(s, m) # None <=> s.availability[m].available
  <2>1. CASE m \in Unguarded
    <3>1. m \in EvaluatedMetrics /\ Shown(s, m) = s.values[m]
      BY <2>1 DEF Unguarded, EvaluatedMetrics, Shown
    <3> QED
      BY <1>1, <3>1
  <2>2. CASE m = "scope_creep_pct"
    <3>1. Shown(s, m) = IF s.availability[m].available THEN s.creep.value ELSE None
      BY <2>2 DEF Unguarded, Shown
    <3> QED
      BY <1>1, <1>6, <2>2, <3>1
  <2>3. CASE m = "workload_concentration_pct"
    <3>1. Shown(s, m) = IF s.availability[m].available THEN s.workload.value ELSE None
      BY <2>3 DEF Unguarded, Shown
    <3> QED
      BY <1>0, <1>1, <1>2, <1>3, <2>3, <3>1
  <2>4. CASE m = "delivery_confidence_score"
    <3>1. Shown(s, m) = s.delivery.score
      BY <2>4 DEF Unguarded, Shown
    <3> QED
      BY <1>1, <1>4, <2>4, <3>1
  <2>5. CASE m \in EvaluatedMetrics \ Unguarded
    <3>1. Shown(s, m) = IF s.availability[m].available THEN s.values[m] ELSE None
      BY <2>5 DEF EvaluatedMetrics, Shown
    <3> QED
      BY <1>1, <2>5, <3>1
  <2> QED
    BY <2>1, <2>2, <2>3, <2>4, <2>5, MetricsAre
<1>8. ASSUME s.state = "COMPUTED"
      PROVE  d.score # None /\ w.status \in {"COMPUTED", "NOT_APPLICABLE"}
  <2>1. \A m \in SprintMetrics :
          /\ s.availability[m].status # "PARTIAL"
          /\ s.availability[m].available \/ s.availability[m].status = "NOT_APPLICABLE"
    BY <1>1, <1>8 DEF ComputationState
  <2>2. "workload_concentration_pct" \in SprintMetrics
          /\ "delivery_confidence_score" \in SprintMetrics
    BY MetricsAre
  <2>3. d.score # None
    BY <1>1, <1>4, <2>1, <2>2
  <2>4. w.status \in {"COMPUTED", "NOT_APPLICABLE"}
    BY <1>1, <1>3, <2>1, <2>2
  <2> QED
    BY <2>3, <2>4
<1>9. d.status = "COMPUTED" => w.status # "INCONCLUSIVE"
  BY <1>2, <1>5
<1>10. AvailabilityAgreesWith(s)
  BY <1>1, <1>7, <1>8, <1>9 DEF AvailabilityAgreesWith
<1> QED
  BY <1>10 DEF s

LEMMA SnapshotScore ==
  ASSUME SprintTypes, Snapshot.delivery.score # None
  PROVE  ScoreIsMadeOf(Snapshot)
<1> DEFINE s == Snapshot
           c == Components
<1>1. /\ s.delivery = DeliveryConfidence
      /\ s.driver = IF DeliveryConfidence.score # None
                    THEN Driver(DeliveryConfidence.components) ELSE "none"
      /\ s.values["open_blockers"] = Evaluated["open_blockers"].value
      /\ DeliveryConfidence.score # None
  BY SnapshotIs DEF EvaluatedMetrics
<1>2. /\ Scope # {} /\ Prerequisites /\ events.creep.status = "COMPUTED"
      /\ s.delivery.score = Score(c) /\ s.delivery.components = c
      /\ s.delivery.remaining = Remaining
  BY <1>1, DeliveryIs
<1>3. Scored
  BY <1>2 DEF Scored, Prerequisites
<1>4. /\ c.progress_alignment \in 0 .. Full /\ c.velocity_fit \in 0 .. Full
      /\ c.blocker_penalty \in 0 .. Full /\ c.scope_stability \in 0 .. Full
      /\ c.velocity_fit < Full => Remaining > 0
      /\ c.blocker_penalty < Full => OpenBlockerCount > 0
  BY <1>3, ComponentsAre
<1>5. Evaluated["open_blockers"].value = OpenBlockerCount
  BY <1>2 DEF Evaluated, OpenBlockers, Count, OpenBlockerCount, Scope
<1> HIDE DEF s, c
<1>6. s.driver = Driver(c)
  BY <1>1, <1>2
<1>7. ScoreIsMadeOf(s)
  BY <1>1, <1>2, <1>4, <1>5, <1>6 DEF ScoreIsMadeOf
<1> QED
  BY <1>7 DEF s

LEMMA SnapshotIsSound ==
  ASSUME SprintTypes
  PROVE  Sound(Snapshot)
BY SnapshotAvailability, SnapshotScore DEF Sound

-----------------------------------------------------------------------------
(* The inductive invariant of a sprint.                                    *)

Stored == {results[i] : i \in DOMAIN results}

SprintInv ==
  /\ SprintTypes
  /\ results \in Seq(Stored)
  /\ \A i \in DOMAIN results : Sound(results[i])

LEMMA SprintStarts ==
  SprintInit => SprintInv
<1>1. SUFFICES ASSUME SprintInit
               PROVE  SprintInv
  OBVIOUS
<1>2. SprintTypes
  <2>1. tickets \in Scopes /\ sprint \in Sprints /\ now = 1 /\ events \in Histories
          /\ others \in OtherSprints
    BY <1>1 DEF SprintInit
  <2>2. /\ IsFiniteSet(Scope)
        /\ \A k \in Scope : DOMAIN tickets[k] = TicketFields /\ tickets[k].points \in Int
    BY <2>1, DeliveryAssumption DEF Scope
  <2>3. /\ DOMAIN sprint = {"closed", "start", "end"}
        /\ sprint.start \in Int /\ sprint.end \in Int
    BY <2>1, DeliveryAssumption
  <2> QED
    BY <2>1, <2>2, <2>3 DEF SprintTypes
<1>3. results = <<>>
  BY <1>1 DEF SprintInit
<1>4. results \in Seq(Stored) /\ DOMAIN results = {}
  BY <1>3
<1> QED
  BY <1>2, <1>4 DEF SprintInv

LEMMA TicketSet ==
  ASSUME SprintTypes, NEW k \in Scope, NEW f \in {"status", "points"}, NEW x,
         f = "points" => x \in Int,
         tickets' = [tickets EXCEPT ![k] = [tickets[k] EXCEPT ![f] = x]]
  PROVE  /\ Scope' = Scope
         /\ \A j \in Scope : DOMAIN tickets'[j] = TicketFields /\ tickets'[j].points \in Int
         /\ \A j \in Scope \ {k} : tickets'[j] = tickets[j]
         /\ tickets'[k][f] = x
         /\ \A g \in TicketFields \ {f} : tickets'[k][g] = tickets[k][g]
<1> DEFINE t == tickets[k]
           u == [t EXCEPT ![f] = x]
<1>1. DOMAIN t = TicketFields /\ t.points \in Int
  BY DEF SprintTypes
<1>2. /\ DOMAIN u = TicketFields
      /\ u[f] = x
      /\ \A g \in TicketFields \ {f} : u[g] = t[g]
  BY <1>1 DEF TicketFields
<1>3. u.points \in Int
  BY <1>1, <1>2 DEF TicketFields
<1>4. /\ DOMAIN tickets' = DOMAIN tickets
      /\ tickets'[k] = u
      /\ \A j \in DOMAIN tickets \ {k} : tickets'[j] = tickets[j]
  BY DEF Scope
<1> HIDE DEF t, u
<1>5. Scope' = Scope
  BY <1>4 DEF Scope
<1>6. \A j \in Scope : DOMAIN tickets'[j] = TicketFields /\ tickets'[j].points \in Int
  BY <1>2, <1>3, <1>4 DEF Scope, SprintTypes
<1> QED
  BY <1>2, <1>4, <1>5, <1>6 DEF Scope, t

LEMMA FinishIs ==
  ASSUME SprintTypes, NEW k \in Scope, Finish(k)
  PROVE  /\ Scope' = Scope
         /\ \A j \in Scope : DOMAIN tickets'[j] = TicketFields /\ tickets'[j].points \in Int
         /\ \A j \in Scope \ {k} : tickets'[j] = tickets[j]
         /\ tickets'[k].status \in Settings.done
         /\ \A g \in TicketFields \ {"status"} : tickets'[k][g] = tickets[k][g]
<1>1. tickets' = [tickets EXCEPT ![k] = [tickets[k] EXCEPT !["status"] = FirstDone]]
  BY DEF Finish
<1>2. FirstDone \in Settings.done
  BY DeliveryAssumption DEF FirstDone
<1> QED
  BY <1>1, <1>2, TicketSet

LEMMA SprintTypesStep ==
  ASSUME SprintTypes, [SprintNext]_sprintVars
  PROVE  SprintTypes'
<1>1. ASSUME NEW k \in Scope, Finish(k)
      PROVE  SprintTypes'
  BY <1>1, FinishIs DEF SprintTypes, Finish
<1>2. ASSUME NEW k \in Scope, Estimate(k)
      PROVE  SprintTypes'
  <2>1. tickets' = [tickets EXCEPT ![k] = [tickets[k] EXCEPT !["points"] = 2]]
    BY <1>2 DEF Estimate
  <2>2. /\ Scope' = Scope
        /\ \A j \in Scope : DOMAIN tickets'[j] = TicketFields /\ tickets'[j].points \in Int
    <3>1. 2 \in Int /\ "points" \in {"status", "points"}
      OBVIOUS
    <3> DEFINE two == 2
    <3>2. /\ two \in Int
          /\ tickets' = [tickets EXCEPT ![k] = [tickets[k] EXCEPT !["points"] = two]]
      BY <2>1
    <3> HIDE DEF two
    <3> QED
      BY <3>1, <3>2, TicketSet
  <2> QED
    BY <1>2, <2>2 DEF SprintTypes, Estimate
<1>3. ASSUME PassTime
      PROVE  SprintTypes'
  BY <1>3 DEF SprintTypes, PassTime, Scope
<1>4. ASSUME Close
      PROVE  SprintTypes'
  <2>1. sprint' = [sprint EXCEPT !["closed"] = TRUE] /\ UNCHANGED <<tickets, now, events, others>>
    BY <1>4 DEF Close
  <2>2. /\ DOMAIN sprint' = {"closed", "start", "end"}
        /\ sprint'.start = sprint.start /\ sprint'.end = sprint.end
    BY <2>1 DEF SprintTypes
  <2> QED
    BY <2>1, <2>2 DEF SprintTypes, Scope
<1>5. ASSUME RecomputeSprintMetrics
      PROVE  SprintTypes'
  BY <1>5 DEF SprintTypes, RecomputeSprintMetrics, Scope
<1>6. ASSUME UNCHANGED sprintVars
      PROVE  SprintTypes'
  BY <1>6 DEF SprintTypes, sprintVars, Scope
<1> QED
  BY <1>1, <1>2, <1>3, <1>4, <1>5, <1>6 DEF SprintNext

LEMMA SprintInvStep ==
  ASSUME SprintInv, [SprintNext]_sprintVars
  PROVE  SprintInv'
<1>1. SprintTypes'
  BY SprintTypesStep DEF SprintInv
<1>2. ASSUME UNCHANGED results
      PROVE  SprintInv'
  <2>1. Stored' = Stored
    BY <1>2 DEF Stored
  <2>2. \A i \in DOMAIN results' : Sound(results'[i])
    BY <1>2 DEF SprintInv
  <2>3. results' \in Seq(Stored')
    BY <1>2, <2>1 DEF SprintInv
  <2> QED
    BY <1>1, <2>2, <2>3 DEF SprintInv
<1>3. ASSUME RecomputeSprintMetrics
      PROVE  SprintInv'
  <2> DEFINE s == Snapshot
  <2>1. results' = Append(results, s)
    BY <1>3 DEF RecomputeSprintMetrics
  <2>2. Sound(s)
    BY SnapshotIsSound DEF SprintInv
  <2> HIDE DEF s
  <2>3. /\ DOMAIN results = 1 .. Len(results) /\ Len(results) \in Nat
        /\ results' \in Seq(Stored \cup {s})
        /\ DOMAIN results' = 1 .. Len(results) + 1
        /\ results'[Len(results) + 1] = s
        /\ \A i \in 1 .. Len(results) : results'[i] = results[i]
    <3>1. results \in Seq(Stored)
      BY DEF SprintInv
    <3> HIDE DEF Stored
    <3>2. results \in Seq(Stored \cup {s})
      BY <3>1
    <3> QED
      BY <2>1, <3>1, <3>2
  <2>4. \A i \in DOMAIN results' : Sound(results'[i])
    <3>1. \A i \in DOMAIN results : Sound(results[i])
      BY DEF SprintInv
    <3> QED
      BY <2>2, <2>3, <3>1
  <2>5. results' \in Seq(Stored')
    <3>1. Len(results) + 1 \in DOMAIN results' /\ DOMAIN results \subseteq DOMAIN results'
      BY <2>3
    <3>2. Stored \subseteq Stored' /\ s \in Stored'
      BY <2>3, <3>1 DEF Stored
    <3>3. results \in Seq(Stored)
      BY DEF SprintInv
    <3> HIDE DEF Stored
    <3>4. results \in Seq(Stored')
      BY <3>2, <3>3
    <3> QED
      BY <2>1, <3>2, <3>4
  <2> QED
    BY <1>1, <2>4, <2>5 DEF SprintInv
<1> QED
  <2>1. UNCHANGED results \/ RecomputeSprintMetrics
    BY DEF SprintNext, Finish, Estimate, PassTime, Close, sprintVars
  <2> QED
    BY <1>2, <1>3, <2>1

(* Every snapshot stored of a sprint is sound, whatever has happened since. *)
THEOREM SprintInvariance ==
  SprintSpec => []SprintInv
BY SprintStarts, SprintInvStep, PTL DEF SprintSpec

(* Work that is called computed is divided between persons as it really    *)
(* is, whatever their names are.                                           *)
THEOREM ComputedWorkloadIsTrue ==
  SprintSpec => []WorkloadIsTrue
<1>1. SprintInv => WorkloadIsTrue
  BY WorkloadHolds DEF SprintInv
<1> QED
  BY <1>1, SprintInvariance, PTL

(* A stored value is shown exactly when it is called available, and a      *)
(* complete result has a score that left nothing out.                      *)
THEOREM AvailabilitySaysWhatIsStored ==
  SprintSpec => []SprintAvailabilityIsStored
<1>1. SprintInv => SprintAvailabilityIsStored
  BY DEF SprintInv, Sound, AvailabilityAgreesWith, SprintAvailabilityIsStored
<1> QED
  BY <1>1, SprintInvariance, PTL

LEMMA LossIsRecommended ==
  ASSUME NEW s, s.delivery.score # None, ScoreIsMadeOf(s), s.delivery.score < Highest
  PROVE  Recommendations(s) # {}
<1> DEFINE c == s.delivery.components
           p == c.progress_alignment
           v == c.velocity_fit
           b == c.blocker_penalty
           f == c.scope_stability
<1>1. /\ p \in 0 .. Full /\ v \in 0 .. Full /\ b \in 0 .. Full /\ f \in 0 .. Full
      /\ v < Full => s.delivery.remaining > 0
      /\ b < Full => s.values["open_blockers"] > 0
      /\ s.delivery.score = Score(c)
  BY DEF ScoreIsMadeOf
<1>2. p \in Int /\ v \in Int /\ b \in Int /\ f \in Int => Score(c) = 4 * p + 3 * v + 2 * b + f
  BY ScoreIs
<1>3. p < Full => "progress_alignment" \in Recommendations(s)
  BY DEF Recommendations
<1>4. s.delivery.remaining > 0 => "progress_alignment" \in Recommendations(s)
  BY DEF Recommendations
<1>5. f < Full => "scope_stability" \in Recommendations(s)
  BY DEF Recommendations
<1>6. s.values["open_blockers"] > 0 => "open_blockers" \in Recommendations(s)
  BY DEF Recommendations
<1> HIDE DEF c, p, v, b, f
<1>7. Score(c) < 10 * Full
  BY <1>1 DEF Highest
<1>8. p < Full \/ v < Full \/ b < Full \/ f < Full
  BY <1>1, <1>2, <1>7, FullIs
<1> QED
  BY <1>1, <1>3, <1>4, <1>5, <1>6, <1>8

LEMMA ImpactsAdd ==
  ASSUME NEW s, NEW t, s.delivery.score # None, t.delivery.score # None,
         ScoreIsMadeOf(s), ScoreIsMadeOf(t)
  PROVE  SumFunction([n \in ComponentNames |-> Comparison(t, s).impacts[n]])
           = Comparison(t, s).delta
<1> DEFINE c == s.delivery.components
           d == t.delivery.components
           G == [n \in ComponentNames |-> Comparison(t, s).impacts[n]]
           p == c.progress_alignment
           v == c.velocity_fit
           b == c.blocker_penalty
           f == c.scope_stability
           q == d.progress_alignment
           w == d.velocity_fit
           a == d.blocker_penalty
           g == d.scope_stability
<1>1. /\ p \in Int /\ v \in Int /\ b \in Int /\ f \in Int
      /\ q \in Int /\ w \in Int /\ a \in Int /\ g \in Int
      /\ s.delivery.score = Score(c) /\ t.delivery.score = Score(d)
  BY FullIs DEF ScoreIsMadeOf
<1>2. Score(c) = 4 * p + 3 * v + 2 * b + f /\ Score(d) = 4 * q + 3 * w + 2 * a + g
  BY <1>1, ScoreIs
<1>3. /\ G["progress_alignment"] = 4 * (q - p) /\ G["velocity_fit"] = 3 * (w - v)
      /\ G["blocker_penalty"] = 2 * (a - b) /\ G["scope_stability"] = 1 * (g - f)
  BY DEF ComponentNames, Comparison, Impact, Weight
<1>4. DOMAIN G = ComponentNames /\ G = [n \in ComponentNames |-> G[n]]
  OBVIOUS
<1>5. Comparison(t, s).delta = Score(d) - Score(c)
  BY <1>1 DEF Comparison
<1> HIDE DEF c, d, G, p, v, b, f, q, w, a, g
<1>6. G \in [ComponentNames -> Int]
  <2>1. /\ G["progress_alignment"] \in Int /\ G["velocity_fit"] \in Int
        /\ G["blocker_penalty"] \in Int /\ G["scope_stability"] \in Int
    BY <1>1, <1>3
  <2> QED
    BY <1>4, <2>1 DEF ComponentNames
<1>7. SumFunction(G) = 4 * (q - p) + 3 * (w - v) + 2 * (a - b) + 1 * (g - f)
  BY <1>3, <1>6, FourAdded
<1>8. SumFunction(G) = Comparison(t, s).delta
  BY <1>1, <1>2, <1>5, <1>7
<1> QED
  BY <1>8 DEF G

(* Every point missing from a score has a driver and a recommendation, and *)
(* the impacts of the components add up to the movement of the score.      *)
THEOREM SprintScoresAreExplained ==
  SprintSpec => []ScoreIsExplained
<1>1. ASSUME SprintInv
      PROVE  ScoreIsExplained
  <2>1. SUFFICES ASSUME NEW i \in DOMAIN results, results[i].delivery.score # None
                 PROVE  LET s == results[i]
                        IN /\ s.driver = "none" <=> s.delivery.score = Highest
                           /\ s.delivery.score < Highest => Recommendations(s) # {}
                           /\ Comparable(Snapshot, s) =>
                                LET c == Comparison(Snapshot, s)
                                IN SumFunction([n \in ComponentNames |-> c.impacts[n]]) = c.delta
    BY DEF ScoreIsExplained
  <2> DEFINE s == results[i]
             t == Snapshot
  <2>2. s.delivery.score # None /\ ScoreIsMadeOf(s)
    BY <1>1, <2>1 DEF SprintInv, Sound
  <2>3. t.delivery.score # None => ScoreIsMadeOf(t)
    BY <1>1, SnapshotIsSound DEF SprintInv, Sound
  <2> HIDE DEF s, t
  <2>4. s.driver = "none" <=> s.delivery.score = Highest
    <3> DEFINE c == s.delivery.components
    <3>1. /\ c.progress_alignment \in 0 .. Full /\ c.velocity_fit \in 0 .. Full
          /\ c.blocker_penalty \in 0 .. Full /\ c.scope_stability \in 0 .. Full
          /\ s.driver = Driver(c) /\ s.delivery.score = Score(c)
      BY <2>2 DEF ScoreIsMadeOf
    <3> HIDE DEF c
    <3>2. Driver(c) = "none" <=> Score(c) = Highest
      BY <3>1, DriverIs
    <3> QED
      BY <3>1, <3>2
  <2>5. s.delivery.score < Highest => Recommendations(s) # {}
    BY <2>2, LossIsRecommended
  <2>6. Comparable(t, s) =>
          SumFunction([n \in ComponentNames |-> Comparison(t, s).impacts[n]])
            = Comparison(t, s).delta
    BY <2>2, <2>3, ImpactsAdd DEF Comparable
  <2> QED
    BY <2>4, <2>5, <2>6 DEF s, t
<1> QED
  BY <1>1, SprintInvariance, PTL

-----------------------------------------------------------------------------
(* What a step does to a score.                                            *)

LEMMA ClampGrows ==
  ASSUME NEW a \in Int, NEW b \in Int, a <= b, NEW high \in Nat
  PROVE  Clamp(a, high) <= Clamp(b, high)
BY DEF Clamp

LEMMA PctGrows ==
  ASSUME NEW a \in Int, NEW b \in Int, a <= b, NEW whole \in Int, whole > 0
  PROVE  PctOf(a, whole) <= PctOf(b, whole)
<1> DEFINE x == Full * a
           y == Full * b
<1>1. x \in Int /\ y \in Int /\ x <= y /\ whole \in Nat
  BY FullIs
<1> HIDE DEF x, y
<1>2. x \div whole <= y \div whole
  BY <1>1, DivGrows
<1> QED
  BY <1>2 DEF PctOf, x, y

LEMMA PctShrinks ==
  ASSUME NEW a \in Nat, NEW w \in Int, NEW x \in Int, 0 < w, w <= x
  PROVE  PctOf(a, x) <= PctOf(a, w)
<1> DEFINE n == Full * a
<1>1. n \in Nat /\ w \in Nat /\ x \in Nat
  BY FullIs
<1> HIDE DEF n
<1>2. n \div x <= n \div w
  BY <1>1, DivShrinks
<1> QED
  BY <1>2 DEF PctOf, n

LEMMA AlignmentMoves ==
  ASSUME NEW p \in Nat, NEW q \in Nat, p <= q, NEW e \in 0 .. Full, NEW g \in 0 .. Full, g <= e
  PROVE  ProgressAlignment(p, e) <= ProgressAlignment(q, g)
<1>0. ProgressAlignment(p, e) \in 0 .. Full
  <2>1. CASE e <= 0
    BY <2>1, FullIs DEF ProgressAlignment
  <2>2. CASE e > 0
    <3>1. PctOf(p, e) \in Int
      BY <2>2, PctIs
    <3> QED
      BY <2>2, <3>1, ClampIs, FullIs DEF ProgressAlignment
  <2> QED
    BY <2>1, <2>2
<1>1. CASE g <= 0
  <2>1. ProgressAlignment(q, g) = Full
    BY <1>1 DEF ProgressAlignment
  <2> QED
    BY <1>0, <2>1, FullIs
<1>2. CASE g > 0
  <2>1. e \in Int /\ g \in Int /\ e > 0
    BY <1>2
  <2>2. PctOf(p, e) \in Int /\ PctOf(q, e) \in Int /\ PctOf(q, g) \in Int
    BY <1>2, <2>1, PctIs
  <2>3. PctOf(p, e) <= PctOf(q, e)
    BY <2>1, PctGrows
  <2>4. PctOf(q, e) <= PctOf(q, g)
    BY <1>2, <2>1, PctShrinks
  <2>5. PctOf(p, e) <= PctOf(q, g)
    BY <2>2, <2>3, <2>4
  <2>6. Clamp(PctOf(p, e), Full) <= Clamp(PctOf(q, g), Full)
    BY <2>2, <2>5, FullIs, ClampGrows
  <2> QED
    BY <1>2, <2>1, <2>6 DEF ProgressAlignment
<1> QED
  BY <1>1, <1>2

LEMMA CapacityShrinks ==
  ASSUME SprintTypes, Baselines # {}, NEW e \in 0 .. Full, NEW g \in 0 .. Full, g <= e
  PROVE  Capacity(e) <= Capacity(g)
<1> DEFINE v == Velocity
           x == v * (Full - e)
           y == v * (Full - g)
<1>1. v \in Nat
  BY VelocityIs
<1> HIDE DEF v
<1>2. x \in Int /\ y \in Int /\ x <= y
  BY <1>1, FullIs
<1> HIDE DEF x, y
<1>3. x \div Full <= y \div Full
  BY <1>2, FullIs, DivGrows
<1> QED
  BY <1>3 DEF Capacity, x, y, v

(* Less that remains, or more time for it, never fits worse.               *)
LEMMA FitMoves ==
  ASSUME SprintTypes, NEW r \in Nat, NEW q \in Nat, q <= r,
         NEW e \in 0 .. Full, NEW g \in 0 .. Full, g <= e
  PROVE  VelocityFit(r, e) <= VelocityFit(q, g)
<1>1. CASE Baselines = {}
  BY <1>1, FullIs DEF VelocityFit
<1>2. CASE Baselines # {} /\ q <= 0
  <2>1. VelocityFit(q, g) = Full
    BY <1>2 DEF VelocityFit
  <2>2. VelocityFit(r, e) \in 0 .. Full
    <3>1. CASE r <= 0
      BY <3>1, FullIs DEF VelocityFit
    <3>2. CASE r > 0
      <4>1. Hundredths(r) \in Int /\ Hundredths(r) > 0
        BY <3>2 DEF Hundredths
      <4>2. PctOf(Capacity(e), Hundredths(r)) \in Int
        BY <1>2, <4>1, CapacityIs, PctIs
      <4>3. VelocityFit(r, e) = Clamp(PctOf(Capacity(e), Hundredths(r)), Full)
        BY <1>2, <3>2 DEF VelocityFit
      <4> QED
        BY <4>2, <4>3, ClampIs, FullIs
    <3> QED
      BY <3>1, <3>2
  <2> QED
    BY <2>1, <2>2, FullIs
<1>3. CASE Baselines # {} /\ q > 0
  <2> DEFINE hr == Hundredths(r)
             hq == Hundredths(q)
             a == Capacity(e)
             b == Capacity(g)
  <2>1. hr \in Int /\ hq \in Int /\ 0 < hq /\ hq <= hr /\ 0 < hr
    BY <1>3 DEF Hundredths
  <2>2. a \in Nat /\ b \in Nat
    BY <1>3, CapacityIs
  <2>3. a <= b
    BY <1>3, CapacityShrinks
  <2>4. r > 0
    BY <1>3
  <2>5. /\ VelocityFit(r, e) = Clamp(PctOf(a, hr), Full)
        /\ VelocityFit(q, g) = Clamp(PctOf(b, hq), Full)
    BY <1>3, <2>4 DEF VelocityFit
  <2> HIDE DEF hr, hq, a, b
  <2>6. PctOf(a, hr) \in Int /\ PctOf(b, hr) \in Int /\ PctOf(b, hq) \in Int
    BY <2>1, <2>2, PctIs
  <2>7. PctOf(a, hr) <= PctOf(b, hr)
    BY <2>1, <2>2, <2>3, PctGrows
  <2>8. PctOf(b, hr) <= PctOf(b, hq)
    BY <2>1, <2>2, PctShrinks
  <2>9. PctOf(a, hr) <= PctOf(b, hq)
    BY <2>6, <2>7, <2>8
  <2>10. Clamp(PctOf(a, hr), Full) <= Clamp(PctOf(b, hq), Full)
    BY <2>6, <2>9, FullIs, ClampGrows
  <2> QED
    BY <2>5, <2>10
<1> QED
  BY <1>1, <1>2, <1>3

(* What a score is made of, as a fact about one state.                     *)
ScoreParts ==
  DeliveryConfidence.score # None =>
    /\ Scope # {} /\ DurationValid
    /\ Components.progress_alignment \in Int /\ Components.velocity_fit \in Int
    /\ Components.blocker_penalty \in Int /\ Components.scope_stability \in Int
    /\ DeliveryConfidence.score =
         4 * Components.progress_alignment + 3 * Components.velocity_fit
           + 2 * Components.blocker_penalty + Components.scope_stability

LEMMA ScorePartsAre ==
  SprintTypes => ScoreParts
<1>1. SUFFICES ASSUME SprintTypes, DeliveryConfidence.score # None
               PROVE  ScoreParts
  BY DEF ScoreParts
<1>2. /\ Scope # {} /\ Prerequisites /\ events.creep.status = "COMPUTED"
      /\ DeliveryConfidence.score = Score(Components)
  BY <1>1, DeliveryIs
<1>3. Scored
  BY <1>2 DEF Scored, Prerequisites
<1>4. /\ Components.progress_alignment \in Int /\ Components.velocity_fit \in Int
      /\ Components.blocker_penalty \in Int /\ Components.scope_stability \in Int
  BY <1>1, <1>3, ComponentsAre, FullIs
<1>5. Score(Components) =
         4 * Components.progress_alignment + 3 * Components.velocity_fit
           + 2 * Components.blocker_penalty + Components.scope_stability
  BY <1>4, ScoreIs
<1> QED
  BY <1>2, <1>3, <1>4, <1>5 DEF ScoreParts, Scored

LEMMA NextScoreParts ==
  SprintTypes' => ScoreParts'
BY ScorePartsAre, PTL

Measures ==
  /\ Committed \in Nat /\ Completed \in Nat /\ Completed <= Committed
  /\ Remaining = Committed - Completed /\ Remaining \in Nat
  /\ Progress \in Nat
  /\ DurationValid => Elapsed \in 0 .. Full

LEMMA MeasuresAre ==
  SprintTypes => Measures
BY CommitmentIs, ElapsedIn DEF Measures

LEMMA NextMeasures ==
  SprintTypes' => Measures'
BY MeasuresAre, PTL

(* A score does not sink when none of its components does.                 *)
LEMMA ScoreFollows ==
  ASSUME SprintTypes, SprintTypes',
         DeliveryConfidence.score # None, (DeliveryConfidence.score)' # None
  PROVE  /\ /\ Components.progress_alignment <= (Components.progress_alignment)'
            /\ Components.velocity_fit <= (Components.velocity_fit)'
            /\ Components.blocker_penalty <= (Components.blocker_penalty)'
            /\ Components.scope_stability <= (Components.scope_stability)'
            => (DeliveryConfidence.score)' >= DeliveryConfidence.score
         /\ /\ Components.progress_alignment >= (Components.progress_alignment)'
            /\ Components.velocity_fit >= (Components.velocity_fit)'
            /\ Components.blocker_penalty >= (Components.blocker_penalty)'
            /\ Components.scope_stability >= (Components.scope_stability)'
            => (DeliveryConfidence.score)' <= DeliveryConfidence.score
<1> DEFINE p == Components.progress_alignment
           v == Components.velocity_fit
           b == Components.blocker_penalty
           f == Components.scope_stability
           x == DeliveryConfidence.score
           q == (Components.progress_alignment)'
           w == (Components.velocity_fit)'
           a == (Components.blocker_penalty)'
           g == (Components.scope_stability)'
           y == (DeliveryConfidence.score)'
<1>1. p \in Int /\ v \in Int /\ b \in Int /\ f \in Int /\ x = 4 * p + 3 * v + 2 * b + f
  BY ScorePartsAre DEF ScoreParts
<1>2. q \in Int /\ w \in Int /\ a \in Int /\ g \in Int /\ y = 4 * q + 3 * w + 2 * a + g
  BY NextScoreParts DEF ScoreParts
<1> HIDE DEF p, v, b, f, x, q, w, a, g, y
<1>3. p <= q /\ v <= w /\ b <= a /\ f <= g => y >= x
  BY <1>1, <1>2
<1>4. p >= q /\ v >= w /\ b >= a /\ f >= g => y <= x
  BY <1>1, <1>2
<1> QED
  BY <1>3, <1>4 DEF p, v, b, f, x, q, w, a, g, y

LEMMA WaitingCosts ==
  ASSUME SprintTypes, SprintTypes', PassTime,
         DeliveryConfidence.score # None, (DeliveryConfidence.score)' # None
  PROVE  (DeliveryConfidence.score)' <= DeliveryConfidence.score
<1>1. UNCHANGED <<tickets, sprint, events, others>> /\ now' = now + 1
  BY DEF PassTime
<1>2. /\ Scope' = Scope /\ Progress' = Progress /\ Remaining' = Remaining
      /\ OpenBlockerCount' = OpenBlockerCount
      /\ DurationValid' = DurationValid
  BY <1>1 DEF Scope, Progress, Remaining, Completed, Committed, Pointed, PointsIn, OpenBlockerCount,
    DurationValid
<1>3. DurationValid
  BY ScorePartsAre DEF ScoreParts
<1>4. Elapsed \in 0 .. Full /\ Elapsed' \in 0 .. Full
  BY <1>2, <1>3, MeasuresAre, NextMeasures DEF Measures
<1>5. Elapsed <= Elapsed'
  <2> DEFINE a == now - sprint.start
             b == sprint.end - sprint.start
             c == now' - sprint.start
  <2>1. a \in Int /\ b \in Int /\ c \in Int /\ b > 0 /\ a <= c
    BY <1>1, <1>3 DEF SprintTypes, DurationValid
  <2>2. Elapsed = Clamp(PctOf(a, b), Full)
    BY DEF Elapsed
  <2>3. Elapsed' = Clamp(PctOf(c, b), Full)
    BY <1>1 DEF Elapsed
  <2> HIDE DEF a, b, c
  <2>4. PctOf(a, b) \in Int /\ PctOf(c, b) \in Int /\ PctOf(a, b) <= PctOf(c, b)
    BY <2>1, PctIs, PctGrows
  <2> QED
    BY <2>2, <2>3, <2>4, ClampGrows, FullIs
<1>6. (Components.progress_alignment)' <= Components.progress_alignment
  <2>1. Progress \in Nat
    BY MeasuresAre DEF Measures
  <2>2. ProgressAlignment(Progress, Elapsed') <= ProgressAlignment(Progress, Elapsed)
    BY <1>4, <1>5, <2>1, AlignmentMoves
  <2>3. /\ Components.progress_alignment = ProgressAlignment(Progress, Elapsed)
        /\ (Components.progress_alignment)' = ProgressAlignment(Progress', Elapsed')
    BY DEF Components
  <2> QED
    BY <1>2, <2>2, <2>3
<1>7. (Components.velocity_fit)' <= Components.velocity_fit
  <2>1. Remaining \in Nat
    BY MeasuresAre DEF Measures
  <2>2. VelocityFit(Remaining, Elapsed') <= VelocityFit(Remaining, Elapsed)
    BY <1>4, <1>5, <2>1, FitMoves
  <2>3. Components.velocity_fit = VelocityFit(Remaining, Elapsed)
    BY DEF Components
  <2>4. (Components.velocity_fit)' = VelocityFit(Remaining, Elapsed)'
    BY DEF Components
  <2>5. VelocityFit(Remaining, Elapsed)' = VelocityFit(Remaining', Elapsed')
    BY <1>1 DEF VelocityFit, Capacity, Velocity, Baselines
  <2> QED
    BY <1>2, <2>2, <2>3, <2>4, <2>5
<1>8. /\ (Components.blocker_penalty)' = Components.blocker_penalty
      /\ (Components.scope_stability)' = Components.scope_stability
  BY <1>1, <1>2 DEF Components
<1>9. /\ Components.blocker_penalty \in Int /\ Components.scope_stability \in Int
  BY ScorePartsAre DEF ScoreParts
<1>10. /\ Components.progress_alignment >= (Components.progress_alignment)'
       /\ Components.velocity_fit >= (Components.velocity_fit)'
  BY <1>6, <1>7, ScorePartsAre, NextScoreParts DEF ScoreParts
<1>11. /\ Components.blocker_penalty >= (Components.blocker_penalty)'
       /\ Components.scope_stability >= (Components.scope_stability)'
  <2> DEFINE b == Components.blocker_penalty
             f == Components.scope_stability
             a == (Components.blocker_penalty)'
             g == (Components.scope_stability)'
  <2>1. b \in Int /\ f \in Int /\ a = b /\ g = f
    BY <1>8, <1>9
  <2> HIDE DEF a, b, f, g
  <2>2. b >= a /\ f >= g
    BY <2>1
  <2> QED
    BY <2>2 DEF a, b, f, g
<1> QED
  BY <1>10, <1>11, ScoreFollows

LEMMA FinishingPays ==
  ASSUME SprintTypes, SprintTypes', NEW k \in Scope, Finish(k),
         DeliveryConfidence.score # None, (DeliveryConfidence.score)' # None
  PROVE  (DeliveryConfidence.score)' >= DeliveryConfidence.score
<1>1. UNCHANGED <<sprint, now, events, others>>
  BY DEF Finish
<1>2. /\ Scope' = Scope
      /\ \A j \in Scope : tickets'[j].points = tickets[j].points
      /\ \A j \in Scope : tickets'[j] = tickets[j] \/ tickets'[j].status \in Settings.done
  BY FinishIs DEF TicketFields
<1>3. Scope # {} /\ DurationValid /\ DurationValid'
  BY <1>1, ScorePartsAre DEF ScoreParts, DurationValid
<1>4. Elapsed' = Elapsed /\ Elapsed \in 0 .. Full
  BY <1>1, <1>3, MeasuresAre DEF Measures, Elapsed
<1>5. Pointed' = Pointed
  BY <1>2 DEF Pointed, ValidPoints
<1> DEFINE done == {j \in Pointed : IsDone(Settings, tickets[j])}
           then == {j \in Pointed : IsDone(Settings, tickets'[j])}
<1>6. done \subseteq then /\ then \in SUBSET Pointed
  BY <1>2 DEF IsDone, Pointed
<1>7. Committed' = Committed /\ Completed' = PointsIn(then)
  <2>1. ASSUME NEW S, S \subseteq Scope
        PROVE  [j \in S |-> tickets'[j].points] = [j \in S |-> tickets[j].points]
    BY <1>2, <2>1
  <2>2. Committed' = SumFunction([j \in Pointed |-> tickets'[j].points])
    BY <1>5 DEF Committed, PointsIn
  <2>3. Completed' = SumFunction([j \in then |-> tickets'[j].points])
    BY <1>5 DEF Completed, PointsIn
  <2>4. Pointed \subseteq Scope /\ then \subseteq Scope
    BY DEF Pointed
  <2> HIDE DEF then
  <2> QED
    BY <2>1, <2>2, <2>3, <2>4 DEF Committed, PointsIn
<1>8. Completed <= Completed'
  <2>1. Completed = PointsIn(done)
    BY DEF Completed
  <2> HIDE DEF done, then
  <2> QED
    BY <1>6, <1>7, <2>1, PointsOf
<1>9. /\ Committed \in Nat /\ Completed \in Nat /\ Completed' \in Nat
      /\ Remaining \in Nat /\ Remaining' \in Nat
      /\ Progress \in Nat /\ Progress' \in Nat
      /\ Remaining = Committed - Completed /\ Remaining' = Committed' - Completed'
  BY MeasuresAre, NextMeasures DEF Measures
<1>10. Remaining' <= Remaining
  BY <1>7, <1>8, <1>9
<1>11. Progress <= Progress'
  <2> DEFINE n == Committed
             a == Completed
             b == Completed'
  <2>1. /\ Progress = IF n = 0 THEN Full ELSE PctOf(a, n)
        /\ Progress' = IF n = 0 THEN Full ELSE PctOf(b, n)
    BY <1>7 DEF Progress
  <2>2. n \in Nat /\ a \in Nat /\ b \in Nat /\ a <= b
    BY <1>8, <1>9
  <2> HIDE DEF n, a, b
  <2>3. n # 0 => PctOf(a, n) <= PctOf(b, n)
    BY <2>2, PctGrows
  <2> QED
    BY <2>1, <2>3, FullIs
<1>12. Components.progress_alignment <= (Components.progress_alignment)'
  <2>1. ProgressAlignment(Progress, Elapsed) <= ProgressAlignment(Progress', Elapsed)
    BY <1>4, <1>9, <1>11, AlignmentMoves, FullIs
  <2>2. /\ Components.progress_alignment = ProgressAlignment(Progress, Elapsed)
        /\ (Components.progress_alignment)' = ProgressAlignment(Progress', Elapsed')
    BY DEF Components
  <2> QED
    BY <1>4, <2>1, <2>2
<1>13. Components.velocity_fit <= (Components.velocity_fit)'
  <2>1. VelocityFit(Remaining, Elapsed) <= VelocityFit(Remaining', Elapsed)
    BY <1>4, <1>9, <1>10, FitMoves, FullIs
  <2>2. Components.velocity_fit = VelocityFit(Remaining, Elapsed)
    BY DEF Components
  <2>3. (Components.velocity_fit)' = VelocityFit(Remaining, Elapsed)'
    BY DEF Components
  <2>4. VelocityFit(Remaining, Elapsed)' = VelocityFit(Remaining', Elapsed')
    BY <1>1 DEF VelocityFit, Capacity, Velocity, Baselines
  <2> QED
    BY <1>4, <2>1, <2>2, <2>3, <2>4
<1>14. Components.blocker_penalty <= (Components.blocker_penalty)'
  <2> DEFINE B == {j \in Scope : OpenBlocker(Settings, tickets[j])}
             C == {j \in Scope : OpenBlocker(Settings, tickets'[j])}
             n == Cardinality(Scope)
             b == Cardinality(B)
             c == Cardinality(C)
  <2>1. C \subseteq B
    BY <1>2 DEF OpenBlocker, ClassifyBlocker, IsDone
  <2>2. IsFiniteSet(B) /\ B \in SUBSET Scope
    BY FS_Subset DEF SprintTypes
  <2>3. b \in Nat /\ c \in Nat /\ c <= b
    <3> HIDE DEF B, C
    <3> QED
      BY <2>1, <2>2, FS_Subset, FS_CardinalityType
  <2>4. n \in Nat /\ n > 0
    BY <1>3, BlockerCountIs
  <2>5. /\ Components.blocker_penalty = Clamp(Full - PctOf(b, n), Full)
        /\ (Components.blocker_penalty)' = Clamp(Full - PctOf(c, n), Full)
    BY <1>2 DEF Components, OpenBlockerCount
  <2> HIDE DEF b, c, n
  <2>6. PctOf(b, n) \in Int /\ PctOf(c, n) \in Int /\ PctOf(c, n) <= PctOf(b, n)
    BY <2>3, <2>4, PctIs, PctGrows
  <2> DEFINE x == Full - PctOf(b, n)
             y == Full - PctOf(c, n)
  <2>7. x \in Int /\ y \in Int /\ x <= y
    BY <2>6, FullIs
  <2> HIDE DEF x, y
  <2>8. Clamp(x, Full) <= Clamp(y, Full)
    BY <2>7, FullIs, ClampGrows
  <2> QED
    BY <2>5, <2>8 DEF x, y
<1>15. Components.scope_stability <= (Components.scope_stability)'
  <2> DEFINE f == Components.scope_stability
             g == (Components.scope_stability)'
  <2>1. f \in Int
    BY ScorePartsAre DEF ScoreParts
  <2>2. g = f
    BY <1>1 DEF Components
  <2> HIDE DEF f, g
  <2>3. f <= g
    BY <2>1, <2>2
  <2> QED
    BY <2>3 DEF f, g
<1> QED
  BY <1>12, <1>13, <1>14, <1>15, ScoreFollows

(* Completing a ticket never lowers a score and waiting never raises it, for *)
(* any tickets, dates and baselines.                                       *)
THEOREM FinishingPaysOff ==
  SprintSpec => WorkPaysOff
<1>1. ASSUME SprintInv, SprintInv', [SprintNext]_sprintVars
      PROVE  [WorkPays]_sprintVars
  <2>1. SprintTypes /\ SprintTypes'
    BY <1>1 DEF SprintInv
  <2>2. (\E k \in Scope : Finish(k)) /\ DeliveryConfidence.score # None
          /\ (DeliveryConfidence.score)' # None
          => (DeliveryConfidence.score)' >= DeliveryConfidence.score
    BY <2>1, FinishingPays
  <2>3. PassTime /\ DeliveryConfidence.score # None /\ (DeliveryConfidence.score)' # None
          => (DeliveryConfidence.score)' <= DeliveryConfidence.score
    BY <2>1, WaitingCosts
  <2> QED
    BY <2>2, <2>3 DEF WorkPays
<1> QED
  BY <1>1, SprintInvariance, PTL DEF SprintSpec, WorkPaysOff

=============================================================================
