------------------------ MODULE ConfigFinder_proofs ------------------------
(***************************************************************************)
(* The plans of the configuration finder, for any GPUs, rates, demands and *)
(* interleaving of deletions; then the two tables it reads: the rates of   *)
(* the profile store and the nodes that are Ready.                         *)
(***************************************************************************)
EXTENDS ConfigFinder, QpsStore, NodeManager, Shelf_proofs

-----------------------------------------------------------------------------
(* What the two loops compute.                                             *)

(* best is the table of the best of the first sizes.                       *)
IsSearch(g, fit, sizes, n, best) ==
  best = [k \in 0..n |-> IF k = 0 THEN NoCandidate ELSE Try(best[k - 1], g, sizes[k], fit)]

(* It exists for any number of sizes.                                      *)
LEMMA SearchExists ==
  ASSUME NEW g, NEW fit, NEW sizes, NEW n \in Nat
  PROVE  \E best : IsSearch(g, fit, sizes, n, best)
<1> DEFINE B == {k \in Nat : ~ \E best : IsSearch(g, fit, sizes, k, best)}
<1>1. SUFFICES ASSUME B # {} PROVE FALSE
  OBVIOUS
<1>2. PICK m \in B : \A j \in B : m <= j
  BY <1>1, MinOfNaturals
<1>3. m # 0
  <2>1. IsSearch(g, fit, sizes, 0, [k \in 0..0 |-> NoCandidate])
    BY DEF IsSearch
  <2> QED
    BY <1>2, <2>1
<1>4. m - 1 \in Nat /\ m - 1 \notin B
  BY <1>2, <1>3
<1>5. PICK best : IsSearch(g, fit, sizes, m - 1, best)
  BY <1>4
<1> DEFINE next == [k \in 0..m |-> IF k = 0 THEN NoCandidate ELSE Try(best[k - 1], g, sizes[k], fit)]
<1>6. \A k \in 0..(m - 1) : best[k] = next[k]
  <2>1. \A k \in 0..(m - 1) : k \in 0..m
    BY <1>4
  <2> QED
    BY <1>5, <2>1, Zenon DEF IsSearch
<1>7. \A k \in 0..m : k # 0 => k - 1 \in 0..(m - 1)
  BY <1>4
<1>8. next = [k \in 0..m |-> IF k = 0 THEN NoCandidate ELSE Try(next[k - 1], g, sizes[k], fit)]
  BY <1>6, <1>7, Zenon
<1> QED
  BY <1>2, <1>8 DEF IsSearch

(* So BestOf is that table.                                                *)
LEMMA BestOfUnfolds ==
  ASSUME NEW g, NEW fit, Len(Sizes(g, req.type)) \in Nat
  PROVE  LET sizes == Sizes(g, req.type)
         IN  /\ BestOf(g, fit)[0] = NoCandidate
             /\ \A k \in 1..Len(sizes) : BestOf(g, fit)[k] = Try(BestOf(g, fit)[k - 1], g, sizes[k], fit)
<1> DEFINE sizes == Sizes(g, req.type)
           best  == BestOf(g, fit)
<1>1. best = CHOOSE b : IsSearch(g, fit, sizes, Len(sizes), b)
  BY DEF BestOf, IsSearch
<1>2. IsSearch(g, fit, sizes, Len(sizes), best)
  BY <1>1, SearchExists
<1> HIDE DEF best, sizes
<1>3. 0 \in 0..Len(sizes) /\ \A k \in 1..Len(sizes) : k \in 0..Len(sizes) /\ k # 0
  BY DEF sizes
<1>4. /\ best[0] = NoCandidate
      /\ \A k \in 1..Len(sizes) : best[k] = Try(best[k - 1], g, sizes[k], fit)
  BY <1>2, <1>3, Zenon DEF IsSearch
<1> QED
  BY <1>4 DEF best, sizes

(* The totals of a plan.                                                   *)
PlanTotal(p) == SumFunction([i \in DOMAIN p |-> Satisfiable(p[i])])

(* A configuration more adds what it provides.                             *)
LEMMA TotalOfAppend ==
  ASSUME NEW p \in Seq(Config), NEW c \in Config
  PROVE  /\ PlanTotal(p) \in Int /\ Satisfiable(c) \in Int
         /\ PlanTotal(Append(p, c)) = PlanTotal(p) + Satisfiable(c)
<1> DEFINE q == Append(p, c)
           f == [i \in DOMAIN p |-> Satisfiable(p[i])]
           h == [i \in DOMAIN q |-> Satisfiable(q[i])]
           n == Len(p)
<1>1. \A d \in Config : Satisfiable(d) \in Int
  BY DEF Satisfiable, Config
<1>2. DOMAIN p = 1..n /\ n \in Nat /\ IsFiniteSet(1..n)
  BY FS_Interval
<1>3. DOMAIN q = (1..n) \cup {n + 1} /\ n + 1 \notin 1..n
  BY <1>2
<1>4. \A i \in 1..n : f[i] = h[i] /\ f[i] \in Int /\ h[i] \in Int
  BY <1>1, <1>2
<1>5. h[n + 1] = Satisfiable(c) /\ h[n + 1] \in Int
  BY <1>1, <1>2, <1>3
<1>6. PlanTotal(p) = SumFunctionOnSet(f, 1..n)
  BY <1>2 DEF PlanTotal, SumFunction
<1>7. PlanTotal(q) = SumFunctionOnSet(h, (1..n) \cup {n + 1})
  BY <1>3 DEF PlanTotal, SumFunction
<1> HIDE DEF f, h, n, q
<1>8. SumFunctionOnSet(h, 1..n) = SumFunctionOnSet(f, 1..n)
  BY <1>2, <1>4, SumEqual
<1>9. SumFunctionOnSet(h, (1..n) \cup {n + 1}) = SumFunctionOnSet(h, 1..n) + h[n + 1]
  BY <1>2, <1>3, <1>4, <1>5, SumAdd
<1>10. SumFunctionOnSet(f, 1..n) \in Int
  BY <1>2, <1>4, SumType
<1> QED
  BY <1>1, <1>5, <1>6, <1>7, <1>8, <1>9, <1>10 DEF q

(* An empty plan provides nothing.                                         *)
LEMMA TotalOfNone == PlanTotal(<< >>) = 0
BY SumEmpty DEF PlanTotal, SumFunction

-----------------------------------------------------------------------------
(* The sizes of a replica and which of them getConfig finds.               *)

(* The remainder goes with the quotient.                                   *)
LEMMA ModIs ==
  ASSUME NEW a \in Int, NEW w \in Nat \ {0}
  PROVE  /\ a % w \in 0..(w - 1) /\ a \div w \in Int
         /\ a % w = a - w * (a \div w)
<1>1. a % w \in 0..(w - 1)
  OBVIOUS
<1>2. a % w = a - w * (a \div w)
  OBVIOUS
<1> QED
  BY <1>1, <1>2

(* A product is smaller because a factor is.                               *)
LEMMA FactorSmaller ==
  ASSUME NEW w \in Nat \ {0}, NEW a \in Int, NEW b \in Int, w * a < w * b
  PROVE  a < b
<1>1. SUFFICES ASSUME b <= a PROVE FALSE
  OBVIOUS
<1>2. PICK d \in Nat : a = b + d
  BY <1>1
<1>3. w * a = w * b + w * d /\ w * d >= 0
  BY <1>2
<1> QED
  BY <1>3

(* The sizes tried lie within the GPU and come in the order of their SMs,  *)
(* then of their quotas.                                                   *)
LEMMA SizesAre ==
  ASSUME NEW g \in Gpus, NEW type
  PROVE  LET sizes == Sizes(g, type)
         IN  /\ Len(sizes) \in Nat \ {0} /\ DOMAIN sizes = 1..Len(sizes)
             /\ \A i \in 1..Len(sizes) :
                  /\ sizes[i][1] \in 1..Gpu[g].sm /\ sizes[i][2] \in 1..FullWidth
                  /\ sizes[i] = <<sizes[i][1], sizes[i][2]>>
             /\ \A i, j \in 1..Len(sizes) :
                  i <= j => \/ sizes[i][1] < sizes[j][1]
                            \/ sizes[i][1] = sizes[j][1] /\ sizes[i][2] <= sizes[j][2]
<1> DEFINE sizes == Sizes(g, type)
           w     == FullWidth
           sm    == Gpu[g].sm
           N     == sm * w
<1>1. w \in Nat \ {0} /\ sm \in Nat \ {0}
  BY GpuAssumption, FullWidthAssumption
<1>2. CASE type = "exclusive"
  BY <1>1, <1>2 DEF Sizes
<1>3. CASE type # "exclusive"
  <2> DEFINE at(i) == <<((i - 1) \div w) + 1, ((i - 1) % w) + 1>>
  <2>1. sizes = [i \in 1..N |-> at(i)]
    BY <1>3 DEF Sizes
  <2> HIDE DEF sizes, w, sm
  <2>2. N \in Nat \ {0}
    BY <1>1
  <2>3. Len(sizes) = N /\ DOMAIN sizes = 1..N
    BY <2>1, <2>2
  <2>4. ASSUME NEW i \in 1..N
        PROVE  /\ ((i - 1) \div w) \in 0..(sm - 1)
               /\ ((i - 1) % w) \in 0..(w - 1)
    <3> DEFINE q == (i - 1) \div w
               r == (i - 1) % w
    <3>1. i - 1 \in Nat /\ i - 1 < N
      BY <2>2
    <3>2. q \in Nat /\ w * q <= i - 1
      BY <1>1, <3>1, DivPos, DivMod
    <3>3. r \in 0..(w - 1)
      BY <1>1, <3>1, ModIs
    <3> HIDE DEF q, r
    <3>4. w * q < w * sm
      BY <1>1, <3>1, <3>2
    <3>5. q < sm
      BY <1>1, <3>2, <3>4, FactorSmaller
    <3> QED
      BY <1>1, <3>2, <3>3, <3>5 DEF q, r
  <2>5. \A i \in 1..N : /\ sizes[i][1] = ((i - 1) \div w) + 1
                        /\ sizes[i][2] = ((i - 1) % w) + 1
                        /\ sizes[i] = <<sizes[i][1], sizes[i][2]>>
    BY <2>1
  <2>6. \A i \in 1..N : sizes[i][1] \in 1..sm /\ sizes[i][2] \in 1..w
    BY <1>1, <2>4, <2>5
  <2>7. ASSUME NEW i \in 1..N, NEW j \in 1..N, i <= j
        PROVE  \/ sizes[i][1] < sizes[j][1]
               \/ sizes[i][1] = sizes[j][1] /\ sizes[i][2] <= sizes[j][2]
    <3> DEFINE a == (i - 1) \div w
               b == (j - 1) \div w
               c == (i - 1) % w
               d == (j - 1) % w
    <3>1. i - 1 \in Int /\ j - 1 \in Int /\ i - 1 <= j - 1
      BY <2>2, <2>7
    <3>2. a <= b
      BY <1>1, <3>1, DivMono
    <3>3. /\ a \in Int /\ b \in Int /\ c \in Int /\ d \in Int
          /\ c = (i - 1) - w * a /\ d = (j - 1) - w * b
      <4>1. a \in Int /\ c \in 0..(w - 1) /\ c = (i - 1) - w * a
        BY <1>1, <3>1, ModIs
      <4>2. b \in Int /\ d \in 0..(w - 1) /\ d = (j - 1) - w * b
        BY <1>1, <3>1, ModIs
      <4> HIDE DEF a, b, c, d
      <4> QED
        BY <4>1, <4>2
    <3>4. sizes[i][1] = a + 1 /\ sizes[i][2] = c + 1 /\ sizes[j][1] = b + 1 /\ sizes[j][2] = d + 1
      BY <2>5
    <3> HIDE DEF a, b, c, d
    <3> DEFINE x == w * a
               y == w * b
    <3>5. x \in Int /\ y \in Int /\ c = (i - 1) - x /\ d = (j - 1) - y /\ (a = b => x = y)
      BY <1>1, <3>3
    <3> HIDE DEF x, y
    <3>6. a = b => c <= d
      BY <3>1, <3>3, <3>5
    <3> QED
      BY <3>2, <3>3, <3>4, <3>6
  <2> QED
    BY <2>2, <2>3, <2>5, <2>6, <2>7 DEF sizes, w, sm
<1> QED
  BY <1>2, <1>3

(* A size [sm, quota]: its rate and its area.                              *)
RateOf(g, size) == QpsAt(g, size[1], size[2])

Area(size) == size[1] * size[2]

(* More rate per area.                                                     *)
Beats(g, s, t) == RateOf(g, s) * Area(t) > RateOf(g, t) * Area(s)

SizesOf(g) == (1..Gpu[g].sm) \X (1..FullWidth)

(* Rates and areas are numbers.                                            *)
LEMMA RatesAre ==
  ASSUME NEW g \in Gpus, NEW s \in SizesOf(g)
  PROVE  RateOf(g, s) \in Nat /\ Area(s) \in Nat \ {0}
<1>1. s[1] \in 1..Gpu[g].sm /\ s[2] \in 1..FullWidth /\ Gpu[g].sm \in Nat /\ FullWidth \in Nat
  BY GpuAssumption, FullWidthAssumption DEF SizesOf
<1>2. RateOf(g, s) \in Nat
  BY <1>1, RateAssumption DEF RateOf, QpsAt
<1> DEFINE a == s[1]
           b == s[2]
<1>3. a \in Nat \ {0} /\ b \in Nat \ {0}
  BY <1>1
<1> HIDE DEF a, b
<1>4. a * b \in Nat \ {0}
  BY <1>3
<1> QED
  BY <1>2, <1>4 DEF Area, a, b

(* What MoreEfficient compares.                                            *)
LEMMA BeatsIs ==
  ASSUME NEW g \in Gpus, NEW s \in SizesOf(g), NEW t \in SizesOf(g)
  PROVE  MoreEfficient(Candidate(g, s), Candidate(g, t)) <=> Beats(g, s, t)
<1> DEFINE r == RateOf(g, s)
           u == RateOf(g, t)
           a == s[1]
           b == s[2]
           c == t[1]
           d == t[2]
<1>1. r \in Int /\ u \in Int
  BY RatesAre
<1>2. a \in Int /\ b \in Int /\ c \in Int /\ d \in Int
  BY GpuAssumption, FullWidthAssumption DEF SizesOf
<1>3. MoreEfficient(Candidate(g, s), Candidate(g, t)) <=> r * c * d > u * a * b
  BY DEF MoreEfficient, Candidate, RateOf
<1>4. Beats(g, s, t) <=> r * (c * d) > u * (a * b)
  BY DEF Beats, Area
<1> HIDE DEF r, u, a, b, c, d
<1>5. r * c * d = r * (c * d) /\ u * a * b = u * (a * b)
  BY <1>1, <1>2
<1> QED
  BY <1>3, <1>4, <1>5

(* What beats the best so far beats all that did not beat that one.        *)
LEMMA BeatsCarries ==
  ASSUME NEW g \in Gpus, NEW s \in SizesOf(g), NEW t \in SizesOf(g), NEW u \in SizesOf(g),
         Beats(g, s, t), ~Beats(g, u, t)
  PROVE  Beats(g, s, u)
<1> DEFINE r == RateOf(g, s)
           x == RateOf(g, t)
           y == RateOf(g, u)
           a == Area(s)
           b == Area(t)
           c == Area(u)
<1>1. /\ r \in Nat /\ x \in Nat /\ y \in Nat
      /\ a \in Nat \ {0} /\ b \in Nat \ {0} /\ c \in Nat \ {0}
  BY RatesAre
<1>2. x * a < r * b /\ y * b <= x * c
  BY <1>1 DEF Beats
<1> HIDE DEF r, x, y, a, b, c
<1>3. (y * b) * a <= (x * c) * a
  <2>1. PICK d \in Nat : x * c = y * b + d
    BY <1>1, <1>2
  <2>2. (x * c) * a = (y * b) * a + d * a /\ d * a >= 0
    BY <1>1, <2>1
  <2> QED
    BY <1>1, <2>2
<1>4. (x * a) * c < (r * b) * c
  <2>1. PICK d \in Nat \ {0} : r * b = x * a + d
    BY <1>1, <1>2
  <2>2. (r * b) * c = (x * a) * c + d * c /\ d * c > 0
    BY <1>1, <2>1
  <2> QED
    BY <1>1, <2>2
<1>5. b * (y * a) < b * (r * c)
  <2>1. b * (y * a) = (y * b) * a /\ b * (r * c) = (r * b) * c /\ (x * c) * a = (x * a) * c
    BY <1>1
  <2> QED
    BY <1>1, <1>3, <1>4, <2>1
<1>6. y * a < r * c
  BY <1>1, <1>5, FactorSmaller
<1> QED
  BY <1>6 DEF Beats, r, y, a, c

(* best is the first of the most efficient of the first n sizes that are   *)
(* possible, or there is none.                                             *)
IsBest(g, fit, sizes, n, best) ==
  \/ best = NoCandidate /\ \A i \in 1..n : sizes[i] \notin fit
  \/ \E k \in 1..n :
       /\ best = Candidate(g, sizes[k]) /\ sizes[k] \in fit
       /\ \A i \in 1..n : sizes[i] \in fit =>
            IF i < k THEN Beats(g, sizes[k], sizes[i]) ELSE ~Beats(g, sizes[i], sizes[k])

(* Only sizes with a rate are found to fit, so none gives NoCandidate.     *)
Rated(g, fit) == \A s \in fit : RateOf(g, s) > 0

LEMMA FittingIsCandidate ==
  ASSUME NEW g, NEW fit, Rated(g, fit), NEW s \in fit
  PROVE  Candidate(g, s) # NoCandidate
<1>1. Candidate(g, s).qps > 0 /\ NoCandidate.qps = 0
  BY DEF Candidate, NoCandidate, Rated, RateOf
<1> QED
  BY <1>1

(* A round keeps the best so far or takes the next size.                   *)
LEMMA TryKeepsBest ==
  ASSUME NEW g \in Gpus, NEW fit, Rated(g, fit), NEW n \in Nat, NEW sizes,
         \A i \in 1..(n + 1) : sizes[i] \in SizesOf(g),
         NEW best, IsBest(g, fit, sizes, n, best)
  PROVE  IsBest(g, fit, sizes, n + 1, Try(best, g, sizes[n + 1], fit))
<1> DEFINE s    == sizes[n + 1]
           next == Try(best, g, s, fit)
<1>1. /\ n + 1 \in 1..(n + 1) /\ 1..n \subseteq 1..(n + 1)
      /\ \A i \in 1..(n + 1) : i \in 1..n \/ i = n + 1
      /\ \A i \in 1..n : i < n + 1 /\ ~(n + 1 < i)
  OBVIOUS
<1>2. next = IF s \in fit /\ (best = NoCandidate \/ MoreEfficient(Candidate(g, s), best))
             THEN Candidate(g, s) ELSE best
  BY DEF Try
<1>3. ~(n + 1 < n + 1)
  OBVIOUS
<1>4. ~Beats(g, s, s)
  BY <1>1, RatesAre DEF Beats
<1> SUFFICES IsBest(g, fit, sizes, n + 1, next)
  OBVIOUS
<1> HIDE DEF next
<1>5. CASE s \notin fit
  <2>1. next = best
    BY <1>2, <1>5
  <2>2. CASE best = NoCandidate /\ \A i \in 1..n : sizes[i] \notin fit
    BY <1>1, <1>5, <2>1, <2>2 DEF IsBest
  <2>3. CASE ~(best = NoCandidate /\ \A i \in 1..n : sizes[i] \notin fit)
    <3>1. PICK k \in 1..n :
            /\ best = Candidate(g, sizes[k]) /\ sizes[k] \in fit
            /\ \A i \in 1..n : sizes[i] \in fit =>
                 IF i < k THEN Beats(g, sizes[k], sizes[i]) ELSE ~Beats(g, sizes[i], sizes[k])
      BY <2>3, Zenon DEF IsBest
    <3> HIDE DEF s
    <3>2. k \in 1..(n + 1)
      OBVIOUS
    <3>3. \A i \in 1..(n + 1) : sizes[i] \in fit => i \in 1..n
      BY <1>1, <1>5, Zenon DEF s
    <3> QED
      BY <2>1, <3>1, <3>2, <3>3, Zenon DEF IsBest
  <2> QED
    BY <2>2, <2>3
<1>6. CASE s \in fit /\ best = NoCandidate
  <2>1. next = Candidate(g, s)
    BY <1>2, <1>6
  <2>2. \A i \in 1..n : sizes[i] \notin fit
    BY <1>6, FittingIsCandidate, Zenon DEF IsBest
  <2>3. \A i \in 1..(n + 1) : sizes[i] \in fit => i = n + 1
    BY <1>1, <2>2, Zenon
  <2>4. \A i \in 1..(n + 1) : sizes[i] \in fit =>
          IF i < n + 1 THEN Beats(g, s, sizes[i]) ELSE ~Beats(g, sizes[i], s)
    BY <1>3, <1>4, <2>3
  <2> QED
    BY <1>1, <1>6, <2>1, <2>4, Zenon DEF IsBest
<1>7. CASE s \in fit /\ best # NoCandidate
  <2>1. PICK k \in 1..n :
          /\ best = Candidate(g, sizes[k]) /\ sizes[k] \in fit
          /\ \A i \in 1..n : sizes[i] \in fit =>
               IF i < k THEN Beats(g, sizes[k], sizes[i]) ELSE ~Beats(g, sizes[i], sizes[k])
    BY <1>7, Zenon DEF IsBest
  <2>2. k \in 1..(n + 1) /\ ~(n + 1 < k)
    BY <1>1
  <2>3. MoreEfficient(Candidate(g, s), best) <=> Beats(g, s, sizes[k])
    BY <1>1, <2>1, <2>2, BeatsIs
  <2>4. CASE Beats(g, s, sizes[k])
    <3>1. next = Candidate(g, s)
      BY <1>2, <1>7, <2>3, <2>4
    <3>2. ASSUME NEW i \in 1..n, sizes[i] \in fit
          PROVE  Beats(g, s, sizes[i])
      <4>1. CASE i < k
        <5>1. Beats(g, sizes[k], sizes[i])
          BY <2>1, <3>2, <4>1
        <5>2. ~Beats(g, sizes[i], sizes[k])
          BY <1>1, <2>2, <5>1, RatesAre DEF Beats
        <5> QED
          BY <1>1, <2>2, <2>4, <5>2, BeatsCarries
      <4>2. CASE ~(i < k)
        <5>1. ~Beats(g, sizes[i], sizes[k])
          BY <2>1, <3>2, <4>2
        <5> QED
          BY <1>1, <2>2, <2>4, <5>1, BeatsCarries
      <4> QED
        BY <4>1, <4>2
    <3>3. \A i \in 1..(n + 1) : sizes[i] \in fit =>
            IF i < n + 1 THEN Beats(g, s, sizes[i]) ELSE ~Beats(g, sizes[i], s)
      BY <1>1, <1>3, <1>4, <3>2
    <3> QED
      BY <1>1, <1>7, <3>1, <3>3, Zenon DEF IsBest
  <2>5. CASE ~Beats(g, s, sizes[k])
    <3>1. next = best
      BY <1>2, <1>7, <2>3, <2>5
    <3>2. \A i \in 1..(n + 1) : sizes[i] \in fit =>
            IF i < k THEN Beats(g, sizes[k], sizes[i]) ELSE ~Beats(g, sizes[i], sizes[k])
      BY <1>1, <2>1, <2>2, <2>5
    <3> QED
      BY <2>1, <2>2, <3>1, <3>2, Zenon DEF IsBest
  <2> QED
    BY <2>4, <2>5
<1> QED
  BY <1>5, <1>6, <1>7

(* getConfig's loops find the first of the most efficient sizes: a first   *)
(* round after which they had not would be one that TryKeepsBest excludes. *)
LEMMA BestOfIsBest ==
  ASSUME NEW g \in Gpus, NEW fit, Rated(g, fit)
  PROVE  LET sizes == Sizes(g, req.type)
         IN  IsBest(g, fit, sizes, Len(sizes), BestOf(g, fit)[Len(sizes)])
<1> DEFINE sizes == Sizes(g, req.type)
           best  == BestOf(g, fit)
           N     == Len(sizes)
           B     == {n \in 0..N : ~IsBest(g, fit, sizes, n, best[n])}
<1>1. /\ N \in Nat
      /\ \A i \in 1..N : /\ sizes[i][1] \in 1..Gpu[g].sm /\ sizes[i][2] \in 1..FullWidth
                        /\ sizes[i] = <<sizes[i][1], sizes[i][2]>>
  BY SizesAre
<1>2. best[0] = NoCandidate /\ \A k \in 1..N : best[k] = Try(best[k - 1], g, sizes[k], fit)
  BY <1>1, BestOfUnfolds
<1> HIDE DEF sizes, best, N
<1>3. \A i \in 1..N : sizes[i] \in SizesOf(g)
  BY <1>1 DEF SizesOf
<1> SUFFICES IsBest(g, fit, sizes, N, best[N])
  BY DEF sizes, best, N
<1>4. SUFFICES ASSUME B # {} PROVE FALSE
  <2>1. N \in 0..N
    BY <1>1
  <2> QED
    BY <2>1, Zenon
<1>5. PICK m \in B : \A j \in B : m <= j
  <2>1. B \in SUBSET Nat
    BY <1>1
  <2> HIDE DEF B
  <2> QED
    BY <1>4, <2>1, MinOfNaturals
<1>6. m # 0
  <2>1. IsBest(g, fit, sizes, 0, NoCandidate)
    BY DEF IsBest
  <2> QED
    BY <1>2, <1>5, <2>1
<1>7. m \in 1..N /\ m - 1 \in 0..N /\ m - 1 \in Nat /\ m - 1 \notin B
  BY <1>1, <1>5, <1>6
<1>8. IsBest(g, fit, sizes, m - 1, best[m - 1])
  BY <1>7
<1>9. \A i \in 1..((m - 1) + 1) : sizes[i] \in SizesOf(g)
  BY <1>1, <1>3, <1>7
<1>10. IsBest(g, fit, sizes, (m - 1) + 1, Try(best[m - 1], g, sizes[(m - 1) + 1], fit))
  BY <1>7, <1>8, <1>9, TryKeepsBest
<1>11. (m - 1) + 1 = m
  BY <1>7
<1> QED
  BY <1>2, <1>5, <1>7, <1>10, <1>11

-----------------------------------------------------------------------------
(* How many replicas a configuration asks for.                             *)

(* A rounded-up quotient.                                                  *)
LEMMA CeilIs ==
  ASSUME NEW a \in Nat \ {0}, NEW b \in Nat \ {0}
  PROVE  Ceil(a, b) \in Nat \ {0} /\ b * Ceil(a, b) < a + b
<1> DEFINE q == (a + b - 1) \div b
<1>1. a + b - 1 \in Nat /\ b <= a + b - 1
  OBVIOUS
<1>2. q \in Nat /\ q > 0 /\ b * q <= a + b - 1
  BY <1>1, DivPos, DivMod
<1> HIDE DEF q
<1>3. b * q < a + b
  <2>1. b * q \in Int
    BY <1>2
  <2> QED
    BY <1>2, <2>1
<1> QED
  BY <1>2, <1>3 DEF Ceil, q

(* Without its last replica a configuration would not cover what remains,  *)
(* whatever the queries about the room answer.                             *)
LEMMA ConfigFits ==
  ASSUME NEW g \in Gpus, NEW s \in SizesOf(g), RateOf(g, s) > 0, remaining \in Nat \ {0},
         IsPacker(usage[g]), \A p \in window : IsPacker(p), usageMemory \in [Gpus -> Int],
         NEW n \in Replicas(g, Candidate(g, s))
  PROVE  LET c == NewConfig(Candidate(g, s), n)
         IN  c \in Config /\ c.gpu = g /\ remaining - Satisfiable(c) + c.qps > 0
<1> DEFINE c    == NewConfig(Candidate(g, s), n)
           mem  == AvailableMemory(g) \div MemoryReq
           qps  == RateOf(g, s)
<1>1. /\ s[1] \in 1..Gpu[g].sm /\ s[2] \in 1..FullWidth
      /\ Gpu[g].sm \in Nat /\ FullWidth \in Nat /\ MemoryReq \in Nat \ {0}
  BY GpuAssumption, FullWidthAssumption, RequestAssumption DEF SizesOf
<1>2. qps \in Nat \ {0}
  BY RatesAre
<1>3. mem \in Int
  <2>1. AvailableMemory(g) \in Int
    BY GpuAssumption DEF AvailableMemory
  <2> QED
    BY <1>1, <2>1
<1>4. c = [gpu |-> g, sm |-> s[1], quota |-> s[2], qps |-> qps, replicas |-> n]
  BY DEF Candidate, NewConfig, RateOf
<1>5. /\ Candidate(g, s).qps = qps /\ Candidate(g, s).sm = s[1] /\ Candidate(g, s).quota = s[2]
  BY DEF Candidate, RateOf
<1>6. PICK fits \in MaxInsertableItems(usage[g], window, s[2], s[1]) :
        LET room == Min({fits, mem})
        IN  n = IF qps * room > remaining THEN Ceil(remaining, qps) ELSE room
  BY <1>5 DEF Replicas, Room
<1>7. fits \in Int
  BY <1>1, AnswersAreInts
<1> DEFINE room == Min({fits, mem})
<1> HIDE DEF c, mem, qps
<1>8. room \in Int
  <2>1. \E x \in {fits, mem} : \A y \in {fits, mem} : x <= y
    <3>1. CASE fits <= mem
      BY <1>3, <1>7, <3>1
    <3>2. CASE mem <= fits
      BY <1>3, <1>7, <3>2
    <3> QED
      BY <1>3, <1>7, <3>1, <3>2
  <2> QED
    BY <1>3, <1>7, <2>1 DEF Min
<1>9. n = IF qps * room > remaining THEN Ceil(remaining, qps) ELSE room
  BY <1>6
<1> HIDE DEF room
<1>10. n \in Int /\ remaining - qps * n + qps > 0
  <2>1. CASE qps * room > remaining
    <3>1. n \in Nat \ {0} /\ qps * n < remaining + qps
      BY <1>2, <1>9, <2>1, CeilIs
    <3>2. qps * n \in Int
      BY <1>2, <3>1
    <3> QED
      BY <1>2, <3>1, <3>2
  <2>2. CASE ~(qps * room > remaining)
    <3>1. n = room
      BY <1>9, <2>2
    <3>2. qps * n \in Int
      BY <1>2, <1>8, <3>1
    <3> QED
      BY <1>2, <1>8, <2>2, <3>1, <3>2
  <2> QED
    BY <2>1, <2>2
<1>11. Satisfiable(c) = qps * n /\ c.qps = qps /\ c.gpu = g
  BY <1>4 DEF Satisfiable
<1>12. c \in Config
  BY <1>1, <1>2, <1>4, <1>10 DEF Config
<1> QED
  BY <1>10, <1>11, <1>12 DEF c

-----------------------------------------------------------------------------
(* The inductive invariant.                                                *)

(* The packers stay those of their GPUs, with exact totals.                *)
Packers == \A g \in Gpus : TotalsExact(usage[g]) /\ usage[g].maxHeight = Gpu[g].sm

(* The loop of GetConfigs: what it still has to cover, and with which GPUs.*)
Asking ==
  /\ req = NoRequest => plan = << >> /\ todo = << >> /\ committed = 0
  /\ todo # << >> => req # NoRequest /\ remaining > 0 /\ committed = 0
  /\ Range(todo) \subseteq offered
  /\ remaining = req.qps - Total
  /\ remaining <= 0 \/ offered \subseteq Chosen \cup useless \cup Range(todo)
  /\ plan # << >> => remaining + plan[Len(plan)].qps > 0

(* No GPU left alone is better than one chosen, none is asked before a     *)
(* better one.                                                             *)
Ordered ==
  committed = 0 =>
    /\ \A g \in Chosen, h \in offered \ (Chosen \cup useless) : ~Better(h, g)
    /\ \A i, j \in DOMAIN todo : i < j => ~Better(todo[j], todo[i])

IInv == TypeOK /\ Packers /\ Asking /\ Ordered

(* Finitely many GPUs in the order sortGPUInfos gives them: none before a   *)
(* better one.                                                              *)
LEMMA SortedIs ==
  ASSUME NEW S \in SUBSET Gpus, NEW type, NEW s \in Sorted(S, type)
  PROVE  /\ s \in Seq(Gpus) /\ Range(s) = S
         /\ \A i, j \in DOMAIN s : i < j => ~Before(s[j], s[i], type)
<1> DEFINE n == Cardinality(S)
<1>1. n \in Nat
  <2>1. IsFiniteSet(S)
    BY GpusAssumption, FS_Subset
  <2> QED
    BY <2>1, FS_CardinalityType
<1> HIDE DEF n
<1>2. PICK k \in 0..MaxRepeats : s \in [1..(n + k) -> S]
  BY DEF Sorted, n
<1>3. n + k \in Nat
  BY <1>1, RequestAssumption
<1>4. s \in Seq(Gpus)
  BY <1>2, <1>3
<1> QED
  BY <1>4 DEF Sorted

(* What is asked first is left out of the rest, unless it comes again.     *)
LEMMA TailIs ==
  ASSUME NEW s \in Seq(Gpus), s # << >>
  PROVE  /\ Head(s) \in Gpus /\ 1 \in DOMAIN s /\ s[1] = Head(s)
         /\ Tail(s) \in Seq(Gpus)
         /\ Range(s) = Range(Tail(s)) \cup {Head(s)}
         /\ \A i \in DOMAIN Tail(s) : i + 1 \in DOMAIN s /\ Tail(s)[i] = s[i + 1]
<1> DEFINE n == Len(s)
           t == Tail(s)
<1>1. n \in Nat \ {0} /\ DOMAIN s = 1..n /\ \A i \in 1..n : s[i] \in Gpus
  OBVIOUS
<1>2. t \in Seq(Gpus) /\ DOMAIN t = 1..(n - 1) /\ \A i \in 1..(n - 1) : t[i] = s[i + 1]
  BY <1>1
<1>3. Head(s) = s[1]
  BY <1>1
<1> HIDE DEF n, t
<1>4. /\ \A i \in 1..(n - 1) : i + 1 \in 1..n
      /\ \A i \in 1..n : i # 1 => i - 1 \in 1..(n - 1) /\ (i - 1) + 1 = i
      /\ 1 \in 1..n
  BY <1>1
<1>5. Range(s) = Range(t) \cup {s[1]}
  <2>1. Range(t) = {t[i] : i \in 1..(n - 1)} /\ Range(s) = {s[i] : i \in 1..n}
    BY <1>1, <1>2 DEF Range
  <2>2. ASSUME NEW x \in Range(t) PROVE x \in Range(s)
    BY <1>2, <1>4, <2>1
  <2>3. ASSUME NEW x \in Range(s), x # s[1] PROVE x \in Range(t)
    BY <1>2, <1>4, <2>1, <2>3
  <2>4. s[1] \in Range(s)
    BY <1>4, <2>1
  <2> QED
    BY <2>2, <2>3, <2>4
<1> QED
  BY <1>1, <1>2, <1>3, <1>4, <1>5 DEF t

(* A step that touches neither the request nor the plan has only the       *)
(* packers to keep.                                                        *)
LEMMA AfterOthers ==
  ASSUME IInv, TypeOK', Packers',
         UNCHANGED <<allocType, req, offered, todo, remaining, plan, committed, useless>>
  PROVE  IInv'
<1>1. Chosen' = Chosen /\ Total' = Total
  BY DEF Chosen, Total
<1>2. Asking'
  BY <1>1 DEF IInv, Asking, NoRequest
<1>3. \A a, b : Better(a, b)' <=> Better(a, b)
  BY DEF Better, Matches, Value, QpsAt
<1>4. Ordered'
  BY <1>1, <1>3 DEF IInv, Ordered
<1> QED
  BY <1>2, <1>4 DEF IInv

(* The ready GPUs are ordered and asked for the whole demand.              *)
LEMMA AfterGetConfigs ==
  ASSUME IInv, NEW qps \in Demands, NEW type \in AllocationTypes, NEW ready \in SUBSET Gpus,
         NEW preferred, GetConfigs(qps, type, ready, preferred)
  PROVE  IInv'
<1> DEFINE S == {g \in Extract(ready) : preferred \in {AnyType, Gpu[g].type}}
<1>1. /\ req = NoRequest /\ asked < MaxRequests
      /\ req' = [qps |-> qps, type |-> type] /\ offered' = S /\ todo' \in Sorted(S, type)
      /\ remaining' = qps /\ asked' = asked + 1 /\ useless' = {}
      /\ UNCHANGED <<usage, usageMemory, allocType, window, plan, committed>>
  BY DEF GetConfigs
<1>2. S \in SUBSET Gpus
  BY DEF Extract
<1> HIDE DEF S
<1>3. plan = << >> /\ committed = 0 /\ qps \in Nat /\ qps > 0
  BY <1>1, RequestAssumption DEF IInv, Asking
<1>4. /\ todo' \in Seq(Gpus) /\ Range(todo') = S
      /\ \A i, j \in DOMAIN todo' : i < j => ~Before(todo'[j], todo'[i], type)
  BY <1>1, <1>2, SortedIs
<1>5. TypeOK'
  <2>1. req' \in [qps : Demands \cup {0}, type : AllocationTypes \cup {"none"}]
    BY <1>1
  <2>2. asked' \in 0..MaxRequests
    BY <1>1, RequestAssumption DEF IInv, TypeOK
  <2> QED
    BY <1>1, <1>2, <1>3, <1>4, <2>1, <2>2 DEF IInv, TypeOK
<1>6. Chosen' = {}
  BY <1>1, <1>3 DEF Chosen
<1>7. Packers'
  BY <1>1 DEF IInv, Packers
<1>8. Asking'
  <2>1. Total' = 0
    BY <1>1, <1>3, TotalOfNone DEF Total, PlanTotal
  <2>2. req' # NoRequest /\ req'.qps = qps
    BY <1>1, <1>3 DEF NoRequest
  <2>3. /\ remaining' = req'.qps - Total' /\ remaining' > 0
    BY <1>1, <1>3, <2>1, <2>2
  <2> QED
    BY <1>1, <1>3, <1>4, <1>6, <2>2, <2>3 DEF Asking
<1>9. Ordered'
  <2>1. ASSUME NEW g, NEW h, Better(h, g)' PROVE Before(h, g, type)
    BY <1>1, <2>1 DEF Better, Before, Matches, Value, QpsAt
  <2> QED
    BY <1>4, <1>6, <2>1 DEF Ordered
<1> QED
  BY <1>5, <1>7, <1>8, <1>9 DEF IInv

(* What getConfig answers for the next GPU: nothing if no size is found to *)
(* fit there, else the first of the most efficient of those that are.      *)
LEMMA AskFinds ==
  ASSUME IInv, NEW g \in Gpus, NEW fit \in SUBSET Fitting(g, req.type),
         SurelyFitting(g, req.type) \subseteq fit
  PROVE  LET sizes == Sizes(g, req.type)
         IN  \/ BestConfig(g, fit) = NoCandidate /\ SurelyFitting(g, req.type) = {}
             \/ \E k \in 1..Len(sizes) :
                  /\ BestConfig(g, fit) = Candidate(g, sizes[k]) /\ sizes[k] \in fit
                  /\ sizes[k] \in SizesOf(g) /\ RateOf(g, sizes[k]) > 0
                  /\ BestConfig(g, fit) # NoCandidate
                  /\ \A i \in 1..Len(sizes) : sizes[i] \in fit =>
                       IF i < k THEN Beats(g, sizes[k], sizes[i]) ELSE ~Beats(g, sizes[i], sizes[k])
<1> DEFINE sizes == Sizes(g, req.type)
           N     == Len(sizes)
           best  == BestConfig(g, fit)
<1>1. /\ DOMAIN sizes = 1..N
      /\ \A i \in 1..N : sizes[i][1] \in 1..Gpu[g].sm /\ sizes[i][2] \in 1..FullWidth
                      /\ sizes[i] = <<sizes[i][1], sizes[i][2]>>
  BY SizesAre
<1>2. Rated(g, fit) /\ fit \subseteq Range(sizes) /\ SurelyFitting(g, req.type) \subseteq fit
  BY DEF Rated, Fitting, Measured, RateOf
<1>3. IsBest(g, fit, sizes, N, best)
  BY <1>2, BestOfIsBest DEF BestConfig
<1>4. \A i \in 1..N : sizes[i] \in fit => Candidate(g, sizes[i]) # NoCandidate
  BY <1>2, FittingIsCandidate
<1> HIDE DEF sizes, N, best
<1>5. ASSUME NEW i \in 1..N PROVE sizes[i] \in SizesOf(g)
  <2> DEFINE s == sizes[i]
  <2>1. s[1] \in 1..Gpu[g].sm /\ s[2] \in 1..FullWidth /\ s = <<s[1], s[2]>>
    BY <1>1
  <2> QED
    BY <2>1 DEF SizesOf
<1>6. CASE best = NoCandidate /\ \A i \in 1..N : sizes[i] \notin fit
  <2>1. SurelyFitting(g, req.type) = {}
    BY <1>1, <1>2, <1>6 DEF Range
  <2> QED
    BY <1>6, <2>1 DEF best
<1>7. CASE \E k \in 1..N :
            /\ best = Candidate(g, sizes[k]) /\ sizes[k] \in fit
            /\ \A i \in 1..N : sizes[i] \in fit =>
                 IF i < k THEN Beats(g, sizes[k], sizes[i]) ELSE ~Beats(g, sizes[i], sizes[k])
  <2>1. \A k \in 1..N : sizes[k] \in fit => RateOf(g, sizes[k]) > 0
    BY <1>2 DEF Rated
  <2>2. \E k \in 1..N :
          /\ best = Candidate(g, sizes[k]) /\ sizes[k] \in fit
          /\ sizes[k] \in SizesOf(g) /\ RateOf(g, sizes[k]) > 0
          /\ best # NoCandidate
          /\ \A i \in 1..N : sizes[i] \in fit =>
               IF i < k THEN Beats(g, sizes[k], sizes[i]) ELSE ~Beats(g, sizes[i], sizes[k])
    BY <1>4, <1>5, <1>7, <2>1, Zenon
  <2> QED
    BY <2>2, Zenon DEF sizes, N, best
<1> QED
  BY <1>3, <1>6, <1>7, Zenon DEF IsBest

(* The packer of the next GPU comes into view.                             *)
LEMMA AfterBeginAsk ==
  ASSUME IInv, BeginAsk
  PROVE  IInv'
<1>1. /\ todo # << >> /\ window' = {usage[Head(todo)]}
      /\ UNCHANGED <<usage, usageMemory, allocType, req, offered, todo, remaining, plan, committed,
                     asked, useless>>
  BY DEF BeginAsk
<1>2. Head(todo) \in Gpus
  BY <1>1, TailIs DEF IInv, TypeOK
<1>3. \A p \in window' : IsPacker(p)
  BY <1>1, <1>2 DEF IInv, TypeOK, Sound
<1>4. TypeOK'
  BY <1>1, <1>3 DEF IInv, TypeOK
<1>5. Packers'
  BY <1>1 DEF IInv, Packers
<1> QED
  BY <1>1, <1>4, <1>5, AfterOthers

(* The next GPU serves the request or joins those that cannot; the better  *)
(* ones have all been asked before it.                                     *)
LEMMA AfterAskGpu ==
  ASSUME IInv, AskGpu
  PROVE  IInv'
<1> DEFINE g    == Head(todo)
           left == remaining'
           None == SurelyFitting(g, req.type) = {}
<1>1. /\ todo # << >> /\ window' = {}
      /\ useless' = IF None THEN useless \cup {g} ELSE useless
      /\ UNCHANGED <<usage, usageMemory, allocType, req, offered, committed, asked>>
  BY DEF AskGpu
<1>2. /\ req # NoRequest /\ remaining > 0 /\ committed = 0 /\ remaining \in Int
      /\ Range(todo) \subseteq offered
      /\ offered \subseteq Chosen \cup useless \cup Range(todo)
      /\ remaining = req.qps - Total
  BY <1>1 DEF IInv, Asking, TypeOK
<1>3. /\ g \in Gpus /\ Tail(todo) \in Seq(Gpus)
      /\ Range(todo) = Range(Tail(todo)) \cup {g} /\ 1 \in DOMAIN todo /\ todo[1] = g
      /\ \A i \in DOMAIN Tail(todo) : i + 1 \in DOMAIN todo /\ Tail(todo)[i] = todo[i + 1]
  BY <1>1, TailIs DEF IInv, TypeOK
<1>4. plan \in Seq(Config) /\ Total \in Int /\ Total = PlanTotal(plan)
  <2>1. plan \in Seq(Config)
    BY DEF IInv, TypeOK
  <2>2. PICK c : c = [gpu |-> g, sm |-> 1, quota |-> 1, qps |-> 1, replicas |-> 1]
    OBVIOUS
  <2>3. c \in Config
    BY <1>3, <2>2, FullWidthAssumption DEF Config
  <2> QED
    BY <2>1, <2>3, TotalOfAppend DEF Total, PlanTotal
<1>5. PICK fit \in SUBSET Fitting(g, req.type) :
        LET best == BestConfig(g, fit)
        IN  /\ SurelyFitting(g, req.type) \subseteq fit
            /\ \/ best = NoCandidate /\ UNCHANGED <<plan, remaining>>
               \/ /\ best # NoCandidate
                  /\ \E n \in Replicas(g, best) :
                       /\ plan' = Append(plan, NewConfig(best, n))
                       /\ remaining' = remaining - Satisfiable(NewConfig(best, n))
            /\ todo' = StillToAsk(best, remaining')
  BY Zenon DEF AskGpu
<1> DEFINE best == BestConfig(g, fit)
<1>6. todo' = IF left <= 0 THEN << >> ELSE Tail(todo)
  BY <1>5 DEF StillToAsk
<1>7. \/ plan' = plan /\ left = remaining /\ None
      \/ \E c \in Config : /\ plan' = Append(plan, c) /\ c.gpu = g
                           /\ left = remaining - Satisfiable(c) /\ left + c.qps > 0
  <2> DEFINE sizes == Sizes(g, req.type)
  <2>1. CASE best = NoCandidate
    <3>1. None
      <4> HIDE DEF g
      <4> QED
        BY <1>3, <1>5, <2>1, AskFinds
    <3> QED
      BY <1>5, <2>1, <3>1
  <2>2. CASE best # NoCandidate
    <3>1. PICK k \in 1..Len(sizes) :
            best = Candidate(g, sizes[k]) /\ sizes[k] \in SizesOf(g) /\ RateOf(g, sizes[k]) > 0
      <4> HIDE DEF g
      <4> QED
        BY <1>3, <1>5, <2>2, AskFinds
    <3>2. PICK n \in Replicas(g, best) :
            /\ plan' = Append(plan, NewConfig(best, n))
            /\ left = remaining - Satisfiable(NewConfig(best, n))
      BY <1>5, <2>2
    <3>3. /\ IsPacker(usage[g]) /\ \A p \in window : IsPacker(p)
          /\ usageMemory \in [Gpus -> Int] /\ remaining \in Nat \ {0}
      BY <1>2, <1>3 DEF IInv, TypeOK, Sound
    <3> DEFINE c == NewConfig(best, n)
               s == sizes[k]
    <3> HIDE DEF g, best, sizes
    <3>4. n \in Replicas(g, Candidate(g, s)) /\ c = NewConfig(Candidate(g, s), n)
          /\ s \in SizesOf(g) /\ RateOf(g, s) > 0
      BY <3>1, <3>2
    <3> HIDE DEF c, s
    <3>5. c \in Config /\ c.gpu = g /\ remaining - Satisfiable(c) + c.qps > 0
      BY <1>3, <3>3, <3>4, ConfigFits
    <3>6. plan' = Append(plan, c) /\ left = remaining - Satisfiable(c)
      BY <3>2 DEF c
    <3> QED
      BY <3>5, <3>6
  <2> QED
    BY <2>1, <2>2
<1> HIDE DEF g, best, left, None
<1>8. /\ plan' \in Seq(Config) /\ Len(plan') \in Nat
      /\ \/ plan' = plan /\ None /\ Chosen' = Chosen
         \/ Chosen' = Chosen \cup {g}
      /\ left = req.qps - Total' /\ left \in Int
      /\ plan' # << >> => left + plan'[Len(plan')].qps > 0
  <2>1. CASE plan' = plan /\ left = remaining /\ None
    <3>1. Chosen' = Chosen /\ Total' = Total
      BY <2>1 DEF Chosen, Total
    <3> QED
      BY <1>2, <1>4, <2>1, <3>1 DEF IInv, Asking
  <2>2. ASSUME NEW c \in Config, plan' = Append(plan, c), c.gpu = g,
               left = remaining - Satisfiable(c), left + c.qps > 0
        PROVE  /\ plan' \in Seq(Config) /\ Len(plan') \in Nat
               /\ \/ plan' = plan /\ None /\ Chosen' = Chosen
                  \/ Chosen' = Chosen \cup {g}
               /\ left = req.qps - Total' /\ left \in Int
               /\ plan' # << >> => left + plan'[Len(plan')].qps > 0
    <3> DEFINE n == Len(plan)
    <3>1. /\ n \in Nat /\ DOMAIN plan = 1..n /\ DOMAIN plan' = 1..(n + 1) /\ Len(plan') = n + 1
          /\ plan'[n + 1] = c /\ \A i \in 1..n : plan'[i] = plan[i]
          /\ plan' \in Seq(Config)
      BY <1>4, <2>2
    <3> HIDE DEF n
    <3>2. \A i \in 1..(n + 1) : i \in 1..n \/ i = n + 1
      BY <3>1
    <3>3. n + 1 \in 1..(n + 1) /\ 1..n \subseteq 1..(n + 1)
      BY <3>1
    <3>4. Chosen = {plan[i].gpu : i \in 1..n} /\ Chosen' = {plan'[i].gpu : i \in 1..(n + 1)}
      BY <3>1 DEF Chosen
    <3>5. Chosen' = Chosen \cup {g}
      BY <2>2, <3>1, <3>2, <3>3, <3>4
    <3>6. Total' = Total + Satisfiable(c) /\ Satisfiable(c) \in Int
      <4>1. Total' = PlanTotal(plan')
        BY DEF Total, PlanTotal
      <4> QED
        BY <1>4, <2>2, <4>1, TotalOfAppend
    <3>7. req.qps \in Int
      <4>1. req \in [qps : Demands \cup {0}, type : AllocationTypes \cup {"none"}]
        BY DEF IInv, TypeOK
      <4>2. req.qps \in Demands \cup {0}
        BY <4>1
      <4>3. \A d \in Demands : d \in Int
        BY RequestAssumption
      <4> QED
        BY <4>2, <4>3
    <3> DEFINE more == Satisfiable(c)
    <3>8. left = req.qps - Total' /\ left \in Int
      <4>1. left = remaining - more /\ remaining = req.qps - Total /\ Total' = Total + more
        BY <1>2, <2>2, <3>6
      <4>2. more \in Int /\ Total \in Int /\ req.qps \in Int
        BY <1>4, <3>6, <3>7
      <4> HIDE DEF more
      <4> QED
        BY <4>1, <4>2
    <3> QED
      BY <2>2, <3>1, <3>5, <3>8
  <2> QED
    BY <1>7, <2>1, <2>2
<1>9. /\ Chosen \subseteq Chosen' /\ Chosen' \subseteq Chosen \cup {g}
      /\ useless \subseteq useless' /\ useless' \subseteq useless \cup {g}
      /\ g \in Chosen' \cup useless'
  BY <1>1, <1>8
<1>10. TypeOK'
  <2>1. committed' \in 0..Len(plan')
    BY <1>1, <1>2, <1>8
  <2>2. todo' \in Seq(Gpus)
    BY <1>3, <1>6
  <2>3. useless' \subseteq Gpus
    BY <1>3, <1>9 DEF IInv, TypeOK
  <2> QED
    BY <1>1, <1>8, <2>1, <2>2, <2>3 DEF IInv, TypeOK, left
<1>11. Packers'
  BY <1>1 DEF IInv, Packers
<1>12. Range(todo') \subseteq Range(todo)
  <2>1. Range(<< >>) = {}
    BY DEF Range
  <2> QED
    BY <1>3, <1>6, <2>1
<1>13. Asking'
  <2>1. req' # NoRequest
    BY <1>1, <1>2 DEF NoRequest
  <2>2. todo' # << >> => left > 0
    BY <1>6, <1>8
  <2>3. Range(todo') \subseteq offered'
    BY <1>1, <1>2, <1>12
  <2>4. left <= 0 \/ offered \subseteq Chosen' \cup useless' \cup Range(todo')
    BY <1>2, <1>3, <1>6, <1>9
  <2> QED
    BY <1>1, <1>2, <1>8, <2>1, <2>2, <2>3, <2>4 DEF Asking, left
<1>14. Ordered'
  <2>1. \A a, b : Better(a, b)' <=> Better(a, b)
    BY <1>1 DEF Better, Matches, Value, QpsAt
  <2>2. \A i, j \in DOMAIN todo : i < j => ~Better(todo[j], todo[i])
    BY <1>2 DEF IInv, Ordered
  <2>3. ASSUME NEW c \in Chosen', NEW h \in offered \ (Chosen' \cup useless')
        PROVE  ~Better(h, c)
    <3>1. CASE c \in Chosen
      BY <1>2, <1>9, <3>1 DEF IInv, Ordered
    <3>2. CASE c = g
      <4>1. h \in Range(todo) /\ h # g
        BY <1>2, <1>9
      <4>2. PICK j \in DOMAIN todo : h = todo[j]
        BY <4>1 DEF Range
      <4>3. j \in Nat /\ j # 1 /\ 1 < j
        <5>1. DOMAIN todo = 1..Len(todo) /\ Len(todo) \in Nat
          BY DEF IInv, TypeOK
        <5>2. j # 1
          BY <1>3, <4>1, <4>2
        <5> QED
          BY <5>1, <5>2
      <4> QED
        BY <1>3, <2>2, <3>2, <4>2, <4>3
    <3> QED
      BY <1>9, <3>1, <3>2
  <2>4. ASSUME NEW i \in DOMAIN todo', NEW j \in DOMAIN todo', i < j
        PROVE  ~Better(todo'[j], todo'[i])
    <3>1. todo' = Tail(todo)
      BY <1>6, <2>4
    <3>2. i \in Int /\ j \in Int
      BY <1>3, <3>1
    <3>3. i + 1 < j + 1
      BY <2>4, <3>2
    <3> QED
      BY <1>3, <2>2, <2>4, <3>1, <3>3
  <2> QED
    BY <1>1, <2>1, <2>3, <2>4 DEF Ordered
<1> QED
  BY <1>10, <1>11, <1>13, <1>14 DEF IInv

(* However many of the insertions fail, the packer stays sound.            *)
LEMMA AfterCommit ==
  ASSUME IInv, Commit \/ SkipCommit
  PROVE  IInv'
<1> DEFINE n      == committed + 1
           config == plan[n]
           g      == config.gpu
           after  == InsertMany(usage[g], config.quota, config.sm, config.replicas).sp
<1>1. /\ todo = << >> /\ committed < Len(plan) /\ committed' = n
      /\ UNCHANGED <<req, offered, todo, window, remaining, plan, asked, useless>>
  BY DEF Commit, SkipCommit, Planned
<1>2. /\ plan \in Seq(Config) /\ DOMAIN plan = 1..Len(plan) /\ Len(plan) \in Nat
      /\ committed \in 0..Len(plan) /\ DOMAIN usage = Gpus
  BY DEF IInv, TypeOK
<1>3. n \in DOMAIN plan /\ n \in Nat \ {0} /\ committed' \in 0..Len(plan')
  BY <1>1, <1>2
<1>4. config \in Config
  BY <1>2, <1>3
<1>5. \A h \in Gpus : Sound(usage[h]) /\ TotalsExact(usage[h]) /\ usage[h].maxHeight = Gpu[h].sm
  BY DEF IInv, TypeOK, Packers
<1>6. /\ DOMAIN usage' = Gpus
      /\ \A h \in Gpus : /\ Sound(usage'[h]) /\ TotalsExact(usage'[h])
                         /\ usage'[h].maxHeight = Gpu[h].sm
      /\ usageMemory' \in [Gpus -> Int]
      /\ allocType' \in [Gpus -> AllocationTypes \cup {"none"}]
  <2>1. CASE SkipCommit
    BY <1>2, <1>5, <2>1 DEF SkipCommit, IInv, TypeOK
  <2>2. CASE Commit
    <3>1. /\ usage' = [usage EXCEPT ![g] = after]
          /\ usageMemory' = [usageMemory EXCEPT ![g] = @ - Replaced(config, usage[g], after)]
          /\ allocType' = [allocType EXCEPT ![g] = req.type]
      BY <2>2 DEF Commit
    <3> HIDE DEF config
    <3>2. g \in Gpus /\ config.quota \in Int /\ config.sm \in Int /\ config.replicas \in Int
      BY <1>4, FullWidthAssumption DEF Config
    <3>3. Sound(after) /\ TotalsExact(after) /\ after.maxHeight = Gpu[g].sm
      BY <1>5, <3>2, InsertManySound
    <3>4. Replaced(config, usage[g], after) \in Int
      <4>1. \A p : Sound(p) => Items(p) \in Int
        BY PackerFinite, FS_CardinalityType DEF Sound, Items
      <4>2. Items(usage[g]) \in Int /\ Items(after) \in Int
        BY <1>5, <3>2, <3>3, <4>1
      <4> HIDE DEF after, g
      <4>3. (IF config.replicas < 0 THEN config.replicas
             ELSE Items(after) - Items(usage[g])) \in Int
        BY <3>2, <4>2
      <4> QED
        BY <4>3, RequestAssumption DEF Replaced
    <3> HIDE DEF g, after
    <3>5. usageMemory' \in [Gpus -> Int]
      <4>1. usageMemory \in [Gpus -> Int]
        BY DEF IInv, TypeOK
      <4>2. usageMemory[g] - Replaced(config, usage[g], after) \in Int
        BY <3>2, <3>4, <4>1
      <4> QED
        BY <3>1, <4>1, <4>2
    <3>6. allocType' \in [Gpus -> AllocationTypes \cup {"none"}]
      <4>1. req \in [qps : Demands \cup {0}, type : AllocationTypes \cup {"none"}]
        BY DEF IInv, TypeOK
      <4>2. req.type \in AllocationTypes \cup {"none"}
        BY <4>1
      <4>3. allocType \in [Gpus -> AllocationTypes \cup {"none"}]
        BY DEF IInv, TypeOK
      <4> QED
        BY <3>1, <4>2, <4>3
    <3>7. /\ DOMAIN usage' = Gpus
          /\ \A h \in Gpus : usage'[h] = IF h = g THEN after ELSE usage[h]
      BY <1>2, <3>1
    <3> QED
      BY <1>5, <3>3, <3>5, <3>6, <3>7
  <2> QED
    BY <2>1, <2>2
<1> HIDE DEF n, config, g, after
<1>7. TypeOK'
  BY <1>1, <1>3, <1>6 DEF IInv, TypeOK
<1>8. Packers'
  BY <1>6 DEF Packers
<1>9. Asking'
  <2>1. Total' = Total /\ Chosen' = Chosen
    BY <1>1 DEF Total, Chosen
  <2>2. req # NoRequest
    BY DEF Commit, SkipCommit, Planned
  <2> QED
    BY <1>1, <2>1, <2>2 DEF IInv, Asking, NoRequest
<1>10. Ordered'
  BY <1>1, <1>3 DEF Ordered
<1> QED
  BY <1>7, <1>8, <1>9, <1>10 DEF IInv

(* The plan is dropped.                                                    *)
LEMMA AfterFinish ==
  ASSUME IInv, Finish
  PROVE  IInv'
<1>1. /\ todo = << >> /\ req' = NoRequest /\ offered' = {} /\ remaining' = 0
      /\ plan' = << >> /\ committed' = 0 /\ useless' = {}
      /\ UNCHANGED <<usage, usageMemory, allocType, todo, window, asked>>
  BY DEF Finish, Planned
<1>2. Chosen' = {}
  BY <1>1 DEF Chosen
<1>3. Total' = 0
  BY <1>1, TotalOfNone DEF Total, PlanTotal
<1>4. TypeOK'
  BY <1>1 DEF IInv, TypeOK, NoRequest
<1>5. Packers'
  BY <1>1 DEF IInv, Packers
<1>6. Asking'
  <2>1. Range(<< >>) = {} /\ req'.qps = 0
    BY <1>1 DEF Range, NoRequest
  <2> QED
    BY <1>1, <1>2, <1>3, <2>1 DEF Asking
<1>7. Ordered'
  BY <1>1, <1>2 DEF Ordered
<1> QED
  BY <1>4, <1>5, <1>6, <1>7 DEF IInv

(* A replica is taken off.                                                 *)
LEMMA AfterFree ==
  ASSUME IInv, NEW g \in Gpus, NEW id \in DOMAIN usage[g].itemLocation, Free(g, id)
  PROVE  IInv'
<1> DEFINE p == usage[g]
           q == Remove(p, id)
<1>1. /\ usage' = [usage EXCEPT ![g] = q]
      /\ usageMemory' = [usageMemory EXCEPT ![g] = @ - MemoryReq]
      /\ UNCHANGED <<allocType, req, offered, todo, remaining, plan, committed, asked, useless>>
  BY DEF Free
<1>2. DOMAIN usage = Gpus /\ Sound(p) /\ TotalsExact(p) /\ p.maxHeight = Gpu[g].sm
  BY DEF IInv, TypeOK, Packers
<1>3. Sound(q) /\ TotalsExact(q) /\ q.maxHeight = Gpu[g].sm
  BY <1>2, RemoveSound, RemoveTotals
<1>4. \A v \in window' : IsPacker(v)
  <2>1. \A v \in RemovalStates(p, id) : IsPacker(v)
    BY <1>2, RemovalStatesArePackers
  <2> QED
    BY <2>1 DEF Free, IInv, TypeOK
<1> HIDE DEF p, q
<1>5. DOMAIN usage' = Gpus /\ usage'[g] = q /\ \A h \in Gpus : h # g => usage'[h] = usage[h]
  BY <1>1, <1>2
<1>6. TypeOK'
  <2>1. \A h \in Gpus : Sound(usage'[h])
    BY <1>3, <1>5 DEF IInv, TypeOK
  <2>2. usageMemory' \in [Gpus -> Int]
    <3>1. usageMemory \in [Gpus -> Int]
      BY DEF IInv, TypeOK
    <3>2. usageMemory[g] - MemoryReq \in Int
      BY <3>1, RequestAssumption
    <3> QED
      BY <1>1, <3>1, <3>2
  <2> QED
    BY <1>1, <1>4, <1>5, <2>1, <2>2 DEF IInv, TypeOK
<1>7. Packers'
  BY <1>3, <1>5 DEF IInv, Packers
<1> QED
  BY <1>1, <1>6, <1>7, AfterOthers

(* Every step keeps the invariant.                                         *)
LEMMA Inductive == Spec => []IInv
<1>1. Init => IInv
  <2> SUFFICES ASSUME Init PROVE IInv
    OBVIOUS
  <2>1. /\ usage = [g \in Gpus |-> NewShelf(Gpu[g].sm)] /\ allocType = [g \in Gpus |-> "none"]
        /\ usageMemory = [g \in Gpus |-> 0] /\ window = {}
        /\ req = NoRequest /\ offered = {} /\ todo = << >> /\ remaining = 0 /\ plan = << >>
        /\ committed = 0 /\ asked = 0 /\ useless = {}
    BY DEF Init
  <2>2. \A g \in Gpus : /\ Sound(usage[g]) /\ TotalsExact(usage[g])
                        /\ usage[g].maxHeight = Gpu[g].sm
    <3> TAKE g \in Gpus
    <3>1. usage[g] = NewShelf(Gpu[g].sm) /\ Gpu[g].sm \in Nat
      BY <2>1, GpuAssumption
    <3> QED
      BY <3>1, NewShelfSound, NewShelfTotals
  <2>3. Chosen = {} /\ Total = 0 /\ Range(todo) = {}
    <3>1. Total = 0
      BY <2>1, TotalOfNone DEF Total, PlanTotal
    <3> QED
      BY <2>1, <3>1 DEF Chosen, Range
  <2>4. TypeOK
    <3>1. todo \in Seq(Gpus) /\ plan \in Seq(Config) /\ DOMAIN plan = {} /\ committed \in 0..Len(plan)
      BY <2>1
    <3>2. req \in [qps : Demands \cup {0}, type : AllocationTypes \cup {"none"}]
      BY <2>1 DEF NoRequest
    <3>3. asked \in 0..MaxRequests
      BY <2>1, RequestAssumption
    <3>4. /\ DOMAIN usage = Gpus /\ allocType \in [Gpus -> AllocationTypes \cup {"none"}]
          /\ usageMemory \in [Gpus -> Int] /\ \A p \in window : IsPacker(p)
      BY <2>1
    <3>5. offered \subseteq Gpus /\ useless \subseteq Gpus /\ remaining \in Int
      BY <2>1
    <3> QED
      BY <2>2, <2>3, <3>1, <3>2, <3>3, <3>4, <3>5 DEF TypeOK
  <2>5. Packers
    BY <2>2 DEF Packers
  <2>6. Asking
    BY <2>1, <2>3 DEF Asking, NoRequest
  <2>7. Ordered
    BY <2>1, <2>3 DEF Ordered
  <2> QED
    BY <2>4, <2>5, <2>6, <2>7 DEF IInv
<1>2. IInv /\ [Next]_vars => IInv'
  <2> SUFFICES ASSUME IInv, [Next]_vars PROVE IInv'
    OBVIOUS
  <2>1. CASE UNCHANGED vars
    <3>1. TypeOK'
      BY <2>1 DEF vars, IInv, TypeOK
    <3>2. Packers'
      BY <2>1 DEF vars, IInv, Packers
    <3> QED
      BY <2>1, <3>1, <3>2, AfterOthers DEF vars
  <2>2. ASSUME NEW qps \in Demands, NEW type \in AllocationTypes, NEW ready \in SUBSET Gpus,
               NEW preferred, GetConfigs(qps, type, ready, preferred)
        PROVE  IInv'
    BY <2>2, AfterGetConfigs
  <2>3. CASE AskGpu
    BY <2>3, AfterAskGpu
  <2>4. CASE Commit \/ SkipCommit
    BY <2>4, AfterCommit
  <2>5. CASE Finish
    BY <2>5, AfterFinish
  <2>6. ASSUME NEW g \in Gpus, NEW id \in DOMAIN usage[g].itemLocation, Free(g, id)
        PROVE  IInv'
    BY <2>6, AfterFree
  <2>7. CASE BeginAsk
    BY <2>7, AfterBeginAsk
  <2> QED
    BY <2>1, <2>2, <2>3, <2>4, <2>5, <2>6, <2>7, Zenon DEF Next
<1> QED
  BY <1>1, <1>2, PTL DEF Spec

(* The packers of all GPUs stay sound, what getConfig may meet of them are *)
(* packers, and every configuration of a plan has a rate.                  *)
THEOREM FinderTypes == Spec => []TypeOK
BY Inductive, PTL DEF IInv

(* What is planned and what was asked for are numbers.                     *)
LEMMA NumbersAre ==
  ASSUME IInv
  PROVE  Total \in Int /\ req.qps \in Int /\ remaining = req.qps - Total
<1>1. req.qps \in Demands \cup {0}
  <2>1. req \in [qps : Demands \cup {0}, type : AllocationTypes \cup {"none"}]
    BY DEF IInv, TypeOK
  <2> QED
    BY <2>1
<1>2. \A d \in Demands : d \in Int
  BY RequestAssumption
<1>3. plan \in Seq(Config)
  BY DEF IInv, TypeOK
<1>4. Total \in Int
  <2>1. CASE plan = << >>
    BY <2>1, TotalOfNone DEF Total, PlanTotal
  <2>2. CASE plan # << >>
    <3>1. plan[1] \in Config
      BY <1>3, <2>2
    <3> QED
      BY <1>3, <3>1, TotalOfAppend DEF Total, PlanTotal
  <2> QED
    BY <2>1, <2>2
<1> QED
  BY <1>1, <1>2, <1>4 DEF IInv, Asking

(* The loop of GetConfigs only ends when the demand is covered or every    *)
(* GPU the request may use is in the plan or had nothing to offer.         *)
THEOREM PlansCoverDemand == Spec => []PlanCoversDemand
<1>1. IInv => PlanCoversDemand
  <2> SUFFICES ASSUME IInv, Planned PROVE Total >= req.qps \/ offered \subseteq Chosen \cup useless
    BY DEF PlanCoversDemand
  <2>1. todo = << >>
    BY DEF Planned
  <2>2. Range(todo) = {}
    BY <2>1 DEF Range
  <2>3. remaining <= 0 \/ offered \subseteq Chosen \cup useless
    BY <2>2 DEF IInv, Asking
  <2>4. remaining <= 0 => Total >= req.qps
    BY NumbersAre
  <2> QED
    BY <2>3, <2>4
<1> QED
  BY <1>1, Inductive, PTL

(* No plan could do without a replica of its last configuration.           *)
THEOREM PlansAreTight == Spec => []PlanIsTight
<1>1. IInv => PlanIsTight
  <2> SUFFICES ASSUME IInv, plan # << >> PROVE Total - plan[Len(plan)].qps < req.qps
    BY DEF PlanIsTight
  <2> DEFINE last == plan[Len(plan)].qps
  <2>1. remaining + last > 0
    BY DEF IInv, Asking
  <2>2. last \in Int
    <3>1. plan[Len(plan)] \in Config
      BY DEF IInv, TypeOK
    <3> QED
      BY <3>1 DEF Config
  <2> HIDE DEF last
  <2>3. Total - last < req.qps
    BY <2>1, <2>2, NumbersAre
  <2> QED
    BY <2>3 DEF last
<1> QED
  BY <1>1, Inductive, PTL

(* sortGPUInfos and the loop over its result leave no better GPU alone.    *)
THEOREM BetterGpusFirst == Spec => []BetterFirst
<1>1. IInv => BetterFirst
  BY DEF IInv, Ordered, BetterFirst
<1> QED
  BY <1>1, Inductive, PTL

(* Each configuration getConfig adds to a plan has the most efficient size *)
(* that fits on its GPU all the while, the smallest of several.            *)
THEOREM SizesAreBest == Spec => SizeIsBest
<1>1. ASSUME IInv, [Next]_vars
      PROVE  [AddsBestSize]_vars
  <2>1. SUFFICES ASSUME Len(plan') > Len(plan) PROVE AddsBestSize
    BY DEF AddsBestSize
  <2>2. Len(plan) \in Nat
    BY <1>1 DEF IInv, TypeOK
  <2>3. AskGpu
    <3>1. plan' # plan
      BY <2>1, <2>2
    <3>2. ~(plan' = << >>)
      BY <2>1, <2>2
    <3> QED
      <4>1. CASE UNCHANGED vars
        BY <3>1, <4>1 DEF vars
      <4>2. ASSUME NEW qps, NEW type, NEW ready, NEW preferred, GetConfigs(qps, type, ready, preferred)
            PROVE  FALSE
        BY <3>1, <4>2 DEF GetConfigs
      <4>3. CASE Commit \/ SkipCommit \/ BeginAsk
        BY <3>1, <4>3 DEF Commit, SkipCommit, BeginAsk
      <4>4. CASE Finish
        BY <3>2, <4>4 DEF Finish
      <4>5. ASSUME NEW g, NEW id, Free(g, id) PROVE FALSE
        BY <3>1, <4>5 DEF Free
      <4> QED
        BY <1>1, <4>1, <4>2, <4>3, <4>4, <4>5, Zenon DEF Next
  <2> DEFINE g     == Head(todo)
             sizes == Sizes(g, req.type)
             N     == Len(sizes)
  <2>4. PICK fit \in SUBSET Fitting(g, req.type) :
          /\ SurelyFitting(g, req.type) \subseteq fit
          /\ \/ BestConfig(g, fit) = NoCandidate /\ plan' = plan
             \/ /\ BestConfig(g, fit) # NoCandidate
                /\ \E n \in Replicas(g, BestConfig(g, fit)) :
                     plan' = Append(plan, NewConfig(BestConfig(g, fit), n))
    BY <2>3, Zenon DEF AskGpu
  <2> DEFINE best == BestConfig(g, fit)
  <2>5. PICK n \in Replicas(g, best) : plan' = Append(plan, NewConfig(best, n))
    <3>1. plan' # plan
      BY <2>1, <2>2
    <3> QED
      BY <2>4, <3>1
  <2>6. g \in Gpus
    <3>1. todo \in Seq(Gpus) /\ todo # << >>
      BY <1>1, <2>3 DEF IInv, TypeOK, AskGpu
    <3> QED
      BY <3>1, TailIs
  <2>7. PICK k \in 1..N :
          /\ best = Candidate(g, sizes[k]) /\ sizes[k] \in fit
          /\ sizes[k] \in SizesOf(g)
          /\ \A i \in 1..N : sizes[i] \in fit =>
               IF i < k THEN Beats(g, sizes[k], sizes[i]) ELSE ~Beats(g, sizes[i], sizes[k])
    <3>1. best # NoCandidate
      <4>1. plan' # plan
        BY <2>1, <2>2
      <4> QED
        BY <2>4, <4>1
    <3> HIDE DEF g
    <3> QED
      BY <1>1, <2>4, <2>6, <3>1, AskFinds
  <2>8. /\ N \in Nat /\ DOMAIN sizes = 1..N
        /\ \A i \in 1..N :
             /\ sizes[i][1] \in 1..Gpu[g].sm /\ sizes[i][2] \in 1..FullWidth
             /\ sizes[i] = <<sizes[i][1], sizes[i][2]>>
        /\ \A i, j \in 1..N :
             i <= j => \/ sizes[i][1] < sizes[j][1]
                       \/ sizes[i][1] = sizes[j][1] /\ sizes[i][2] <= sizes[j][2]
    BY <2>6, SizesAre
  <2> DEFINE config == NewConfig(best, n)
  <2>9. plan'[Len(plan')] = config
    <3> HIDE DEF config
    <3>1. plan \in Seq(Config) /\ plan' = Append(plan, config)
      BY <1>1, <2>5 DEF IInv, TypeOK, config
    <3> QED
      BY <3>1
  <2>10. /\ config.gpu = g /\ config.sm = sizes[k][1] /\ config.quota = sizes[k][2]
         /\ config.qps = RateOf(g, sizes[k])
    BY <2>7 DEF Candidate, NewConfig, RateOf
  <2>11. /\ \A s \in SurelyFitting(g, req.type) : s \in fit /\ s \in Range(sizes)
         /\ sizes[k] \in Fitting(g, req.type)
    BY <2>4, <2>7 DEF SurelyFitting, Fitting, Measured
  <2> HIDE DEF g, best, sizes, N, config
  <2>12. <<config.sm, config.quota>> \in Fitting(g, req.type)
    BY <2>7, <2>8, <2>10, <2>11
  <2>13. ASSUME NEW s \in SurelyFitting(g, req.type)
         PROVE  LET ours   == config.qps * (s[1] * s[2])
                    theirs == QpsAt(g, s[1], s[2]) * (config.sm * config.quota)
                IN  \/ ours > theirs
                    \/ /\ ours = theirs
                       /\ config.sm < s[1] \/ (config.sm = s[1] /\ config.quota <= s[2])
    <3>1. PICK i \in 1..N : s = sizes[i] /\ s \in fit
      BY <2>8, <2>11 DEF Range
    <3> DEFINE ours   == config.qps * (s[1] * s[2])
               theirs == QpsAt(g, s[1], s[2]) * (config.sm * config.quota)
    <3>2. Beats(g, sizes[k], s) <=> ours > theirs
      BY <2>10 DEF Beats, Area, RateOf
    <3>3. Beats(g, s, sizes[k]) <=> theirs > ours
      BY <2>10 DEF Beats, Area, RateOf
    <3>4. ours \in Int /\ theirs \in Int
      <4>1. s \in SizesOf(g)
        <5>1. s[1] \in 1..Gpu[g].sm /\ s[2] \in 1..FullWidth /\ s = <<s[1], s[2]>>
          BY <2>8, <3>1
        <5> QED
          BY <5>1 DEF SizesOf
      <4>2. /\ RateOf(g, s) \in Nat /\ Area(s) \in Nat
            /\ RateOf(g, sizes[k]) \in Nat /\ Area(sizes[k]) \in Nat
        BY <2>6, <2>7, <4>1, RatesAre
      <4>3. ours = RateOf(g, sizes[k]) * Area(s) /\ theirs = RateOf(g, s) * Area(sizes[k])
        BY <2>10 DEF Area, RateOf
      <4> HIDE DEF ours, theirs
      <4> QED
        BY <4>2, <4>3
    <3>5. IF i < k THEN ours > theirs ELSE ~(theirs > ours)
      BY <2>7, <3>1, <3>2, <3>3
    <3>6. ~(i < k) => config.sm < s[1] \/ (config.sm = s[1] /\ config.quota <= s[2])
      <4>1. ~(i < k) => k <= i
        BY <2>8
      <4> QED
        BY <2>8, <2>10, <3>1, <4>1
    <3> HIDE DEF ours, theirs
    <3>7. ours > theirs \/ (ours = theirs /\ ~(i < k))
      BY <3>4, <3>5
    <3> QED
      BY <3>6, <3>7 DEF ours, theirs
  <2> QED
    BY <2>9, <2>10, <2>12, <2>13 DEF AddsBestSize
<1> QED
  BY <1>1, Inductive, PTL DEF Spec, SizeIsBest

-----------------------------------------------------------------------------
(* The profile store of QpsStore.tla.                                      *)

(* The rates of the rows for a key.                                        *)
RatesOf(k) == {r[2] : r \in {x \in rows : x[1] = k}}

(* The map keeps the highest of them.                                      *)
KeepsBest ==
  \A k \in Keys :
    IF RatesOf(k) = {} THEN data[k] = 0
    ELSE data[k] \in RatesOf(k) /\ \A r \in RatesOf(k) : r <= data[k]

StoreInv == StoreTypeOK /\ KeepsBest

(* A row more adds its rate to those of its key.                           *)
LEMMA RatesOfMore ==
  ASSUME NEW k, NEW qps, rows' = rows \cup {<<k, qps>>}
  PROVE  /\ RatesOf(k)' = RatesOf(k) \cup {qps}
         /\ \A j : j # k => RatesOf(j)' = RatesOf(j)
<1>1. \A j : RatesOf(j)' = {r[2] : r \in {x \in rows \cup {<<k, qps>>} : x[1] = j}}
  BY DEF RatesOf
<1>2. <<k, qps>>[1] = k /\ <<k, qps>>[2] = qps
  OBVIOUS
<1> QED
  BY <1>1, <1>2 DEF RatesOf

(* A rate set replaces those of its key.                                   *)
LEMMA RatesOfSet ==
  ASSUME NEW k, NEW qps, rows' = {r \in rows : r[1] # k} \cup {<<k, qps>>}
  PROVE  /\ RatesOf(k)' = {qps}
         /\ \A j : j # k => RatesOf(j)' = RatesOf(j)
<1>1. \A j : RatesOf(j)' =
        {r[2] : r \in {x \in {y \in rows : y[1] # k} \cup {<<k, qps>>} : x[1] = j}}
  BY DEF RatesOf
<1>2. <<k, qps>>[1] = k /\ <<k, qps>>[2] = qps
  OBVIOUS
<1> QED
  BY <1>1, <1>2 DEF RatesOf

(* Rows may come in any order and number, and rates may be set at any      *)
(* time after them.                                                        *)
LEMMA StoreInductive ==
  ASSUME StoreInv, [StoreNext]_storeVars
  PROVE  StoreInv'
<1>1. /\ data \in [Keys -> Rates] /\ loading \in BOOLEAN
      /\ rows \subseteq Keys \X (Rates \ {0})
      /\ \A r \in Rates : r \in Nat
  BY StoreAssumption DEF StoreInv, StoreTypeOK
<1>2. CASE UNCHANGED storeVars
  BY <1>2 DEF storeVars, StoreInv, StoreTypeOK, KeepsBest, RatesOf
<1>3. ASSUME NEW k \in Keys, NEW qps \in Rates, qps > 0,
             rows' = rows \cup {<<k, qps>>} \/ rows' = {r \in rows : r[1] # k} \cup {<<k, qps>>},
             UNCHANGED loading, NEW v \in Rates, data' = [data EXCEPT ![k] = v],
             v \in RatesOf(k)' /\ \A r \in RatesOf(k)' : r <= v
      PROVE  StoreInv'
  <2>1. data' \in [Keys -> Rates] /\ data'[k] = v
        /\ \A j \in Keys : j # k => data'[j] = data[j]
    BY <1>1, <1>3
  <2>2. rows' \subseteq Keys \X (Rates \ {0})
    <3>1. <<k, qps>> \in Keys \X (Rates \ {0})
      BY <1>3
    <3> QED
      BY <1>1, <1>3, <3>1
  <2>3. \A j : j # k => RatesOf(j)' = RatesOf(j)
    BY <1>3, RatesOfMore, RatesOfSet
  <2>4. StoreTypeOK'
    BY <1>1, <1>3, <2>1, <2>2 DEF StoreTypeOK
  <2>5. ASSUME NEW j \in Keys
        PROVE  IF RatesOf(j)' = {} THEN data'[j] = 0
               ELSE data'[j] \in RatesOf(j)' /\ \A r \in RatesOf(j)' : r <= data'[j]
    <3>1. CASE j = k
      BY <1>3, <2>1, <3>1
    <3>2. CASE j # k
      BY <2>1, <2>3, <3>2 DEF StoreInv, KeepsBest
    <3> QED
      BY <3>1, <3>2
  <2>6. KeepsBest'
    BY <2>5 DEF KeepsBest, Keys
  <2> QED
    BY <2>4, <2>6 DEF StoreInv
<1>4. ASSUME NEW k \in Keys, NEW qps \in Rates, LoadRow(k, qps)
      PROVE  StoreInv'
  <2> DEFINE v == BestRow(k, qps)
  <2>1. qps > 0 /\ data' = [data EXCEPT ![k] = v] /\ rows' = rows \cup {<<k, qps>>} /\ UNCHANGED loading
    BY <1>4 DEF LoadRow
  <2>2. v = IF data[k] = 0 \/ qps > data[k] THEN qps ELSE data[k]
    BY DEF BestRow
  <2> HIDE DEF v
  <2>3. RatesOf(k)' = RatesOf(k) \cup {qps}
    BY <2>1, RatesOfMore
  <2>4. \A r \in RatesOf(k) : r \in Nat /\ r # 0
    BY <1>1 DEF RatesOf
  <2>5. v \in Rates /\ v \in Nat /\ qps \in Nat /\ data[k] \in Nat
    BY <1>1, <2>2
  <2>6. v \in RatesOf(k)' /\ \A r \in RatesOf(k)' : r <= v
    <3>1. CASE RatesOf(k) = {}
      <4>1. data[k] = 0
        BY <3>1 DEF StoreInv, KeepsBest
      <4> QED
        BY <2>2, <2>3, <2>5, <3>1, <4>1
    <3>2. CASE RatesOf(k) # {}
      <4>1. data[k] \in RatesOf(k) /\ \A r \in RatesOf(k) : r <= data[k]
        BY <3>2 DEF StoreInv, KeepsBest
      <4> QED
        BY <2>2, <2>3, <2>4, <2>5, <4>1
    <3> QED
      BY <3>1, <3>2
  <2> QED
    BY <1>3, <2>1, <2>5, <2>6
<1>5. CASE Loaded
  BY <1>5 DEF Loaded, StoreInv, StoreTypeOK, KeepsBest, RatesOf
<1>6. ASSUME NEW sm \in SMs, NEW quota, NEW qps \in Rates, Set(sm, quota, qps)
      PROVE  StoreInv'
  <2> DEFINE k == <<sm, RoundQuota(quota)>>
  <2>1. /\ qps > 0 /\ k \in Keys /\ data' = [data EXCEPT ![k] = qps]
        /\ rows' = {r \in rows : r[1] # k} \cup {<<k, qps>>} /\ UNCHANGED loading
    BY <1>6 DEF Set
  <2> HIDE DEF k
  <2>2. RatesOf(k)' = {qps}
    BY <2>1, RatesOfSet
  <2>3. qps \in RatesOf(k)' /\ \A r \in RatesOf(k)' : r <= qps
    BY <1>1, <2>2
  <2> QED
    BY <1>3, <2>1, <2>3
<1> QED
  BY <1>2, <1>4, <1>5, <1>6 DEF StoreNext

(* From the empty map on.                                                  *)
LEMMA StoreHolds == StoreSpec => []StoreInv
<1>1. StoreInit => StoreInv
  BY StoreAssumption DEF StoreInit, StoreInv, StoreTypeOK, KeepsBest, RatesOf
<1>2. StoreInv /\ [StoreNext]_storeVars => StoreInv'
  BY StoreInductive
<1> QED
  BY <1>1, <1>2, PTL DEF StoreSpec

(* NewRPSStore keeps the best rate of each key and Set the last one.       *)
THEOREM BestRatesAreKept == StoreSpec => []BestOfRows
<1>1. StoreInv => BestOfRows
  <2> SUFFICES ASSUME StoreInv, NEW k \in Keys
               PROVE  data[k] = IF RatesOf(k) = {} THEN 0 ELSE Max(RatesOf(k))
    BY DEF BestOfRows, RatesOf
  <2>1. CASE RatesOf(k) = {}
    BY <2>1 DEF StoreInv, KeepsBest
  <2>2. CASE RatesOf(k) # {}
    <3>1. data[k] \in RatesOf(k) /\ \A r \in RatesOf(k) : r <= data[k]
      BY <2>2 DEF StoreInv, KeepsBest
    <3>2. \A r \in RatesOf(k) : r \in Int
      <4>1. rows \subseteq Keys \X (Rates \ {0}) /\ \A r \in Rates : r \in Int
        BY StoreAssumption DEF StoreInv, StoreTypeOK
      <4> QED
        BY <4>1 DEF RatesOf
    <3>3. Max(RatesOf(k)) = data[k]
      BY <3>1, <3>2 DEF Max
    <3> QED
      BY <2>2, <3>3
  <2> QED
    BY <2>1, <2>2
<1> QED
  BY <1>1, StoreHolds, PTL

(* A quota of two decimals that is off by a little is rounded back.        *)
LEMMA RoundedBack ==
  ASSUME NEW quota \in Quotas, NEW d \in -Drift..Drift
  PROVE  RoundQuota(quota + d) = quota
<1>1. quota \in Nat /\ quota % 10 = 0 /\ Drift \in 0..4
  BY StoreAssumption
<1>2. PICK m \in Int : quota = 10 * m
  BY <1>1
<1>3. d \in Int /\ -4 <= d /\ d <= 4
  BY <1>1
<1>4. (quota + d + 5) \div 10 = m
  BY <1>2, <1>3
<1> QED
  BY <1>2, <1>4 DEF RoundQuota

(* A rate stored is found under its quota as getConfig sums it up.         *)
THEOREM StoredRatesAreFound == StoreSpec => []DriftAbsorbed
<1>1. StoreInv => DriftAbsorbed
  <2> SUFFICES ASSUME StoreInv, NEW k \in Keys, NEW d \in -Drift..Drift, data[k] > 0
               PROVE  GetQPS(k[1], k[2] + d, 0) = data[k]
    BY DEF DriftAbsorbed
  <2>1. k[2] \in Quotas /\ k = <<k[1], k[2]>>
    BY DEF Keys
  <2>2. RoundQuota(k[2] + d) = k[2]
    BY <2>1, RoundedBack
  <2>3. Get(k[1], k[2] + d) = data[k]
    BY <2>1, <2>2 DEF Get
  <2> QED
    BY <2>3 DEF GetQPS
<1> QED
  BY <1>1, StoreHolds, PTL

(* The multiples of roundBy nearest to a percentage are the two that       *)
(* GetQPS looks at.                                                        *)
LEMMA Neighbours ==
  ASSUME NEW sm \in Nat, NEW roundBy \in Nat \ {0}, NEW x \in Nat
  PROVE  (/\ x % roundBy = 0 /\ x - sm < roundBy /\ sm - x < roundBy
          /\ sm % roundBy = 0 => x = sm)
         <=> x \in {Lower(sm, roundBy), Upper(sm, roundBy)}
<1> DEFINE w == roundBy
           p == sm \div w
           q == x \div w
           lo == w * p
<1>1. /\ p \in Int /\ q \in Int /\ lo <= sm /\ sm < lo + w
      /\ sm % w = sm - w * p /\ x % w = x - w * q
  BY DivMod, ModIs
<1>2. /\ Lower(sm, w) = lo
      /\ Upper(sm, w) = IF sm % w = 0 THEN lo ELSE lo + w
  <2>1. (sm \div w) * w = w * (sm \div w)
    BY <1>1
  <2> QED
    BY <2>1 DEF Lower, Upper
<1>3. w \in Nat \ {0} /\ lo \in Int
  BY <1>1
<1>4. \A j \in Int : (w * j) % w = 0
  <2> TAKE j \in Int
  <2> DEFINE a == w * j
             b == a \div w
  <2>1. a \in Int
    OBVIOUS
  <2>2. b \in Int /\ w * b <= a /\ a < w * b + w /\ a % w = a - w * b
    BY <2>1, DivMod, ModIs
  <2>3. w * j <= a /\ a < w * j + w
    BY <2>1
  <2> HIDE DEF a, b
  <2>4. b = j
    BY <2>1, <2>2, <2>3, Between
  <2>5. a % w = a - a
    BY <2>2, <2>4 DEF a
  <2> QED
    BY <2>1, <2>5 DEF a
<1>5. ASSUME x % w = 0, x - sm < w, sm - x < w, sm % w = 0 => x = sm
      PROVE  x \in {Lower(sm, w), Upper(sm, w)}
  <2> DEFINE y == w * q
  <2>1. x = y
    BY <1>1, <1>5
  <2>2. y < w * (p + 2) /\ w * (p - 1) < y
    <3>1. w * (p + 2) = lo + w + w /\ w * (p - 1) = lo - w
      BY <1>1
    <3> HIDE DEF y, lo, p
    <3> QED
      BY <1>1, <1>3, <1>5, <2>1, <3>1
  <2>3. q < p + 2 /\ p - 1 < q
    BY <1>1, <2>2, FactorSmaller
  <2>4. q = p \/ q = p + 1
    BY <1>1, <2>3
  <2>5. y = lo \/ y = lo + w
    <3>1. w * (p + 1) = lo + w
      BY <1>1
    <3> QED
      BY <2>4, <3>1
  <2>6. sm % w = 0 => x = lo
    BY <1>1, <1>5, <2>1
  <2> HIDE DEF lo, y, p, q
  <2> QED
    BY <1>2, <1>3, <2>1, <2>5, <2>6
<1>6. ASSUME x \in {Lower(sm, w), Upper(sm, w)}
      PROVE  x % w = 0 /\ x - sm < w /\ sm - x < w /\ (sm % w = 0 => x = sm)
  <2>1. x = lo \/ (x = lo + w /\ sm % w # 0)
    BY <1>2, <1>6
  <2>2. lo % w = 0 /\ (lo + w) % w = 0
    <3>1. w * (p + 1) = lo + w /\ p + 1 \in Int
      BY <1>1
    <3> QED
      BY <1>1, <1>4, <3>1
  <2>3. x % w = 0
    BY <2>1, <2>2
  <2>4. sm % w = 0 => sm = lo
    BY <1>1
  <2>5. sm % w # 0 => lo < sm
    BY <1>1
  <2> HIDE DEF lo, p, q
  <2> QED
    BY <1>1, <1>3, <2>1, <2>3, <2>4, <2>5
<1> QED
  BY <1>5, <1>6

(* A set of one or two numbers has a least and a greatest.                 *)
LEMMA PairBounds ==
  ASSUME NEW a \in Int, NEW b \in Int, NEW S, S \subseteq {a, b}, S # {}
  PROVE  /\ Min(S) \in S /\ \A y \in S : Min(S) <= y
         /\ Max(S) \in S /\ \A y \in S : y <= Max(S)
<1>0. S = {a} \/ S = {b} \/ S = {a, b}
  OBVIOUS
<1>1. \E m \in S : \A y \in S : m <= y
  <2>1. CASE a <= b
    BY <1>0, <2>1
  <2>2. CASE b <= a
    BY <1>0, <2>2
  <2> QED
    BY <2>1, <2>2
<1>2. \E m \in S : \A y \in S : m >= y
  <2>1. CASE a <= b
    BY <1>0, <2>1
  <2>2. CASE b <= a
    BY <1>0, <2>2
  <2> QED
    BY <2>1, <2>2
<1>3. Min(S) \in S /\ \A y \in S : Min(S) <= y
  BY <1>1 DEF Min
<1>4. Max(S) \in S /\ \A y \in S : Max(S) >= y
  BY <1>2 DEF Max
<1> QED
  BY <1>3, <1>4

(* GetQPS estimates a rate if one was measured at a neighbouring           *)
(* percentage, and never one beyond those measured there.                  *)
THEOREM EstimatesAreBounded == StoreSpec => []EstimateIsBounded
<1>1. StoreInv => EstimateIsBounded
  <2> SUFFICES ASSUME StoreInv, NEW sm \in Asked, NEW quota \in Quotas, NEW roundBy \in RoundBys \ {0},
                      Get(sm, quota) = 0
               PROVE  LET around   == Around(sm, quota, roundBy)
                          estimate == GetQPS(sm, quota, roundBy)
                      IN  IF around = {} THEN estimate = 0
                          ELSE Min(around) <= estimate /\ estimate <= Max(around)
    BY DEF EstimateIsBounded
  <2> DEFINE L      == Lower(sm, roundBy)
             U      == Upper(sm, roundBy)
             G(s)   == Get(s, quota)
             lo     == G(L)
             hi     == G(U)
             around == Around(sm, quota, roundBy)
             estimate == GetQPS(sm, quota, roundBy)
  <2>1. sm \in Nat /\ roundBy \in Nat \ {0} /\ \A x \in SMs : x \in Nat
    BY StoreAssumption
  <2>2. \A s : G(s) \in Nat /\ (G(s) # 0 => s \in SMs)
    <3>1. \A k \in Keys : data[k] \in Nat
      BY StoreAssumption DEF StoreInv, StoreTypeOK
    <3>2. \A s : <<s, RoundQuota(quota)>> \in Keys => s \in SMs
      BY DEF Keys
    <3> QED
      BY <3>1, <3>2 DEF Get
  <2>3. around = {G(s) : s \in {x \in SMs : x \in {L, U}}} \ {0}
    <3>1. \A x \in SMs :
            (/\ x % roundBy = 0 /\ x - sm < roundBy /\ sm - x < roundBy
             /\ sm % roundBy = 0 => x = sm) <=> x \in {L, U}
      BY <2>1, Neighbours
    <3>2. {x \in SMs : /\ x % roundBy = 0 /\ x - sm < roundBy /\ sm - x < roundBy
                       /\ sm % roundBy = 0 => x = sm} = {x \in SMs : x \in {L, U}}
      BY <3>1, Zenon
    <3> QED
      BY <3>2 DEF Around
  <2>4. estimate = IF lo > 0 /\ hi > 0 THEN (lo + hi) \div 2 ELSE IF lo > 0 THEN lo ELSE hi
    BY <2>1 DEF GetQPS, Estimate
  <2>5. /\ around \subseteq {lo, hi}
        /\ lo # 0 => lo \in around
        /\ hi # 0 => hi \in around
        /\ 0 \notin around
    <3> HIDE DEF L, U, G, around
    <3>1. around \subseteq {lo, hi} /\ 0 \notin around
      BY <2>3 DEF lo, hi
    <3>2. ASSUME NEW s \in {L, U}, G(s) # 0 PROVE G(s) \in around
      BY <2>2, <2>3, <3>2
    <3> QED
      BY <3>1, <3>2 DEF lo, hi
  <2>6. lo \in Nat /\ hi \in Nat
    BY <2>2
  <2> HIDE DEF L, U, G, lo, hi, around, estimate
  <2>7. CASE around = {}
    BY <2>4, <2>5, <2>6, <2>7 DEF around, estimate
  <2>8. CASE around # {}
    <3> DEFINE min == Min(around)
               max == Max(around)
    <3>1. min \in around /\ max \in around /\ \A y \in around : min <= y /\ y <= max
      <4>1. lo \in Int /\ hi \in Int /\ around \subseteq {lo, hi}
        BY <2>5, <2>6
      <4> QED
        BY <2>8, <4>1, PairBounds
    <3> HIDE DEF min, max
    <3>2. min \in Int /\ max \in Int
      BY <2>5, <2>6, <3>1
    <3>3. min <= estimate /\ estimate <= max
      <4>1. CASE lo > 0 /\ hi > 0
        <5>1. min <= lo /\ min <= hi /\ lo <= max /\ hi <= max
          BY <2>5, <2>6, <3>1, <4>1
        <5>2. estimate = (lo + hi) \div 2
          BY <2>4, <4>1
        <5> QED
          BY <2>6, <3>2, <5>1, <5>2
      <4>2. CASE ~(lo > 0 /\ hi > 0)
        BY <2>4, <2>5, <2>6, <2>8, <3>1, <3>2, <4>2
      <4> QED
        BY <4>1, <4>2
    <3> QED
      BY <2>8, <3>3 DEF around, estimate, min, max
  <2> QED
    BY <2>7, <2>8
<1> QED
  BY <1>1, StoreHolds, PTL

-----------------------------------------------------------------------------
(* The table of the nodes of NodeManager.tla, for any set of nodes and     *)
(* connections.                                                            *)

(* Every step of every connection preserves the inductive invariant: a     *)
(* connection only makes its node Ready while it serves it itself, and its *)
(* end makes the node NotReady.                                            *)
LEMMA NodeInductive ==
  ASSUME NodeInv, [NodeNext]_nodeVars
  PROVE  NodeInv'
<1> USE DEF NodeInv, NodeTypeOK, HeartbeatFindsNode, ReadyIsServed, Serves
<1>1. CASE UNCHANGED nodeVars
  BY <1>1 DEF nodeVars
<1>2. ASSUME NEW c \in Conns, Accept(c)
      PROVE  NodeInv'
  BY <1>2 DEF Accept
<1>3. ASSUME NEW c \in Conns, HandshakeFails(c)
      PROVE  NodeInv'
  BY <1>3 DEF HandshakeFails
<1>4. ASSUME NEW c \in Conns, Register(c)
      PROVE  NodeInv'
  BY <1>4 DEF Register
<1>5. ASSUME NEW c \in Conns, Heartbeat(c)
      PROVE  NodeInv'
  BY <1>5 DEF Heartbeat, UpdateHeartbeat
<1>6. ASSUME NEW c \in Conns, EndConnection(c)
      PROVE  NodeInv'
  BY <1>6 DEF EndConnection, MarkNotReady
<1>7. ASSUME NEW c \in Conns, Crash(c)
      PROVE  NodeInv'
  BY <1>7 DEF Crash
<1> QED
  BY <1>1, <1>2, <1>3, <1>4, <1>5, <1>6, <1>7 DEF NodeNext

(* The error of UpdateHeartbeat is never returned.                         *)
THEOREM HeartbeatsFindTheirNode == NodeSpec => []HeartbeatFindsNode
<1>1. NodeInit => NodeInv
  BY DEF NodeInit, NodeInv, NodeTypeOK, HeartbeatFindsNode, ReadyIsServed
<1> QED
  BY <1>1, NodeInductive, PTL DEF NodeSpec, NodeInv

(* No node whose connections have all ended is Ready.                      *)
THEOREM ReadyNodesAreServed == NodeSpec => []ReadyIsServed
<1>1. NodeInit => NodeInv
  BY DEF NodeInit, NodeInv, NodeTypeOK, HeartbeatFindsNode, ReadyIsServed
<1> QED
  BY <1>1, NodeInductive, PTL DEF NodeSpec, NodeInv
=============================================================================
