----------------------- MODULE FacebookEnrichSpiderProofs -----------------------
(***************************************************************************)
(* Proofs about FacebookEnrichSpider: sorting the parameters of a query    *)
(* does not depend on their order, so that a page has one URL; the counts  *)
(* and dates read off a page are its own and not in the future.            *)
(***************************************************************************)
EXTENDS FacebookEnrichSpider, FunctionTheorems, FiniteSetTheorems, SequenceTheorems,
        WellFoundedInduction, TLAPS

------------------------------------------------------------------------------
(* The order of sorted(). *)

PlainParameters == {p \in Parameters : p.layers = 0}

\* A plain parameter is its key and its value.
LEMMA PlainIsKeyAndValue ==
  ASSUME NEW p \in PlainParameters, NEW q \in PlainParameters
  PROVE  /\ p.key \in Range(KeyOrder) /\ p.value \in Nat
         /\ p.key = q.key /\ p.value = q.value => p = q
BY DEF PlainParameters, Parameters

LEMMA PositionOfKey ==
  ASSUME NEW k \in Range(KeyOrder)
  PROVE  Position(k) \in 1..6 /\ KeyOrder[Position(k)] = k
<1>1. PICK i \in DOMAIN KeyOrder : KeyOrder[i] = k
  BY DEF Range
<1>2. Position(k) \in DOMAIN KeyOrder /\ KeyOrder[Position(k)] = k
  BY <1>1 DEF Position
<1>3. DOMAIN KeyOrder = 1..6
  BY DEF KeyOrder
<1>4. QED
  BY <1>2, <1>3

\* Before orders the plain parameters.
LEMMA BeforeOrders ==
  ASSUME NEW p \in PlainParameters, NEW q \in PlainParameters, NEW r \in PlainParameters
  PROVE  /\ ~Before(p, p)
         /\ Before(p, q) /\ Before(q, r) => Before(p, r)
         /\ Before(p, q) \/ Before(q, p) \/ p = q
<1>1. /\ p.value \in Nat /\ q.value \in Nat /\ r.value \in Nat
      /\ Position(p.key) \in 1..6 /\ Position(q.key) \in 1..6 /\ Position(r.key) \in 1..6
  BY PlainIsKeyAndValue, PositionOfKey
<1>2. Position(p.key) = Position(q.key) => p.key = q.key
  BY PlainIsKeyAndValue, PositionOfKey
<1>3. p.key = q.key /\ p.value = q.value => p = q
  BY PlainIsKeyAndValue
<1>4. QED
  BY <1>1, <1>2, <1>3 DEF Before

------------------------------------------------------------------------------
(* Sorting.  The parameters are a function on a finite set of places. *)

Sortable(params) ==
  /\ IsFiniteSet(DOMAIN params)
  /\ \A x \in DOMAIN params : params[x] \in PlainParameters

Smaller(p, params) == {x \in DOMAIN params : Before(params[x], p)}
NotLarger(p, params) == {x \in DOMAIN params : ~Before(p, params[x])}

LEMMA PlaceCounts ==
  ASSUME NEW params, Sortable(params), NEW p
  PROVE  /\ Cardinality(Smaller(p, params)) \in Nat
         /\ IsFiniteSet(NotLarger(p, params)) /\ Cardinality(NotLarger(p, params)) \in Nat
<1>1. Smaller(p, params) \in SUBSET DOMAIN params /\ NotLarger(p, params) \in SUBSET DOMAIN params
  BY DEF Smaller, NotLarger
<1>2. QED
  BY <1>1, FS_Subset, FS_CardinalityType DEF Sortable

\* At most one parameter has the n-th place.
LEMMA OnePerPlace ==
  ASSUME NEW params, Sortable(params), NEW n \in Nat,
         NEW p \in PlainParameters, NEW q \in PlainParameters,
         HasPlace(p, n, params), HasPlace(q, n, params)
  PROVE  p = q
<1>1. ASSUME NEW a \in PlainParameters, NEW b \in PlainParameters, Before(a, b),
             HasPlace(a, n, params), HasPlace(b, n, params)
      PROVE  FALSE
  <2>1. NotLarger(a, params) \subseteq Smaller(b, params)
    <3> SUFFICES ASSUME NEW x \in DOMAIN params, ~Before(a, params[x])
                 PROVE  Before(params[x], b)
      BY DEF NotLarger, Smaller
    <3>1. params[x] \in PlainParameters
      BY DEF Sortable
    <3>2. QED
      BY <1>1, <3>1, BeforeOrders
  <2>2. IsFiniteSet(Smaller(b, params))
    <3>1. Smaller(b, params) \in SUBSET DOMAIN params
      BY DEF Smaller
    <3>2. QED
      BY <3>1, FS_Subset DEF Sortable
  <2>3. Cardinality(NotLarger(a, params)) <= Cardinality(Smaller(b, params))
    BY <2>1, <2>2, FS_Subset
  <2>4. /\ n <= Cardinality(NotLarger(a, params))
        /\ Cardinality(Smaller(b, params)) < n
    BY <1>1 DEF HasPlace, NotLarger, Smaller
  <2>5. QED
    BY <2>3, <2>4, PlaceCounts
<1>2. QED
  BY <1>1, BeforeOrders

\* Sorting puts every parameter at one place: the places of the result stand for those
\* of what is sorted.
LEMMA SortedArranges ==
  ASSUME NEW params, Sortable(params)
  PROVE  \E at \in Bijection(DOMAIN params, DOMAIN Sorted(params)) :
           \A x \in DOMAIN params : /\ Sorted(params)[at[x]] = params[x]
                                    /\ HasPlace(params[x], at[x], params)
<1> DEFINE D == DOMAIN params
           N == Cardinality(D)
<1>1. N \in Nat /\ ExistsBijection(1..N, D)
  BY FS_CardinalityType DEF Sortable
<1>2. PICK b : b \in Bijection(D, 1..N)
  BY <1>1, Fun_ExistsBijSymmetric, Fun_ExistsBij
<1>3. /\ \A x \in D : b[x] \in 1..N
      /\ \A x, y \in D : b[x] = b[y] => x = y
  <2> b \in [D -> 1..N] /\ IsInjective(b)
    BY <1>2 DEF Bijection, Injection
  <2> HIDE DEF D, N
  <2>1. QED
    BY DEF IsInjective
<1> DEFINE upTo(x) == {y \in D : Before(params[y], params[x]) \/ (params[y] = params[x] /\ b[y] <= b[x])}
           at == [x \in D |-> Cardinality(upTo(x))]
<1>4. ASSUME NEW x \in D
      PROVE  /\ IsFiniteSet(upTo(x)) /\ Cardinality(upTo(x)) \in 1..N
             /\ HasPlace(params[x], Cardinality(upTo(x)), params)
  <2>1. upTo(x) \in SUBSET D /\ x \in upTo(x)
    BY <1>3
  <2>2. IsFiniteSet(upTo(x)) /\ Cardinality(upTo(x)) <= N /\ Cardinality(upTo(x)) \in Nat
    BY <2>1, FS_Subset, FS_CardinalityType DEF Sortable
  <2>3. Cardinality(upTo(x)) # 0
    BY <2>1, <2>2, FS_EmptySet
  <2>4. Cardinality(Smaller(params[x], params)) < Cardinality(upTo(x))
    <3>1. Smaller(params[x], params) \in SUBSET upTo(x)
      BY DEF Smaller
    <3>2. x \notin Smaller(params[x], params)
      BY BeforeOrders DEF Smaller, Sortable
    <3>3. /\ Cardinality(Smaller(params[x], params)) <= Cardinality(upTo(x))
          /\ Cardinality(Smaller(params[x], params)) # Cardinality(upTo(x))
      BY <2>1, <2>2, <3>1, <3>2, FS_Subset
    <3>4. QED
      BY <2>2, <3>3, PlaceCounts
  <2>5. Cardinality(upTo(x)) <= Cardinality(NotLarger(params[x], params))
    <3>1. upTo(x) \in SUBSET NotLarger(params[x], params)
      <4> SUFFICES ASSUME NEW y \in D, Before(params[x], params[y]),
                          Before(params[y], params[x]) \/ params[y] = params[x]
                   PROVE  FALSE
        BY DEF NotLarger
      <4>1. QED
        BY BeforeOrders DEF Sortable
    <3>2. QED
      BY <3>1, PlaceCounts, FS_Subset
  <2> HIDE DEF upTo
  <2>6. HasPlace(params[x], Cardinality(upTo(x)), params)
    BY <2>4, <2>5 DEF HasPlace, Smaller, NotLarger
  <2>7. QED
    BY <2>2, <2>3, <2>6, <1>1
<1>5. ASSUME NEW x \in D, NEW y \in D, y \in upTo(x), x # y
      PROVE  Cardinality(upTo(y)) < Cardinality(upTo(x))
  <2>1. upTo(y) \in SUBSET upTo(x)
    <3> SUFFICES ASSUME NEW z \in D, Before(params[z], params[y]) \/ (params[z] = params[y] /\ b[z] <= b[y])
                 PROVE  Before(params[z], params[x]) \/ (params[z] = params[x] /\ b[z] <= b[x])
      OBVIOUS
    <3>1. params[x] \in PlainParameters /\ params[y] \in PlainParameters /\ params[z] \in PlainParameters
      BY DEF Sortable
    <3>2. /\ Before(params[z], params[y]) /\ Before(params[y], params[x]) => Before(params[z], params[x])
      BY <3>1, BeforeOrders
    <3>3. b[x] \in Nat /\ b[y] \in Nat /\ b[z] \in Nat
      BY <1>1, <1>3
    <3>4. Before(params[y], params[x]) \/ (params[y] = params[x] /\ b[y] <= b[x])
      BY <1>5
    <3>5. QED
      BY <3>2, <3>3, <3>4
  <2>2. x \notin upTo(y)
    <3> SUFFICES ASSUME Before(params[x], params[y]) \/ (params[x] = params[y] /\ b[x] <= b[y])
                 PROVE  FALSE
      OBVIOUS
    <3>1. params[x] \in PlainParameters /\ params[y] \in PlainParameters
      BY DEF Sortable
    <3>2. b[x] \in Nat /\ b[y] \in Nat /\ b[x] # b[y]
      BY <1>1, <1>3, <1>5
    <3>3. Before(params[y], params[x]) \/ (params[y] = params[x] /\ b[y] <= b[x])
      BY <1>5
    <3>4. ~(Before(params[x], params[y]) /\ Before(params[y], params[x]))
      BY <3>1, BeforeOrders
    <3>5. params[x] = params[y] => ~Before(params[x], params[y]) /\ ~Before(params[y], params[x])
      BY <3>1, BeforeOrders
    <3>6. QED
      BY <3>2, <3>3, <3>4, <3>5
  <2>3. x \in upTo(x)
    BY <1>1, <1>3
  <2> HIDE DEF upTo
  <2>4. /\ Cardinality(upTo(y)) <= Cardinality(upTo(x))
        /\ Cardinality(upTo(y)) # Cardinality(upTo(x))
    BY <1>4, <2>1, <2>2, <2>3, FS_Subset
  <2>5. QED
    BY <1>4, <2>4
<1>6. ASSUME NEW x \in D, NEW y \in D, Cardinality(upTo(x)) = Cardinality(upTo(y))
      PROVE  x = y
  <2>1. y \in upTo(x) \/ x \in upTo(y)
    <3>1. params[x] \in PlainParameters /\ params[y] \in PlainParameters
      BY DEF Sortable
    <3>2. b[x] \in Nat /\ b[y] \in Nat
      BY <1>1, <1>3
    <3>3. Before(params[x], params[y]) \/ Before(params[y], params[x]) \/ params[x] = params[y]
      BY <3>1, BeforeOrders
    <3>4. QED
      BY <3>2, <3>3
  <2> HIDE DEF upTo
  <2>2. QED
    BY <2>1, <1>4, <1>5, <1>6
<1> HIDE DEF upTo
<1>7. at \in Bijection(D, 1..N)
  <2>1. at \in [D -> 1..N] /\ \A x, y \in D : at[x] = at[y] => x = y
    BY <1>4, <1>6
  <2>2. at \in Injection(D, 1..N)
    BY <2>1 DEF Injection, IsInjective
  <2>3. IsFiniteSet(1..N) /\ Cardinality(1..N) = N
    BY <1>1, FS_Interval
  <2>4. at \in Surjection(D, 1..N)
    BY <2>2, <2>3, FS_Injection
  <2>5. QED
    BY <2>2, <2>4 DEF Bijection
<1>8. DOMAIN Sorted(params) = 1..N
  BY DEF Sorted
<1>9. ASSUME NEW x \in D
      PROVE  Sorted(params)[at[x]] = params[x] /\ HasPlace(params[x], at[x], params)
  <2>1. at[x] \in 1..N /\ at[x] \in Nat /\ HasPlace(params[x], at[x], params)
    BY <1>1, <1>4
  <2>2. params[x] \in Range(params) /\ params[x] \in PlainParameters
    BY DEF Range, Sortable
  <2>3. \A p \in Range(params) : HasPlace(p, at[x], params) => p = params[x]
    <3>1. \A p \in Range(params) : p \in PlainParameters
      BY DEF Range, Sortable
    <3> HIDE DEF at
    <3>2. QED
      BY <2>1, <2>2, <3>1, OnePerPlace
  <2>4. Sorted(params)[at[x]] = CHOOSE p \in Range(params) : HasPlace(p, at[x], params)
    BY <2>1 DEF Sorted
  <2>5. QED
    BY <2>1, <2>2, <2>3, <2>4
<1> HIDE DEF at
<1>10. QED
  BY <1>7, <1>8, <1>9

\* Sorting does not depend on where the parameters were.
LEMMA SortedSame ==
  ASSUME NEW f, NEW g, Sortable(f), Sortable(g),
         NEW m \in Bijection(DOMAIN f, DOMAIN g),
         \A x \in DOMAIN f : f[x] = g[m[x]]
  PROVE  Sorted(f) = Sorted(g)
<1>1. /\ m \in [DOMAIN f -> DOMAIN g]
      /\ \A x, y \in DOMAIN f : m[x] = m[y] => x = y
      /\ \A y \in DOMAIN g : \E x \in DOMAIN f : m[x] = y
  BY DEF Bijection, Injection, Surjection, IsInjective
<1>2. ASSUME NEW S \in SUBSET DOMAIN f, NEW T \in SUBSET DOMAIN g,
             \A x \in DOMAIN f : x \in S <=> m[x] \in T
      PROVE  Cardinality(S) = Cardinality(T)
  <2> DEFINE r == [x \in S |-> m[x]]
  <2>1. r \in Bijection(S, T)
    BY <1>1, <1>2 DEF Bijection, Injection, Surjection, IsInjective
  <2>2. QED
    BY <2>1, FS_Subset, FS_Bijection, Fun_ExistsBij DEF Sortable
<1>3. ASSUME NEW p PROVE Cardinality(Smaller(p, f)) = Cardinality(Smaller(p, g))
                         /\ Cardinality(NotLarger(p, f)) = Cardinality(NotLarger(p, g))
  <2>1. \A x \in DOMAIN f : x \in Smaller(p, f) <=> m[x] \in Smaller(p, g)
    BY <1>1 DEF Smaller
  <2>2. \A x \in DOMAIN f : x \in NotLarger(p, f) <=> m[x] \in NotLarger(p, g)
    BY <1>1 DEF NotLarger
  <2>3. /\ Smaller(p, f) \in SUBSET DOMAIN f /\ Smaller(p, g) \in SUBSET DOMAIN g
        /\ NotLarger(p, f) \in SUBSET DOMAIN f /\ NotLarger(p, g) \in SUBSET DOMAIN g
    BY DEF Smaller, NotLarger
  <2>4. QED
    BY <1>2, <2>1, <2>2, <2>3
<1>4. \A p, n : HasPlace(p, n, f) <=> HasPlace(p, n, g)
  BY <1>3 DEF HasPlace, Smaller, NotLarger
<1>5. Range(f) = Range(g)
  BY <1>1 DEF Range
<1>6. Cardinality(DOMAIN f) = Cardinality(DOMAIN g)
  BY <1>1, <1>2
<1>7. \A n : (CHOOSE p \in Range(f) : HasPlace(p, n, f)) = (CHOOSE p \in Range(g) : HasPlace(p, n, g))
  BY <1>4, <1>5, Zenon
<1>8. QED
  BY <1>6, <1>7 DEF Sorted

------------------------------------------------------------------------------
(* What is sorted: the parameters of a query, unquoted, without the tracking ones. *)

\* Of a parameter under one layer at most, unquote leaves plain ones.
LEMMA UnquotedIsPlain ==
  ASSUME NEW p \in Parameters, ~(p.layers > 1), NEW k \in DOMAIN Unquote(p)
  PROVE  k \in {1, 2} /\ Unquote(p)[k] \in PlainParameters
<1>1. CASE p.layers = 0
  <2>1. Unquote(p) = <<p>>
    BY <1>1 DEF Unquote
  <2>2. QED
    BY <1>1, <2>1 DEF PlainParameters
<1>2. CASE p.layers = 1
  <2>1. Unquote(p) = <<Plain(p.key, p.value), Plain(p.packed[1], p.packed[2])>>
    BY <1>2 DEF Unquote
  <2>2. p.key \in Range(KeyOrder) /\ p.value \in Nat
    BY DEF Parameters
  <2>3. p.packed \in Range(KeyOrder) \X Nat
    BY <1>2 DEF Parameters
  <2>4. \A key \in Range(KeyOrder), value \in Nat : Plain(key, value) \in PlainParameters
    BY DEF Plain, PlainParameters, Parameters
  <2>5. QED
    BY <2>1, <2>2, <2>3, <2>4
<1>3. p.layers \in Nat
  BY DEF Parameters
<1>4. QED
  BY <1>1, <1>2, <1>3

LEMMA CleanedSortable ==
  ASSUME NEW u, u.query \in Seq(Parameters), ~TwiceEscaped(u)
  PROVE  /\ Sortable(Cleaned(u.query))
         /\ \A x \in DOMAIN Cleaned(u.query) : Cleaned(u.query)[x].key \notin TRACKING_QUERY_PARAMS
<1> DEFINE query == u.query
           D == DOMAIN Cleaned(query)
<1>1. D \in SUBSET ((DOMAIN query) \X {1, 2})
  BY DEF Cleaned
<1>2. IsFiniteSet((DOMAIN query) \X {1, 2})
  <2>1. DOMAIN query = 1..Len(query) /\ Len(query) \in Nat
    OBVIOUS
  <2>2. IsFiniteSet(DOMAIN query)
    BY <2>1, FS_Interval
  <2>3. IsFiniteSet({1, 2})
    <3>1. IsFiniteSet({1} \cup {2})
      BY FS_Singleton, FS_Union
    <3>2. {1, 2} = {1} \cup {2}
      OBVIOUS
    <3>3. QED
      BY <3>1, <3>2
  <2>4. QED
    BY <2>2, <2>3, FS_Product
<1>3. ASSUME NEW x \in D
      PROVE  Cleaned(query)[x] \in PlainParameters /\ Cleaned(query)[x].key \notin TRACKING_QUERY_PARAMS
  <2>1. /\ x[1] \in DOMAIN query /\ x[2] \in DOMAIN Unquote(query[x[1]])
        /\ Cleaned(query)[x] = Unquote(query[x[1]])[x[2]]
        /\ Unquote(query[x[1]])[x[2]].key \notin TRACKING_QUERY_PARAMS
    BY DEF Cleaned
  <2>2. query[x[1]] \in Parameters /\ ~(query[x[1]].layers > 1)
    BY <2>1 DEF TwiceEscaped
  <2>3. QED
    BY <2>1, <2>2, UnquotedIsPlain
<1>4. QED
  BY <1>1, <1>2, <1>3, FS_Subset DEF Sortable

\* A query with nothing packed loses its tracking parameters only.
LEMMA CleanedPlain ==
  ASSUME NEW query, \A i \in DOMAIN query : query[i].layers = 0
  PROVE  /\ DOMAIN Cleaned(query) = Kept(query) \X {1}
         /\ \A i \in Kept(query) : Cleaned(query)[<<i, 1>>] = query[i]
<1>1. \A i \in DOMAIN query : Unquote(query[i]) = <<query[i]>>
  BY DEF Unquote
<1>2. \A i \in DOMAIN query : DOMAIN Unquote(query[i]) = {1} /\ Unquote(query[i])[1] = query[i]
  BY <1>1
<1>3. \A x \in (DOMAIN query) \X {1, 2} :
        x \in DOMAIN Cleaned(query) <=> x[2] = 1 /\ query[x[1]].key \notin TRACKING_QUERY_PARAMS
  BY <1>2 DEF Cleaned
<1>4. DOMAIN Cleaned(query) \subseteq (DOMAIN query) \X {1, 2}
  BY DEF Cleaned
<1>5. DOMAIN Cleaned(query) = Kept(query) \X {1}
  BY <1>3, <1>4 DEF Kept
<1>6. ASSUME NEW i \in Kept(query) PROVE Cleaned(query)[<<i, 1>>] = query[i]
  <2>1. <<i, 1>> \in DOMAIN Cleaned(query)
    BY <1>5
  <2>2. Cleaned(query)[<<i, 1>>] = Unquote(query[i])[1]
    BY <2>1 DEF Cleaned
  <2>3. QED
    BY <1>2, <2>2 DEF Kept
<1>7. QED
  BY <1>5, <1>6

\* Of a query with nothing packed only what is kept counts, and not its order.
LEMMA SortedKept ==
  ASSUME NEW f, Sortable(f), NEW query, \A i \in DOMAIN query : query[i].layers = 0,
         NEW m \in Bijection(DOMAIN f, Kept(query)),
         \A x \in DOMAIN f : f[x] = query[m[x]]
  PROVE  Sorted(Cleaned(query)) = Sorted(f)
<1> DEFINE g == Cleaned(query)
           r == [x \in DOMAIN f |-> <<m[x], 1>>]
<1>1. /\ DOMAIN g = Kept(query) \X {1}
      /\ \A i \in Kept(query) : g[<<i, 1>>] = query[i]
  BY CleanedPlain
<1>2. /\ m \in [DOMAIN f -> Kept(query)]
      /\ \A x, y \in DOMAIN f : m[x] = m[y] => x = y
      /\ \A i \in Kept(query) : \E x \in DOMAIN f : m[x] = i
  BY DEF Bijection, Injection, Surjection, IsInjective
<1> HIDE DEF g
<1>3. r \in Bijection(DOMAIN f, DOMAIN g)
  <2>1. r \in [DOMAIN f -> DOMAIN g]
    BY <1>1, <1>2
  <2>2. \A x, y \in DOMAIN f : r[x] = r[y] => x = y
    BY <1>2
  <2>3. \A z \in DOMAIN g : \E x \in DOMAIN f : r[x] = z
    BY <1>1, <1>2
  <2>4. QED
    BY <2>1, <2>2, <2>3 DEF Bijection, Injection, Surjection, IsInjective
<1>4. \A x \in DOMAIN f : f[x] = g[r[x]]
  BY <1>1, <1>2
<1>5. Sortable(g)
  <2>1. IsFiniteSet(DOMAIN g)
    BY <1>3, FS_Bijection, Fun_ExistsBij DEF Sortable
  <2>2. \A z \in DOMAIN g : \E x \in DOMAIN f : g[z] = f[x]
    BY <1>3, <1>4 DEF Bijection, Surjection
  <2>3. QED
    BY <2>1, <2>2 DEF Sortable
<1> HIDE DEF r
<1>6. Sorted(f) = Sorted(g)
  BY <1>3, <1>4, <1>5, SortedSame
<1>7. QED
  BY <1>6 DEF g

------------------------------------------------------------------------------
(* Normalization. *)

\* A URL that the program knows is normalized to a host, its path and a query.
LEMMA NormalizeKnown ==
  ASSUME NEW u
  PROVE  /\ Normalize(u) # NoUrl <=> u.host \in FACEBOOK_HOST_ALIASES
         /\ u.host \in FACEBOOK_HOST_ALIASES =>
              Normalize(u) = [host |-> "www.facebook.com", path |-> u.path, slash |-> FALSE,
                              query |-> Sorted(Cleaned(u.query))]
BY DEF Normalize, NoUrl, FACEBOOK_HOST_ALIASES

\* What is normalized has plain parameters, all kept, which stand for those that were
\* cleaned.
LEMMA NormalizedQuery ==
  ASSUME NEW u, u.query \in Seq(Parameters), ~TwiceEscaped(u)
  PROVE  LET params == Cleaned(u.query)
             query == Sorted(params)
         IN /\ Sortable(params)
            /\ \A n \in DOMAIN query : query[n].layers = 0
            /\ Kept(query) = DOMAIN query
            /\ \E at \in Bijection(DOMAIN params, DOMAIN query) :
                 \A x \in DOMAIN params : query[at[x]] = params[x]
<1> DEFINE params == Cleaned(u.query)
           query == Sorted(params)
<1>1. /\ Sortable(params)
      /\ \A x \in DOMAIN params : params[x].key \notin TRACKING_QUERY_PARAMS
  BY CleanedSortable
<1> HIDE DEF params
<1>2. PICK at \in Bijection(DOMAIN params, DOMAIN query) :
        \A x \in DOMAIN params : query[at[x]] = params[x]
  BY <1>1, SortedArranges
<1>3. \A n \in DOMAIN query : \E x \in DOMAIN params : query[n] = params[x]
  BY <1>2 DEF Bijection, Surjection
<1> HIDE DEF query
<1>4. ASSUME NEW n \in DOMAIN query
      PROVE  query[n].layers = 0 /\ query[n].key \notin TRACKING_QUERY_PARAMS
  BY <1>1, <1>3 DEF Sortable, PlainParameters
<1>5. Kept(query) = DOMAIN query
  BY <1>4 DEF Kept
<1>6. QED
  BY <1>1, <1>2, <1>4, <1>5 DEF params, query

\* Normalizing what is normalized changes nothing: strip_tracking_params finds nothing
\* left to strip, and what is stored can be looked up by normalizing it again.  A value
\* that is escaped twice is the exception.
THEOREM NormalizeSettles ==
  ASSUME NEW u, u.query \in Seq(Parameters), ~TwiceEscaped(u)
  PROVE  Normalize(Normalize(u)) = Normalize(u)
<1>1. CASE u.host \notin FACEBOOK_HOST_ALIASES
  BY <1>1 DEF Normalize, NoUrl, FACEBOOK_HOST_ALIASES
<1>2. CASE u.host \in FACEBOOK_HOST_ALIASES
  <2> DEFINE params == Cleaned(u.query)
             query == Sorted(params)
  <2>1. /\ Sortable(params) /\ Kept(query) = DOMAIN query
        /\ \A n \in DOMAIN query : query[n].layers = 0
    BY NormalizedQuery
  <2>2. PICK at \in Bijection(DOMAIN params, DOMAIN query) :
          \A x \in DOMAIN params : query[at[x]] = params[x]
    BY NormalizedQuery
  <2>3. Sorted(Cleaned(query)) = query
    <3> HIDE DEF params
    <3>1. at \in Bijection(DOMAIN params, Kept(query))
      BY <2>1, <2>2
    <3>2. \A x \in DOMAIN params : params[x] = query[at[x]]
      BY <2>2
    <3>3. Sorted(Cleaned(query)) = Sorted(params)
      <4> HIDE DEF query
      <4>1. QED
        BY <2>1, <3>1, <3>2, SortedKept
    <3>4. QED
      BY <3>3
  <2>4. /\ Normalize(u).host = "www.facebook.com" /\ Normalize(u).path = u.path
        /\ Normalize(u).query = query /\ Normalize(u).slash = FALSE
    BY <1>2, NormalizeKnown
  <2>5. Normalize(u).host \in FACEBOOK_HOST_ALIASES
    BY <2>4 DEF FACEBOOK_HOST_ALIASES
  <2> HIDE DEF query
  <2>6. Normalize(Normalize(u)) =
          [host |-> "www.facebook.com", path |-> u.path, slash |-> FALSE, query |-> query]
    BY <2>3, <2>4, <2>5, NormalizeKnown
  <2>7. Normalize(u) = [host |-> "www.facebook.com", path |-> u.path, slash |-> FALSE, query |-> query]
    BY <1>2, NormalizeKnown DEF query
  <2>8. QED
    BY <2>6, <2>7
<1>3. QED
  BY <1>1, <1>2

\* Two URLs of one page are normalized to one URL, in whatever order and with whatever
\* tracking parameters, final slash or host Facebook writes them.
THEOREM OneUrlPerPage ==
  ASSUME NEW u, u.query \in Seq(Parameters), ~TwiceEscaped(u),
         NEW v, Normalize(u) # NoUrl, SamePage(v, Normalize(u))
  PROVE  Normalize(v) = Normalize(u)
<1> DEFINE params == Cleaned(u.query)
           query == Sorted(params)
<1>1. /\ Sortable(params) /\ Kept(query) = DOMAIN query
      /\ \A n \in DOMAIN query : query[n].layers = 0
  BY NormalizedQuery
<1>2. PICK at \in Bijection(DOMAIN params, DOMAIN query) :
        \A x \in DOMAIN params : query[at[x]] = params[x]
  BY NormalizedQuery
<1>3. Normalize(u) = [host |-> "www.facebook.com", path |-> u.path, slash |-> FALSE, query |-> query]
  BY NormalizeKnown
<1> HIDE DEF query, params
<1>4. /\ v.host \in FACEBOOK_HOST_ALIASES /\ v.path = u.path
      /\ \A i \in DOMAIN v.query : v.query[i].layers = 0
      /\ \E same \in Bijection(Kept(v.query), Kept(query)) :
           \A i \in Kept(v.query) : v.query[i] = query[same[i]]
  BY <1>3 DEF SamePage
<1>5. PICK same \in Bijection(Kept(v.query), DOMAIN query) :
        \A i \in Kept(v.query) : v.query[i] = query[same[i]]
  BY <1>1, <1>4
<1> DEFINE back == Inverse(same, Kept(v.query), DOMAIN query)
           m == [x \in DOMAIN params |-> back[at[x]]]
<1>6. /\ back \in Bijection(DOMAIN query, Kept(v.query))
      /\ \A n \in DOMAIN query : same[back[n]] = n
  BY Fun_BijInverse
<1> HIDE DEF back
<1>7. m \in Bijection(DOMAIN params, Kept(v.query))
  BY <1>6, Fun_BijTransitive
<1>8. \A x \in DOMAIN params : params[x] = v.query[m[x]]
  <2> SUFFICES ASSUME NEW x \in DOMAIN params PROVE params[x] = v.query[m[x]]
    OBVIOUS
  <2>1. at[x] \in DOMAIN query /\ query[at[x]] = params[x]
    BY <1>2 DEF Bijection, Injection
  <2>2. back[at[x]] \in Kept(v.query) /\ same[back[at[x]]] = at[x]
    BY <1>6, <2>1 DEF Bijection, Injection
  <2>3. QED
    BY <1>5, <2>1, <2>2
<1> HIDE DEF m
<1>9. Sorted(Cleaned(v.query)) = Sorted(params)
  BY <1>1, <1>4, <1>7, <1>8, SortedKept
<1>10. QED
  BY <1>3, <1>4, <1>9, NormalizeKnown DEF query

------------------------------------------------------------------------------
(* Counts. *)

LEMMA LeastOfNaturals ==
  ASSUME NEW S \in SUBSET Nat, S # {}
  PROVE  Min(S) \in S /\ \A y \in S : Min(S) <= y
<1>1. PICK x \in S : \A y \in S : ~(<<y, x>> \in OpToRel(<, Nat))
  BY WFMin, NatLessThanWellFounded, Zenon
<1>2. \A y \in S : ~(y < x)
  BY <1>1, Zenon DEF OpToRel
<1>3. \A y \in S : x <= y
  BY <1>2
<1>4. QED
  BY <1>1, <1>3 DEF Min

\* One or two groups are read as one count, or as one less.
LEMMA CountOfToken ==
  ASSUME NEW groups \in Seq(Nat), Len(groups) \in {1, 2},
         NEW comma \in BOOLEAN, NEW unit, NEW gap
  PROVE  LET count == (Tenths(groups, comma) * Multiplier(unit, gap)) \div 10 IN
         /\ ParseCountToken(groups, comma, unit, gap) \subseteq Counts
         /\ ParseCountToken(groups, comma, unit, gap) # {}
         /\ ParseCountToken(groups, comma, unit, gap) \subseteq {count, count - 1}
<1> DEFINE count == (Tenths(groups, comma) * Multiplier(unit, gap)) \div 10
<1>1. Tenths(groups, comma) \in Nat
  <2>1. groups[1] \in Nat /\ (Len(groups) = 2 => groups[2] \in Nat)
    OBVIOUS
  <2>2. QED
    BY <2>1 DEF Tenths
<1>2. Multiplier(unit, gap) \in {1, 1000, 1000000}
  BY SMT DEF Multiplier
<1>3. count \in Nat
  <2> DEFINE t == Tenths(groups, comma)
  <2>1. t \in Nat
    BY <1>1
  <2> HIDE DEF t
  <2>2. /\ (t * 1) \div 10 \in Nat /\ (t * 1000) \div 10 \in Nat
        /\ (t * 1000000) \div 10 \in Nat
    BY <2>1, SMT
  <2>3. QED
    BY <1>2, <2>2, SMT DEF t
<1> HIDE DEF count
<1>4. \/ ParseCountToken(groups, comma, unit, gap) = {count}
      \/ count > 0 /\ ParseCountToken(groups, comma, unit, gap) = {count, count - 1}
  BY SMT DEF ParseCountToken, count
<1>5. count \in Counts /\ (count > 0 => count - 1 \in Counts)
  BY <1>3, SMT DEF Counts
<1> DEFINE counts == ParseCountToken(groups, comma, unit, gap)
<1>6. counts = {count} \/ (count > 0 /\ counts = {count, count - 1})
  BY <1>4
<1> HIDE DEF counts
<1>7. counts \subseteq Counts /\ counts # {} /\ counts \subseteq {count, count - 1}
  BY <1>5, <1>6
<1>8. QED
  BY <1>7, SMT DEF count, counts

\* The groups that the search finds of a number.
LEMMA LastGroupsOfNumber ==
  ASSUME NEW groups \in Seq(Nat) \ {<<>>}
  PROVE  /\ LastGroups(groups, 2) \in Seq(Nat) /\ Len(LastGroups(groups, 2)) \in {1, 2}
         /\ LastGroups(groups, 1) \in Seq(Nat) /\ Len(LastGroups(groups, 1)) = 1
         /\ Len(groups) <= 2 => LastGroups(groups, 2) = groups
<1>1. Len(groups) \in Nat /\ Len(groups) > 0
  BY EmptySeq
<1>2. \A i \in 1..Len(groups) : groups[i] \in Nat
  OBVIOUS
<1>3. ASSUME NEW n \in {1, 2}, Len(groups) > n
      PROVE  LastGroups(groups, n) \in Seq(Nat) /\ Len(LastGroups(groups, n)) = n
  <2> DEFINE first == Len(groups) - n + 1
  <2>1. first \in Int /\ Len(groups) \in Int /\ first >= 1 /\ Len(groups) - first + 1 = n
        /\ first <= Len(groups)
    BY <1>1, <1>3
  <2>2. LastGroups(groups, n) = SubSeq(groups, first, Len(groups))
    BY <1>3 DEF LastGroups
  <2> HIDE DEF first
  <2>3. \A i \in first..Len(groups) : groups[i] \in Nat
    BY <1>2, <2>1
  <2>4. QED
    BY <2>1, <2>2, <2>3, SubSeqProperties
<1>4. ASSUME NEW n \in {1, 2}, ~(Len(groups) > n)
      PROVE  LastGroups(groups, n) = groups
  <2>1. LastGroups(groups, n) = SubSeq(groups, 1, Len(groups))
    BY <1>4 DEF LastGroups
  <2>2. SubSeq(groups, 1, Len(groups)) = groups
    BY <1>1
  <2>3. QED
    BY <2>1, <2>2
<1>5. /\ LastGroups(groups, 2) \in Seq(Nat) /\ Len(LastGroups(groups, 2)) \in {1, 2}
      /\ Len(groups) <= 2 => LastGroups(groups, 2) = groups
  <2>1. CASE Len(groups) > 2
    BY <1>1, <1>3, <2>1
  <2>2. CASE ~(Len(groups) > 2)
    <3>1. LastGroups(groups, 2) = groups
      BY <1>4, <2>2
    <3>2. groups \in Seq(Nat) /\ Len(groups) \in {1, 2}
      <4> DEFINE n == Len(groups)
      <4>1. n \in Nat /\ n > 0 /\ ~(n > 2)
        BY <1>1, <2>2
      <4> HIDE DEF n
      <4>2. n \in {1, 2}
        BY <4>1
      <4>3. QED
        BY <4>2 DEF n
    <3>3. QED
      BY <3>1, <3>2
  <2>3. QED
    BY <2>1, <2>2
<1>6. LastGroups(groups, 1) \in Seq(Nat) /\ Len(LastGroups(groups, 1)) = 1
  <2>1. CASE Len(groups) > 1
    BY <1>1, <1>3, <2>1
  <2>2. CASE ~(Len(groups) > 1)
    <3>1. LastGroups(groups, 1) = groups
      BY <1>4, <2>2
    <3>2. groups \in Seq(Nat) /\ Len(groups) \in {1}
      <4> DEFINE n == Len(groups)
      <4>1. n \in Nat /\ n > 0 /\ ~(n > 1)
        BY <1>1, <2>2
      <4> HIDE DEF n
      <4>2. n \in {1}
        BY <4>1
      <4>3. QED
        BY <4>2 DEF n
    <3>3. QED
      BY <3>1, <3>2
  <2>3. QED
    BY <2>1, <2>2
<1>7. QED
  BY <1>5, <1>6

LEMMA FoundFirst ==
  ASSUME NEW noun, NEW text \in Seq(Mentions), Found(noun, text) # {}
  PROVE  LET m == text[Min(Found(noun, text))] IN
         /\ Min(Found(noun, text)) \in DOMAIN text
         /\ m \in Mentions /\ m.unit \in Units
         /\ Search(noun, text) = ParseCountToken(LastGroups(m.groups, 2), m.comma, m.unit, m.gap)
<1>1. Found(noun, text) \in SUBSET Nat
  BY DEF Found
<1>2. Min(Found(noun, text)) \in Found(noun, text)
  BY <1>1, LeastOfNaturals
<1>3. QED
  BY <1>2 DEF Found, Search

LEMMA SearchCounts ==
  ASSUME NEW noun, NEW text \in Seq(Mentions)
  PROVE  Search(noun, text) \subseteq Counts
<1>1. CASE Found(noun, text) = {}
  BY <1>1 DEF Search
<1>2. CASE Found(noun, text) # {}
  <2> DEFINE m == text[Min(Found(noun, text))]
  <2>1. /\ m \in Mentions
        /\ Search(noun, text) = ParseCountToken(LastGroups(m.groups, 2), m.comma, m.unit, m.gap)
    BY <1>2, FoundFirst
  <2> HIDE DEF m
  <2>2. m.groups \in Seq(Nat) \ {<<>>} /\ m.comma \in BOOLEAN
    BY <2>1 DEF Mentions
  <2>3. QED
    BY <2>1, <2>2, LastGroupsOfNumber, CountOfToken
<1>3. QED
  BY <1>1, <1>2

LEMMA LastTokenCounts ==
  ASSUME NEW text \in Seq(Mentions)
  PROVE  LastToken(text) \subseteq Counts
<1>1. CASE text = <<>>
  BY <1>1 DEF LastToken
<1>2. CASE text # <<>>
  <2> DEFINE m == Last(text)
             pair == Len(m.groups) % 2 = 0
             unit == IF m.unit \in {"milhao", "milhoes", "accented"} THEN "mil"
                     ELSE IF m.unit = "mi de" THEN "mi" ELSE m.unit
             groups == LastGroups(m.groups, IF pair THEN 2 ELSE 1)
  <2>1. m \in Mentions
    BY <1>2, EmptySeq DEF Last
  <2>2. LastToken(text) = ParseCountToken(groups, pair /\ m.comma, unit, m.gap)
    BY <1>2 DEF LastToken
  <2>3. m.groups \in Seq(Nat) \ {<<>>} /\ m.comma \in BOOLEAN
    BY <2>1 DEF Mentions
  <2> HIDE DEF m, unit
  <2>4. groups \in Seq(Nat) /\ Len(groups) \in {1, 2}
    BY <2>3, LastGroupsOfNumber
  <2>5. (pair /\ m.comma) \in BOOLEAN
    OBVIOUS
  <2> HIDE DEF groups, pair
  <2>6. QED
    BY <2>2, <2>4, <2>5, CountOfToken
<1>3. QED
  BY <1>1, <1>2

LEMMA FirstOfCounts ==
  ASSUME NEW sources \in Seq(SUBSET Counts)
  PROVE  FirstOf(sources) \subseteq Counts
<1> DEFINE some == {i \in DOMAIN sources : sources[i] # {}}
<1>1. some \in SUBSET Nat
  OBVIOUS
<1>2. CASE some = {}
  BY <1>2 DEF FirstOf, Counts
<1>3. CASE some # {}
  <2>1. Min(some) \in some
    BY <1>1, <1>3, LeastOfNaturals
  <2>2. FirstOf(sources) = sources[Min(some)]
    BY <1>3 DEF FirstOf
  <2>3. sources[Min(some)] \in SUBSET Counts
    <3>1. Min(some) \in DOMAIN sources
      BY <2>1
    <3> HIDE DEF some
    <3>2. QED
      BY <3>1
  <2>4. QED
    BY <2>2, <2>3
<1>4. QED
  BY <1>2, <1>3

\* The first source, if it gives a count.
LEMMA FirstOfFirst ==
  ASSUME NEW sources, 1 \in DOMAIN sources, DOMAIN sources \subseteq Nat \ {0}, sources[1] # {}
  PROVE  FirstOf(sources) = sources[1]
<1> DEFINE some == {i \in DOMAIN sources : sources[i] # {}}
<1>1. some \in SUBSET (Nat \ {0}) /\ 1 \in some
  OBVIOUS
<1>2. Min(some) \in some /\ Min(some) <= 1
  BY <1>1, LeastOfNaturals
<1>3. Min(some) = 1
  BY <1>1, <1>2
<1>4. QED
  BY <1>1, <1>3 DEF FirstOf

\* What the assumption says of a page.
LEMMA PageTexts ==
  ASSUME NEW page \in Pages
  PROVE  /\ page.text \in Seq(Mentions) /\ Scope(page) \in Seq(Mentions)
         /\ Engagement(page) \in Seq(Mentions)
         /\ \A i \in DOMAIN page.inner : Text(page, page.inner[i]) \in Seq(Mentions)
         /\ page.ownAction \in Seq(Seq(Mentions)) /\ page.otherAction \in Seq(Seq(Mentions))
<1> DEFINE parts == (1..(Len(page.text) + 1)) \X (0..Len(page.text))
<1>1. /\ page.text \in Seq(Mentions)
      /\ page.scope \in parts /\ page.inner \in Seq(parts) /\ page.elements \in Seq(parts)
      /\ page.ownAction \in Seq(Seq(Mentions)) /\ page.otherAction \in Seq(Seq(Mentions))
  BY FacebookEnrichSpiderAssumption
<1>2. \A part \in parts : Text(page, part) \in Seq(Mentions)
  <2> SUFFICES ASSUME NEW part \in parts PROVE Text(page, part) \in Seq(Mentions)
    OBVIOUS
  <2>1. part[1] \in 1..(Len(page.text) + 1) /\ part[2] \in 0..Len(page.text)
    OBVIOUS
  <2>2. SubSeq(page.text, part[1], part[2]) \in Seq(Mentions)
    BY <1>1, <2>1, SubSeqProperties
  <2>3. QED
    BY <2>2 DEF Text
<1>3. <<1, Len(page.text)>> \in parts
  BY <1>1
<1> HIDE DEF parts
<1>4. Candidates(page) \in Seq(parts)
  BY <1>1, <1>3 DEF Candidates
<1>5. Engagement(page) \in Seq(Mentions)
  <2>1. CASE Both(page) # {}
    <3>1. Both(page) \in SUBSET Nat
      BY <1>4 DEF Both
    <3>2. Min(Both(page)) \in Both(page)
      BY <2>1, <3>1, LeastOfNaturals
    <3>3. Min(Both(page)) \in DOMAIN Candidates(page)
      BY <3>2 DEF Both
    <3>4. Candidates(page)[Min(Both(page))] \in parts
      BY <1>4, <3>3
    <3>5. QED
      BY <1>2, <2>1, <3>4 DEF Engagement
  <2>2. CASE Both(page) = {}
    BY <1>1, <1>2, <2>2 DEF Engagement, Scope
  <2>3. QED
    BY <2>1, <2>2
<1>6. QED
  BY <1>1, <1>2, <1>5 DEF Scope

LEMMA CountsOfPage ==
  ASSUME NEW page \in Pages
  PROVE  CommentCount(page) \subseteq Counts /\ ViewCount(page) \subseteq Counts
<1>1. \A noun : /\ Search(noun, Engagement(page)) \in SUBSET Counts
                /\ Search(noun, Scope(page)) \in SUBSET Counts
                /\ Search(noun, page.text) \in SUBSET Counts
  BY PageTexts, SearchCounts
<1>2. \A texts \in Seq(Seq(Mentions)) : ActionCounts(texts) \in Seq(SUBSET Counts)
  <2> SUFFICES ASSUME NEW texts \in Seq(Seq(Mentions))
               PROVE  ActionCounts(texts) \in Seq(SUBSET Counts)
    OBVIOUS
  <2>1. ActionCounts(texts) \in [1..Len(texts) -> SUBSET Counts]
    BY LastTokenCounts DEF ActionCounts
  <2> DEFINE n == Len(texts)
             counts == ActionCounts(texts)
  <2>2. n \in Nat /\ counts \in [1..n -> SUBSET Counts]
    BY <2>1
  <2> HIDE DEF n, counts
  <2>3. counts \in Seq(SUBSET Counts)
    BY <2>2
  <2>4. QED
    BY <2>3 DEF counts
<1> DEFINE searched(noun) == <<Search(noun, Engagement(page)), Search(noun, Scope(page)),
                               Search(noun, page.text)>>
<1>3. \A noun : searched(noun) \in Seq(SUBSET Counts)
  BY <1>1
<1> HIDE DEF searched
<1>4. FirstOf(searched("visualiza")) \subseteq Counts
  BY <1>3, FirstOfCounts
<1>5. FirstOf(ActionCounts(page.ownAction) \o ActionCounts(page.otherAction) \o searched("coment"))
        \subseteq Counts
  <2>1. ActionCounts(page.ownAction) \in Seq(SUBSET Counts) /\ ActionCounts(page.otherAction) \in Seq(SUBSET Counts)
    BY <1>2, PageTexts
  <2>2. ActionCounts(page.ownAction) \o ActionCounts(page.otherAction) \o searched("coment") \in Seq(SUBSET Counts)
    BY <1>3, <2>1
  <2>3. QED
    BY <2>2, FirstOfCounts
<1>6. QED
  BY <1>4, <1>5 DEF CommentCount, ViewCount, searched

\* The count of a legible mention is what a reader understands.
LEMMA LegibleCount ==
  ASSUME NEW noun, NEW text \in Seq(Mentions), Found(noun, text) # {}, Legible(text)
  PROVE  Search(noun, text) # {} /\ Search(noun, text) \subseteq AsRead(text[Min(Found(noun, text))])
<1> DEFINE m == text[Min(Found(noun, text))]
<1>1. /\ m \in Mentions /\ m.unit \in Units
      /\ Search(noun, text) = ParseCountToken(LastGroups(m.groups, 2), m.comma, m.unit, m.gap)
      /\ Len(m.groups) <= 2 /\ (m.unit = "mi" => m.gap)
  BY FoundFirst DEF Legible
<1> HIDE DEF m
<1>2. m.groups \in Seq(Nat) \ {<<>>} /\ m.comma \in BOOLEAN
  BY <1>1 DEF Mentions
<1>3. /\ LastGroups(m.groups, 2) = m.groups
      /\ Len(m.groups) \in {1, 2}
  BY <1>1, <1>2, LastGroupsOfNumber
<1>4. Multiplier(m.unit, m.gap) = Thousands(m.unit)
  <2>1. m.unit \in {"", "mil", "mi", "milhao", "milhoes"}
    BY <1>1 DEF Units
  <2>2. m.gap \in BOOLEAN
    BY <1>1 DEF Mentions
  <2>3. ASSUME NEW gap \in BOOLEAN
        PROVE  /\ Multiplier("", gap) = Thousands("")
               /\ Multiplier("mil", gap) = Thousands("mil")
               /\ gap => Multiplier("mi", gap) = Thousands("mi")
               /\ Multiplier("milhao", gap) = Thousands("milhao")
               /\ Multiplier("milhoes", gap) = Thousands("milhoes")
    BY SMT DEF Multiplier, Thousands
  <2>4. QED
    BY <1>1, <2>1, <2>2, <2>3
<1>5. Search(noun, text) # {} /\ Search(noun, text) \subseteq AsRead(m)
  BY <1>1, <1>2, <1>3, <1>4, CountOfToken, SMT DEF AsRead
<1>6. QED
  BY <1>5 DEF m

\* Where the elements of two sequences are in their concatenation.
Joined(c, s, t) ==
  /\ DOMAIN c = 1..(Len(s) + Len(t))
  /\ \A i \in 1..Len(s) : c[i] = s[i]
  /\ \A i \in 1..Len(t) : c[Len(s) + i] = t[i]

LEMMA ConcatTwo ==
  ASSUME NEW S, NEW s \in Seq(S), NEW t \in Seq(S)
  PROVE  /\ s \o t \in Seq(S) /\ Len(s \o t) = Len(s) + Len(t)
         /\ Len(s) \in Nat /\ Len(t) \in Nat
         /\ Joined(s \o t, s, t)
<1>1. /\ s \o t \in Seq(S) /\ Len(s \o t) = Len(s) + Len(t)
      /\ Len(s) \in Nat /\ Len(t) \in Nat
  OBVIOUS
<1>2. DOMAIN (s \o t) = 1..(Len(s) + Len(t))
  BY <1>1
<1>3. \A i \in 1..Len(s) : (s \o t)[i] = s[i]
  OBVIOUS
<1>4. \A i \in 1..Len(t) : (s \o t)[Len(s) + i] = t[i]
  OBVIOUS
<1>5. QED
  BY <1>1, <1>2, <1>3, <1>4 DEF Joined

\* Two sequences and one element more.
JoinedThree(c, s, t, e) ==
  /\ DOMAIN c = 1..(Len(s) + Len(t) + 1)
  /\ \A i \in 1..Len(s) : c[i] = s[i]
  /\ \A i \in 1..Len(t) : c[Len(s) + i] = t[i]
  /\ c[Len(s) + Len(t) + 1] = e

LEMMA JoinTwice ==
  ASSUME NEW s, NEW t, NEW u, NEW w, NEW c, NEW e,
         Len(s) \in Nat, Len(t) \in Nat, Len(u) = Len(s) + Len(t), Len(w) = 1, w[1] = e,
         Joined(u, s, t), Joined(c, u, w)
  PROVE  JoinedThree(c, s, t, e)
<1>1. /\ DOMAIN c = 1..(Len(s) + Len(t) + 1)
      /\ \A i \in 1..(Len(s) + Len(t)) : c[i] = u[i]
      /\ c[Len(s) + Len(t) + 1] = e
  BY DEF Joined
<1>2. /\ \A i \in 1..Len(s) : c[i] = s[i]
      /\ \A i \in 1..Len(t) : c[Len(s) + i] = t[i]
  BY <1>1 DEF Joined
<1>3. QED
  BY <1>1, <1>2 DEF JoinedThree

LEMMA ConcatThree ==
  ASSUME NEW S, NEW s \in Seq(S), NEW t \in Seq(S), NEW e \in S
  PROVE  JoinedThree(s \o t \o <<e>>, s, t, e)
<1> DEFINE u == s \o t
           w == <<e>>
<1>1. w \in Seq(S) /\ Len(w) = 1 /\ w[1] = e
  OBVIOUS
<1>2. /\ u \in Seq(S) /\ Len(u) = Len(s) + Len(t) /\ Len(s) \in Nat /\ Len(t) \in Nat
      /\ Joined(u, s, t)
  BY ConcatTwo, Zenon
<1> HIDE DEF u, w
<1>3. Joined(u \o w, u, w)
  BY <1>1, <1>2, ConcatTwo, Zenon
<1>4. JoinedThree(u \o w, s, t, e)
  BY <1>1, <1>2, <1>3, JoinTwice, Zenon
<1>5. QED
  BY <1>4 DEF u, w

\* Where the engagement text is the post's own.
LEMMA EngagementOwn ==
  ASSUME NEW page \in Pages, NamesBoth(OwnText(page)),
         (\E i \in DOMAIN page.inner : NamesBoth(Text(page, page.inner[i]))) \/ Alone(page)
  PROVE  Engagement(page) = OwnText(page) /\ OwnText(page) \in Seq(Mentions)
<1> DEFINE parts == (1..(Len(page.text) + 1)) \X (0..Len(page.text))
           both == {i \in DOMAIN page.inner : NamesBoth(Text(page, page.inner[i]))}
           n == Len(page.inner)
           k == Len(page.elements)
<1>1. page.text \in Seq(Mentions) /\ page.inner \in Seq(parts) /\ page.elements \in Seq(parts)
  BY FacebookEnrichSpiderAssumption
<1>2. Text(page, <<1, Len(page.text)>>) = page.text
  BY <1>1 DEF Text
<1>3. <<1, Len(page.text)>> \in parts
  BY <1>1
<1> HIDE DEF parts
<1>4. /\ n \in Nat /\ k \in Nat /\ DOMAIN page.inner = 1..n /\ DOMAIN page.elements = 1..k
      /\ DOMAIN Candidates(page) = 1..(n + k + 1)
      /\ \A i \in 1..n : Candidates(page)[i] = page.inner[i]
      /\ \A i \in 1..k : Candidates(page)[n + i] = page.elements[i]
      /\ Candidates(page)[n + k + 1] = <<1, Len(page.text)>>
  <2>1. /\ n \in Nat /\ k \in Nat /\ DOMAIN page.inner = 1..n /\ DOMAIN page.elements = 1..k
    BY <1>1
  <2>2. QED
    <3> DEFINE whole == <<1, Len(page.text)>>
    <3>1. whole \in parts /\ page.inner \in Seq(parts) /\ page.elements \in Seq(parts)
      BY <1>1, <1>3
    <3>2. Candidates(page) = page.inner \o page.elements \o <<whole>>
      BY DEF Candidates
    <3> HIDE DEF whole
    <3>3. JoinedThree(Candidates(page), page.inner, page.elements, whole)
      BY <3>1, <3>2, ConcatThree, Zenon
    <3>4. QED
      BY <2>1, <3>3 DEF JoinedThree, whole
<1> HIDE DEF n, k
<1>5. Both(page) \in SUBSET Nat /\ both \subseteq Both(page)
  BY <1>4 DEF Both
<1>6. CASE both # {}
  <2>1. both \in SUBSET Nat
    BY <1>5
  <2>2. Min(both) \in both /\ \A i \in both : Min(both) <= i
    BY <1>6, <2>1, LeastOfNaturals
  <2>3. Min(Both(page)) \in Both(page) /\ \A i \in Both(page) : Min(Both(page)) <= i
    BY <1>5, <1>6, LeastOfNaturals
  <2>4. Min(both) \in 1..n /\ Min(Both(page)) \in Nat /\ Min(Both(page)) <= Min(both)
    BY <1>4, <1>5, <2>2, <2>3
  <2>5. Min(Both(page)) \in 1..n
    BY <1>4, <2>3, <2>4 DEF Both
  <2>6. Min(Both(page)) \in both
    BY <1>4, <2>3, <2>5 DEF Both
  <2>7. Min(both) = Min(Both(page))
    BY <2>2, <2>4, <2>6
  <2>8. OwnText(page) = Text(page, page.inner[Min(both)])
    BY <1>6 DEF OwnText
  <2>9. Engagement(page) = Text(page, Candidates(page)[Min(Both(page))])
    BY <1>5, <1>6 DEF Engagement
  <2>10. Engagement(page) = OwnText(page)
    BY <1>4, <2>4, <2>7, <2>8, <2>9
  <2>11. QED
    BY <2>10, PageTexts
<1>7. CASE both = {}
  <2>1. OwnText(page) = Scope(page) /\ Alone(page)
    BY <1>7 DEF OwnText
  <2>2. OwnText(page) = page.text
    BY <2>1 DEF Alone
  <2>3. ASSUME NEW i \in Both(page)
        PROVE  Text(page, Candidates(page)[i]) = page.text
    <3>1. i \in 1..(n + k + 1) /\ NamesBoth(Text(page, Candidates(page)[i]))
      BY <1>4 DEF Both
    <3>2. CASE i \in 1..n
      BY <1>4, <1>7, <3>1, <3>2
    <3>3. CASE i \in (n + 1)..(n + k)
      <4>1. PICK j \in 1..k : i = n + j
        <5>1. i - n \in 1..k /\ i = n + (i - n)
          BY <1>4, <3>3
        <5>2. QED
          BY <5>1
      <4>2. Candidates(page)[i] = page.elements[j]
        BY <1>4, <4>1
      <4>3. QED
        BY <1>4, <2>1, <3>1, <4>2 DEF Alone
    <3>4. CASE i = n + k + 1
      BY <1>2, <1>4, <3>4
    <3>5. QED
      BY <1>4, <3>1, <3>2, <3>3, <3>4
  <2>4. n + k + 1 \in Both(page)
    <3>1. n + k + 1 \in DOMAIN Candidates(page)
      BY <1>4
    <3>2. QED
      BY <1>2, <1>4, <2>2, <3>1 DEF Both
  <2>5. Min(Both(page)) \in Both(page)
    BY <1>5, <2>4, LeastOfNaturals
  <2>6. Engagement(page) = Text(page, Candidates(page)[Min(Both(page))])
    BY <2>4 DEF Engagement
  <2>7. QED
    BY <2>2, <2>3, <2>5, <2>6, PageTexts
<1>8. QED
  BY <1>6, <1>7

LEMMA OwnCountsOfPage ==
  ASSUME NEW page \in Pages, NamesBoth(OwnText(page)), Legible(OwnText(page)),
         (\E i \in DOMAIN page.inner : NamesBoth(Text(page, page.inner[i]))) \/ Alone(page)
  PROVE  /\ ViewCount(page) \subseteq AsRead(OwnText(page)[Min(Found("visualiza", OwnText(page)))])
         /\ (page.ownAction = <<>> /\ page.otherAction = <<>>) =>
              CommentCount(page) \subseteq AsRead(OwnText(page)[Min(Found("coment", OwnText(page)))])
<1> DEFINE text == OwnText(page)
<1>1. Engagement(page) = text /\ text \in Seq(Mentions) /\ NamesBoth(text) /\ Legible(text)
  BY EngagementOwn
<1> HIDE DEF text
<1>2. ASSUME NEW noun, Found(noun, text) # {}
      PROVE  /\ Search(noun, text) \subseteq AsRead(text[Min(Found(noun, text))])
             /\ FirstOf(<<Search(noun, text), Search(noun, Scope(page)), Search(noun, page.text)>>)
                  = Search(noun, text)
  <2>1. /\ Search(noun, text) # {}
        /\ Search(noun, text) \subseteq AsRead(text[Min(Found(noun, text))])
    BY <1>1, <1>2, LegibleCount
  <2> DEFINE sources == <<Search(noun, text), Search(noun, Scope(page)), Search(noun, page.text)>>
  <2>2. DOMAIN sources = 1..3 /\ sources[1] = Search(noun, text)
    OBVIOUS
  <2> HIDE DEF sources
  <2>3. FirstOf(sources) = sources[1]
    BY <2>1, <2>2, FirstOfFirst
  <2>4. QED
    BY <2>1, <2>2, <2>3 DEF sources
<1>3. ViewCount(page) \subseteq AsRead(text[Min(Found("visualiza", text))])
  BY <1>1, <1>2 DEF ViewCount, NamesBoth
<1>4. ASSUME page.ownAction = <<>>, page.otherAction = <<>>
      PROVE  CommentCount(page) \subseteq AsRead(text[Min(Found("coment", text))])
  <2> DEFINE sources == <<Search("coment", text), Search("coment", Scope(page)), Search("coment", page.text)>>
  <2>1. ActionCounts(<<>>) = <<>>
    BY DEF ActionCounts
  <2>2. ActionCounts(<<>>) \o ActionCounts(<<>>) \o sources = sources
    <3>1. sources \in Seq({Search("coment", text), Search("coment", Scope(page)), Search("coment", page.text)})
      OBVIOUS
    <3> HIDE DEF sources
    <3>2. QED
      BY <2>1, <3>1, EmptySeq, ConcatEmptySeq
  <2>3. CommentCount(page) = FirstOf(sources)
    BY <1>1, <1>4, <2>2 DEF CommentCount
  <2>4. QED
    BY <1>1, <1>2, <2>3 DEF NamesBoth
<1>5. QED
  BY <1>3, <1>4 DEF text

------------------------------------------------------------------------------
(* Dates. *)

LEMMA DaysOfMonth ==
  ASSUME NEW year \in Int
  PROVE  /\ DaysIn(2, year) \in {28, 29}
         /\ DaysIn(3, year) = 31 /\ DaysIn(4, year) = 30 /\ DaysIn(10, year) = 31
BY DEF DaysIn

\* Days by year, month and day, as PublishedInThePast numbers them.
DayNumber(d, m, y) == (y * 12 + m) * 31 + d

LEMMA DayNumbers ==
  ASSUME NEW y \in Int, NEW m \in 1..12, NEW d \in 1..31,
         NEW yy \in Int, NEW mm \in 1..12, NEW dd \in 1..31
  PROVE  /\ DayNumber(d, m, y) \in Int
         /\ y < yy => DayNumber(d, m, y) < DayNumber(dd, mm, yy)
         /\ m < mm => DayNumber(d, m, y) < DayNumber(dd, mm, y)
         /\ d < dd => DayNumber(d, m, y) < DayNumber(dd, m, y)
<1>1. /\ DayNumber(d, m, y) \in Int
      /\ m < mm => DayNumber(d, m, y) < DayNumber(dd, mm, y)
      /\ d < dd => DayNumber(d, m, y) < DayNumber(dd, m, y)
  BY DEF DayNumber
<1>2. ASSUME y < yy PROVE DayNumber(d, m, y) < DayNumber(dd, mm, yy)
  <2> DEFINE a == y * 12 + m
             b == yy * 12 + mm
  <2>1. a \in Int /\ b \in Int /\ a + 1 <= b
    BY <1>2
  <2> HIDE DEF a, b
  <2>2. a * 31 + d < b * 31 + dd
    BY <2>1
  <2>3. QED
    BY <2>2 DEF a, b, DayNumber
<1>3. QED
  BY <1>1, <1>2

\* The date that a day without year stands for: in a year that has it, up to today,
\* and today before the next such date.
LEMMA LatestYear ==
  ASSUME NEW now \in Today, NEW month \in {2, 3, 4, 10}, NEW day,
         InLatestYear(day, month, now) # NoDate, <<day, month>> # <<29, 2>>
  PROVE  LET year == InLatestYear(day, month, now).year
         IN /\ InLatestYear(day, month, now).day = day
            /\ InLatestYear(day, month, now).month = month
            /\ day \in 1..DaysIn(month, year)
            /\ DayNumber(day, month, year) <= DayNumber(now.day, now.month, now.year)
            /\ DayNumber(now.day, now.month, now.year) < DayNumber(day, month, year + 1)
<1>1. now.day \in 1..31 /\ now.month \in 1..12 /\ now.year \in Nat
  BY FacebookEnrichSpiderAssumption
<1> DEFINE year == IF Later(month, day, now) THEN now.year - 1 ELSE now.year
<1>2. day \in 1..DaysIn(month, now.year)
  BY DEF InLatestYear
<1>3. /\ InLatestYear(day, month, now).year = year
      /\ InLatestYear(day, month, now).day = day
      /\ InLatestYear(day, month, now).month = month
  BY <1>2 DEF InLatestYear
<1>4. year \in Int
  BY <1>1
<1>5. day \in 1..31 /\ (month = 2 => day <= 29)
  BY <1>1, <1>2, DaysOfMonth
<1>6. day \in 1..DaysIn(month, year)
  <2>1. CASE month = 2
    <3>1. day \in 1..28
      BY <1>5, <2>1
    <3>2. DaysIn(month, year) \in {28, 29}
      BY <1>4, <2>1, DaysOfMonth
    <3>3. QED
      BY <3>1, <3>2
  <2>2. CASE month # 2
    <3>1. DaysIn(month, year) = DaysIn(month, now.year)
      BY <1>1, <1>4, <2>2, DaysOfMonth
    <3>2. QED
      BY <1>2, <3>1
  <2>3. QED
    BY <2>1, <2>2
<1>7. /\ DayNumber(day, month, year) <= DayNumber(now.day, now.month, now.year)
      /\ DayNumber(now.day, now.month, now.year) < DayNumber(day, month, year + 1)
  <2>0. /\ now.year \in Int /\ now.month \in 1..12 /\ now.day \in 1..31
        /\ month \in 1..12 /\ day \in 1..31
    BY <1>1, <1>5
  <2>1. CASE Later(month, day, now)
    <3>1. year = now.year - 1
      BY <2>1
    <3>2. year \in Int /\ year < now.year /\ year + 1 = now.year
      BY <2>0, <3>1
    <3>3. month > now.month \/ (month = now.month /\ day > now.day)
      BY <2>1 DEF Later
    <3> HIDE DEF year
    <3>4. DayNumber(day, month, year) < DayNumber(now.day, now.month, now.year)
      BY <2>0, <3>2, DayNumbers, Zenon
    <3>5. DayNumber(now.day, now.month, now.year) < DayNumber(day, month, now.year)
      BY <2>0, <3>3, DayNumbers, Zenon
    <3>6. DayNumber(day, month, year) \in Int /\ DayNumber(now.day, now.month, now.year) \in Int
      BY <2>0, <3>2, DayNumbers, Zenon
    <3>7. QED
      BY <3>2, <3>4, <3>5, <3>6
  <2>2. CASE ~Later(month, day, now)
    <3>1. year = now.year
      BY <2>2
    <3>2. year \in Int /\ year + 1 \in Int /\ now.year < year + 1
      BY <2>0, <3>1
    <3>3. month < now.month \/ (month = now.month /\ (day < now.day \/ day = now.day))
      BY <2>0, <2>2 DEF Later
    <3> HIDE DEF year
    <3>4. DayNumber(now.day, now.month, now.year) < DayNumber(day, month, year + 1)
      BY <2>0, <3>2, DayNumbers, Zenon
    <3>5. \/ DayNumber(day, month, now.year) < DayNumber(now.day, now.month, now.year)
          \/ DayNumber(day, month, now.year) = DayNumber(now.day, now.month, now.year)
      BY <2>0, <3>3, DayNumbers, Zenon
    <3>6. DayNumber(day, month, now.year) \in Int /\ DayNumber(now.day, now.month, now.year) \in Int
      BY <2>0, DayNumbers, Zenon
    <3>7. QED
      BY <3>1, <3>4, <3>5, <3>6
  <2>3. QED
    BY <2>1, <2>2
<1> HIDE DEF year
<1>8. QED
  BY <1>3, <1>6, <1>7

LEMMA DateOfLabel ==
  ASSUME NEW now \in Today, NEW label, label.kind = "dateNoYear",
         ParsePublishedAt(label, now) # NoDate
  PROVE  \E month \in {2, 3, 4, 10} :
           ParsePublishedAt(label, now) = InLatestYear(label.day, month, now)
<1>1. label.month \in DOMAIN Months
  BY DEF ParsePublishedAt
<1>2. ParsePublishedAt(label, now) = InLatestYear(label.day, Months[label.month], now)
  BY <1>1 DEF ParsePublishedAt
<1>3. Months[label.month] \in {2, 3, 4, 10}
  BY <1>1 DEF Months
<1>4. QED
  BY <1>2, <1>3

------------------------------------------------------------------------------
(* The inductive invariant: the run keeps the arguments that the search stage made,
   its URL has a host, and the item is what the functions of the spider make of the
   URL, the link, the page and the clock. *)

TaskStored ==
  /\ task.found \in Results
  /\ Normalize(task.found) # NoUrl
  /\ task.url = Normalize(task.found)
  /\ task.category = Classify(StripTracking(task.url))

UrlKnown == "host" \in DOMAIN url /\ url.host # "none"

ItemMade ==
  /\ item.status \in {"none", "lost", "enriched"}
  /\ item.status = "enriched" =>
       /\ item.page \in Pages
       /\ item.now \in Today
       /\ item.url_normalized = Key(item.canonical)
       /\ item.category = DetectCategory(item.url_normalized)
       /\ item.comment_count \in CommentsRead(item.category, item.page)
       /\ item.view_count \in ViewsRead(item.category, item.page)
       /\ item.published_at = DateRead(item.category, item.page, item.now)

IInv ==
  /\ hops \in 0..MaxHops
  /\ TaskStored
  /\ UrlKnown
  /\ ItemMade

LEMMA InitIInv == Init => IInv
<1> SUFFICES ASSUME Init PROVE IInv
  OBVIOUS
<1>1. PICK found \in {u \in Results : Normalize(u) # NoUrl} :
        task = [found |-> found, url |-> Normalize(found),
                category |-> Classify(StripTracking(Normalize(found)))]
  BY DEF Init
<1>2. TaskStored
  BY <1>1 DEF TaskStored
<1>3. UrlKnown
  <2>1. url = Normalize(found) /\ found.host \in FACEBOOK_HOST_ALIASES
    BY <1>1, NormalizeKnown DEF Init
  <2>2. url = [host |-> "www.facebook.com", path |-> found.path, slash |-> FALSE,
               query |-> Sorted(Cleaned(found.query))]
    BY <2>1, NormalizeKnown
  <2>3. QED
    BY <2>2 DEF UrlKnown
<1>4. hops \in 0..MaxHops /\ item = NoItem
  BY FacebookEnrichSpiderAssumption DEF Init
<1>5. ItemMade
  BY <1>4 DEF ItemMade, NoItem
<1>6. QED
  BY <1>2, <1>3, <1>4, <1>5 DEF IInv

LEMMA NextIInv == IInv /\ [Next]_vars => IInv'
<1> SUFFICES ASSUME IInv, [Next]_vars PROVE IInv'
  OBVIOUS
<1>1. CASE Redirect
  <2>1. (hops \in 0..MaxHops)'
    BY <1>1, FacebookEnrichSpiderAssumption DEF IInv, Redirect
  <2>2. TaskStored'
    BY <1>1 DEF IInv, Redirect, TaskStored
  <2>3. UrlKnown'
    <3>1. "host" \in DOMAIN url /\ url.host # "none"
      BY DEF IInv, UrlKnown
    <3>2. url' \in Variants(url)
      BY <1>1 DEF Redirect
    <3>3. CASE \E h \in {"www.facebook.com", "m.facebook.com", "pt-br.facebook.com"} :
                 url' = [url EXCEPT !.host = h]
      BY <3>1, <3>3 DEF UrlKnown
    <3>4. CASE \E s : url' = [url EXCEPT !.slash = s]
      BY <3>1, <3>4 DEF UrlKnown
    <3>5. CASE \E q : url' = [url EXCEPT !.query = q]
      BY <3>1, <3>5 DEF UrlKnown
    <3>6. QED
      BY <3>2, <3>3, <3>4, <3>5 DEF Variants
  <2>4. ItemMade'
    BY <1>1 DEF Redirect, ItemMade, NoItem
  <2>5. QED
    BY <2>1, <2>2, <2>3, <2>4 DEF IInv
<1>2. CASE RequestFails
  <2>1. (hops \in 0..MaxHops /\ TaskStored /\ UrlKnown)'
    BY <1>2 DEF IInv, RequestFails, TaskStored, UrlKnown
  <2>2. ItemMade'
    BY <1>2 DEF RequestFails, ItemMade, LostItem
  <2>3. QED
    BY <2>1, <2>2 DEF IInv
<1>3. ASSUME NEW canonical \in Links, NEW page \in Pages, NEW now \in Today,
             ParseFacebook(canonical, page, now)
      PROVE  IInv'
  <2>1. (hops \in 0..MaxHops /\ TaskStored /\ UrlKnown)'
    BY <1>3 DEF IInv, ParseFacebook, TaskStored, UrlKnown
  <2> DEFINE category == DetectCategory(Key(canonical))
  <2>2. PICK comments \in CommentsRead(category, page), views \in ViewsRead(category, page) :
          item' = [status |-> "enriched",
                   canonical |-> canonical, page |-> page, now |-> now,
                   url_normalized |-> Key(canonical), category |-> category,
                   comment_count |-> comments, view_count |-> views,
                   published_at |-> DateRead(category, page, now)]
    BY <1>3 DEF ParseFacebook
  <2>3. url' = url
    BY <1>3 DEF ParseFacebook
  <2>4. /\ item'.status = "enriched" /\ item'.canonical = canonical /\ item'.page = page
        /\ item'.now = now /\ item'.url_normalized = Key(canonical)
        /\ item'.category = category
        /\ item'.comment_count = comments /\ item'.view_count = views
        /\ item'.published_at = DateRead(category, page, now)
    BY <2>2
  <2>5. Key(canonical)' = Key(canonical)
    BY <2>3 DEF Key
  <2>6. ItemMade'
    BY <2>4, <2>5 DEF ItemMade
  <2>7. QED
    BY <2>1, <2>6 DEF IInv
<1>4. CASE UNCHANGED vars
  BY <1>4 DEF IInv, TaskStored, UrlKnown, ItemMade, Key, vars
<1>5. QED
  BY <1>1, <1>2, <1>3, <1>4 DEF Next

THEOREM Invariance == Spec => []IInv
<1>1. QED
  BY InitIInv, NextIInv, PTL DEF Spec

LEMMA KeyIsUrl ==
  ASSUME UrlKnown, NEW canonical
  PROVE  Key(canonical) # NoUrl
<1>1. url # NoUrl
  BY DEF UrlKnown, NoUrl
<1>2. QED
  BY <1>1 DEF Key

LEMMA Category ==
  ASSUME NEW u
  PROVE  Classify(u) \in {"reel", "video", "post", "group", "event", "photo", "page"}
BY DEF Classify

THEOREM TypeCorrect == Spec => []TypeOK
<1>1. IInv => TypeOK
  <2> SUFFICES ASSUME IInv PROVE TypeOK
    OBVIOUS
  <2>1. task.url.host = "www.facebook.com"
    BY NormalizeKnown DEF IInv, TaskStored
  <2>2. ASSUME item.status = "enriched"
        PROVE  /\ item.comment_count \in Counts /\ item.view_count \in Counts
               /\ item.url_normalized # NoUrl
               /\ item.category \in {"reel", "video", "post", "group", "event", "photo", "page"}
    <3>1. item.comment_count \in Counts /\ item.view_count \in Counts
      BY <2>2, CountsOfPage DEF IInv, ItemMade, CommentsRead, ViewsRead, Counts
    <3>2. item.url_normalized # NoUrl
      BY <2>2, KeyIsUrl DEF IInv, ItemMade
    <3>3. item.category \in {"reel", "video", "post", "group", "event", "photo", "page"}
      BY <2>2, Category DEF IInv, ItemMade, DetectCategory
    <3>4. QED
      BY <3>1, <3>2, <3>3
  <2>3. QED
    BY <2>1, <2>2 DEF IInv, ItemMade, TypeOK
<1>2. QED
  BY <1>1, Invariance, PTL

THEOREM UrlKept == Spec => []RecordKeepsItsUrl
<1>1. IInv => RecordKeepsItsUrl
  <2> DEFINE source == IF item.canonical = NoUrl THEN url ELSE item.canonical
  <2> SUFFICES ASSUME IInv, item.status = "enriched", ~TwiceEscaped(task.found),
                      SamePage(source, task.url)
               PROVE  item.url_normalized = task.url /\ item.category = task.category
    BY DEF RecordKeepsItsUrl
  <2>1. /\ task.found.query \in Seq(Parameters)
        /\ Normalize(task.found) # NoUrl /\ task.url = Normalize(task.found)
        /\ task.category = Classify(StripTracking(task.url))
    BY FacebookEnrichSpiderAssumption DEF IInv, TaskStored
  <2>2. /\ item.url_normalized = Key(item.canonical)
        /\ item.category = DetectCategory(item.url_normalized)
    BY DEF IInv, ItemMade
  <2>3. Key(item.canonical) = IF Normalize(source) = NoUrl THEN url ELSE Normalize(source)
    BY DEF Key
  <2> HIDE DEF source
  <2>4. Normalize(source) = task.url
    BY <2>1, OneUrlPerPage
  <2>5. item.url_normalized = task.url
    BY <2>1, <2>2, <2>3, <2>4
  <2>6. StripTracking(task.url) = task.url
    BY <2>1, NormalizeSettles DEF StripTracking
  <2>7. QED
    BY <2>1, <2>2, <2>5, <2>6 DEF DetectCategory
<1>2. QED
  BY <1>1, Invariance, PTL

THEOREM CountsOwn == Spec => []OwnCounts
<1>1. IInv => OwnCounts
  <2> DEFINE page == item.page
             text == OwnText(page)
  <2> SUFFICES ASSUME IInv, item.status = "enriched", item.category # "page",
                      NamesBoth(text), Legible(text),
                      (\E i \in DOMAIN page.inner : NamesBoth(Text(page, page.inner[i]))) \/ Alone(page)
               PROVE  /\ item.view_count \in AsRead(text[Min(Found("visualiza", text))])
                      /\ (page.ownAction = <<>> /\ page.otherAction = <<>>) =>
                           item.comment_count \in AsRead(text[Min(Found("coment", text))])
    BY DEF OwnCounts
  <2>1. /\ page \in Pages
        /\ item.comment_count \in CommentCount(page)
        /\ item.view_count \in ViewCount(page)
    BY DEF IInv, ItemMade, CommentsRead, ViewsRead
  <2>2. QED
    BY <2>1, OwnCountsOfPage
<1>2. QED
  BY <1>1, Invariance, PTL

THEOREM DatesInThePast == Spec => []PublishedInThePast
<1>1. IInv => PublishedInThePast
  <2> DEFINE label == PublishedAtText(item.page.labels)
             date == item.published_at
  <2> SUFFICES ASSUME IInv, item.status = "enriched", label.kind = "dateNoYear", date # NoDate,
                      <<date.day, date.month>> # <<29, 2>>
               PROVE  /\ date.day \in 1..DaysIn(date.month, date.year)
                      /\ DayNumber(date.day, date.month, date.year)
                           <= DayNumber(item.now.day, item.now.month, item.now.year)
                      /\ DayNumber(item.now.day, item.now.month, item.now.year)
                           < DayNumber(date.day, date.month, date.year + 1)
    BY Zenon DEF PublishedInThePast, DayNumber
  <2>1. item.now \in Today /\ date = ParsePublishedAt(label, item.now)
    BY DEF IInv, ItemMade, DateRead
  <2> HIDE DEF label
  <2>2. PICK month \in {2, 3, 4, 10} : date = InLatestYear(label.day, month, item.now)
    BY <2>1, DateOfLabel
  <2>3. date.day = label.day /\ date.month = month
    BY <2>2 DEF InLatestYear
  <2> HIDE DEF date
  <2>4. <<label.day, month>> # <<29, 2>>
    BY <2>3
  <2>5. QED
    BY <2>1, <2>2, <2>3, <2>4, LatestYear
<1>2. QED
  BY <1>1, Invariance, PTL
================================================================================
