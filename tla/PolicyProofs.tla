---------------------------- MODULE PolicyProofs ----------------------------
(***************************************************************************)
(* Theorems about evaluate_policy in PolicyEngine, for every mandate, cart *)
(* and context, and about the mandates that Envelope makes of intents.     *)
(* The checks return early, one after the other; the proofs turn that into *)
(* what each decision means as a conjunction.                              *)
(***************************************************************************)
EXTENDS Envelope, FiniteSetTheorems, WellFoundedInduction, TLAPS

-----------------------------------------------------------------------------
(* The first reason *)

LEMMA LeastElement ==
  ASSUME NEW S, S \subseteq Nat, S # {}
  PROVE  \E m \in S : \A k \in S : m <= k
<1> DEFINE R == {ij \in Nat \X Nat : ij[1] < ij[2]}
<1>1. R = OpToRel(<, Nat)
  BY Zenon DEF OpToRel
<1>2. IsWellFoundedOn(R, Nat)
  BY <1>1, NatLessThanWellFounded, Zenon
<1> HIDE DEF R
<1>3. PICK m \in S : \A k \in S : ~(<<k, m>> \in R)
  BY <1>2, WFMin
<1>4. ASSUME NEW k \in S
      PROVE  m <= k
  <2>1. m \in Nat /\ k \in Nat
    OBVIOUS
  <2>2. k < m => <<k, m>> \in R
    BY <2>1 DEF R
  <2>3. ~(k < m)
    BY <1>3, <2>2
  <2>4. QED
    BY <2>1, <2>3
<1>5. QED
  BY <1>4

\* FirstReason is None if there is none, and otherwise one that only None precedes.
LEMMA FirstIsFirst ==
  ASSUME NEW s, DOMAIN s \subseteq Nat
  PROVE  \/ FirstReason(s) = None /\ \A i \in DOMAIN s : s[i] = None
         \/ /\ FirstReason(s) # None
            /\ \E i \in DOMAIN s : /\ FirstReason(s) = s[i]
                                   /\ \A k \in DOMAIN s : k < i => s[k] = None
<1> DEFINE given == {i \in DOMAIN s : s[i] # None}
<1>1. CASE given = {}
  BY <1>1 DEF FirstReason
<1>2. CASE given # {}
  <2>1. PICK i : i = CHOOSE j \in given : \A k \in given : j <= k
    OBVIOUS
  <2>2. i \in given /\ \A k \in given : i <= k
    <3>1. given \subseteq Nat
      OBVIOUS
    <3> HIDE DEF given
    <3>2. \E j \in given : \A k \in given : j <= k
      BY <1>2, <3>1, LeastElement
    <3>3. QED
      BY <2>1, <3>2
  <2>3. FirstReason(s) = s[i]
    BY <1>2, <2>1 DEF FirstReason
  <2>4. ASSUME NEW k \in DOMAIN s, k < i
        PROVE  s[k] = None
    <3>1. k \in Nat /\ i \in Nat
      BY <2>2
    <3>2. ~(i <= k)
      BY <2>4, <3>1
    <3>3. QED
      BY <2>2, <3>2
  <2>5. QED
    BY <2>2, <2>3, <2>4
<1>3. QED
  BY <1>1, <1>2

LEMMA FirstOfTwo ==
  ASSUME NEW a, NEW b
  PROVE  FirstReason(<<a, b>>) = IF a # None THEN a ELSE b
<1>1. DOMAIN <<a, b>> = {1, 2} /\ <<a, b>>[1] = a /\ <<a, b>>[2] = b
  OBVIOUS
<1>2. PICK s : s = <<a, b>>
  OBVIOUS
<1>3. DOMAIN s = {1, 2} /\ s[1] = a /\ s[2] = b
  BY <1>1, <1>2
<1>4. FirstReason(s) = IF a # None THEN a ELSE b
  BY <1>3, FirstIsFirst
<1>5. QED
  BY <1>2, <1>4

LEMMA FirstOfThree ==
  ASSUME NEW a, NEW b, NEW c
  PROVE  FirstReason(<<a, b, c>>) = IF a # None THEN a ELSE IF b # None THEN b ELSE c
<1>1. PICK s : s = <<a, b, c>>
  OBVIOUS
<1>2. DOMAIN s = {1, 2, 3} /\ s[1] = a /\ s[2] = b /\ s[3] = c
  BY <1>1
<1>3. FirstReason(s) = IF a # None THEN a ELSE IF b # None THEN b ELSE c
  BY <1>2, FirstIsFirst
<1>4. QED
  BY <1>1, <1>3

LEMMA FirstOfFour ==
  ASSUME NEW a, NEW b, NEW c, NEW d
  PROVE  FirstReason(<<a, b, c, d>>)
           = IF a # None THEN a ELSE IF b # None THEN b ELSE IF c # None THEN c ELSE d
<1>1. PICK s : s = <<a, b, c, d>>
  OBVIOUS
<1>2. DOMAIN s = {1, 2, 3, 4} /\ s[1] = a /\ s[2] = b /\ s[3] = c /\ s[4] = d
  BY <1>1
<1>3. FirstReason(s)
        = IF a # None THEN a ELSE IF b # None THEN b ELSE IF c # None THEN c ELSE d
  BY <1>2, FirstIsFirst
<1>4. QED
  BY <1>1, <1>3

LEMMA FirstOfFive ==
  ASSUME NEW a, NEW b, NEW c, NEW d, NEW e
  PROVE  FirstReason(<<a, b, c, d, e>>)
           = IF a # None THEN a ELSE IF b # None THEN b ELSE IF c # None THEN c
             ELSE IF d # None THEN d ELSE e
<1>1. PICK s : s = <<a, b, c, d, e>>
  OBVIOUS
<1>2. /\ DOMAIN s = {1, 2, 3, 4, 5}
      /\ s[1] = a /\ s[2] = b /\ s[3] = c /\ s[4] = d /\ s[5] = e
  BY <1>1
<1>3. FirstReason(s)
        = IF a # None THEN a ELSE IF b # None THEN b ELSE IF c # None THEN c
          ELSE IF d # None THEN d ELSE e
  BY <1>2, FirstIsFirst
<1>4. QED
  BY <1>1, <1>3

-----------------------------------------------------------------------------
(* What each decision means *)

\* All the checks need of a mandate's type.
Numeric(m) == /\ m.issued \in Int /\ m.expires \in Int /\ m.maxTx \in Int
              /\ m.maxTotal \in Int /\ m.maxItems \in Int
              /\ m.maxUnitPrice \in Int \cup {None}

\* The checks before the limits pass.
Standing(m, c, x) ==
    /\ m.genuine /\ x.now <= m.expires /\ x.now >= m.issued
    /\ c.currency = m.currency /\ Listed(c.merchant, m.merchants)

Usable(m, x) == ~x.replay /\ m.maxTx > 0 /\ x.used < m.maxTx

Passes(m, item) ==
    /\ item.sku \notin m.forbidden
    /\ Listed(item.sku, m.skus) \/ Substitution(m, item)
    /\ item.sku \in TipSkus => m.tips
    /\ m.maxUnitPrice # None => item.price <= m.maxUnitPrice

ItemsPass(m, c) == \A i \in DOMAIN c.items : Passes(m, c.items[i])

Proper(m, c) == /\ ~Malformed(c)
                /\ m.maxTotal = 0 => c.total <= 0
                /\ ItemsPass(m, c)

Acceptable(m, c, x) ==
    /\ Standing(m, c, x) /\ Usable(m, x) /\ Proper(m, c)
    /\ Quantity(c) <= m.maxItems

LEMMA ItemReasons ==
  ASSUME NEW m, Numeric(m), NEW item \in ItemType
  PROVE  /\ ItemReason(m, item) \in (Reasons \ {"MAX_TOTAL_EXCEEDED"}) \cup {None}
         /\ ItemReason(m, item) = None <=> Passes(m, item)
<1>1. None \notin Reasons /\ item.price \in Int
  BY NoneAssumption DEF ItemType
<1>2. m.maxUnitPrice # None => m.maxUnitPrice \in Int
  BY DEF Numeric
<1>3. QED
  BY <1>1, <1>2 DEF ItemReason, Reasons, Passes

LEMMA ItemLoopMeaning ==
  ASSUME NEW m, Numeric(m), NEW c \in CartType
  PROVE  /\ ItemLoop(m, c) \in (Reasons \ {"MAX_TOTAL_EXCEEDED"}) \cup {None}
         /\ ItemLoop(m, c) = None <=> ItemsPass(m, c)
<1>1. PICK s : s = [i \in DOMAIN c.items |-> ItemReason(m, c.items[i])]
  OBVIOUS
<1>2. DOMAIN c.items \subseteq Nat /\ \A i \in DOMAIN c.items : c.items[i] \in ItemType
  <2>1. c.items \in Seq(ItemType)
    BY DEF CartType
  <2>2. QED
    BY <2>1
<1>3. ItemLoop(m, c) = FirstReason(s)
  BY <1>1 DEF ItemLoop
<1>4. DOMAIN s = DOMAIN c.items /\ \A i \in DOMAIN s : s[i] = ItemReason(m, c.items[i])
  BY <1>1
<1>5. \/ FirstReason(s) = None /\ \A i \in DOMAIN s : s[i] = None
      \/ FirstReason(s) # None /\ \E i \in DOMAIN s : FirstReason(s) = s[i]
  BY <1>2, <1>4, FirstIsFirst
<1>6. QED
  BY <1>2, <1>3, <1>4, <1>5, ItemReasons DEF ItemsPass

LEMMA StandingMeaning ==
  ASSUME NEW m, Numeric(m), NEW c \in CartType, NEW x \in ContextType
  PROVE  /\ FirstReason(StandingChecks(m, c, x)) # "MAX_TOTAL_EXCEEDED"
         /\ FirstReason(StandingChecks(m, c, x)) = None <=> Standing(m, c, x)
<1>1. None \notin Reasons /\ m.expires \in Int /\ m.issued \in Int /\ x.now \in Int
  BY NoneAssumption DEF Numeric, ContextType
<1>2. PICK r : r = FirstReason(StandingChecks(m, c, x))
  OBVIOUS
<1>3. r = LET a == When(~m.genuine, "SIGNATURE_INVALID")
              b == When(x.now > m.expires, "MANDATE_EXPIRED")
              d == When(x.now < m.issued, "NOT_YET_VALID")
              e == When(c.currency # m.currency, "CURRENCY_MISMATCH")
              f == When(~Listed(c.merchant, m.merchants), "MERCHANT_NOT_ALLOWED") IN
          IF a # None THEN a ELSE IF b # None THEN b ELSE IF d # None THEN d
          ELSE IF e # None THEN e ELSE f
  BY <1>2, FirstOfFive DEF StandingChecks
<1>4. r # "MAX_TOTAL_EXCEEDED" /\ (r = None <=> Standing(m, c, x))
  BY <1>1, <1>3 DEF When, Standing, Reasons
<1>5. QED
  BY <1>2, <1>4

LEMMA UseMeaning ==
  ASSUME NEW m, Numeric(m), NEW x \in ContextType
  PROVE  /\ FirstReason(UseChecks(m, x)) # "MAX_TOTAL_EXCEEDED"
         /\ FirstReason(UseChecks(m, x)) = None <=> Usable(m, x)
<1>1. None \notin Reasons /\ m.maxTx \in Int /\ x.used \in Nat
  BY NoneAssumption DEF Numeric, ContextType
<1>2. PICK r : r = FirstReason(UseChecks(m, x))
  OBVIOUS
<1>3. r = LET a == When(x.replay, "NONCE_ALREADY_USED")
              b == When(m.maxTx <= 0 \/ x.used >= m.maxTx, "MANDATE_EXHAUSTED") IN
          IF a # None THEN a ELSE b
  BY <1>2, FirstOfTwo DEF UseChecks
<1>4. r # "MAX_TOTAL_EXCEEDED" /\ (r = None <=> Usable(m, x))
  BY <1>1, <1>3 DEF When, Usable, Reasons
<1>5. QED
  BY <1>2, <1>4

LEMMA CartMeaning ==
  ASSUME NEW m, Numeric(m), NEW c \in CartType
  PROVE  /\ FirstReason(CartChecks(m, c)) # "MAX_TOTAL_EXCEEDED"
         /\ FirstReason(CartChecks(m, c)) = None <=> Proper(m, c)
<1>1. None \notin Reasons /\ c.total \in Int
  BY NoneAssumption DEF CartType
<1>2. PICK r : r = FirstReason(CartChecks(m, c))
  OBVIOUS
<1>3. r = LET a == When(Malformed(c), "MALFORMED_CART")
              b == When(m.maxTotal = 0 /\ c.total > 0, "ZERO_BUDGET") IN
          IF a # None THEN a ELSE IF b # None THEN b ELSE ItemLoop(m, c)
  BY <1>2, FirstOfThree DEF CartChecks
<1>4. /\ ItemLoop(m, c) # "MAX_TOTAL_EXCEEDED"
      /\ ItemLoop(m, c) = None <=> ItemsPass(m, c)
  BY <1>1, ItemLoopMeaning DEF Reasons
<1>5. r # "MAX_TOTAL_EXCEEDED" /\ (r = None <=> Proper(m, c))
  BY <1>1, <1>3, <1>4 DEF When, Proper, Reasons
<1>6. QED
  BY <1>2, <1>5

-----------------------------------------------------------------------------
(* The quantity of a cart *)

One(s) == CHOOSE x \in s : TRUE

\* The equation of a fold that adds q over a set, one element at a time.
Sums(f, q, d) ==
    f = [s \in d |-> IF s = {} THEN 0 ELSE q[One(s)] + f[s \ {One(s)}]]

Sized(d, n) == {s \in SUBSET d : Cardinality(s) <= n}

LEMMA SumsGrow ==
  ASSUME NEW d, IsFiniteSet(d), NEW q, \A x \in d : q[x] \in Int,
         NEW n \in Nat,
         NEW f \in [Sized(d, n) -> Int], Sums(f, q, Sized(d, n))
  PROVE  \E g \in [Sized(d, n + 1) -> Int] : Sums(g, q, Sized(d, n + 1))
<1> DEFINE low == Sized(d, n)
           high == Sized(d, n + 1)
           Next1(s) == IF s = {} THEN 0 ELSE q[One(s)] + f[s \ {One(s)}]
<1>1. PICK g : g = [s \in high |-> Next1(s)]
  OBVIOUS
<1>2. ASSUME NEW s \in high
      PROVE  /\ s # {} => One(s) \in s /\ One(s) \in d /\ s \ {One(s)} \in low
             /\ IsFiniteSet(s) /\ Cardinality(s) \in Nat
  <2>1. s \subseteq d /\ Cardinality(s) <= n + 1
    BY DEF Sized
  <2>2. IsFiniteSet(s) /\ Cardinality(s) \in Nat
    BY <2>1, FS_Subset, FS_CardinalityType
  <2>3. ASSUME s # {}
        PROVE  One(s) \in s /\ One(s) \in d /\ s \ {One(s)} \in low
    <3>1. One(s) \in s
      BY <2>3 DEF One
    <3>2. Cardinality(s \ {One(s)}) = Cardinality(s) - 1
      BY <3>1, <2>2, FS_RemoveElement
    <3>3. Cardinality(s \ {One(s)}) <= n
      BY <3>2, <2>1, <2>2
    <3>4. QED
      BY <3>1, <3>3, <2>1 DEF Sized
  <2>4. QED
    BY <2>2, <2>3
<1>3. low \subseteq high
  <2>1. ASSUME NEW s \in low
        PROVE  s \in high
    <3>1. s \subseteq d /\ Cardinality(s) <= n
      BY DEF Sized
    <3>2. Cardinality(s) \in Nat
      BY <3>1, FS_Subset, FS_CardinalityType
    <3>3. Cardinality(s) <= n + 1
      BY <3>1, <3>2
    <3>4. QED
      BY <3>1, <3>3 DEF Sized
  <2>2. QED
    BY <2>1
<1> HIDE DEF low, high
<1>4. f \in [low -> Int]
  BY DEF low
<1>5. \A s \in low : f[s] = Next1(s)
  <2>1. f = [s \in low |-> Next1(s)]
    BY DEF low, Sums
  <2>2. QED
    BY <2>1
<1>6. \A s \in low : g[s] = f[s]
  BY <1>1, <1>3, <1>5
<1>7. ASSUME NEW s \in high
      PROVE  /\ Next1(s) \in Int
             /\ Next1(s) = IF s = {} THEN 0 ELSE q[One(s)] + g[s \ {One(s)}]
  <2>1. CASE s = {}
    BY <2>1
  <2>2. CASE s # {}
    <3>1. One(s) \in d /\ s \ {One(s)} \in low
      BY <1>2, <2>2
    <3>2. q[One(s)] \in Int /\ f[s \ {One(s)}] \in Int
      BY <1>4, <3>1
    <3>3. g[s \ {One(s)}] = f[s \ {One(s)}]
      BY <1>6, <3>1
    <3>4. QED
      BY <2>2, <3>2, <3>3
  <2>3. QED
    BY <2>1, <2>2
<1>8. g \in [high -> Int]
  BY <1>1, <1>7
<1>9. g = [s \in high |-> IF s = {} THEN 0 ELSE q[One(s)] + g[s \ {One(s)}]]
  BY <1>1, <1>7
<1>10. QED
  BY <1>8, <1>9 DEF Sums, high

LEMMA SumsExist ==
  ASSUME NEW d, IsFiniteSet(d), NEW q, \A x \in d : q[x] \in Int
  PROVE  \E f \in [SUBSET d -> Int] : Sums(f, q, SUBSET d)
<1> DEFINE Has(n) == \E f \in [Sized(d, n) -> Int] : Sums(f, q, Sized(d, n))
           Bad == {n \in Nat : ~Has(n)}
<1>1. Has(0)
  <2>1. Sized(d, 0) = {{}}
    <3>1. ASSUME NEW s \in SUBSET d
          PROVE  Cardinality(s) <= 0 <=> s = {}
      <4>1. IsFiniteSet(s) /\ Cardinality(s) \in Nat
        BY FS_Subset, FS_CardinalityType
      <4>2. Cardinality(s) = 0 <=> s = {}
        BY <4>1, FS_EmptySet
      <4>3. QED
        BY <4>1, <4>2
    <3>2. QED
      BY <3>1 DEF Sized
  <2>2. PICK f : f = [s \in {{}} |-> 0]
    OBVIOUS
  <2>3. f \in [{{}} -> Int]
    BY <2>2
  <2>4. Sums(f, q, {{}})
    BY <2>2 DEF Sums
  <2>5. QED
    BY <2>1, <2>3, <2>4
<1>2. ASSUME NEW n \in Nat, Has(n)
      PROVE  Has(n + 1)
  BY <1>2, SumsGrow
<1>3. Bad = {}
  <2>1. SUFFICES ASSUME Bad # {}
                 PROVE  FALSE
    OBVIOUS
  <2>2. Bad \subseteq Nat
    OBVIOUS
  <2> HIDE DEF Has
  <2>3. PICK n \in Bad : \A k \in Bad : n <= k
    <3> HIDE DEF Bad
    <3>1. QED
      BY <2>1, <2>2, LeastElement
  <2>4. n \in Nat /\ ~Has(n) /\ n # 0
    BY <1>1, <2>3
  <2>5. n - 1 \in Nat /\ n - 1 < n
    BY <2>4
  <2>6. Has(n - 1)
    BY <2>3, <2>5
  <2>7. Has((n - 1) + 1)
    BY <2>5, <2>6, <1>2
  <2>8. (n - 1) + 1 = n
    BY <2>4
  <2>9. QED
    BY <2>4, <2>7, <2>8
<1>4. Cardinality(d) \in Nat
  BY FS_CardinalityType
<1>5. Has(Cardinality(d))
  <2> HIDE DEF Has
  <2>1. QED
    BY <1>3, <1>4
<1>6. Sized(d, Cardinality(d)) = SUBSET d
  <2>1. \A s \in SUBSET d : Cardinality(s) <= Cardinality(d)
    BY FS_Subset
  <2>2. QED
    BY <2>1 DEF Sized
<1>7. QED
  BY <1>5, <1>6

SumsOver(f, q, d) == Sums(f, q, SUBSET d)

LEMMA SmallestSet ==
  ASSUME NEW d, IsFiniteSet(d), NEW B, B \subseteq SUBSET d, B # {}
  PROVE  \E s \in B : \A r \in SUBSET d :
            (\E x \in s : r = s \ {x}) => r \notin B
<1> DEFINE sizes == {Cardinality(s) : s \in B}
<1>1. \A s \in SUBSET d : IsFiniteSet(s) /\ Cardinality(s) \in Nat
  BY FS_Subset, FS_CardinalityType
<1>2. sizes \subseteq Nat /\ sizes # {}
  BY <1>1
<1>3. PICK n \in sizes : \A k \in sizes : n <= k
  <2> HIDE DEF sizes
  <2>1. QED
    BY <1>2, LeastElement
<1>4. PICK s \in B : n = Cardinality(s)
  OBVIOUS
<1>5. ASSUME NEW x \in s, NEW r, r = s \ {x}, r \in B
      PROVE  FALSE
  <2>1. Cardinality(r) = Cardinality(s) - 1 /\ Cardinality(s) \in Nat
    BY <1>1, <1>5, FS_RemoveElement
  <2>2. n <= Cardinality(r)
    BY <1>3, <1>5
  <2>3. QED
    BY <1>4, <2>1, <2>2
<1>6. QED
  BY <1>5

LEMMA SumsEquation ==
  ASSUME NEW d, NEW q, NEW f, SumsOver(f, q, d), NEW s \in SUBSET d
  PROVE  /\ s = {} => f[s] = 0
         /\ s # {} => /\ One(s) \in s
                      /\ f[s] = q[One(s)] + f[s \ {One(s)}]
<1>1. f[s] = IF s = {} THEN 0 ELSE q[One(s)] + f[s \ {One(s)}]
  BY DEF Sums, SumsOver
<1>2. s # {} => One(s) \in s
  BY DEF One
<1>3. QED
  BY <1>1, <1>2

LEMMA SumsTypes ==
  ASSUME NEW d, IsFiniteSet(d), NEW q, \A x \in d : q[x] \in Int,
         NEW f, SumsOver(f, q, d)
  PROVE  \A s \in SUBSET d : f[s] \in Int
<1> DEFINE B == {s \in SUBSET d : f[s] \notin Int}
<1>1. SUFFICES ASSUME B # {}
               PROVE  FALSE
  OBVIOUS
<1>2. PICK s \in B : \A r \in SUBSET d : (\E x \in s : r = s \ {x}) => r \notin B
  <2>1. B \subseteq SUBSET d
    OBVIOUS
  <2> HIDE DEF B
  <2>2. IsFiniteSet(d) /\ B \subseteq SUBSET d /\ B # {}
    BY <1>1, <2>1
  <2>3. QED
    BY ONLY <2>2, SmallestSet, SMTT(30)
<1>3. s \in SUBSET d /\ f[s] \notin Int
  OBVIOUS
<1> HIDE DEF B
<1>4. s # {} /\ One(s) \in s /\ f[s] = q[One(s)] + f[s \ {One(s)}]
  <2>1. /\ s = {} => f[s] = 0
        /\ s # {} => One(s) \in s /\ f[s] = q[One(s)] + f[s \ {One(s)}]
    BY <1>3, SumsEquation
  <2>2. f[s] # 0
    BY <1>3
  <2>3. QED
    BY <2>1, <2>2
<1>5. PICK r : r = s \ {One(s)}
  OBVIOUS
<1>6. f[r] \in Int
  <2>1. r \in SUBSET d /\ r \notin B
    BY <1>2, <1>3, <1>4, <1>5
  <2>2. QED
    BY <2>1 DEF B
<1>7. q[One(s)] \in Int
  BY <1>3, <1>4
<1>8. QED
  BY <1>3, <1>4, <1>5, <1>6, <1>7

\* What the two folds over a cart add up.
Quantities(c) == [x \in DOMAIN c.items |-> c.items[x].quantity]
Costs(c) == [x \in DOMAIN c.items |-> c.items[x].price * c.items[x].quantity]

LEMMA ItemNumbers ==
  ASSUME NEW c \in CartType
  PROVE  /\ Len(c.items) \in Nat /\ DOMAIN c.items = 1..Len(c.items)
         /\ IsFiniteSet(DOMAIN c.items)
         /\ \A x \in DOMAIN c.items : /\ c.items[x] \in ItemType
                                      /\ Quantities(c)[x] \in Int
                                      /\ Costs(c)[x] \in Int
<1>1. c.items \in Seq(ItemType)
  BY DEF CartType
<1>2. DOMAIN c.items = 1..Len(c.items) /\ Len(c.items) \in Nat
  BY <1>1
<1>3. IsFiniteSet(1..Len(c.items))
  BY <1>2, FS_Interval
<1>4. ASSUME NEW x \in DOMAIN c.items
      PROVE  /\ c.items[x] \in ItemType
             /\ Quantities(c)[x] \in Int /\ Costs(c)[x] \in Int
  <2>1. c.items[x] \in ItemType
    BY <1>1
  <2>2. PICK p, n : p = c.items[x].price /\ n = c.items[x].quantity
    OBVIOUS
  <2>3. p \in Int /\ n \in Int
    BY <2>1, <2>2 DEF ItemType
  <2>4. p * n \in Int
    BY <2>3
  <2>5. Quantities(c)[x] = n /\ Costs(c)[x] = p * n
    BY <2>2 DEF Quantities, Costs
  <2>6. QED
    BY <2>1, <2>3, <2>4, <2>5
<1>5. QED
  BY <1>2, <1>3, <1>4

LEMMA QuantitySums ==
  ASSUME NEW c \in CartType
  PROVE  \E f : /\ Sums(f, Quantities(c), SUBSET (DOMAIN c.items))
                /\ Quantity(c) = f[DOMAIN c.items]
<1> DEFINE d == DOMAIN c.items
           q == Quantities(c)
<1>1. IsFiniteSet(d) /\ \A x \in d : q[x] \in Int
  BY ItemNumbers
<1> DEFINE F(f) == f = [s \in SUBSET d |->
                IF s = {} THEN 0 ELSE c.items[CHOOSE x \in s : TRUE].quantity
                                        + f[s \ {CHOOSE x \in s : TRUE}]]
<1>2. PICK g \in [SUBSET d -> Int] : Sums(g, q, SUBSET d)
  <2> HIDE DEF q, d
  <2>1. QED
    BY <1>1, SumsExist
<1>3. ASSUME NEW f
      PROVE  F(f) <=> Sums(f, q, SUBSET d)
  <2>1. ASSUME NEW s \in SUBSET d, s # {}
        PROVE  q[One(s)] = c.items[CHOOSE x \in s : TRUE].quantity
    <3>1. One(s) \in s
      BY <2>1 DEF One
    <3>2. One(s) = CHOOSE x \in s : TRUE
      BY DEF One
    <3>3. QED
      BY <3>1, <3>2 DEF Quantities
  <2> HIDE DEF q
  <2>2. QED
    BY <2>1 DEF Sums, One
<1>4. F(g)
  BY <1>2, <1>3
<1>5. PICK f : F(f) /\ Quantity(c) = f[d]
  BY <1>4 DEF Quantity, Seqs!FoldSeq, Seqs!FoldFunction, Seqs!FoldFunctionOnSet,
              Seqs!MapThenFoldSet
<1>6. QED
  BY <1>3, <1>5

LEMMA AmountSums ==
  ASSUME NEW c \in CartType
  PROVE  \E f : /\ Sums(f, Costs(c), SUBSET (DOMAIN c.items))
                /\ Amount(c) = f[DOMAIN c.items] + c.shipping + c.tax
<1> DEFINE d == DOMAIN c.items
           q == Costs(c)
<1>1. IsFiniteSet(d) /\ \A x \in d : q[x] \in Int
  BY ItemNumbers
<1> DEFINE F(f) == f = [s \in SUBSET d |->
                IF s = {} THEN 0 ELSE c.items[CHOOSE x \in s : TRUE].price
                                * c.items[CHOOSE x \in s : TRUE].quantity
                                        + f[s \ {CHOOSE x \in s : TRUE}]]
<1>2. PICK g \in [SUBSET d -> Int] : Sums(g, q, SUBSET d)
  <2> HIDE DEF q, d
  <2>1. QED
    BY <1>1, SumsExist
<1>3. ASSUME NEW f
      PROVE  F(f) <=> Sums(f, q, SUBSET d)
  <2>1. ASSUME NEW s \in SUBSET d, s # {}
        PROVE  q[One(s)] = c.items[CHOOSE x \in s : TRUE].price
                                * c.items[CHOOSE x \in s : TRUE].quantity
    <3>1. One(s) \in s
      BY <2>1 DEF One
    <3>2. One(s) = CHOOSE x \in s : TRUE
      BY DEF One
    <3>3. QED
      BY <3>1, <3>2 DEF Costs
  <2> HIDE DEF q
  <2>2. QED
    BY <2>1 DEF Sums, One
<1>4. F(g)
  BY <1>2, <1>3
<1>5. PICK f : F(f) /\ Amount(c) = f[d] + c.shipping + c.tax
  <2>1. PICK f : /\ F(f)
                 /\ Seqs!FoldSeq(LAMBDA item, sum : item.price * item.quantity + sum,
                                0, c.items) = f[d]
    <3> HIDE DEF q
    <3>1. QED
      BY <1>4 DEF Seqs!FoldSeq, Seqs!FoldFunction, Seqs!FoldFunctionOnSet,
                  Seqs!MapThenFoldSet
  <2>2. QED
    BY <2>1 DEF Amount
<1>6. QED
  BY <1>3, <1>5

LEMMA QuantityType ==
  ASSUME NEW c \in CartType
  PROVE  Quantity(c) \in Int
<1>1. PICK d, q : d = DOMAIN c.items /\ q = Quantities(c)
  OBVIOUS
<1>2. PICK f : Sums(f, q, SUBSET d) /\ Quantity(c) = f[d]
  BY <1>1, QuantitySums
<1>3. IsFiniteSet(d) /\ \A x \in d : q[x] \in Int
  BY <1>1, ItemNumbers
<1>4. QED
  BY <1>2, <1>3, SumsTypes DEF SumsOver

LEMMA LimitMeaning ==
  ASSUME NEW m, Numeric(m), NEW c \in CartType
  PROVE  FirstReason(LimitChecks(m, c))
           = IF ~(Quantity(c) <= m.maxItems) THEN "QUANTITY_EXCEEDED"
             ELSE IF c.total > m.maxTotal THEN "MAX_TOTAL_EXCEEDED" ELSE None
<1>1. None \notin Reasons /\ m.maxItems \in Int /\ Quantity(c) \in Int
  BY NoneAssumption, QuantityType DEF Numeric
<1>2. FirstReason(LimitChecks(m, c))
        = LET a == When(Quantity(c) > m.maxItems, "QUANTITY_EXCEEDED")
              b == When(c.total > m.maxTotal, "MAX_TOTAL_EXCEEDED") IN
          IF a # None THEN a ELSE b
  BY FirstOfTwo DEF LimitChecks
<1>3. PICK k : k = Quantity(c)
  OBVIOUS
<1>4. QED
  BY <1>1, <1>2, <1>3 DEF When, Reasons

-----------------------------------------------------------------------------
(* Decisions *)

LEMMA Decisions ==
  ASSUME NEW m, Numeric(m), NEW c \in CartType, NEW x \in ContextType
  PROVE  /\ Decided(m, c, x) \in {"ALLOW", "RECONSENT", "BLOCK"}
         /\ Decided(m, c, x) = "ALLOW" <=> Acceptable(m, c, x) /\ c.total <= m.maxTotal
         /\ Decided(m, c, x) = "RECONSENT" <=> Acceptable(m, c, x) /\ c.total > m.maxTotal
<1>1. PICK a, b, d, e : /\ a = FirstReason(StandingChecks(m, c, x))
                        /\ b = FirstReason(UseChecks(m, x))
                        /\ d = FirstReason(CartChecks(m, c))
                        /\ e = FirstReason(LimitChecks(m, c))
  OBVIOUS
<1>2. PICK r : r = IF a # None THEN a ELSE IF b # None THEN b
                   ELSE IF d # None THEN d ELSE e
  OBVIOUS
<1>3. Decided(m, c, x) = Decision(r)
  <2>1. FirstReason(<<a, b, d, e>>) = r
    BY <1>2, FirstOfFour
  <2>2. EvaluatePolicy(m, c, x) = [decision |-> Decision(r), reason |-> r]
    BY <1>1, <2>1 DEF EvaluatePolicy
  <2>3. QED
    BY <2>2 DEF Decided
<1>4. /\ a # "MAX_TOTAL_EXCEEDED" /\ (a = None <=> Standing(m, c, x))
      /\ b # "MAX_TOTAL_EXCEEDED" /\ (b = None <=> Usable(m, x))
      /\ d # "MAX_TOTAL_EXCEEDED" /\ (d = None <=> Proper(m, c))
  BY <1>1, StandingMeaning, UseMeaning, CartMeaning
<1>5. e = IF ~(Quantity(c) <= m.maxItems) THEN "QUANTITY_EXCEEDED"
          ELSE IF c.total > m.maxTotal THEN "MAX_TOTAL_EXCEEDED" ELSE None
  BY <1>1, LimitMeaning
<1>6. c.total > m.maxTotal <=> ~(c.total <= m.maxTotal)
  BY DEF CartType, Numeric
<1>7. None # "MAX_TOTAL_EXCEEDED" /\ None # "QUANTITY_EXCEEDED"
  BY NoneAssumption DEF Reasons
<1>8. /\ r = None <=> Acceptable(m, c, x) /\ c.total <= m.maxTotal
      /\ r = "MAX_TOTAL_EXCEEDED" <=> Acceptable(m, c, x) /\ c.total > m.maxTotal
  BY <1>2, <1>4, <1>5, <1>6, <1>7 DEF Acceptable
<1>9. QED
  BY <1>3, <1>7, <1>8 DEF Decision

\* What a run is about: one input, and its evaluation once it is done.
Evaluated ==
    /\ \E i \in DOMAIN Inputs : input \in Inputs[i]
    /\ result = None \/ result = EvaluatePolicy(input.mandate, input.cart, input.context)

\* The program keeps the input it evaluates, and its result is that of evaluate_policy.
THEOREM EvaluationInvariance == Spec => []Evaluated
<1>1. Init => Evaluated
  BY DEF Init, Evaluated
<1>2. Evaluated /\ [Next]_vars => Evaluated'
  BY DEF Evaluated, Next, Evaluate, vars
<1>3. QED
  BY <1>1, <1>2, PTL DEF Spec

LEMMA NumericMandates ==
  ASSUME NEW m \in MandateType
  PROVE  Numeric(m)
  BY DEF MandateType, Numeric

LEMMA InputTypes ==
  ASSUME Evaluated
  PROVE  /\ input.mandate \in MandateType
         /\ input.cart \in CartType
         /\ input.context \in ContextType
         /\ result # None
              => result.decision = Decided(input.mandate, input.cart, input.context)
  BY InputsAssumption DEF Evaluated, Decided

LEMMA AllowedMeaning ==
  ASSUME Evaluated
  PROVE  AllowedIsAuthorized
<1>1. SUFFICES ASSUME result # None, result.decision = "ALLOW"
               PROVE  AllowedIsAuthorized
  BY DEF AllowedIsAuthorized
<1>2. PICK m, c, x : m = input.mandate /\ c = input.cart /\ x = input.context
  OBVIOUS
<1>3. m \in MandateType /\ Numeric(m) /\ c \in CartType /\ x \in ContextType
  BY <1>2, InputTypes, NumericMandates
<1>4. Acceptable(m, c, x) /\ c.total <= m.maxTotal
  BY <1>1, <1>2, <1>3, InputTypes, Decisions
<1>5. /\ m.genuine /\ x.now \in m.issued..m.expires
      /\ c.currency = m.currency
      /\ m.merchants = {} \/ c.merchant \in m.merchants
  BY <1>3, <1>4 DEF Acceptable, Standing, Numeric, ContextType, Listed
<1>6. ~x.replay /\ x.used < m.maxTx
  BY <1>4 DEF Acceptable, Usable
<1>7. ~Malformed(c)
  BY <1>4 DEF Acceptable, Proper
<1>8. c.total = Amount(c) /\ c.total \in 0..m.maxTotal
  BY <1>3, <1>4, <1>7 DEF Malformed, Numeric, CartType
<1>9. Quantity(c) <= m.maxItems
  BY <1>4 DEF Acceptable
<1>10. ASSUME NEW i \in 1..Len(c.items)
       PROVE  LET item == c.items[i] IN
              /\ item.sku \notin m.forbidden
              /\ item.sku \in TipSkus => m.tips
              /\ m.maxUnitPrice # None => item.price <= m.maxUnitPrice
              /\ \/ m.skus = {} \/ item.sku \in m.skus
                 \/ m.substitutions /\ m.categories = {}
                 \/ m.substitutions /\ item.category \in m.categories
  <2>1. i \in DOMAIN c.items
    BY <1>3 DEF CartType
  <2>2. Passes(m, c.items[i])
    BY <1>4, <2>1 DEF Acceptable, Proper, ItemsPass
  <2>3. QED
    BY <2>2 DEF Passes, Listed, Substitution
<1>11. QED
  BY <1>2, <1>5, <1>6, <1>8, <1>9, <1>10 DEF AllowedIsAuthorized

\* An allowed cart is what the mandate authorises, whatever the mandate and the cart.
THEOREM Authorization == Spec => []AllowedIsAuthorized
<1>1. Evaluated => AllowedIsAuthorized
  BY AllowedMeaning
<1>2. QED
  BY <1>1, EvaluationInvariance, PTL

LEMMA ReconsentMeaning ==
  ASSUME Evaluated
  PROVE  ReconsentIsAboutTheBudget
<1>1. SUFFICES ASSUME result # None
               PROVE  ReconsentIsAboutTheBudget
  BY DEF ReconsentIsAboutTheBudget
<1>2. PICK m, c, x : m = input.mandate /\ c = input.cart /\ x = input.context
  OBVIOUS
<1>3. m \in MandateType /\ Numeric(m) /\ c \in CartType /\ x \in ContextType
  BY <1>2, InputTypes, NumericMandates
<1>4. PICK n : n = [m EXCEPT !.maxTotal = c.total]
  OBVIOUS
<1>5. n \in MandateType /\ Numeric(n) /\ n.maxTotal = c.total
  <2>1. c.total \in Int
    BY <1>3 DEF CartType
  <2>2. n \in MandateType
    BY <1>3, <1>4, <2>1 DEF MandateType
  <2>3. n.maxTotal = c.total
    BY <1>3, <1>4 DEF MandateType
  <2>4. QED
    BY <2>2, <2>3, NumericMandates
<1>6. /\ Standing(n, c, x) <=> Standing(m, c, x)
      /\ Usable(n, x) <=> Usable(m, x)
      /\ ItemsPass(n, c) <=> ItemsPass(m, c)
      /\ n.maxItems = m.maxItems
  <2>1. /\ n.genuine = m.genuine /\ n.issued = m.issued /\ n.expires = m.expires
        /\ n.currency = m.currency /\ n.merchants = m.merchants /\ n.skus = m.skus
        /\ n.categories = m.categories /\ n.forbidden = m.forbidden
        /\ n.substitutions = m.substitutions /\ n.tips = m.tips
        /\ n.maxUnitPrice = m.maxUnitPrice /\ n.maxItems = m.maxItems
        /\ n.maxTx = m.maxTx
    BY <1>3, <1>4 DEF MandateType
  <2>2. QED
    BY <2>1 DEF Standing, Usable, ItemsPass, Passes, Substitution
<1>7. PICK k, t : k = m.maxTotal /\ t = c.total
  OBVIOUS
<1>8. k \in Int /\ t \in Int
  BY <1>3, <1>7 DEF Numeric, CartType
<1>9. PICK rest : rest = (/\ Standing(m, c, x) /\ Usable(m, x) /\ ~Malformed(c)
                          /\ ItemsPass(m, c) /\ Quantity(c) <= m.maxItems)
  OBVIOUS
<1>10. /\ Acceptable(m, c, x) <=> rest /\ (k = 0 => t <= 0)
       /\ Acceptable(n, c, x) <=> rest
  BY <1>5, <1>6, <1>7, <1>8, <1>9 DEF Acceptable, Proper
<1>11. /\ Decided(m, c, x) = "ALLOW" <=> Acceptable(m, c, x) /\ t <= k
       /\ Decided(m, c, x) = "RECONSENT" <=> Acceptable(m, c, x) /\ t > k
       /\ Decided(n, c, x) = "ALLOW" <=> Acceptable(n, c, x) /\ t <= t
  BY <1>3, <1>5, <1>7, Decisions
<1>12. Decided(m, c, x) = "RECONSENT"
         <=> Decided(m, c, x) # "ALLOW" /\ k # 0 /\ Decided(n, c, x) = "ALLOW"
  BY <1>8, <1>10, <1>11
<1>13. result.decision = Decided(m, c, x)
  BY <1>1, <1>2, InputTypes
<1>14. QED
  BY <1>2, <1>4, <1>7, <1>12, <1>13 DEF ReconsentIsAboutTheBudget

\* Asking the user again is about the budget alone: any other failing check blocks.
THEOREM Reconsent == Spec => []ReconsentIsAboutTheBudget
<1>1. Evaluated => ReconsentIsAboutTheBudget
  BY ReconsentMeaning
<1>2. QED
  BY <1>1, EvaluationInvariance, PTL

LEMMA GuardsMeaning ==
  ASSUME Evaluated
  PROVE  GuardsBlockAlone
<1>1. SUFFICES ASSUME result # None, input.context.now >= input.mandate.issued
               PROVE  GuardsBlockAlone
  BY DEF GuardsBlockAlone
<1>2. PICK m, c, x : m = input.mandate /\ c = input.cart /\ x = input.context
  OBVIOUS
<1>3. m \in MandateType /\ Numeric(m) /\ c \in CartType /\ x \in ContextType
  BY <1>2, InputTypes, NumericMandates
<1>4. PICK y : y = [x EXCEPT !.now = m.expires, !.replay = FALSE, !.used = 0]
  OBVIOUS
<1>5. y \in ContextType /\ y.now = m.expires /\ ~y.replay /\ y.used = 0
  BY <1>3, <1>4 DEF ContextType, Numeric
<1>6. /\ m.issued \in Int /\ m.expires \in Int /\ m.maxTx \in Int
      /\ x.now \in Int /\ x.used \in Nat
  BY <1>3 DEF Numeric, ContextType
<1>7. result.decision = Decided(m, c, x)
  BY <1>1, <1>2, InputTypes
<1>8. CASE x.now > m.expires \/ x.replay \/ x.used >= m.maxTx
  <2>1. ~Acceptable(m, c, x)
    BY <1>6, <1>8 DEF Acceptable, Standing, Usable
  <2>2. Decided(m, c, x) = "BLOCK"
    BY <1>3, <2>1, Decisions
  <2>3. QED
    BY <1>2, <1>7, <1>8, <2>2 DEF GuardsBlockAlone
<1>9. CASE ~(x.now > m.expires \/ x.replay \/ x.used >= m.maxTx)
  <2>1. /\ Standing(m, c, x) <=> Standing(m, c, y)
        /\ Usable(m, x) <=> Usable(m, y)
    BY <1>1, <1>2, <1>5, <1>6, <1>9 DEF Standing, Usable
  <2>2. Acceptable(m, c, x) <=> Acceptable(m, c, y)
    BY <2>1 DEF Acceptable
  <2>3. Decided(m, c, x) = Decided(m, c, y)
    BY <1>3, <1>5, <2>2, Decisions
  <2>4. QED
    BY <1>2, <1>4, <1>7, <1>9, <2>3 DEF GuardsBlockAlone
<1>10. QED
  BY <1>8, <1>9

\* Expiry, a replay and an exhausted mandate block, and are otherwise without effect.
THEOREM Guards == Spec => []GuardsBlockAlone
<1>1. Evaluated => GuardsBlockAlone
  BY GuardsMeaning
<1>2. QED
  BY <1>1, EvaluationInvariance, PTL

-----------------------------------------------------------------------------
(* Narrower mandates *)

\* Whatever n lets pass of a cart, m lets pass.
Narrower(n, m, c) ==
    /\ n.genuine = m.genuine /\ n.currency = m.currency
    /\ n.issued = m.issued /\ n.expires = m.expires
    /\ Listed(c.merchant, n.merchants) => Listed(c.merchant, m.merchants)
    /\ n.maxTx <= m.maxTx /\ n.maxTotal <= m.maxTotal /\ n.maxItems <= m.maxItems
    /\ \A i \in DOMAIN c.items : Passes(n, c.items[i]) => Passes(m, c.items[i])

LEMMA NarrowerAllowsNoMore ==
  ASSUME NEW n, Numeric(n), NEW m, Numeric(m), NEW c \in CartType, NEW x \in ContextType,
         Narrower(n, m, c), Decided(n, c, x) = "ALLOW"
  PROVE  Decided(m, c, x) = "ALLOW"
<1>1. Acceptable(n, c, x) /\ c.total <= n.maxTotal
  BY Decisions
<1>2. Standing(m, c, x)
  BY <1>1 DEF Acceptable, Standing, Narrower
<1>3. Usable(m, x)
  <2>1. ~x.replay /\ n.maxTx > 0 /\ x.used < n.maxTx /\ n.maxTx <= m.maxTx
    BY <1>1 DEF Acceptable, Usable, Narrower
  <2>2. n.maxTx \in Int /\ m.maxTx \in Int /\ x.used \in Int
    BY DEF Numeric, ContextType
  <2>3. QED
    BY <2>1, <2>2 DEF Usable
<1>4. c.total <= m.maxTotal
  <2>1. c.total \in Int /\ n.maxTotal \in Int /\ m.maxTotal \in Int
    BY DEF Numeric, CartType
  <2>2. QED
    BY <1>1, <2>1 DEF Narrower
<1>5. Quantity(c) <= m.maxItems
  <2>1. Quantity(c) <= n.maxItems /\ n.maxItems <= m.maxItems
    BY <1>1 DEF Acceptable, Narrower
  <2>2. PICK q : q = Quantity(c)
    OBVIOUS
  <2>3. q \in Int /\ n.maxItems \in Int /\ m.maxItems \in Int
    BY <2>2, QuantityType DEF Numeric
  <2>4. QED
    BY <2>1, <2>2, <2>3
<1>6. Proper(m, c)
  <2>1. ItemsPass(m, c)
    BY <1>1 DEF Acceptable, Proper, ItemsPass, Narrower
  <2>2. ~Malformed(c)
    BY <1>1 DEF Acceptable, Proper
  <2>3. QED
    BY <1>4, <2>1, <2>2 DEF Proper
<1>7. QED
  BY <1>2, <1>3, <1>4, <1>5, <1>6, Decisions DEF Acceptable

\* The fields that a tightening leaves alone.
Alike(n, m, changed) ==
    /\ n.genuine = m.genuine /\ n.currency = m.currency
    /\ n.issued = m.issued /\ n.expires = m.expires
    /\ "merchants" \notin changed => n.merchants = m.merchants
    /\ "skus" \notin changed => n.skus = m.skus
    /\ "categories" \notin changed => n.categories = m.categories
    /\ "forbidden" \notin changed => n.forbidden = m.forbidden
    /\ "substitutions" \notin changed => n.substitutions = m.substitutions
    /\ "tips" \notin changed => n.tips = m.tips
    /\ "maxTotal" \notin changed => n.maxTotal = m.maxTotal
    /\ "maxUnitPrice" \notin changed => n.maxUnitPrice = m.maxUnitPrice
    /\ "maxItems" \notin changed => n.maxItems = m.maxItems
    /\ "maxTx" \notin changed => n.maxTx = m.maxTx

LEMMA TighterNumbers ==
  ASSUME NEW m \in MandateType, NEW c \in CartType,
         NEW n \in {[m EXCEPT !.maxTotal = @ - 1], [m EXCEPT !.maxItems = @ - 1],
                    [m EXCEPT !.maxTx = @ - 1],
                    [m EXCEPT !.maxUnitPrice = IF @ = None THEN 1 ELSE @ - 1]}
  PROVE  Numeric(n) /\ Narrower(n, m, c)
<1>1. /\ m.maxTotal \in Int /\ m.maxItems \in Int /\ m.maxTx \in Int
      /\ m.maxUnitPrice \in Int \cup {None} /\ None \notin Int
  BY NoneAssumption DEF MandateType
<1>2. CASE n = [m EXCEPT !.maxTotal = @ - 1]
  <2>1. Alike(n, m, {"maxTotal"}) /\ n.maxTotal = m.maxTotal - 1
    BY <1>2 DEF MandateType, Alike
  <2>2. QED
    BY <1>1, <2>1, NumericMandates DEF Alike, Numeric, Narrower, Passes, Substitution
<1>3. CASE n = [m EXCEPT !.maxItems = @ - 1]
  <2>1. Alike(n, m, {"maxItems"}) /\ n.maxItems = m.maxItems - 1
    BY <1>3 DEF MandateType, Alike
  <2>2. QED
    BY <1>1, <2>1, NumericMandates DEF Alike, Numeric, Narrower, Passes, Substitution
<1>4. CASE n = [m EXCEPT !.maxTx = @ - 1]
  <2>1. Alike(n, m, {"maxTx"}) /\ n.maxTx = m.maxTx - 1
    BY <1>4 DEF MandateType, Alike
  <2>2. QED
    BY <1>1, <2>1, NumericMandates DEF Alike, Numeric, Narrower, Passes, Substitution
<1>5. CASE n = [m EXCEPT !.maxUnitPrice = IF @ = None THEN 1 ELSE @ - 1]
  <2>1. /\ Alike(n, m, {"maxUnitPrice"})
        /\ n.maxUnitPrice = IF m.maxUnitPrice = None THEN 1 ELSE m.maxUnitPrice - 1
    BY <1>5 DEF MandateType, Alike
  <2>2. n.maxUnitPrice \in Int /\ n.maxUnitPrice # None
    BY <1>1, <2>1
  <2>3. ASSUME NEW i \in DOMAIN c.items, Passes(n, c.items[i])
        PROVE  Passes(m, c.items[i])
    <3>1. c.items[i].price \in Int
      <4>1. c.items \in Seq(ItemType)
        BY DEF CartType
      <4>2. c.items[i] \in ItemType
        BY <4>1
      <4>3. QED
        BY <4>2 DEF ItemType
    <3>2. m.maxUnitPrice # None => c.items[i].price <= m.maxUnitPrice
      BY <1>1, <2>1, <2>2, <2>3, <3>1 DEF Passes
    <3>3. QED
      BY <2>1, <2>3, <3>2 DEF Alike, Passes, Substitution
  <2>4. Numeric(n)
    BY <2>1, <2>2, NumericMandates DEF Alike, Numeric
  <2>5. QED
    BY <1>1, <2>1, <2>3, <2>4 DEF Alike, Narrower
<1>6. QED
  BY <1>2, <1>3, <1>4, <1>5

LEMMA TighterScope ==
  ASSUME NEW m \in MandateType, NEW c \in CartType,
         NEW n \in {[m EXCEPT !.tips = FALSE], [m EXCEPT !.substitutions = FALSE]}
                     \cup {[m EXCEPT !.forbidden = @ \cup {s}] : s \in Skus}
  PROVE  Numeric(n) /\ Narrower(n, m, c)
<1>1. Numeric(m) /\ m.maxTotal \in Int /\ m.maxItems \in Int /\ m.maxTx \in Int
  BY NumericMandates DEF MandateType
<1>2. CASE n = [m EXCEPT !.tips = FALSE]
  <2>1. Alike(n, m, {"tips"}) /\ ~n.tips
    BY <1>2 DEF MandateType, Alike
  <2>2. QED
    BY <1>1, <2>1 DEF Alike, Numeric, Narrower, Passes, Substitution
<1>3. CASE n = [m EXCEPT !.substitutions = FALSE]
  <2>1. Alike(n, m, {"substitutions"}) /\ ~n.substitutions
    BY <1>3 DEF MandateType, Alike
  <2>2. QED
    BY <1>1, <2>1 DEF Alike, Numeric, Narrower, Passes, Substitution
<1>4. ASSUME NEW s \in Skus, n = [m EXCEPT !.forbidden = @ \cup {s}]
      PROVE  Numeric(n) /\ Narrower(n, m, c)
  <2>1. Alike(n, m, {"forbidden"}) /\ n.forbidden = m.forbidden \cup {s}
    BY <1>4 DEF MandateType, Alike
  <2>2. QED
    BY <1>1, <2>1 DEF Alike, Numeric, Narrower, Passes, Substitution
<1>5. QED
  BY <1>2, <1>3, <1>4

LEMMA TighterLists ==
  ASSUME NEW m \in MandateType, NEW c \in CartType, NEW v,
         NEW n, \/ n = [m EXCEPT !.merchants = {v}] /\ m.merchants \subseteq {v}
                                                    /\ v = c.merchant
                \/ n = [m EXCEPT !.skus = {v}] /\ m.skus \subseteq {v}
                \/ n = [m EXCEPT !.categories = {v}] /\ m.categories \subseteq {v}
  PROVE  Numeric(n) /\ Narrower(n, m, c)
<1>1. Numeric(m) /\ m.maxTotal \in Int /\ m.maxItems \in Int /\ m.maxTx \in Int
  BY NumericMandates DEF MandateType
<1>2. ASSUME NEW y, NEW s, s \subseteq {v}, Listed(y, {v})
      PROVE  Listed(y, s)
  BY <1>2 DEF Listed
<1>3. CASE n = [m EXCEPT !.merchants = {v}] /\ m.merchants \subseteq {v} /\ v = c.merchant
  <2>1. Alike(n, m, {"merchants"}) /\ n.merchants = {v}
    BY <1>3 DEF MandateType, Alike
  <2>2. QED
    BY <1>1, <1>2, <1>3, <2>1 DEF Alike, Numeric, Narrower, Passes, Substitution
<1>4. CASE n = [m EXCEPT !.skus = {v}] /\ m.skus \subseteq {v}
  <2>1. Alike(n, m, {"skus"}) /\ n.skus = {v}
    BY <1>4 DEF MandateType, Alike
  <2>2. QED
    BY <1>1, <1>2, <1>4, <2>1 DEF Alike, Numeric, Narrower, Passes, Substitution
<1>5. CASE n = [m EXCEPT !.categories = {v}] /\ m.categories \subseteq {v}
  <2>1. Alike(n, m, {"categories"}) /\ n.categories = {v}
    BY <1>5 DEF MandateType, Alike
  <2>2. QED
    BY <1>1, <1>2, <1>5, <2>1 DEF Alike, Numeric, Narrower, Passes, Substitution
<1>6. QED
  BY <1>3, <1>4, <1>5

LEMMA TighteningsNarrow ==
  ASSUME Evaluated, NEW n \in Tightenings(input.mandate)
  PROVE  Numeric(n) /\ Narrower(n, input.mandate, input.cart)
<1>1. PICK m, c : m = input.mandate /\ c = input.cart
  OBVIOUS
<1>2. m \in MandateType /\ c \in CartType
  BY <1>1, InputTypes
<1>3. \A i \in Seqs!ToSet(c.items) : i.sku \in Skus
  <2>1. c.items \in Seq(ItemType)
    BY <1>2 DEF CartType
  <2>2. \A i \in DOMAIN c.items : c.items[i] \in ItemType
    BY <2>1
  <2>3. QED
    BY <2>2 DEF Seqs!ToSet, ItemType
<1>4. \/ n \in {[m EXCEPT !.maxTotal = @ - 1], [m EXCEPT !.maxItems = @ - 1],
                [m EXCEPT !.maxTx = @ - 1],
                [m EXCEPT !.maxUnitPrice = IF @ = None THEN 1 ELSE @ - 1]}
      \/ n \in {[m EXCEPT !.tips = FALSE], [m EXCEPT !.substitutions = FALSE]}
                 \cup {[m EXCEPT !.forbidden = @ \cup {s}] : s \in Skus}
      \/ \E v : \/ n = [m EXCEPT !.merchants = {v}] /\ m.merchants \subseteq {v}
                                                    /\ v = c.merchant
                \/ n = [m EXCEPT !.skus = {v}] /\ m.skus \subseteq {v}
                \/ n = [m EXCEPT !.categories = {v}] /\ m.categories \subseteq {v}
  BY <1>1, <1>3 DEF Tightenings
<1>5. Numeric(n) /\ Narrower(n, m, c)
  <2>1. CASE n \in {[m EXCEPT !.maxTotal = @ - 1], [m EXCEPT !.maxItems = @ - 1],
                    [m EXCEPT !.maxTx = @ - 1],
                    [m EXCEPT !.maxUnitPrice = IF @ = None THEN 1 ELSE @ - 1]}
    BY <1>2, <2>1, TighterNumbers, Zenon
  <2>2. CASE n \in {[m EXCEPT !.tips = FALSE], [m EXCEPT !.substitutions = FALSE]}
                      \cup {[m EXCEPT !.forbidden = @ \cup {s}] : s \in Skus}
    BY <1>2, <2>2, TighterScope, Zenon
  <2>3. CASE \E v : \/ n = [m EXCEPT !.merchants = {v}] /\ m.merchants \subseteq {v}
                                                        /\ v = c.merchant
                    \/ n = [m EXCEPT !.skus = {v}] /\ m.skus \subseteq {v}
                    \/ n = [m EXCEPT !.categories = {v}] /\ m.categories \subseteq {v}
    BY <1>2, <2>3, TighterLists, Zenon
  <2>4. QED
    BY <1>4, <2>1, <2>2, <2>3, Zenon
<1>6. QED
  BY <1>1, <1>5

\* No field of a mandate loosens the limit that another sets.
THEOREM Tightening == Spec => []TighterAllowsNoMore
<1>1. Evaluated => TighterAllowsNoMore
  BY InputTypes, NumericMandates, TighteningsNarrow, NarrowerAllowsNoMore
     DEF TighterAllowsNoMore
<1>2. QED
  BY <1>1, EvaluationInvariance, PTL
-----------------------------------------------------------------------------
(* ItemOrderIrrelevant.  A sum may take its elements in any order, for a   *)
(* smallest set for which it may not has no element to begin with.  So the *)
(* sums over a cart and over its reversal agree, and so do all checks.     *)

LEMMA SumsTakeAny ==
  ASSUME NEW d, IsFiniteSet(d), NEW q, \A x \in d : q[x] \in Int,
         NEW f, SumsOver(f, q, d)
  PROVE  \A s \in SUBSET d : \A x \in s : f[s] = q[x] + f[s \ {x}]
<1> DEFINE Good(s) == \A x \in s : f[s] = q[x] + f[s \ {x}]
           B == {s \in SUBSET d : ~Good(s)}
<1>1. SUFFICES ASSUME B # {}
               PROVE  FALSE
  OBVIOUS
<1>2. PICK s \in B : \A r \in SUBSET d : (\E x \in s : r = s \ {x}) => r \notin B
  <2>1. B \subseteq SUBSET d
    OBVIOUS
  <2> HIDE DEF B
  <2>2. IsFiniteSet(d) /\ B \subseteq SUBSET d /\ B # {}
    BY <1>1, <2>1
  <2>3. QED
    BY ONLY <2>2, SmallestSet, SMTT(30)
<1>3. s \in SUBSET d /\ ~Good(s)
  OBVIOUS
<1>4. PICK x \in s : f[s] # q[x] + f[s \ {x}]
  BY <1>3
<1>5. PICK y : y = One(s)
  OBVIOUS
<1>6. y \in s /\ f[s] = q[y] + f[s \ {y}]
  <2>1. s # {} => One(s) \in s /\ f[s] = q[One(s)] + f[s \ {One(s)}]
    BY <1>3, SumsEquation
  <2>2. QED
    BY <1>4, <1>5, <2>1
<1>7. x # y /\ x \in d /\ y \in d
  BY <1>3, <1>4, <1>6
<1>8. PICK r, t, u : r = s \ {x} /\ t = s \ {y} /\ u = (s \ {x}) \ {y}
  OBVIOUS
<1>9. /\ r \in SUBSET d /\ t \in SUBSET d /\ u \in SUBSET d
      /\ y \in r /\ x \in t /\ u = r \ {y} /\ u = t \ {x}
  BY <1>3, <1>4, <1>6, <1>7, <1>8
<1>10. Good(r) /\ Good(t)
  <2>1. r \notin B /\ t \notin B
    BY <1>2, <1>4, <1>6, <1>8, <1>9
  <2>2. QED
    BY <1>9, <2>1
<1>11. f[r] = q[y] + f[u] /\ f[t] = q[x] + f[u]
  BY <1>9, <1>10
<1>12. f[s] \in Int /\ f[r] \in Int /\ f[t] \in Int /\ f[u] \in Int
       /\ q[x] \in Int /\ q[y] \in Int
  BY <1>3, <1>7, <1>9, SumsTypes
<1>13. f[s] = q[y] + f[t] /\ f[s] # q[x] + f[r]
  BY <1>4, <1>6, <1>8
<1>14. QED
  BY <1>11, <1>12, <1>13

\* Places that the reversal of n items maps into themselves.
Flip(n, i) == n + 1 - i
Flips(n, d) == d \subseteq Int /\ \A i \in d : Flip(n, i) \in d

Mirror(n, s) == {Flip(n, i) : i \in s}

LEMMA Mirrors ==
  ASSUME NEW n \in Nat, NEW d, Flips(n, d), NEW s \in SUBSET d
  PROVE  /\ Mirror(n, s) \in SUBSET d
         /\ \A i \in s : /\ Flip(n, i) \in Mirror(n, s)
                         /\ Mirror(n, s \ {i}) = Mirror(n, s) \ {Flip(n, i)}
         /\ Mirror(n, d) = d
<1>1. Mirror(n, s) \in SUBSET d
  BY DEF Mirror, Flips
<1>2. ASSUME NEW i \in s
      PROVE  /\ Flip(n, i) \in Mirror(n, s)
             /\ Mirror(n, s \ {i}) = Mirror(n, s) \ {Flip(n, i)}
  <2>1. \A k \in s : Flip(n, k) = Flip(n, i) <=> k = i
    BY DEF Flip, Flips
  <2>2. QED
    BY <2>1 DEF Mirror
<1>3. Mirror(n, d) = d
  <2>1. ASSUME NEW i \in d
        PROVE  i \in Mirror(n, d)
    <3>1. Flip(n, i) \in d /\ i = Flip(n, Flip(n, i))
      BY DEF Flip, Flips
    <3>2. QED
      BY <3>1 DEF Mirror
  <2>2. QED
    BY <1>1, <2>1 DEF Mirror, Flips
<1>4. QED
  BY <1>1, <1>2, <1>3 DEF Mirror

LEMMA MirroredSum ==
  ASSUME NEW n \in Nat, NEW d, IsFiniteSet(d), Flips(n, d),
         NEW q, \A i \in d : q[i] \in Int, NEW p, \A i \in d : p[i] = q[Flip(n, i)],
         NEW f, SumsOver(f, q, d), NEW g, SumsOver(g, p, d)
  PROVE  g[d] = f[d]
<1> DEFINE B == {s \in SUBSET d : g[s] # f[Mirror(n, s)]}
<1>1. B = {}
  <2>1. SUFFICES ASSUME B # {}
                 PROVE  FALSE
    OBVIOUS
  <2>2. PICK s \in B : \A r \in SUBSET d : (\E x \in s : r = s \ {x}) => r \notin B
    <3>1. B \subseteq SUBSET d
      OBVIOUS
    <3> HIDE DEF B
    <3>2. QED
      BY <2>1, <3>1, SmallestSet
  <2>3. s \in SUBSET d /\ g[s] # f[Mirror(n, s)]
    OBVIOUS
  <2> HIDE DEF B
  <2>4. s # {}
    <3>1. SUFFICES ASSUME s = {}
                   PROVE  FALSE
      OBVIOUS
    <3>2. Mirror(n, s) = s
      BY <3>1 DEF Mirror
    <3>3. g[s] = 0 /\ f[s] = 0
      BY <2>3, <3>1, SumsEquation
    <3>4. QED
      BY <2>3, <3>2, <3>3
  <2>5. PICK y, z, r, t : y = One(s) /\ z = Flip(n, y) /\ r = s \ {y} /\ t = Mirror(n, s)
    OBVIOUS
  <2>6. y \in s /\ g[s] = p[y] + g[r]
    <3>1. s # {} => One(s) \in s /\ g[s] = p[One(s)] + g[s \ {One(s)}]
      BY <2>3, SumsEquation
    <3>2. QED
      BY <2>4, <2>5, <3>1
  <2>7. r \in SUBSET d /\ g[r] = f[Mirror(n, r)]
    <3>1. r \in SUBSET d /\ r \notin B
      BY <2>2, <2>3, <2>5, <2>6
    <3>2. QED
      BY <3>1 DEF B
  <2>8. t \in SUBSET d /\ z \in t /\ Mirror(n, r) = t \ {z}
    <3>1. /\ Mirror(n, s) \in SUBSET d
          /\ \A i \in s : /\ Flip(n, i) \in Mirror(n, s)
                          /\ Mirror(n, s \ {i}) = Mirror(n, s) \ {Flip(n, i)}
      BY <2>3, Mirrors
    <3>2. QED
      BY <2>5, <2>6, <3>1
  <2>9. f[t] = q[z] + f[t \ {z}]
    BY <2>8, SumsTakeAny
  <2>10. p[y] = q[z]
    BY <2>3, <2>5, <2>6
  <2>11. QED
    BY <2>3, <2>5, <2>6, <2>7, <2>8, <2>9, <2>10
<1>2. g[d] = f[Mirror(n, d)]
  BY <1>1
<1>3. Mirror(n, d) = d
  BY Mirrors
<1>4. QED
  BY <1>2, <1>3

Reversed(c) == [c EXCEPT !.items = Seqs!Reverse(c.items)]

LEMMA ReversedCart ==
  ASSUME NEW c \in CartType
  PROVE  /\ Reversed(c) \in CartType
         /\ Len(Reversed(c).items) = Len(c.items)
         /\ \A i \in 1..Len(c.items) :
              Reversed(c).items[i] = c.items[Len(c.items) + 1 - i]
         /\ Reversed(c).total = c.total /\ Reversed(c).shipping = c.shipping
         /\ Reversed(c).tax = c.tax /\ Reversed(c).merchant = c.merchant
         /\ Reversed(c).currency = c.currency
<1>1. PICK t, n, u : t = c.items /\ n = Len(t) /\ u = Seqs!Reverse(t)
  OBVIOUS
<1>2. t \in Seq(ItemType) /\ n \in Nat
  BY <1>1 DEF CartType
<1>3. u = [i \in 1..n |-> t[(n - i) + 1]]
  BY <1>1 DEF Seqs!Reverse
<1>4. \A i \in 1..n : u[i] = t[n + 1 - i] /\ u[i] \in ItemType
  <2>1. ASSUME NEW i \in 1..n
        PROVE  u[i] = t[n + 1 - i] /\ u[i] \in ItemType
    <3>1. (n - i) + 1 = n + 1 - i /\ n + 1 - i \in 1..n
      BY <1>2
    <3>2. t[n + 1 - i] \in ItemType
      BY <1>1, <1>2, <3>1
    <3>3. QED
      BY <1>3, <3>1, <3>2
  <2>2. QED
    BY <2>1
<1>5. u \in Seq(ItemType) /\ Len(u) = n
  BY <1>2, <1>3, <1>4
<1>6. Reversed(c) = [c EXCEPT !.items = u]
  BY <1>1 DEF Reversed
<1>7. Reversed(c).items = u
  BY <1>6 DEF CartType
<1>8. QED
  BY <1>1, <1>4, <1>5, <1>6, <1>7 DEF CartType

LEMMA ReversedNumbers ==
  ASSUME NEW c \in CartType
  PROVE  Quantity(Reversed(c)) = Quantity(c) /\ Amount(Reversed(c)) = Amount(c)
<1>1. PICK e, n, d : e = Reversed(c) /\ n = Len(c.items) /\ d = DOMAIN c.items
  OBVIOUS
<1>2. /\ e \in CartType /\ n \in Nat /\ d = 1..n /\ d = DOMAIN e.items
      /\ \A i \in d : e.items[i] = c.items[n + 1 - i]
      /\ e.shipping = c.shipping /\ e.tax = c.tax
  BY <1>1, ReversedCart, ItemNumbers
<1>3. IsFiniteSet(d) /\ Flips(n, d)
  BY <1>1, <1>2, ItemNumbers DEF Flip, Flips
<1>4. n \in Nat
  BY <1>2
<1>5. Quantity(e) = Quantity(c)
  <2>1. PICK q, p : q = Quantities(c) /\ p = Quantities(e)
    OBVIOUS
  <2>2. (\A i \in d : q[i] \in Int) /\ (\A i \in d : p[i] = q[Flip(n, i)])
    BY <1>1, <1>2, <1>3, <2>1, ItemNumbers DEF Quantities, Flip, Flips
  <2>3. PICK f : SumsOver(f, q, d) /\ Quantity(c) = f[d]
    BY <1>1, <2>1, QuantitySums DEF SumsOver
  <2>4. PICK g : SumsOver(g, p, d) /\ Quantity(e) = g[d]
    BY <1>2, <2>1, QuantitySums DEF SumsOver
  <2>5. g[d] = f[d]
    BY <1>3, <1>4, <2>2, <2>3, <2>4, MirroredSum
  <2>6. QED
    BY <2>3, <2>4, <2>5
<1>6. Amount(e) = Amount(c)
  <2>1. PICK q, p : q = Costs(c) /\ p = Costs(e)
    OBVIOUS
  <2>2. (\A i \in d : q[i] \in Int) /\ (\A i \in d : p[i] = q[Flip(n, i)])
    BY <1>1, <1>2, <1>3, <2>1, ItemNumbers DEF Costs, Flip, Flips
  <2>3. PICK f : SumsOver(f, q, d) /\ Amount(c) = f[d] + c.shipping + c.tax
    BY <1>1, <2>1, AmountSums DEF SumsOver
  <2>4. PICK g : SumsOver(g, p, d) /\ Amount(e) = g[d] + e.shipping + e.tax
    BY <1>2, <2>1, AmountSums DEF SumsOver
  <2>5. g[d] = f[d]
    BY <1>3, <1>4, <2>2, <2>3, <2>4, MirroredSum
  <2>6. QED
    BY <1>2, <2>3, <2>4, <2>5
<1>7. QED
  BY <1>1, <1>5, <1>6

LEMMA ReversedAcceptable ==
  ASSUME NEW m, NEW c \in CartType, NEW x
  PROVE  Acceptable(m, Reversed(c), x) <=> Acceptable(m, c, x)
<1>1. PICK e, n : e = Reversed(c) /\ n = Len(c.items)
  OBVIOUS
<1>2. /\ n \in Nat /\ Len(e.items) = n
      /\ DOMAIN e.items = 1..n /\ DOMAIN c.items = 1..n
      /\ \A i \in 1..n : e.items[i] = c.items[n + 1 - i]
      /\ e.total = c.total /\ e.shipping = c.shipping /\ e.tax = c.tax
      /\ e.merchant = c.merchant /\ e.currency = c.currency
      /\ Quantity(e) = Quantity(c) /\ Amount(e) = Amount(c)
  BY <1>1, ReversedCart, ReversedNumbers, ItemNumbers
<1>3. \A i \in 1..n : n + 1 - i \in 1..n /\ e.items[n + 1 - i] = c.items[i]
  <2>1. ASSUME NEW i \in 1..n
        PROVE  n + 1 - i \in 1..n /\ n + 1 - (n + 1 - i) = i
    BY <1>2
  <2>2. QED
    BY <1>2, <2>1
<1>4. Standing(m, e, x) <=> Standing(m, c, x)
  BY <1>2 DEF Standing
<1>5. Malformed(e) <=> Malformed(c)
  <2>1. (\E i \in 1..n : e.items[i].price < 0 \/ e.items[i].quantity < 0)
          <=> (\E i \in 1..n : c.items[i].price < 0 \/ c.items[i].quantity < 0)
    BY <1>2, <1>3
  <2>2. QED
    BY <1>1, <1>2, <2>1 DEF Malformed
<1>6. ItemsPass(m, e) <=> ItemsPass(m, c)
  <2>1. ASSUME ItemsPass(m, c), NEW i \in 1..n
        PROVE  Passes(m, e.items[i])
    BY <1>2, <1>3, <2>1 DEF ItemsPass
  <2>2. ASSUME ItemsPass(m, e), NEW i \in 1..n
        PROVE  Passes(m, c.items[i])
    <3>1. PICK k : k = n + 1 - i
      OBVIOUS
    <3>2. k \in 1..n /\ e.items[k] = c.items[i]
      BY <1>3, <3>1
    <3>3. Passes(m, e.items[k])
      BY <1>2, <2>2, <3>2 DEF ItemsPass
    <3>4. QED
      BY <3>2, <3>3
  <2>3. QED
    BY <1>2, <2>1, <2>2 DEF ItemsPass
<1>7. QED
  BY <1>1, <1>2, <1>4, <1>5, <1>6 DEF Acceptable, Proper

\* A cart may list its items in the reverse order and is decided as before.
THEOREM Reordering == Spec => []ItemOrderIrrelevant
<1>1. Evaluated => ItemOrderIrrelevant
  <2>1. SUFFICES ASSUME Evaluated, result # None
                 PROVE  ItemOrderIrrelevant
    BY DEF ItemOrderIrrelevant
  <2>2. PICK m, c, x : m = input.mandate /\ c = input.cart /\ x = input.context
    OBVIOUS
  <2>3. /\ Numeric(m) /\ c \in CartType /\ x \in ContextType
        /\ result.decision = Decided(m, c, x)
    BY <2>1, <2>2, InputTypes, NumericMandates
  <2>4. Reversed(c) \in CartType /\ Reversed(c).total = c.total
    BY <2>3, ReversedCart
  <2>5. Decided(m, Reversed(c), x) = Decided(m, c, x)
    BY <2>3, <2>4, Decisions, ReversedAcceptable
  <2>6. QED
    BY <2>2, <2>3, <2>5 DEF ItemOrderIrrelevant, Reversed
<1>2. QED
  BY <1>1, EvaluationInvariance, PTL
-----------------------------------------------------------------------------
(* StatedIntentEnforced.  What the compiler found is what the mandate says, *)
(* and what the mandate says is enforced.                                   *)

LEMMA Searches ==
  ASSUME NEW text \in Seq(Phrase), NEW places, places \subseteq DOMAIN text, places # {}
  PROVE  \E i \in places : Search(text, places) = text[i] /\ text[i] \in Phrase
<1>1. places \subseteq Nat
  OBVIOUS
<1>2. \E i \in places : \A k \in places : i <= k
  BY <1>1, LeastElement
<1>3. PICK i : i = CHOOSE j \in places : \A k \in places : j <= k
  OBVIOUS
<1>4. i \in places
  BY <1>2, <1>3
<1>5. text[i] \in Phrase
  BY <1>4
<1>6. QED
  BY <1>3, <1>4, <1>5 DEF Search

LEMMA Found ==
  ASSUME NEW text \in Seq(Phrase), NEW kind, OfKind(text, kind) # {}
  PROVE  /\ Search(text, OfKind(text, kind)) \in Phrase
         /\ Search(text, OfKind(text, kind)).kind = kind
<1>1. PICK i \in OfKind(text, kind) :
        Search(text, OfKind(text, kind)) = text[i] /\ text[i] \in Phrase
  BY Searches DEF OfKind
<1>2. text[i].kind = kind
  BY DEF OfKind
<1>3. QED
  BY <1>1, <1>2

LEMMA Proposal ==
  ASSUME NEW text \in Seq(Phrase), OfKind(text, "amount") # {},
         NEW d, d = CompileIntent(text)
  PROVE  /\ d.max_total = Search(text, OfKind(text, "amount")).n
         /\ OfKind(text, "merchant") # {} =>
              d.merchant_name = Search(text, OfKind(text, "merchant")).word
         /\ OfKind(text, "expiry") # {} =>
              d.expires_in_minutes = Search(text, OfKind(text, "expiry")).n
         /\ Numbers(text) # {} => d.quantity = QuantityPhrase(text).last
         /\ DOMAIN d = {"max_total", "merchant_name", "quantity", "category",
                        "substitutions_allowed", "expires_in_minutes"}
  BY DEF CompileIntent

LEMMA MandateOfProposal ==
  ASSUME NEW d, NEW now,
         DOMAIN d = {"max_total", "merchant_name", "quantity", "category",
                     "substitutions_allowed", "expires_in_minutes"},
         NEW m, m = BuildEnvelope(d, now)
  PROVE  /\ m.maxTotal = d["max_total"]
         /\ d["merchant_name"] # None => m.merchants = {d["merchant_name"]}
         /\ m.expires = now + d["expires_in_minutes"]
         /\ m.maxTx = 1
         /\ d["quantity"] # None /\ d["quantity"] # 0 => m.maxItems = d["quantity"]
<1>1. m = Filled(d, ListOrName(d, "merchant_ids", "merchant_name"),
                 ListOrName(d, "allowed_categories", "category"),
                 d["max_total"], MaxItems(d),
                 IF Given(d, "issued_at") THEN d["issued_at"] ELSE now,
                 IF Given(d, "expires_at") THEN d["expires_at"]
                   ELSE now + Get(d, "expires_in_minutes", DefaultTtl))
  BY DEF BuildEnvelope
<1>2. /\ m.maxTotal = d["max_total"]
      /\ m.merchants = ListOrName(d, "merchant_ids", "merchant_name")
      /\ m.expires = IF Given(d, "expires_at") THEN d["expires_at"]
                       ELSE now + Get(d, "expires_in_minutes", DefaultTtl)
      /\ m.maxTx = Get(d, "max_transactions", 1)
      /\ m.maxItems = MaxItems(d)
  BY <1>1 DEF Filled
<1>3. /\ Get(d, "merchant_ids", {}) = {}
      /\ Get(d, "merchant_name", None) = d["merchant_name"]
      /\ Get(d, "expires_at", None) = None
      /\ Get(d, "expires_in_minutes", DefaultTtl) = d["expires_in_minutes"]
      /\ Get(d, "max_transactions", 1) = 1
      /\ Get(d, "quantity", None) = d["quantity"]
  BY DEF Get
<1>4. QED
  BY <1>2, <1>3 DEF ListOrName, Given, MaxItems

LEMMA MandateOfIntent ==
  ASSUME NEW text \in Seq(Phrase), OfKind(text, "amount") # {}, NEW now,
         NEW m, m = BuildEnvelope(CompileIntent(text), now)
  PROVE  /\ m.maxTotal = Search(text, OfKind(text, "amount")).n
         /\ OfKind(text, "merchant") # {} =>
              m.merchants = {Search(text, OfKind(text, "merchant")).word}
         /\ OfKind(text, "expiry") # {} =>
              m.expires = now + Search(text, OfKind(text, "expiry")).n
         /\ m.maxTx = 1
         /\ Numbers(text) # {} /\ Search(text, Numbers(text)).kind = "count"
              /\ Search(text, Numbers(text)).n > 0 =>
              m.maxItems = Search(text, Numbers(text)).n
<1>1. PICK d : d = CompileIntent(text)
  OBVIOUS
<1>2. /\ m.maxTotal = d["max_total"]
      /\ d["merchant_name"] # None => m.merchants = {d["merchant_name"]}
      /\ m.expires = now + d["expires_in_minutes"]
      /\ m.maxTx = 1
      /\ d["quantity"] # None /\ d["quantity"] # 0 => m.maxItems = d["quantity"]
  BY <1>1, Proposal, MandateOfProposal
<1>3. ASSUME OfKind(text, "merchant") # {}
      PROVE  m.merchants = {Search(text, OfKind(text, "merchant")).word}
  <2>1. PICK p : p = Search(text, OfKind(text, "merchant"))
    OBVIOUS
  <2>2. p \in Phrase /\ p.kind = "merchant"
    BY <1>3, <2>1, Found
  <2>3. p.word # None
    BY <2>2, OriginAssumption DEF Phrase
  <2>4. d.merchant_name = p.word
    BY <1>1, <1>3, <2>1, Proposal
  <2>5. QED
    BY <1>2, <2>1, <2>3, <2>4
<1>4. ASSUME Numbers(text) # {}, Search(text, Numbers(text)).kind = "count",
             Search(text, Numbers(text)).n > 0
      PROVE  m.maxItems = Search(text, Numbers(text)).n
  <2>1. PICK p : p = Search(text, Numbers(text))
    OBVIOUS
  <2>2. p \in Phrase
    BY <1>4, <2>1, Searches DEF Numbers
  <2>3. p.last = p.n /\ p.n \in Nat
    BY <1>4, <2>1, <2>2 DEF Phrase
  <2>4. d.quantity = p.last
    BY <1>1, <1>4, <2>1, Proposal DEF QuantityPhrase
  <2>5. p.last # None /\ p.last # 0
    BY <1>4, <2>1, <2>3, NoneAssumption
  <2>6. QED
    BY <1>2, <2>1, <2>3, <2>4, <2>5
<1>5. QED
  BY <1>1, <1>2, <1>3, <1>4, Proposal

\* Of an intent of any length, what the user stated holds of every cart allowed
\* under it.
THEOREM IntentEnforced == Spec => []StatedIntentEnforced
<1>1. Evaluated => StatedIntentEnforced
  <2>1. SUFFICES ASSUME Evaluated, input.text # None, result # None,
                        result.decision = "ALLOW"
                 PROVE  StatedIntentEnforced
    BY DEF StatedIntentEnforced
  <2>2. PICK t, m, c, x : /\ t = input.text /\ m = input.mandate
                          /\ c = input.cart /\ x = input.context
    OBVIOUS
  <2>3. /\ t \in Seq(Phrase) /\ OfKind(t, "amount") # {}
        /\ m = BuildEnvelope(CompileIntent(t), input.confirmed)
    BY <2>1, <2>2, OriginAssumption DEF Evaluated
  <2>4. /\ x.now <= m.expires /\ ~x.replay /\ x.used < m.maxTx
        /\ c.total <= m.maxTotal /\ Quantity(c) <= m.maxItems
        /\ m.merchants = {} \/ c.merchant \in m.merchants
        /\ x.used \in Nat
    <3>1. Numeric(m) /\ c \in CartType /\ x \in ContextType
      BY <2>1, <2>2, InputTypes, NumericMandates
    <3>2. Acceptable(m, c, x) /\ c.total <= m.maxTotal
      BY <2>1, <2>2, <3>1, InputTypes, Decisions
    <3>3. QED
      BY <3>1, <3>2 DEF Acceptable, Standing, Usable, Listed, ContextType
  <2>5. /\ m.maxTotal = Search(t, OfKind(t, "amount")).n
        /\ OfKind(t, "merchant") # {} =>
             m.merchants = {Search(t, OfKind(t, "merchant")).word}
        /\ OfKind(t, "expiry") # {} =>
             m.expires = input.confirmed + Search(t, OfKind(t, "expiry")).n
        /\ m.maxTx = 1
        /\ Numbers(t) # {} /\ Search(t, Numbers(t)).kind = "count"
             /\ Search(t, Numbers(t)).n > 0 =>
             m.maxItems = Search(t, Numbers(t)).n
    BY <2>3, MandateOfIntent
  <2>6. x.used = 0
    BY <2>4, <2>5
  <2>7. QED
    BY <2>2, <2>4, <2>5, <2>6 DEF StatedIntentEnforced
<1>2. QED
  BY <1>1, EvaluationInvariance, PTL

-----------------------------------------------------------------------------
(***************************************************************************)
(* The doors.  What is said under one key or another becomes the same      *)
(* field, and what is not said the same default, so the three functions    *)
(* make one envelope of one meaning.                                       *)
(***************************************************************************)
LEMMA GetSaid ==
  ASSUME NEW r, NEW k, NEW default
  PROVE  Get(Said(r), k, default) =
           IF k \in DOMAIN r /\ r[k] # None THEN r[k] ELSE default
  BY DEF Get, Said

\* The keys that mean the same at every door.
Shared == {"currency", "allowed_skus", "forbidden_skus", "substitutions_allowed",
           "tips_allowed", "max_unit_price", "max_transactions"}

LEMMA SharedAgree ==
  ASSUME NEW m, NEW now, NEW k \in Shared, NEW default
  PROVE  Get(Shorthand(m), k, default) = Get(Longhand(m, now), k, default)
<1>1. PICK r, s :
        /\ r = [max_total |-> m.total, expires_in_minutes |-> m.minutes,
                merchant_name |-> m.merchant, category |-> m.category,
                quantity |-> m.quantity, max_transactions |-> m.uses,
                allowed_skus |-> m.skus, forbidden_skus |-> m.forbidden,
                substitutions_allowed |-> m.substitutions, tips_allowed |-> m.tips,
                currency |-> m.currency, max_unit_price |-> m.unitPrice]
        /\ s = [max_total_amount |-> m.total, max_amount |-> m.total,
                issued_at |-> now, expires_at |-> now + m.minutes,
                merchant_ids |-> OnlyOne(m.merchant),
                allowed_categories |-> OnlyOne(m.category),
                max_items |-> m.quantity, max_transactions |-> m.uses,
                allowed_skus |-> m.skus, forbidden_skus |-> m.forbidden,
                substitutions_allowed |-> m.substitutions, tips_allowed |-> m.tips,
                currency |-> m.currency, max_unit_price |-> m.unitPrice]
  OBVIOUS
<1>2. k \in DOMAIN r /\ k \in DOMAIN s /\ r[k] = s[k]
  BY <1>1 DEF Shared
<1>3. Shorthand(m) = Said(r) /\ Longhand(m, now) = Said(s)
  BY <1>1 DEF Shorthand, Longhand
<1>4. QED
  BY <1>2, <1>3, GetSaid

LEMMA FilledAlike ==
  ASSUME NEW d, NEW e, \A k \in Shared : \A default : Get(d, k, default) = Get(e, k, default),
         NEW merchants, NEW categories, NEW maxTotal, NEW maxItems, NEW issued, NEW expires
  PROVE  Filled(d, merchants, categories, maxTotal, maxItems, issued, expires)
           = Filled(e, merchants, categories, maxTotal, maxItems, issued, expires)
  BY DEF Filled, Shared

\* What /confirm reads where its keys are its own.
LEMMA ShorthandRead ==
  ASSUME NEW m \in Meaning, NEW d, d = Shorthand(m), NEW now
  PROVE  BuildEnvelope(d, now)
           = Filled(d, IF m.merchant = None THEN {} ELSE {m.merchant},
                    IF m.category = None THEN {} ELSE {m.category}, m.total,
                    IF m.quantity = None THEN Unlimited ELSE m.quantity,
                    now, now + m.minutes)
<1>1. PICK r :
        r = [max_total |-> m.total, expires_in_minutes |-> m.minutes,
             merchant_name |-> m.merchant, category |-> m.category,
             quantity |-> m.quantity, max_transactions |-> m.uses,
             allowed_skus |-> m.skus, forbidden_skus |-> m.forbidden,
             substitutions_allowed |-> m.substitutions, tips_allowed |-> m.tips,
             currency |-> m.currency, max_unit_price |-> m.unitPrice]
  OBVIOUS
<1>2. d = Said(r)
  BY <1>1 DEF Shorthand
<1>3. /\ m.total \in Int /\ m.minutes \in Int /\ m.quantity \in (Int \ {0}) \cup {None}
      /\ None \notin Int
  BY NoneAssumption DEF Meaning
<1>4. /\ DOMAIN r = {"max_total", "expires_in_minutes", "merchant_name", "category",
                     "quantity", "max_transactions", "allowed_skus", "forbidden_skus",
                     "substitutions_allowed", "tips_allowed", "currency",
                     "max_unit_price"}
      /\ r["max_total"] = m.total /\ r["expires_in_minutes"] = m.minutes
      /\ r["merchant_name"] = m.merchant /\ r["category"] = m.category
      /\ r["quantity"] = m.quantity
  BY <1>1
<1>5. /\ Get(d, "merchant_ids", {}) = {} /\ Get(d, "allowed_categories", {}) = {}
      /\ Get(d, "issued_at", None) = None /\ Get(d, "expires_at", None) = None
      /\ Get(d, "max_items", Unlimited) = Unlimited
  BY <1>2, <1>4, GetSaid
<1>6. /\ Get(d, "expires_in_minutes", DefaultTtl) = m.minutes
      /\ Get(d, "merchant_name", None) = m.merchant /\ Get(d, "category", None) = m.category
      /\ Get(d, "quantity", None) = m.quantity
  BY <1>2, <1>3, <1>4, GetSaid
<1>7. /\ m.merchant # None => d["merchant_name"] = m.merchant
      /\ m.category # None => d["category"] = m.category
      /\ m.quantity # None => d["quantity"] = m.quantity
      /\ d["max_total"] = m.total
  BY <1>2, <1>3, <1>4 DEF Said
<1>8. /\ ListOrName(d, "merchant_ids", "merchant_name")
           = IF m.merchant = None THEN {} ELSE {m.merchant}
      /\ ListOrName(d, "allowed_categories", "category")
           = IF m.category = None THEN {} ELSE {m.category}
  BY <1>5, <1>6, <1>7 DEF ListOrName, Given
<1>9. MaxItems(d) = IF m.quantity = None THEN Unlimited ELSE m.quantity
  BY <1>3, <1>5, <1>6, <1>7 DEF MaxItems, Given
<1>10. ~Given(d, "issued_at") /\ ~Given(d, "expires_at")
  BY <1>5 DEF Given
<1>11. BuildEnvelope(d, now)
         = Filled(d, ListOrName(d, "merchant_ids", "merchant_name"),
                  ListOrName(d, "allowed_categories", "category"),
                  d["max_total"], MaxItems(d), now,
                  now + Get(d, "expires_in_minutes", DefaultTtl))
  BY <1>10 DEF BuildEnvelope
<1>12. QED
  BY <1>6, <1>7, <1>8, <1>9, <1>11

\* What both adapters read where their keys are their own.
LEMMA LonghandRead ==
  ASSUME NEW m \in Meaning, NEW now \in Int, NEW d, d = Longhand(m, now)
  PROVE  /\ d["max_total_amount"] = m.total /\ d["max_amount"] = m.total
         /\ Adapted(d, m.total)
              = Filled(d, IF m.merchant = None THEN {} ELSE {m.merchant},
                       IF m.category = None THEN {} ELSE {m.category}, m.total,
                       IF m.quantity = None THEN Unlimited ELSE m.quantity,
                       now, now + m.minutes)
<1>1. PICK r :
        r = [max_total_amount |-> m.total, max_amount |-> m.total,
             issued_at |-> now, expires_at |-> now + m.minutes,
             merchant_ids |-> OnlyOne(m.merchant),
             allowed_categories |-> OnlyOne(m.category),
             max_items |-> m.quantity, max_transactions |-> m.uses,
             allowed_skus |-> m.skus, forbidden_skus |-> m.forbidden,
             substitutions_allowed |-> m.substitutions, tips_allowed |-> m.tips,
             currency |-> m.currency, max_unit_price |-> m.unitPrice]
  OBVIOUS
<1>2. d = Said(r)
  BY <1>1 DEF Longhand
<1>3. /\ m.total \in Int /\ now + m.minutes \in Int /\ None \notin Int
      /\ m.merchant \in Merchants \cup {None} /\ m.category \in Categories \cup {None}
  BY NoneAssumption DEF Meaning
<1>4. /\ m.merchant # None => OnlyOne(m.merchant) = {m.merchant} /\ {m.merchant} # None
      /\ m.category # None => OnlyOne(m.category) = {m.category} /\ {m.category} # None
      /\ OnlyOne(None) = None
  BY <1>3, OriginAssumption DEF OnlyOne
<1>5. /\ {"max_total_amount", "max_amount", "issued_at", "expires_at", "merchant_ids",
          "allowed_categories", "max_items"} \subseteq DOMAIN r
      /\ r["max_total_amount"] = m.total /\ r["max_amount"] = m.total
      /\ r["issued_at"] = now /\ r["expires_at"] = now + m.minutes
      /\ r["merchant_ids"] = OnlyOne(m.merchant)
      /\ r["allowed_categories"] = OnlyOne(m.category)
      /\ r["max_items"] = m.quantity
  BY <1>1
<1>6. /\ d["max_total_amount"] = m.total /\ d["max_amount"] = m.total
      /\ d["issued_at"] = now /\ d["expires_at"] = now + m.minutes
  BY <1>2, <1>3, <1>5 DEF Said
<1>7. /\ Get(d, "merchant_ids", {}) = IF m.merchant = None THEN {} ELSE {m.merchant}
      /\ Get(d, "allowed_categories", {}) = IF m.category = None THEN {} ELSE {m.category}
  BY <1>2, <1>4, <1>5, GetSaid
<1>8. Get(d, "max_items", Unlimited) = IF m.quantity = None THEN Unlimited ELSE m.quantity
  BY <1>2, <1>5, GetSaid
<1>9. QED
  BY <1>6, <1>7, <1>8 DEF Adapted

LEMMA OneEnvelope ==
  ASSUME NEW m \in Meaning, NEW now \in Int
  PROVE  /\ FromAp2CheckoutMandate(Longhand(m, now)) = BuildEnvelope(Shorthand(m), now)
         /\ FromGenericDelegation(Longhand(m, now)) = BuildEnvelope(Shorthand(m), now)
<1>1. PICK s, l : s = Shorthand(m) /\ l = Longhand(m, now)
  OBVIOUS
<1>2. \A k \in Shared : \A default : Get(s, k, default) = Get(l, k, default)
  BY <1>1, SharedAgree
<1>3. BuildEnvelope(s, now) = Adapted(l, m.total)
  <2>1. PICK merchants, categories, maxItems :
          /\ merchants = IF m.merchant = None THEN {} ELSE {m.merchant}
          /\ categories = IF m.category = None THEN {} ELSE {m.category}
          /\ maxItems = IF m.quantity = None THEN Unlimited ELSE m.quantity
    OBVIOUS
  <2>2. BuildEnvelope(s, now)
          = Filled(s, merchants, categories, m.total, maxItems, now, now + m.minutes)
    BY <1>1, <2>1, ShorthandRead
  <2>3. Adapted(l, m.total)
          = Filled(l, merchants, categories, m.total, maxItems, now, now + m.minutes)
    BY <1>1, <2>1, LonghandRead
  <2>4. QED
    BY <1>2, <2>2, <2>3, FilledAlike
<1>4. l["max_total_amount"] = m.total /\ l["max_amount"] = m.total
  BY <1>1, LonghandRead
<1>5. QED
  BY <1>1, <1>3, <1>4 DEF FromAp2CheckoutMandate, FromGenericDelegation

\* One meaning allows the same carts through /confirm and through either adapter,
\* whatever of it is left unsaid.
THEOREM DoorsAlike == Spec => []DoorsAgree
<1>1. Evaluated => DoorsAgree
  <2>1. SUFFICES ASSUME Evaluated, input.meaning # None, result # None
                 PROVE  DoorsAgree
    BY DEF DoorsAgree
  <2>2. PICK m, now : m = input.meaning /\ now = input.confirmed
    OBVIOUS
  <2>3. /\ m \in Meaning /\ now \in Int
        /\ input.mandate = BuildEnvelope(Shorthand(m), now)
    BY <2>1, <2>2, OriginAssumption DEF Evaluated
  <2>4. result.decision = Decided(input.mandate, input.cart, input.context)
    BY <2>1, InputTypes
  <2>5. QED
    BY <2>2, <2>3, <2>4, OneEnvelope DEF DoorsAgree
<1>2. QED
  BY <1>1, EvaluationInvariance, PTL
=============================================================================
