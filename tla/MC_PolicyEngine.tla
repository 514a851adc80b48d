---------------------------- MODULE MC_PolicyEngine ----------------------------
(* Inputs at and on both sides of every boundary the engine compares with, and *)
(* the mandates that intents and delegations become.                          *)
EXTENDS Envelope, FiniteSets, TLC

CONSTANTS chair, table, tip, furniture, food, shop, stall

MCTipSkus == {tip}
MCMerchants == {shop, stall}
MCSkus == {chair, table, tip}
MCCategories == {furniture, food, "for", "minute"}
MCCurrencies == {"INR", "USD"}

Mandate == [genuine: {TRUE}, issued: {1}, expires: {2}, currency: {"INR"},
            merchants: {{shop}}, skus: {{}, {chair}}, categories: {{}, {furniture}},
            forbidden: {{}, {table}}, substitutions: BOOLEAN, tips: BOOLEAN,
            maxTotal: {-1, 0, 3}, maxUnitPrice: {None, 1}, maxItems: {1, 2},
            maxTx: {1}]

Item == [sku: {chair, table}, category: {furniture, None}, price: {1, 2},
         quantity: {1}]
          \cup [sku: {tip, chair}, category: {food}, price: {0}, quantity: {0, 1, 2}]

Bill(items, shipping, extra) ==
    LET c == [merchant |-> shop, currency |-> "INR", items |-> items,
              shipping |-> shipping, tax |-> 0, total |-> 0] IN
    [c EXCEPT !.total = Amount(c) + extra]

Baskets == {<<>>} \cup {<<i>> : i \in Item} \cup {<<i, j>> : i, j \in Item}

Now == [now |-> 1, replay |-> FALSE, used |-> 0]

\* Every scope against every basket, while the mandate is in force.
ScopeInputs ==
    [mandate: Mandate, cart: {Bill(b, 0, 0) : b \in Baskets}, context: {Now}]

Chair == [sku |-> chair, category |-> furniture, price |-> 1, quantity |-> 1]

Ordinary == [genuine |-> TRUE, issued |-> 1, expires |-> 2, currency |-> "INR",
             merchants |-> {}, skus |-> {}, categories |-> {}, forbidden |-> {},
             substitutions |-> FALSE, tips |-> FALSE, maxTotal |-> 2,
             maxUnitPrice |-> None, maxItems |-> 1, maxTx |-> 1]

Ordinaries ==
    {[Ordinary EXCEPT !.genuine = g, !.merchants = s, !.maxTx = t] :
        g \in BOOLEAN, s \in {{}, {shop}}, t \in {-1, 0, 1, 2}}

\* Odd amounts, merchants and currencies.
Bills ==
    {Bill(<<[Chair EXCEPT !.price = p, !.quantity = q]>>, sh, extra) :
        p \in {-1, 1}, q \in {-1, 1, 2}, sh \in {-1, 0, 1, 2}, extra \in {-1, 0, 1}}
    \cup {[Bill(<<Chair>>, 0, 0) EXCEPT !.tax = -1, !.shipping = 1]}

Carts == Bills \cup {[Bill(<<Chair>>, 0, 0) EXCEPT !.merchant = stall],
                     [Bill(<<Chair>>, 0, 0) EXCEPT !.currency = "USD"]}

Contexts == [now: 0..3, replay: BOOLEAN, used: 0..2]

\* Every moment and every use count against a few ordinary mandates.
UseInputs == [mandate: Ordinaries, cart: Carts, context: Contexts]

Direct == [text |-> None, meaning |-> None, confirmed |-> 1]

\* A mandate that was not made from something else.
DirectInputs == {i @@ Direct : i \in ScopeInputs \cup UseInputs}

-----------------------------------------------------------------------------
(* Intents *)

Number(kind, n, word) == [kind |-> kind, n |-> n, last |-> n, word |-> word]
Words(kind, word) == [kind |-> kind, n |-> 0, last |-> 0, word |-> word]

\* "2 ...", "2,000, ..." and "2,000 for ..." in thousands.
Amounts == {Number("amount", 2, None), Number("amount", 2, "for"),
            [Number("amount", 2, "for") EXCEPT !.last = 0]}
Counts == {Number("count", n, furniture) : n \in 0..2}
Expiries == {Number("expiry", 1, word) : word \in {None, "minute"}}
MerchantPhrases == {Words("merchant", shop)}
Substitutions == {Words("substitution", None), Words("no substitution", None)}
Phrases == Amounts \cup Counts \cup Expiries \cup MerchantPhrases \cup Substitutions

Orders(a, b, c, d) ==
    {[i \in 1..4 |-> <<a, b, c, d>>[f[i]]] : f \in Permutations(1..4)}

Texts == {t \in UNION {[1..k -> Phrases] : k \in 1..3} : OfKind(t, "amount") # {}}
           \cup UNION {Orders(a, c, e, m) : a \in Amounts, c \in Counts,
                                            e \in Expiries, m \in MerchantPhrases}

Moments == {[Now EXCEPT !.now = t] : t \in 1..4} \cup {[Now EXCEPT !.used = 1]}

FewBills == {[Bill(<<[Chair EXCEPT !.quantity = q]>>, sh, 0) EXCEPT !.merchant = s] :
               q \in 1..3, sh \in 0..1, s \in {shop, stall}}

IntentInputs ==
    {[mandate |-> BuildEnvelope(CompileIntent(t), 1), cart |-> c, context |-> x,
      text |-> t, meaning |-> None, confirmed |-> 1] :
        t \in Texts, c \in FewBills, x \in Moments}

-----------------------------------------------------------------------------
(* Delegations *)

Unsaid == [forbidden |-> None, tips |-> None, currency |-> None, unitPrice |-> None]

Meanings ==
    {m @@ Unsaid :
       m \in [merchant: {None, shop}, category: {None, furniture}, skus: {None, {chair}},
              substitutions: {None, TRUE}, total: {0, 2}, quantity: {None, 1, 2},
              minutes: {0, 1}, uses: {None, 2}]}
    \cup [merchant: {shop}, category: {None}, skus: {{}}, substitutions: {FALSE},
          forbidden: {None, {table}}, tips: BOOLEAN, currency: {"INR", "USD"},
          unitPrice: {None, 0, 1}, total: {2}, quantity: {2}, minutes: {1}, uses: {None}]

Table == [sku |-> table, category |-> furniture, price |-> 1, quantity |-> 1]

DoorBills == {[Bill(b, 0, 0) EXCEPT !.merchant = s] :
                b \in {<<Chair>>, <<Table>>, <<[Table EXCEPT !.category = food]>>,
                       <<Chair, Table>>, <<Chair, Chair, Table>>},
                s \in {shop, stall}}

DoorInputs ==
    {[mandate |-> BuildEnvelope(Shorthand(m), 1), cart |-> c, context |-> x,
      text |-> None, meaning |-> m, confirmed |-> 1] :
        m \in Meanings, c \in DoorBills, x \in {y \in Moments : y.now < 4}}

MCInputs == <<DirectInputs, IntentInputs, DoorInputs>>
=============================================================================
