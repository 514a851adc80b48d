---------------------------- MODULE PolicyEngine ----------------------------
(***************************************************************************)
(* evaluate_policy: the pure function that decides an agent's cart against *)
(* a mandate.  It returns at the first check that fails, and inside the    *)
(* item loop at the first item that fails one.  A reason is None where the *)
(* code's is empty.                                                        *)
(*                                                                         *)
(* Times are integers; an amount is an integer in the currency's smallest  *)
(* unit; TipSkus are the skus whose name contains "tip".                   *)
(*                                                                         *)
(* A definition marked "Fault" is a plausible mistake in the code that the *)
(* definition after it models.                                             *)
(***************************************************************************)
EXTENDS Integers, Sequences
Seqs == INSTANCE SequencesExt

CONSTANTS
    Inputs,    \* by origin: records with a mandate, a cart and a context to evaluate
    Merchants, Skus, Categories, Currencies,
    TipSkus,
    None

Reasons == {"SIGNATURE_INVALID", "MANDATE_EXPIRED", "NOT_YET_VALID", "CURRENCY_MISMATCH",
            "MERCHANT_NOT_ALLOWED", "NONCE_ALREADY_USED", "MANDATE_EXHAUSTED",
            "MALFORMED_CART", "ZERO_BUDGET", "SKU_FORBIDDEN", "SKU_NOT_ALLOWED",
            "SUBSTITUTION_NOT_ALLOWED", "TIPS_NOT_ALLOWED", "UNIT_PRICE_EXCEEDED",
            "QUANTITY_EXCEEDED", "MAX_TOTAL_EXCEEDED"}

MandateType == [genuine: BOOLEAN, issued: Int, expires: Int, currency: Currencies,
                merchants: SUBSET Merchants, skus: SUBSET Skus,
                categories: SUBSET Categories, forbidden: SUBSET Skus,
                substitutions: BOOLEAN, tips: BOOLEAN, maxTotal: Int,
                maxUnitPrice: Int \cup {None}, maxItems: Int, maxTx: Int]
ItemType == [sku: Skus, category: Categories \cup {None}, price: Int, quantity: Int]
CartType == [merchant: Merchants, currency: Currencies, items: Seq(ItemType),
             shipping: Int, tax: Int, total: Int]
ContextType == [now: Int, replay: BOOLEAN, used: Nat]

ASSUME InputsAssumption ==
    \A i \in DOMAIN Inputs : \A in \in Inputs[i] :
        in.mandate \in MandateType /\ in.cart \in CartType /\ in.context \in ContextType

ASSUME NoneAssumption == None \notin Reasons \cup Int

VARIABLES input, result

vars == <<input, result>>

Amount(c) ==
    Seqs!FoldSeq(LAMBDA item, sum : item.price * item.quantity + sum, 0, c.items)
      + c.shipping + c.tax

Quantity(c) == Seqs!FoldSeq(LAMBDA item, sum : item.quantity + sum, 0, c.items)

-----------------------------------------------------------------------------
(* The checks: each gives None or the reason to return. *)

When(fails, reason) == IF fails THEN reason ELSE None

\* Where the function returns: the first reason there is.
FirstReason(reasons) ==
    LET given == {i \in DOMAIN reasons : reasons[i] # None} IN
    IF given = {} THEN None ELSE reasons[CHOOSE i \in given : \A k \in given : i <= k]

\* Fault: an empty list admits nothing.
ListedStrictly(x, list) == x \in list

\* An empty list restricts nothing.
Listed(x, list) == list = {} \/ x \in list

\* Fault: with substitutions on, any sku passes.
SubstitutionUnchecked(m, item) == m.substitutions

\* A sku off the list stands in for a listed one only by its category.
Substitution(m, item) == m.substitutions /\ Listed(item.category, m.categories)

ItemReason(m, item) ==
    IF item.sku \in m.forbidden THEN "SKU_FORBIDDEN"
    ELSE IF ~Listed(item.sku, m.skus) /\ ~Substitution(m, item)
      THEN IF m.substitutions THEN "SUBSTITUTION_NOT_ALLOWED" ELSE "SKU_NOT_ALLOWED"
    ELSE IF ~m.tips /\ item.sku \in TipSkus THEN "TIPS_NOT_ALLOWED"
    ELSE IF m.maxUnitPrice # None /\ item.price > m.maxUnitPrice
      THEN "UNIT_PRICE_EXCEEDED"
    ELSE None

\* Fault: the loop ends one item early.
ItemLoopShort(m, c) ==
    FirstReason([i \in 1..(Len(c.items) - 1) |-> ItemReason(m, c.items[i])])

ItemLoop(m, c) == FirstReason([i \in DOMAIN c.items |-> ItemReason(m, c.items[i])])

Malformed(c) ==
    \/ c.total < 0 \/ c.shipping < 0 \/ c.tax < 0
    \/ \E i \in 1..Len(c.items) : c.items[i].price < 0 \/ c.items[i].quantity < 0
    \/ Amount(c) # c.total

\* The checks in the code's order.
StandingChecks(m, c, x) ==
    <<When(~m.genuine, "SIGNATURE_INVALID"),
      When(x.now > m.expires, "MANDATE_EXPIRED"),
      When(x.now < m.issued, "NOT_YET_VALID"),
      When(c.currency # m.currency, "CURRENCY_MISMATCH"),
      When(~Listed(c.merchant, m.merchants), "MERCHANT_NOT_ALLOWED")>>

UseChecks(m, x) ==
    <<When(x.replay, "NONCE_ALREADY_USED"),
      When(m.maxTx <= 0 \/ x.used >= m.maxTx, "MANDATE_EXHAUSTED")>>

CartChecks(m, c) ==
    <<When(Malformed(c), "MALFORMED_CART"),
      When(m.maxTotal = 0 /\ c.total > 0, "ZERO_BUDGET"),
      ItemLoop(m, c)>>

\* Fault: the total comes before the quantity.
TotalFirst(m, c) ==
    <<When(c.total > m.maxTotal, "MAX_TOTAL_EXCEEDED"),
      When(Quantity(c) > m.maxItems, "QUANTITY_EXCEEDED")>>

LimitChecks(m, c) ==
    <<When(Quantity(c) > m.maxItems, "QUANTITY_EXCEEDED"),
      When(c.total > m.maxTotal, "MAX_TOTAL_EXCEEDED")>>

\* Fault: the user is asked to approve an exhausted mandate again.
ReconsentWhenExhausted(reason) ==
    CASE reason = None -> "ALLOW"
      [] reason \in {"MAX_TOTAL_EXCEEDED", "MANDATE_EXHAUSTED"} -> "RECONSENT"
      [] OTHER -> "BLOCK"

Decision(reason) ==
    CASE reason = None -> "ALLOW"
      [] reason = "MAX_TOTAL_EXCEEDED" -> "RECONSENT"
      [] OTHER -> "BLOCK"

EvaluatePolicy(m, c, x) ==
    LET reason == FirstReason(<<FirstReason(StandingChecks(m, c, x)),
                                FirstReason(UseChecks(m, x)),
                                FirstReason(CartChecks(m, c)),
                                FirstReason(LimitChecks(m, c))>>) IN
    [decision |-> Decision(reason), reason |-> reason]

-----------------------------------------------------------------------------

Init == result = None /\ \E i \in DOMAIN Inputs : input \in Inputs[i]

Evaluate ==
    /\ result = None
    /\ result' = EvaluatePolicy(input.mandate, input.cart, input.context)
    /\ UNCHANGED input

Next == Evaluate

Spec == Init /\ [][Next]_vars

-----------------------------------------------------------------------------
(* Properties of every evaluation *)

Decided(m, c, x) == EvaluatePolicy(m, c, x).decision

\* An allowed cart adds up to the amount that will be ordered, lies inside every
\* limit of the mandate, item by item, and the mandate is in force and unspent.
AllowedIsAuthorized ==
    LET m == input.mandate
        c == input.cart
        x == input.context IN
    result # None /\ result.decision = "ALLOW" =>
        /\ m.genuine /\ x.now \in m.issued..m.expires
        /\ ~x.replay /\ x.used < m.maxTx
        /\ c.total = Amount(c) /\ c.total \in 0..m.maxTotal
        /\ Quantity(c) <= m.maxItems
        /\ c.currency = m.currency
        /\ m.merchants = {} \/ c.merchant \in m.merchants
        /\ \A i \in 1..Len(c.items) :
             LET item == c.items[i] IN
             /\ item.sku \notin m.forbidden
             /\ item.sku \in TipSkus => m.tips
             /\ m.maxUnitPrice # None => item.price <= m.maxUnitPrice
             /\ \/ m.skus = {} \/ item.sku \in m.skus
                \/ m.substitutions /\ m.categories = {}
                \/ m.substitutions /\ item.category \in m.categories

\* RECONSENT is answered exactly when a larger max_total, and nothing else, would
\* have made the cart acceptable; a mandate over nothing is never extended.
ReconsentIsAboutTheBudget ==
    LET m == input.mandate
        larger == [m EXCEPT !.maxTotal = input.cart.total] IN
    result # None =>
        (result.decision = "RECONSENT"
           <=> /\ result.decision # "ALLOW"
               /\ m.maxTotal # 0
               /\ Decided(larger, input.cart, input.context) = "ALLOW")

\* Expiry, replay and exhaustion block whatever the cart, and otherwise do not
\* matter: what Firewall!Evaluate takes from evaluate_policy.
GuardsBlockAlone ==
    LET m == input.mandate
        x == input.context
        fresh == [x EXCEPT !.now = m.expires, !.replay = FALSE, !.used = 0] IN
    result # None /\ x.now >= m.issued =>
        result.decision = IF x.now > m.expires \/ x.replay \/ x.used >= m.maxTx
                            THEN "BLOCK" ELSE Decided(m, input.cart, fresh)

\* Mandates that grant no more than m, one field apart.
Tightenings(m) ==
    {[m EXCEPT !.maxTotal = @ - 1], [m EXCEPT !.maxItems = @ - 1],
     [m EXCEPT !.tips = FALSE], [m EXCEPT !.substitutions = FALSE],
     [m EXCEPT !.maxTx = @ - 1],
     [m EXCEPT !.maxUnitPrice = IF @ = None THEN 1 ELSE @ - 1]}
    \cup {[m EXCEPT !.merchants = {s}] :
              s \in {t \in {input.cart.merchant} : m.merchants \subseteq {t}}}
    \cup {[m EXCEPT !.forbidden = @ \cup {i.sku}] : i \in Seqs!ToSet(input.cart.items)}
    \cup {[m EXCEPT !.skus = {i.sku}] :
              i \in {j \in Seqs!ToSet(input.cart.items) : m.skus \subseteq {j.sku}}}
    \cup {[m EXCEPT !.categories = {i.category}] :
              i \in {j \in Seqs!ToSet(input.cart.items) : m.categories \subseteq {j.category}}}

\* A narrower mandate never allows a cart that a wider one refuses: no limit is
\* loosened by setting another.
TighterAllowsNoMore ==
    result # None =>
        \A m \in Tightenings(input.mandate) :
            Decided(m, input.cart, input.context) = "ALLOW" => result.decision = "ALLOW"

\* The order in which a cart lists its items does not change the decision.
ItemOrderIrrelevant ==
    result # None =>
        result.decision = Decided(input.mandate,
                                  [input.cart EXCEPT !.items = Seqs!Reverse(@)], input.context)
=============================================================================
