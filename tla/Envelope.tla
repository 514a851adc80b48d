------------------------------ MODULE Envelope ------------------------------
(***************************************************************************)
(* Where a mandate comes from: the intent compiler, the fields that        *)
(* /authorization/confirm fills in, and the two adapters.  All are pure    *)
(* functions; what they make is what evaluate_policy is given.             *)
(*                                                                         *)
(* An intent is the sequence of the phrases the compiler's expressions can *)
(* find in it.  JSON objects are functions from the keys they have.        *)
(*                                                                         *)
(* A definition marked "Fault" is a plausible mistake in the code that the *)
(* definition after it models.                                             *)
(***************************************************************************)
EXTENDS PolicyEngine

CONSTANTS
    DefaultTtl,      \* default_mandate_ttl_minutes
    Unlimited        \* 999 items

-----------------------------------------------------------------------------
(* compile_intent *)

\* A phrase's n is its number and word what follows it, a merchant's name too.  last
\* is the last group of n's digits: the 000 of 25,000.
Phrase ==
    [kind: {"amount"}, n: Nat, last: Nat, word: Categories \cup {None}]
    \cup [kind: {"merchant"}, n: {0}, last: {0}, word: Merchants]
    \cup {p \in [kind: {"count"}, n: Nat, last: Nat, word: Categories] : p.last = p.n}
    \cup [kind: {"expiry"}, n: Nat, last: Nat, word: Categories \cup {None}]
    \cup [kind: {"substitution", "no substitution"}, n: {0}, last: {0}, word: {None}]

OfKind(text, kind) == {i \in DOMAIN text : text[i].kind = kind}

\* _QTY_RE finds any number with a word after it, an amount's or expiry's too.
Numbers(text) ==
    {i \in DOMAIN text : /\ text[i].kind \in {"amount", "count", "expiry"}
                         /\ text[i].word # None}

\* re.search: the first of the phrases at these places.
Search(text, places) == text[CHOOSE i \in places : \A k \in places : i <= k]

\* Fault: the last number is taken for the quantity.
LastNumber(text) ==
    text[CHOOSE i \in Numbers(text) : \A k \in Numbers(text) : k <= i]

QuantityPhrase(text) == Search(text, Numbers(text))

CompileIntent(text) ==
    LET Found(kind) == OfKind(text, kind) # {}
        The(kind) == Search(text, OfKind(text, kind))
        counted == Numbers(text) # {} IN
    [max_total |-> IF Found("amount") THEN The("amount").n ELSE None,
     merchant_name |-> IF Found("merchant") THEN The("merchant").word ELSE None,
     quantity |-> IF counted THEN QuantityPhrase(text).last ELSE None,
     category |-> IF counted THEN QuantityPhrase(text).word ELSE None,
     substitutions_allowed |-> Found("substitution") /\ ~Found("no substitution"),
     expires_in_minutes |-> IF Found("expiry") THEN The("expiry").n ELSE DefaultTtl]

-----------------------------------------------------------------------------
(* Envelopes *)

\* dict.get
Get(d, k, default) == IF k \in DOMAIN d THEN d[k] ELSE default

\* Not None and not missing.
Given(d, k) == Get(d, k, None) # None

\* The fields that all three functions read alike.
Filled(d, merchants, categories, maxTotal, maxItems, issued, expires) ==
    [genuine |-> TRUE, issued |-> issued, expires |-> expires,
     currency |-> Get(d, "currency", "INR"),
     merchants |-> merchants, categories |-> categories,
     skus |-> Get(d, "allowed_skus", {}), forbidden |-> Get(d, "forbidden_skus", {}),
     substitutions |-> Get(d, "substitutions_allowed", FALSE),
     tips |-> Get(d, "tips_allowed", FALSE),
     maxTotal |-> maxTotal, maxUnitPrice |-> Get(d, "max_unit_price", None),
     maxItems |-> maxItems, maxTx |-> Get(d, "max_transactions", 1)]

\* A non-empty list, or else the one name given for it.
ListOrName(d, list, name) ==
    IF Get(d, list, {}) # {} THEN d[list]
    ELSE IF Given(d, name) THEN {d[name]} ELSE {}

\* Fault: quantity is looked at only if there is no max_items, which has a default.
MaxItemsFirst(d) == Get(d, "max_items", Unlimited)

\* A quantity of 0 is no quantity.
MaxItems(d) ==
    IF Given(d, "quantity") /\ d["quantity"] # 0 THEN d["quantity"]
    ELSE Get(d, "max_items", Unlimited)

\* _build_envelope, signed by confirm_authorization.
BuildEnvelope(d, now) ==
    Filled(d, ListOrName(d, "merchant_ids", "merchant_name"),
           ListOrName(d, "allowed_categories", "category"),
           d["max_total"], MaxItems(d),
           IF Given(d, "issued_at") THEN d["issued_at"] ELSE now,
           IF Given(d, "expires_at") THEN d["expires_at"]
             ELSE now + Get(d, "expires_in_minutes", DefaultTtl))

\* What both adapters do once they have the maximum.
Adapted(d, maxTotal) ==
    Filled(d, Get(d, "merchant_ids", {}), Get(d, "allowed_categories", {}),
           maxTotal, Get(d, "max_items", Unlimited), d["issued_at"], d["expires_at"])

FromAp2CheckoutMandate(d) == Adapted(d, d["max_total_amount"])

FromGenericDelegation(d) == Adapted(d, d["max_amount"])

-----------------------------------------------------------------------------
(* What a user delegates, and how the doors are told.  What is not said is None. *)

Meaning ==
    [merchant: Merchants \cup {None}, category: Categories \cup {None},
     skus: SUBSET Skus \cup {None}, forbidden: SUBSET Skus \cup {None},
     substitutions: BOOLEAN \cup {None}, tips: BOOLEAN \cup {None},
     currency: Currencies \cup {None}, unitPrice: Int \cup {None},
     total: Int, quantity: (Int \ {0}) \cup {None}, minutes: Int,
     uses: Int \cup {None}]

\* The JSON object with a key for everything that is said.
Said(r) == [k \in {x \in DOMAIN r : r[x] # None} |-> r[k]]

OnlyOne(x) == IF x = None THEN None ELSE {x}

\* As posted to /confirm, with its shorthands.
Shorthand(m) ==
    Said([max_total |-> m.total, expires_in_minutes |-> m.minutes,
          merchant_name |-> m.merchant, category |-> m.category,
          quantity |-> m.quantity, max_transactions |-> m.uses,
          allowed_skus |-> m.skus, forbidden_skus |-> m.forbidden,
          substitutions_allowed |-> m.substitutions, tips_allowed |-> m.tips,
          currency |-> m.currency, max_unit_price |-> m.unitPrice])

\* As given to an adapter, by a document issued at moment now.
Longhand(m, now) ==
    Said([max_total_amount |-> m.total, max_amount |-> m.total,
          issued_at |-> now, expires_at |-> now + m.minutes,
          merchant_ids |-> OnlyOne(m.merchant),
          allowed_categories |-> OnlyOne(m.category),
          max_items |-> m.quantity, max_transactions |-> m.uses,
          allowed_skus |-> m.skus, forbidden_skus |-> m.forbidden,
          substitutions_allowed |-> m.substitutions, tips_allowed |-> m.tips,
          currency |-> m.currency, max_unit_price |-> m.unitPrice])

-----------------------------------------------------------------------------
(* Properties.  An input's mandate was confirmed at moment confirmed.  Its   *)
(* text is the intent it was compiled from; its meaning is what was          *)
(* delegated.  Either may be None.                                           *)

\* A text becomes a mandate only by being compiled and then confirmed, which takes
\* an amount; a meaning, by being posted to /confirm.  A count is written without a
\* comma.
ASSUME OriginAssumption ==
    /\ None \notin Merchants \cup Categories
    /\ \A x \in Merchants \cup Categories : {x} # None
    /\ \A i \in DOMAIN Inputs : \A in \in Inputs[i] :
         /\ in.text # None =>
              /\ in.text \in Seq(Phrase) /\ OfKind(in.text, "amount") # {}
              /\ in.mandate = BuildEnvelope(CompileIntent(in.text), in.confirmed)
         /\ in.meaning # None =>
              /\ in.meaning \in Meaning /\ in.confirmed \in Int
              /\ in.mandate = BuildEnvelope(Shorthand(in.meaning), in.confirmed)

\* What the user stated holds of every cart that is allowed under the mandate
\* compiled from it: amount, merchant, time and one use; and the count, if it is
\* more than 0 and no amount or expiry stands before it with a word after it.
StatedIntentEnforced ==
    LET text == input.text
        x == input.context
        Stated(kind) == Search(text, OfKind(text, kind))
        number == Search(text, Numbers(text)) IN
    text # None /\ result # None /\ result.decision = "ALLOW" =>
        /\ input.cart.total <= Stated("amount").n
        /\ OfKind(text, "merchant") # {} => input.cart.merchant = Stated("merchant").word
        /\ OfKind(text, "expiry") # {} => x.now <= input.confirmed + Stated("expiry").n
        /\ x.used = 0 /\ ~x.replay
        /\ Numbers(text) # {} /\ number.kind = "count" /\ number.n > 0 =>
             Quantity(input.cart) <= number.n

\* The same terms allow the same carts through /confirm, with its shorthands
\* merchant_name, category, quantity and expires_in_minutes, and through either
\* adapter.
DoorsAgree ==
    LET document == Longhand(input.meaning, input.confirmed)
        Through(envelope) == Decided(envelope, input.cart, input.context) IN
    input.meaning # None /\ result # None =>
        /\ result.decision = Through(FromAp2CheckoutMandate(document))
        /\ result.decision = Through(FromGenericDelegation(document))
=============================================================================
