------------------------------ MODULE Pricing -------------------------------
(***************************************************************************)
(* What an order costs: promotions, points and tax rules, the endpoints    *)
(* and panel forms that maintain them, and the settlement of payments.     *)
(* Money is in cents and rounded half up; quotients are exact, where the   *)
(* code's Decimals keep 28 digits.                                         *)
(***************************************************************************)
EXTENDS Integers, Sequences, FiniteSets, Functions

CONSTANTS
    Wares, WareCategory, WarePrice,  \* products, their categories, prices in cents
    Promos, TaxRules, Checkouts,     \* row ids and carts
    PromoKinds, TaxKinds,            \* what the forms are filled in with
    PanelKinds, PanelTaxKinds,       \* and what only the panel's forms let through
    Tenders,                         \* amounts handed over
    MaxPoints, MaxQuantity, MaxDay   \* bounds

NoDay == -1
Scopes == {"order", "product", "category"}
Targets == {"nothing"} \cup Wares \cup {WareCategory[w] : w \in Wares}

\* A promotion's row: its cap (NULL is <<>>, else a 1-tuple), the product or category of
\* its scope, the days it is valid from and to, on or off.
PromotionFields ==
    [type : {"percentage", "fixed"}, value : Int, cap : Seq(Int), least : Int,
     scope : Scopes, of : Targets, starts : Int, ends : Int, state : {"on", "off"}]

\* A tax rule's: mode (any other text counts as exclusive), rate in percent, the rest
\* alike.
TaxFields ==
    [mode : {"inclusive", "exclusive"}, rate : Int,
     scope : Scopes, of : Targets, starts : Int, ends : Int, state : {"on", "off"}]

ASSUME PricingAssumption ==
    /\ IsFiniteSet(Wares) /\ IsFiniteSet(TaxRules)
    /\ WarePrice \in [Wares -> Nat] /\ DOMAIN WareCategory = Wares
    /\ PromoKinds \cup PanelKinds \subseteq PromotionFields
    /\ TaxKinds \cup PanelTaxKinds \subseteq TaxFields /\ Tenders \subseteq Nat
    /\ MaxPoints \in Nat /\ MaxQuantity \in Nat /\ MaxDay \in Nat

VARIABLES promos, taxRules, bills, day
pricingVars == <<promos, taxRules, bills, day>>

Unset == [state |-> "none"]
PromoRows == PromoKinds \cup PanelKinds
TaxRows == TaxKinds \cup PanelTaxKinds

PricingInit ==
    /\ promos = [k \in Promos |-> Unset]
    /\ taxRules = [x \in TaxRules |-> Unset]
    /\ bills = [c \in Checkouts |-> Unset]
    /\ day = 0
-----------------------------------------------------------------------------
(* Promotions and tax rules *)

\* _validate_promotion_dates, _validate_tax_dates
DatesInOrder(row) == NoDay \in {row.starts, row.ends} \/ row.starts <= row.ends

\* _validate_promotion_scope, _validate_tax_scope: the scope's product or category,
\* and none for an order.
ScopeIsValid(row) ==
    CASE row.scope = "order" -> row.of = "nothing"
      [] row.scope = "product" -> row.of \in Wares
      [] row.scope = "category" -> row.of # "nothing" /\ \E w \in Wares : row.of = WareCategory[w]

\* _validate_promotion_discount
DiscountIsValid(row) == row.type = "percentage" => row.value <= 100

\* The schemas bound the fields a request sends; a PUT keeps the others.
Kept(row, was) == {f \in DOMAIN row : row[f] = was[f]}
AmountsAreValid(row, kept) ==
    /\ \A f \in {"value", "least"} \ kept : row[f] >= 0
    /\ "cap" \notin kept /\ row.cap # <<>> => row.cap[1] >= 0

PromotionIsValid(row, kept) ==
    ScopeIsValid(row) /\ DatesInOrder(row) /\ DiscountIsValid(row) /\ AmountsAreValid(row, kept)
TaxIsValid(row, kept) ==
    ScopeIsValid(row) /\ DatesInOrder(row) /\ ("rate" \in kept \/ row.rate \in 0..100)

CreatePromotion(k, row) ==
    /\ promos[k] = Unset /\ row \in PromoRows /\ PromotionIsValid(row, {})
    /\ promos' = [promos EXCEPT ![k] = row]
    /\ UNCHANGED <<taxRules, bills, day>>

\* PUT: the fields sent are merged into the row and the whole is validated.
UpdatePromotion(k, row) ==
    /\ promos[k] # Unset /\ row \in PromoRows /\ PromotionIsValid(row, Kept(row, promos[k]))
    /\ promos' = [promos EXCEPT ![k] = row]
    /\ UNCHANGED <<taxRules, bills, day>>

\* The panel's forms write a row, or delete it, without the endpoints' checks.
PanelPromotion(k, row) ==
    /\ promos' = [promos EXCEPT ![k] = row]
    /\ UNCHANGED <<taxRules, bills, day>>

PanelTax(x, row) ==
    /\ taxRules' = [taxRules EXCEPT ![x] = row]
    /\ UNCHANGED <<promos, bills, day>>

\* DELETE: an end that is set stays, even one to come.
EndedOn(row, d) == [row EXCEPT !.state = "off", !.ends = IF @ = NoDay THEN d ELSE @]
Ended(row) == EndedOn(row, day)

DeactivatePromotion(k) ==
    /\ promos[k] # Unset
    /\ promos' = [promos EXCEPT ![k] = Ended(@)]
    /\ UNCHANGED <<taxRules, bills, day>>

CreateTax(x, row) ==
    /\ taxRules[x] = Unset /\ row \in TaxRows /\ TaxIsValid(row, {})
    /\ taxRules' = [taxRules EXCEPT ![x] = row]
    /\ UNCHANGED <<promos, bills, day>>

UpdateTax(x, row) ==
    /\ taxRules[x] # Unset /\ row \in TaxRows /\ TaxIsValid(row, Kept(row, taxRules[x]))
    /\ taxRules' = [taxRules EXCEPT ![x] = row]
    /\ UNCHANGED <<promos, bills, day>>

DeactivateTax(x) ==
    /\ taxRules[x] # Unset
    /\ taxRules' = [taxRules EXCEPT ![x] = Ended(@)]
    /\ UNCHANGED <<promos, bills, day>>
-----------------------------------------------------------------------------
(* Pricing a cart *)

Least(a, b) == IF a <= b THEN a ELSE b
Most(a, b) == IF a >= b THEN a ELSE b

\* quantize_money of a / b: halves are rounded away from zero.
Rounded(a, b) == IF a >= 0 THEN (2 * a + b) \div (2 * b) ELSE -((b - 2 * a) \div (2 * b))

InForce(row) ==
    /\ row.state = "on"
    /\ row.starts = NoDay \/ row.starts <= day
    /\ row.ends = NoDay \/ day <= row.ends

LineTotal(cart, w) == WarePrice[w] * cart[w]
InScope(row) == {w \in Wares : \/ row.scope = "order"
                               \/ row.scope = "product" /\ w = row.of
                               \/ row.scope = "category" /\ WareCategory[w] = row.of}
LineTotals(cart) == [w \in Wares |-> LineTotal(cart, w)]
ScopeSubtotal(row, cart) == SumFunctionOnSet(LineTotals(cart), InScope(row))
Subtotal(cart) == SumFunctionOnSet(LineTotals(cart), Wares)

\* Mutant: nothing limits the discount to what it applies to.
DiscountUncapped(row, cart) ==
    IF row.type = "percentage" THEN Rounded(ScopeSubtotal(row, cart) * row.value, 100)
                               ELSE row.value

Discount(row, cart) ==
    LET eligible == ScopeSubtotal(row, cart)
        wanted == IF row.type = "percentage" THEN Rounded(eligible * row.value, 100)
                                             ELSE row.value
        capped == IF row.cap = <<>> THEN wanted ELSE Least(wanted, row.cap[1])
    IN  Least(Least(capped, eligible), Subtotal(cart))

PromotionApplies(row, cart) ==
    InForce(row) /\ Subtotal(cart) >= row.least /\ Discount(row, cart) > 0

\* One tax line: the rule's share of the taxable base and the tax on it.
TaxLine(rule, cart, base) ==
    LET taxable == Rounded(ScopeSubtotal(rule, cart) * base, Subtotal(cart))
        contained == IF rule.rate > 0 THEN Rounded(taxable * rule.rate, 100 + rule.rate) ELSE 0
    IN  [mode |-> rule.mode, scope |-> rule.scope, rate |-> rule.rate, base |-> taxable,
         tax |-> IF rule.mode = "inclusive" THEN contained
                                            ELSE Rounded(taxable * rule.rate, 100)]

\* The lines of all rules in force whose share is not zero.
TaxLines(cart, base) ==
    LET applied == {x \in TaxRules : /\ taxRules[x] # Unset /\ InForce(taxRules[x])
                                     /\ ScopeSubtotal(taxRules[x], cart) > 0
                                     /\ TaxLine(taxRules[x], cart, base).base > 0}
    IN  [x \in applied |-> TaxLine(taxRules[x], cart, base)]

Exclusive(lines) == {x \in DOMAIN lines : lines[x].mode = "exclusive"}
GrandTotal(base, lines) ==
    base + SumFunctionOnSet([x \in DOMAIN lines |-> lines[x].tax], Exclusive(lines))

\* create_order: the promotion (or none), then points, a unit of money each, then taxes.
PriceOrder(c, cart, k, points) ==
    LET discount == IF k = "none" THEN 0 ELSE Discount(promos[k], cart)
        base == Subtotal(cart) - discount - 100 * points
        lines == TaxLines(cart, base)
    IN  /\ bills[c] = Unset
        /\ Subtotal(cart) > 0
        /\ k # "none" => promos[k] # Unset /\ PromotionApplies(promos[k], cart)
        /\ points > 0 => points <= (Subtotal(cart) - discount) \div 100
        /\ bills' = [bills EXCEPT ![c] =
              [state |-> "priced", subtotal |-> Subtotal(cart), discount |-> discount,
               points |-> points, base |-> base, lines |-> lines,
               total |-> GrandTotal(base, lines), tendered |-> 0]]
        /\ UNCHANGED <<promos, taxRules, day>>

\* _calculate_settlement_totals
Settlement(total, tendered) ==
    [paid |-> Least(tendered, total), change |-> Most(tendered - total, 0),
     remaining |-> Most(total - Least(tendered, total), 0)]

\* A payment of a pending order, which settles it once nothing remains.
Tender(c, amount) ==
    LET tendered == bills[c].tendered + amount
    IN  /\ bills[c].state = "priced"
        /\ bills' = [bills EXCEPT
              ![c].tendered = tendered,
              ![c].state = IF Settlement(bills[c].total, tendered).remaining = 0 THEN "settled"
                           ELSE @]
        /\ UNCHANGED <<promos, taxRules, day>>

NewDay ==
    /\ day < MaxDay /\ day' = day + 1
    /\ UNCHANGED <<promos, taxRules, bills>>

RuleChange ==
    \/ \E k \in Promos :
          \/ DeactivatePromotion(k)
          \/ \E row \in PromoRows : CreatePromotion(k, row) \/ UpdatePromotion(k, row)
          \/ \E row \in PromoRows \cup {Unset} : PanelPromotion(k, row)
    \/ \E x \in TaxRules : \/ DeactivateTax(x)
                           \/ \E row \in TaxRows : CreateTax(x, row) \/ UpdateTax(x, row)
                           \/ \E row \in TaxRows \cup {Unset} : PanelTax(x, row)

PricingNext ==
    \/ RuleChange
    \/ \E c \in Checkouts, cart \in [Wares -> 0..MaxQuantity], k \in Promos \cup {"none"},
          points \in 0..MaxPoints : PriceOrder(c, cart, k, points)
    \/ \E c \in Checkouts, amount \in Tenders : Tender(c, amount)
    \/ NewDay

PricingSpec == PricingInit /\ [][PricingNext]_pricingVars
-----------------------------------------------------------------------------
\* Rows as they were filled in, or ended since: on an earlier day, if no end was set.
RowsOf(kinds) == kinds \cup {EndedOn(row, d) : row \in kinds, d \in 0..MaxDay}

PricingTypeOK ==
    /\ \A k \in Promos : promos[k] = Unset \/ promos[k] \in RowsOf(PromoRows)
    /\ \A x \in TaxRules : taxRules[x] = Unset \/ taxRules[x] \in RowsOf(TaxRows)
    /\ day \in 0..MaxDay

\* Whatever rules the forms let through, in whatever order they changed: a discount
\* gives away no more than the goods cost, the taxable base is never negative, no tax is
\* charged on more than it, a tax contained in the price is part of it, only a rule
\* with a negative rate (the panel's form takes one) has a negative tax, and without
\* such a rule no order costs less than its base.  What was settled and what remains
\* make up the total, a negative one included: the arithmetic of create_order,
\* _calculate_order_taxes and _calculate_settlement_totals.
PricesAddUp ==
    \A c \in {d \in Checkouts : bills[d] # Unset} :
        LET b == bills[c]
            settled == Settlement(b.total, b.tendered)
        IN  /\ 0 <= b.discount /\ b.discount <= b.subtotal
            /\ 0 <= b.base
            /\ (\A x \in Exclusive(b.lines) : b.lines[x].rate >= 0) => b.base <= b.total
            /\ \A x \in DOMAIN b.lines :
                  /\ b.lines[x].base <= b.base
                  /\ b.lines[x].mode = "inclusive" => b.lines[x].tax \in 0..b.lines[x].base
                  /\ b.lines[x].tax < 0 => b.lines[x].rate < 0
            /\ settled.paid + settled.remaining = b.total
            /\ settled.paid + settled.change = b.tendered
=============================================================================
