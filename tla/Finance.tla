------------------------------ MODULE Finance ------------------------------
(***************************************************************************)
(* The calculation engine of reports-svc: a bank loan repaid month by      *)
(* month, and a developer's plan of a down payment, instalments and a      *)
(* maintenance deposit.  Money is in piastres, as the code rounds it.      *)
(*                                                                         *)
(* The monthly rate is rate / Parts; the code's is the annual percentage   *)
(* over 1200.  Dates, labels, rollups and the presentation are left out,   *)
(* and so are inputs that are refused.                                     *)
(***************************************************************************)
EXTENDS Integers

CONSTANTS
    Prices, Percents, Rates,     \* what may be asked for
    Terms,                       \* in payments: years times payments per year
    Parts

ASSUME FinanceAssumption ==
    /\ Prices \subseteq Nat \ {0} /\ Percents \subseteq 0..100
    /\ Rates \subseteq Nat /\ Terms \subseteq Nat \ {0} /\ Parts \in Nat \ {0}

VARIABLE deal

financeVars == <<deal>>

NoDeal == [kind |-> "none", price |-> 0, down |-> 0, owed |-> 0, rate |-> 0, count |-> 0,
           level |-> 0, done |-> 0, balance |-> 0, repaid |-> 0, interest |-> 0, paid |-> 0,
           last |-> 0, deposit |-> 0]
\* owed is what remains after the down payment, level the regular payment, and last the
\* latest one; done counts payments, and repaid, interest and paid add them up.
Deal == [kind : {"none", "mortgage", "installments"}, price : Nat, down : Int, owed : Int,
         rate : Nat, count : Nat, level : Int, done : Nat, balance : Int, repaid : Int,
         interest : Int, paid : Int, last : Int, deposit : Int]

FinanceTypeOK == deal \in Deal

FinanceInit == deal = NoDeal

\* Half up, of n / d for d > 0.
round_money(n, d) == (2 * n + d) \div (2 * d)

power(base, exponent) ==
    LET p[i \in 0..exponent] == IF i = 0 THEN 1 ELSE base * p[i - 1] IN p[exponent]

\* Mutant: the formula of payments made in advance.
PaymentInAdvance(principal, rate, months) ==
    IF rate = 0 THEN round_money(principal, months)
    ELSE LET growth == power(Parts + rate, months)
         IN  round_money(principal * rate * power(Parts + rate, months - 1),
                         growth - power(Parts, months))

level_payment(principal, rate, months) ==
    IF rate = 0 THEN round_money(principal, months)
    ELSE LET growth == power(Parts + rate, months)
         IN  round_money(principal * rate * growth, Parts * (growth - power(Parts, months)))

Finished == \/ deal.done = deal.count
            \/ deal.kind = "mortgage" /\ deal.balance <= 0

mortgage(price, percent, months, rate) ==
    /\ deal = NoDeal
    /\ LET down == round_money(price * percent, 100)
           principal == price - down
           payment == level_payment(principal, rate, months)
       IN  /\ principal > 0
           /\ payment \in Nat
           /\ deal' = [NoDeal EXCEPT !.kind = "mortgage", !.price = price, !.down = down,
                          !.owed = principal, !.rate = rate, !.count = months,
                          !.level = payment, !.balance = principal]

\* Mutant: the final payment does not absorb the rounding.
PrincipalPartNotLast(d, interest) ==
    LET part == d.level - interest
    IN  IF part > d.balance \/ part <= 0 THEN d.balance ELSE part

PrincipalPart(d, interest) ==
    LET part == d.level - interest
    IN  IF part > d.balance \/ d.done + 1 = d.count \/ part <= 0 THEN d.balance ELSE part

amortise ==
    /\ deal.kind = "mortgage" /\ ~Finished
    /\ LET interest == round_money(deal.balance * deal.rate, Parts)
           part == PrincipalPart(deal, interest)
       IN  deal' = [deal EXCEPT !.done = @ + 1, !.balance = @ - part, !.repaid = @ + part,
                       !.interest = @ + interest, !.paid = @ + part + interest,
                       !.last = part + interest]

installment_schedule(price, percent, count, maintenance) ==
    /\ deal = NoDeal
    /\ LET down == round_money(price * percent, 100)
       IN  deal' = [NoDeal EXCEPT !.kind = "installments", !.price = price, !.down = down,
                       !.owed = price - down, !.count = count,
                       !.level = round_money(price - down, count), !.balance = price - down,
                       !.deposit = round_money(price * maintenance, 100)]

Amount(d) ==
    IF d.done + 1 = d.count \/ d.level > d.balance THEN d.balance ELSE d.level

Instalment ==
    /\ deal.kind = "installments" /\ ~Finished
    /\ LET amount == Amount(deal)
       IN  deal' = [deal EXCEPT !.done = @ + 1, !.balance = @ - amount, !.repaid = @ + amount,
                       !.paid = @ + amount, !.last = amount]

FinanceNext ==
    \/ \E price \in Prices, percent \in Percents, n \in Terms, rate \in Rates :
          mortgage(price, percent, n, rate)
    \/ \E price \in Prices, percent, maintenance \in Percents, n \in Terms :
          installment_schedule(price, percent, n, maintenance)
    \/ amortise \/ Instalment

FinanceSpec == FinanceInit /\ [][FinanceNext]_financeVars
-----------------------------------------------------------------------------
(* What a schedule promises *)

\* Whatever the rate and the rounding, not a piastre is lost: what was repaid and what is
\* still owed are the loan, nothing is ever owed to the buyer, and the last payment leaves
\* nothing.
PrincipalIsRepaid ==
    /\ deal.repaid + deal.balance = deal.owed
    /\ deal.balance >= 0
    /\ deal.paid = deal.repaid + deal.interest
    /\ deal.down + deal.owed = deal.price
    /\ Finished => deal.balance = 0

\* The last payment is the regular one but for rounding: half a piastre in each payment and
\* half a piastre in each month's interest, and the interest on those.  A schedule that ends
\* before its term ends with no more than the regular payment, unless that did not even
\* cover the interest and everything was due at once.
LastPaymentIsClose ==
    deal.kind # "none" /\ Finished =>
        LET growth == power(Parts + deal.rate, deal.count)
            off == deal.last - deal.level
        IN  IF deal.done < deal.count
            THEN off <= 0 \/ deal.done = 1
            ELSE /\ off * power(Parts, deal.count) <= deal.count * growth
                 /\ (-off) * power(Parts, deal.count) <= deal.count * growth
=============================================================================
