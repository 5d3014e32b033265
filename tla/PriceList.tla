------------------------------ MODULE PriceList -------------------------------
(***************************************************************************)
(* Product prices, their history, the exchange rate that prices in dollars *)
(* follow, and the price a line of an opportunity takes over               *)
(* (src/product-catalog/, src/admin/exchange-rates/exchange-rates.service  *)
(* .ts, resolveCatalogSnapshot of                                          *)
(* src/opportunities/opportunity-line-items.service.ts).                   *)
(*                                                                         *)
(* An edit of a product takes the advisory lock of the product, a new rate *)
(* another one: the two exclude each other by the lock of the product row  *)
(* only, which neither holds while it reads and calculates.                *)
(***************************************************************************)
EXTENDS Naturals

CONSTANTS Products, Pricers, Quoters, NoProduct,
          Inputs,      \* the prices one may type in
          LastRate,    \* bound of the exchange rates, numbered from 1
          LastInstant  \* bound of the clock

ASSUME PriceListAssumption ==
  /\ NoProduct \notin Products /\ Inputs # {}
  /\ LastRate \in Nat \ {0} /\ LastInstant \in Nat

VARIABLES product,   \* ProductCatalogItem, as committed
          open,      \* its ProductPriceHistory row without an end
          rate,      \* the active CurrencyExchangeRate
          pricer,    \* the calls of create and update
          rater,     \* the new rate in progress; an advisory lock admits one
          quoter,    \* the lines being priced, and what they got
          now,
          offRecord, \* history: an update that found its reading overtaken
                     \* appended nothing
          offRate    \* history: a price in dollars was set beside a new rate

priceVars == <<product, open, rate, pricer, rater, quoter, now, offRecord, offRate>>

\* A price is the currency and amount typed in and the rate applied; the rial
\* prices are a function of it.
Prices  == [currency : {"IRR"}, input : Inputs, rate : {0}]
             \cup [currency : {"USD"}, input : Inputs, rate : 1..LastRate]
NoPrice == [currency |-> "NONE", input |-> 0, rate |-> 0]
AnyPrice == Prices \cup {NoPrice}
Instants == 0..LastInstant
IdlePricer == [step |-> "idle", product |-> NoProduct, to |-> NoPrice, was |-> NoPrice, at |-> 0]
IdleRater == [step |-> "idle", seen |-> [p \in Products |-> NoPrice], at |-> 0]
NoQuote == [step |-> "none", product |-> NoProduct, price |-> NoPrice, record |-> NoPrice,
            beside |-> FALSE]

PriceTypeOK ==
  /\ product \in [Products -> AnyPrice]
  /\ open \in [Products -> [price : AnyPrice, from : Instants]]
  /\ rate \in 1..LastRate
  /\ pricer \in [Pricers -> [step : {"idle", "new", "priced", "locked", "written"},
                             product : Products \cup {NoProduct}, to : AnyPrice,
                             was : AnyPrice, at : Instants]]
  /\ rater \in [step : {"idle", "read", "stamped"}, seen : [Products -> AnyPrice],
                at : Instants]
  /\ quoter \in [Quoters -> [step : {"none", "product", "done"},
                             product : Products \cup {NoProduct}, price : AnyPrice,
                             record : AnyPrice, beside : BOOLEAN]]
  /\ now \in Instants
  /\ offRecord \in [Products -> BOOLEAN] /\ offRate \in [Products -> BOOLEAN]

\* Each product has its baseline row of the migration, or is yet to be made.
PriceInit ==
  /\ product \in [Products -> {p \in Prices : p.rate <= 1} \cup {NoPrice}]
  /\ open = [p \in Products |-> [price |-> product[p], from |-> 0]]
  /\ rate = 1 /\ now = 0 /\ rater = IdleRater
  /\ pricer = [e \in Pricers |-> IdlePricer]
  /\ quoter = [q \in Quoters |-> NoQuote]
  /\ offRecord = [p \in Products |-> FALSE] /\ offRate = [p \in Products |-> FALSE]

InDollars(p) == product[p].currency = "USD"
Listed(p) == product[p] # NoPrice

\* append: the open row is closed at the instant the new one begins, and a row
\* may not end before or as it begins.
Appendable(p, at) == open[p].from < at

\* calculate: dollars at the rate that is active
Calculated(currency, input) ==
  [currency |-> currency, input |-> input, rate |-> IF currency = "USD" THEN rate ELSE 0]

\* Quotes that have read the product and not the record yet
Beside(ps) == [q \in Quoters |->
  IF quoter[q].step = "product" /\ quoter[q].product \in ps
  THEN [quoter[q] EXCEPT !.beside = TRUE] ELSE quoter[q]]

-----------------------------------------------------------------------------
(* create and update of a product                                          *)

\* What is to be written is calculated before the transaction.
Calculate(e) ==
  /\ pricer[e] = IdlePricer
  /\ \E p \in Products, currency \in {"IRR", "USD"}, input \in Inputs :
       pricer' = [pricer EXCEPT ![e] =
         [IdlePricer EXCEPT !.step = IF Listed(p) THEN "priced" ELSE "new", !.product = p,
                            !.to = Calculated(currency, input)]]
  /\ UNCHANGED <<product, open, rate, rater, quoter, now, offRecord, offRate>>

\* The row and its first record; the code of a product is unique.
CreateProduct(e) ==
  LET c == pricer[e] IN
  /\ c.step = "new" /\ ~Listed(c.product)
  /\ product' = [product EXCEPT ![c.product] = c.to]
  /\ open' = [open EXCEPT ![c.product] = [price |-> c.to, from |-> now]]
  /\ offRate' = [offRate EXCEPT ![c.product] = c.to.rate \notin {0, rate}]
  /\ pricer' = [pricer EXCEPT ![e] = IdlePricer]
  /\ UNCHANGED <<rate, rater, quoter, now, offRecord>>

\* The advisory lock of the product, and the row as it is now
LockProduct(e) ==
  LET p == pricer[e].product IN
  /\ pricer[e].step = "priced"
  /\ \A o \in Pricers : pricer[o].product = p => pricer[o].step \notin {"locked", "written"}
  /\ pricer' = [pricer EXCEPT ![e].step = "locked", ![e].was = product[p]]
  /\ UNCHANGED <<product, open, rate, rater, quoter, now, offRecord, offRate>>

\* The row is written, and its lock kept; then the record gets its instant.
WriteProduct(e) ==
  /\ pricer[e].step = "locked"
  /\ pricer' = [pricer EXCEPT ![e].step = "written", ![e].at = now]
  /\ UNCHANGED <<product, open, rate, rater, quoter, now, offRecord, offRate>>

\* Mutant: the record is appended only when the amount typed in differs.
PricingDiffersByInput(a, b) == a.input # b.input \/ a.currency # b.currency

\* pricingDiffers: everything the price is made of
PricingDiffers(a, b) == a # b

\* A record is appended when the new price differs from the one read under the
\* lock, and the transaction commits.
CommitProduct(e) ==
  LET c == pricer[e]
      p == c.product
      differs == PricingDiffers(c.was, c.to) IN
  /\ c.step = "written"
  /\ differs => Appendable(p, c.at)
  /\ product' = [product EXCEPT ![p] = c.to]
  /\ open' = IF differs THEN [open EXCEPT ![p] = [price |-> c.to, from |-> c.at]] ELSE open
  /\ offRecord' = [offRecord EXCEPT ![p] = ~differs /\ (@ \/ product[p] # c.was)]
  /\ offRate' = [offRate EXCEPT ![p] = c.to.rate \notin {0, rate}]
  /\ quoter' = Beside({p})
  /\ pricer' = [pricer EXCEPT ![e] = IdlePricer]
  /\ UNCHANGED <<rate, rater, now>>

\* Refused or rolled back
DropPricer(e) ==
  /\ pricer[e] # IdlePricer
  /\ pricer' = [pricer EXCEPT ![e] = IdlePricer]
  /\ UNCHANGED <<product, open, rate, rater, quoter, now, offRecord, offRate>>

-----------------------------------------------------------------------------
(* create of an exchange rate                                              *)

\* Under its advisory lock the products in dollars are read,
ReadProducts ==
  /\ rater.step = "idle" /\ rate < LastRate
  /\ rater' = [IdleRater EXCEPT !.step = "read",
                 !.seen = [p \in Products |-> IF InDollars(p) THEN product[p] ELSE NoPrice]]
  /\ UNCHANGED <<product, open, rate, pricer, quoter, now, offRecord, offRate>>

\* and all records of this rate get one instant.
StampRate ==
  /\ rater.step = "read"
  /\ rater' = [rater EXCEPT !.step = "stamped", !.at = now]
  /\ UNCHANGED <<product, open, rate, pricer, quoter, now, offRecord, offRate>>

Repriced == {p \in Products : rater.seen[p] # NoPrice}
AtNewRate(p) == [rater.seen[p] EXCEPT !.rate = rate + 1]

\* Every product read is written with what was read of it, at the new rate,
\* after whoever holds its row: an edit committed since the reading is undone,
\* unless its record is younger than the instant of the rate, which fails all.
CommitRate ==
  /\ rater.step = "stamped"
  /\ \A e \in Pricers : pricer[e].step = "written" => pricer[e].product \notin Repriced
  /\ \A p \in Repriced : Appendable(p, rater.at)
  /\ rate' = rate + 1
  /\ product' = [p \in Products |-> IF p \in Repriced THEN AtNewRate(p) ELSE product[p]]
  /\ open' = [p \in Products |-> IF p \in Repriced
                                 THEN [price |-> AtNewRate(p), from |-> rater.at]
                                 ELSE open[p]]
  /\ offRecord' = [p \in Products |-> offRecord[p] /\ p \notin Repriced]
  /\ offRate' = [p \in Products |-> p \notin Repriced /\ InDollars(p)]
  /\ quoter' = Beside(Repriced)
  /\ rater' = IdleRater
  /\ UNCHANGED <<pricer, now>>

DropRate ==
  /\ rater.step # "idle" /\ rater' = IdleRater
  /\ UNCHANGED <<product, open, rate, pricer, quoter, now, offRecord, offRate>>

-----------------------------------------------------------------------------
(* The price of a line                                                     *)

\* getActiveProduct,
QuoteProduct(q) ==
  /\ quoter[q].step = "none"
  /\ \E p \in Products :
       /\ Listed(p)
       /\ quoter' = [quoter EXCEPT ![q] = [NoQuote EXCEPT !.step = "product", !.product = p,
                                             !.price = product[p], !.beside = offRecord[p]]]
  /\ UNCHANGED <<product, open, rate, pricer, rater, now, offRecord, offRate>>

\* then resolveCatalogSnapshot, which looks for the open record; the line keeps
\* both.
QuoteRecord(q) ==
  /\ quoter[q].step = "product"
  /\ quoter' = [quoter EXCEPT ![q].step = "done", ![q].record = open[quoter[q].product].price]
  /\ UNCHANGED <<product, open, rate, pricer, rater, now, offRecord, offRate>>

TimePasses ==
  /\ now < LastInstant /\ now' = now + 1
  /\ UNCHANGED <<product, open, rate, pricer, rater, quoter, offRecord, offRate>>

PriceNext ==
  \/ \E e \in Pricers : \/ Calculate(e) \/ CreateProduct(e) \/ LockProduct(e)
                        \/ WriteProduct(e) \/ CommitProduct(e) \/ DropPricer(e)
  \/ ReadProducts \/ StampRate \/ CommitRate \/ DropRate
  \/ \E q \in Quoters : QuoteProduct(q) \/ QuoteRecord(q)
  \/ TimePasses

PriceSpec == PriceInit /\ [][PriceNext]_priceVars

-----------------------------------------------------------------------------
(* Properties                                                              *)

\* The open record of a product shows its price, unless an update met a new
\* rate between its reading and its write (product-catalog.service.ts:287,
\* :297); the next record of the product puts it right.
OnRecord == \A p \in Products : ~offRecord[p] => open[p].price = product[p]

\* A price in dollars is at the active rate, unless it was set while the rate
\* changed: calculated at the old one, or unseen by the new one.
AtActiveRate == \A p \in Products : InDollars(p) /\ ~offRate[p] => product[p].rate = rate

\* The price of a line is that of the record it points to, unless the product
\* changed between the two readings or was off its record
\* (opportunity-line-items.service.ts:426, :463).
QuotesOnRecord ==
  \A q \in Quoters : quoter[q].step = "done" /\ ~quoter[q].beside =>
    quoter[q].price = quoter[q].record

PricesInv == PriceTypeOK /\ OnRecord /\ AtActiveRate /\ QuotesOnRecord
=============================================================================
