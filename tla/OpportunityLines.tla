--------------------------- MODULE OpportunityLines ---------------------------
(***************************************************************************)
(* The lines of one opportunity and its estimated value                    *)
(* (src/opportunities/opportunity-line-items.service.ts, and the value     *)
(* update of src/opportunities/opportunities.service.ts takes).            *)
(*                                                                         *)
(* A call writes a line, then adds up the lines, then writes the sum by    *)
(* the id of the opportunity: three statements without a transaction.      *)
(***************************************************************************)
EXTENDS Naturals, FiniteSets, Functions

CONSTANTS Lines, Sellers, NoLine,
          Amounts   \* quantities and unit prices, discounts and taxes set aside

ASSUME LinesAssumption ==
  IsFiniteSet(Lines) /\ NoLine \notin Lines /\ Amounts \subseteq Nat \ {0}

VARIABLES line,      \* OpportunityLineItem
          estimate,  \* Opportunity.estimatedValue, None for null
          seller,    \* the calls of create, update and remove
          adrift     \* history: the estimate was last written by hand or with a
                     \* sum that was out of date, or a call stopped before its sum

lineVars == <<line, estimate, seller, adrift>>

LineRows == [quantity : Amounts, price : Amounts, total : Nat]
None == 0
NoLineRow == [quantity |-> None, price |-> None, total |-> None]
SellerCalls == [step : {"idle", "read", "wrote", "summed"}, line : Lines \cup {NoLine},
                row : LineRows \cup {NoLineRow}, sum : Nat, fresh : BOOLEAN]
IdleSeller == [step |-> "idle", line |-> NoLine, row |-> NoLineRow, sum |-> None,
               fresh |-> FALSE]

LinesTypeOK ==
  /\ line \in [Lines -> LineRows \cup {NoLineRow}]
  /\ estimate \in Nat
  /\ seller \in [Sellers -> SellerCalls]
  /\ adrift \in BOOLEAN

LinesInit ==
  /\ line = [l \in Lines |-> NoLineRow] /\ estimate = None
  /\ seller = [c \in Sellers |-> IdleSeller] /\ adrift = FALSE

Present == {l \in Lines : line[l] # NoLineRow}
LineTotal(quantity, price) == quantity * price
Item(quantity, price) ==
  [quantity |-> quantity, price |-> price, total |-> LineTotal(quantity, price)]

\* The sum of the lines; None of none, and never otherwise, as no total is zero
SumOfLines == SumFunctionOnSet([l \in Lines |-> line[l].total], Present)

\* A line is written: sums taken before are out of date.
WriteLine(c, l, row) ==
  /\ line' = [line EXCEPT ![l] = row]
  /\ seller' = [o \in Sellers |->
       IF o = c THEN [IdleSeller EXCEPT !.step = "wrote"]
       ELSE [seller[o] EXCEPT !.fresh = FALSE]]
  /\ UNCHANGED <<estimate, adrift>>

-----------------------------------------------------------------------------

\* create
CreateLine(c) ==
  /\ seller[c].step = "idle"
  /\ \E l \in Lines \ Present, quantity, price \in Amounts :
       WriteLine(c, l, Item(quantity, price))

\* update and remove read the line,
ReadLine(c) ==
  /\ seller[c].step = "idle"
  /\ \E l \in Present :
       seller' = [seller EXCEPT ![c] =
         [IdleSeller EXCEPT !.step = "read", !.line = l, !.row = line[l]]]
  /\ UNCHANGED <<line, estimate, adrift>>

\* Mutant: only the fields given are written, beside a total of the line as it
\* was read.
UpdatedFieldGiven(row, was, quantity, price) ==
  [quantity |-> IF quantity = was.quantity THEN row.quantity ELSE quantity,
   price |-> IF price = was.price THEN row.price ELSE price,
   total |-> LineTotal(quantity, price)]

\* What update writes: every field, those not given as they were read
Updated(row, was, quantity, price) == Item(quantity, price)

UpdateLine(c) ==
  LET k == seller[c] IN
  /\ k.step = "read" /\ line[k.line] # NoLineRow
  /\ \E quantity, price \in Amounts :
       WriteLine(c, k.line, Updated(line[k.line], k.row, quantity, price))

RemoveLine(c) ==
  /\ seller[c].step = "read" /\ line[seller[c].line] # NoLineRow
  /\ WriteLine(c, seller[c].line, NoLineRow)

\* recalculateOpportunityEstimatedValue: the sum,
AddUp(c) ==
  /\ seller[c].step = "wrote"
  /\ seller' = [seller EXCEPT ![c] =
       [IdleSeller EXCEPT !.step = "summed", !.sum = SumOfLines, !.fresh = TRUE]]
  /\ UNCHANGED <<line, estimate, adrift>>

\* and its write
WriteEstimate(c) ==
  /\ seller[c].step = "summed"
  /\ estimate' = seller[c].sum /\ adrift' = ~seller[c].fresh
  /\ seller' = [seller EXCEPT ![c] = IdleSeller]
  /\ UNCHANGED line

\* The line is gone, or the process: what was written stays.
StopSelling(c) ==
  /\ seller[c].step # "idle"
  /\ seller' = [seller EXCEPT ![c] = IdleSeller]
  /\ adrift' = (adrift \/ seller[c].step \in {"wrote", "summed"})
  /\ UNCHANGED <<line, estimate>>

\* update of the opportunity takes any value.
EstimateByHand ==
  /\ \E amount \in Amounts : estimate' = amount
  /\ adrift' = TRUE
  /\ UNCHANGED <<line, seller>>

LinesNext ==
  \/ \E c \in Sellers : \/ CreateLine(c) \/ ReadLine(c) \/ UpdateLine(c) \/ RemoveLine(c)
                        \/ AddUp(c) \/ WriteEstimate(c) \/ StopSelling(c)
  \/ EstimateByHand

LinesSpec == LinesInit /\ [][LinesNext]_lineVars

-----------------------------------------------------------------------------
(* Properties                                                              *)

\* Once no line waits to be added up, the estimated value is the sum of the
\* lines, unless it was last written by hand or with a sum another call had
\* outdated, or a call stopped (opportunity-line-items.service.ts:143, :518).
EstimateIsSum ==
  (\A c \in Sellers : seller[c].step \in {"idle", "read"}) /\ ~adrift =>
    estimate = SumOfLines

\* The total of a line is that of its own fields, whoever overwrote whom.
TotalsAddUp == \A l \in Present : line[l].total = LineTotal(line[l].quantity, line[l].price)

LinesInv == LinesTypeOK /\ EstimateIsSum /\ TotalsAddUp
=============================================================================
