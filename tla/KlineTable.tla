----------------------------- MODULE KlineTable -----------------------------
(***************************************************************************)
(* The keys of market.kline_daily, of one adjust: what StockEtl writes and *)
(* KlineBulk reads.                                                        *)
(***************************************************************************)
EXTENDS Integers

CONSTANTS
  NumSymbols,  \* the symbols, in the order of the ETL's list and of ORDER BY
  MaxDay       \* trade dates are 1..MaxDay

ASSUME TableAssumption == NumSymbols \in Nat \ {0} /\ MaxDay \in Nat \ {0}

Symbols == 1..NumSymbols
Days == 1..MaxDay

RowKeys == Symbols \X Days
=============================================================================
