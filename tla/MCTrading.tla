--------------------------------- MODULE MCTrading ---------------------------------
(* Two symbols whose prices rise, fall and return to the average.          *)
EXTENDS TradingProps

Bar(symbol, price) == [symbol |-> symbol, price |-> price]

MCFixtures ==
  { <<Bar("AAPL", 1), Bar("AAPL", 2), Bar("AAPL", 2)>>,
    <<Bar("AAPL", 2), Bar("MSFT", 1), Bar("AAPL", 1)>> }
===============================================================================
