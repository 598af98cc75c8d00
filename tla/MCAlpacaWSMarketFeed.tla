------------------------- MODULE MCAlpacaWSMarketFeed -------------------------
(* A small instance of AlpacaWSMarketFeed. *)
EXTENDS AlpacaWSMarketFeed

CONSTANTS pltr, spy

TwoTickers == {pltr, spy}

AnyFrame ==
    {Success(msg) : msg \in {"connected", "authenticated"}} \cup {AnswerFrame}
        \cup {BarsFrame(bars) : bars \in {<<n>> : n \in 1 .. MaxBars}
                                          \cup {<<n, n + 1>> : n \in 1 .. MaxBars - 1}}
=============================================================================
