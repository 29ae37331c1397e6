-------------------------- MODULE MCWeatherSession --------------------------
(* WeatherSession on small instances. *)
EXTENDS WeatherSession, FiniteSets

CONSTANTS t1, t2, t3

\* A cheap book with a wide spread, and a dear one of one cent.
BookExamples == {<<20, 23>>, <<60, 61>>}

\* A suggestion below a dollar, one that rounds up, and one over the maximum.
Suggestions == {40, 150, 900}

\* Bounds: lost orders, and orders of one ticker.
LostAtMostOne == Cardinality(lost.tickers) <= 1 /\ \A t \in Tickers : bought[t] <= 2
=============================================================================
