--------------------------- MODULE MCZipfGenerator ---------------------------
(* ZipfGenerator, instantiated for TLC with the frequencies of js/product; *)
(* one of the three sums ends below the greatest random number.            *)
EXTENDS ZipfGenerator, ChartData

MCWeight == [F \in {11, 13, 15} |->
  (CHOOSE chart \in ProductCharts : chart.coefficient = F).share]
MCLastSum == [F \in {11, 13, 15} |-> IF F = 13 THEN Resolution - 2 ELSE Resolution]
=============================================================================
