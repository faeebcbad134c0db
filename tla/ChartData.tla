----------------------------- MODULE ChartData ------------------------------
(***************************************************************************)
(* The measurements under js/: every script assigns an ECharts option to   *)
(* the page's variable "option".  A line chart shows the throughput of a   *)
(* product's deployments along one parameter, a product chart the          *)
(* probability with which ZipfGenerator(1000000, coefficient) draws each   *)
(* product.  The data are the files', in thousandths (of a query per       *)
(* second, of a per cent); of a product chart the nine first points are    *)
(* kept, the others are a sample of the tail.                              *)
(***************************************************************************)
EXTENDS Integers, Sequences

(* A line: isolation level and lock plan, p2 the Redis locks, p3 Java's;   *)
(* "ssi" is SERIALIZABLE, where the database does all the locking.         *)
Ssi == <<"ssi", "p1">>

Series == <<Ssi, <<"rr", "p2">>, <<"rc", "p2">>, <<"ru", "p2">>,
                 <<"rr", "p3">>, <<"rc", "p3">>, <<"ru", "p3">>>>

(* seeded fault: the names of the Java and the Redis lines change places *)
SeriesPgsql_Swapped == <<Ssi, <<"rr", "p3">>, <<"rc", "p3">>, <<"rr", "p2">>, <<"rc", "p2">>>>

(* PostgreSQL has no READ UNCOMMITTED of its own *)
SeriesPgsql == <<Ssi, <<"rr", "p2">>, <<"rc", "p2">>, <<"rr", "p3">>, <<"rc", "p3">>>>

EarlierSeries == <<Ssi, <<"ru", "p3">>, <<"rc", "p3">>, <<"rr", "p3">>,
                        <<"ru", "p2">>, <<"rc", "p2">>, <<"rr", "p2">>>>

EarlierSeriesPgsql == <<Ssi, <<"rc", "p3">>, <<"rr", "p3">>, <<"rc", "p2">>, <<"rr", "p2">>>>

(* seeded fault: two lines have the same colour *)
SevenColours_Twice ==
  <<"#333", "#e01f54", "#e87c25", "#e87c25", "#3fb1e3", "#6be6c1", "#c4ebad">>

SevenColours ==
  <<"#333", "#e01f54", "#e87c25", "#fcce10", "#3fb1e3", "#6be6c1", "#c4ebad">>

FiveColours == <<"#333", "#e01f54", "#e87c25", "#3fb1e3", "#6be6c1">>

EarlierFiveColours == <<"#333", "#e01f54", "#fcce10", "#3fb1e3", "#c4ebad">>

(* The x axes.  Zipf coefficients are in tenths. *)

(* seeded fault: the categories in another order than the data *)
LockedResources_Order == <<1, 20, 10>>

LockedResources  == <<1, 10, 20>>

(* seeded fault: the categories in another order than the data *)
ZipfCoefficients_Order == <<6, 10, 8, 12, 14>>

ZipfCoefficients == <<6, 8, 10, 12, 14>>
ReadTransactions == <<"off", "reads only", "100 ms of work", "500 ms of work">>
HighCoefficients == <<11, 12, 13, 14, 15>>
ThreadNumbers    == <<50, 100, 150, 200, 250>>

-----------------------------------------------------------------------------
(* series[i].data belongs to legend.data[i] and to color[i] *)
LineChart(experiment, profile, color, legend, min, max, xAxis, data) ==
  [experiment |-> experiment, profile |-> profile, color |-> color, legend |-> legend,
   min |-> 1000 * min, max |-> 1000 * max, xAxis |-> xAxis, data |-> data]

BatchMysql == LineChart("batch", "mysql", SevenColours, Series, 50, 280, LockedResources,
  << <<270296, 95431, 60746>>,
     <<226700, 100852, 62390>>,
     <<236900, 104306, 63340>>,
     <<240100, 104766, 63910>>,
     <<258500, 121200, 74692>>,
     <<265000, 124400, 77100>>,
     <<266300, 126300, 77338>> >>)

BatchMssql == LineChart("batch", "mssql", SevenColours, Series, 40, 270, LockedResources,
  << <<238461, 73388, 50101>>,
     <<216062, 99085, 62288>>,
     <<223780, 100339, 65495>>,
     <<228538, 107103, 68074>>,
     <<250686, 117320, 80409>>,
     <<258504, 121620, 82714>>,
     <<261604, 124254, 83252>> >>)

BatchPgsql == LineChart("batch", "pgsql", FiveColours, SeriesPgsql, 40, 280, LockedResources,
  << <<267399, 112450, 67985>>,
     <<228092, 97767, 63611>>,
     <<248900, 106830, 65317>>,
     <<258466, 129000, 78118>>,
     <<267911, 130759, 79762>> >>)

ZipfMysql == LineChart("zipf", "mysql", SevenColours, Series, 50, 170, ZipfCoefficients,
  << <<133947, 120740, 95431, 63099, 51628>>,
     <<142885, 134600, 100797, 64117, 53536>>,
     <<143700, 137102, 104306, 65797, 56798>>,
     <<143100, 138800, 104844, 66777, 55932>>,
     <<155800, 150429, 121200, 75900, 62000>>,
     <<157800, 155600, 124400, 78100, 64900>>,
     <<157753, 157284, 126300, 78800, 66200>> >>)

ZipfMssql == LineChart("zipf", "mssql", SevenColours, Series, 40, 140, ZipfCoefficients,
  << <<104159, 95430, 73667, 50470, 43848>>,
     <<117214, 113790, 101901, 63184, 52353>>,
     <<119199, 116465, 105695, 65038, 52491>>,
     <<120171, 118591, 107103, 67333, 54318>>,
     <<134781, 132929, 117320, 78944, 65789>>,
     <<136822, 134483, 121620, 79414, 67791>>,
     <<137830, 135252, 124309, 80008, 69188>> >>)

ZipfPgsql == LineChart("zipf", "pgsql", FiveColours, SeriesPgsql, 40, 170, ZipfCoefficients,
  << <<159611, 152133, 112450, 67429, 57648>>,
     <<140973, 137655, 97767, 60290, 50720>>,
     <<145398, 140700, 106830, 65520, 56198>>,
     <<162475, 160709, 129000, 79792, 67399>>,
     <<166700, 163000, 130759, 83116, 69500>> >>)

SearchMysql == LineChart("search", "mysql", SevenColours, Series, 50, 130, ReadTransactions,
  << <<100984, 95431, 79056, 60447>>,
     <<105161, 100852, 94461, 77381>>,
     <<105860, 104306, 99269, 87094>>,
     <<106661, 104766, 100372, 89303>>,
     <<126200, 121200, 115700, 87636>>,
     <<126400, 125400, 117800, 101590>>,
     <<127000, 126300, 118700, 103324>> >>)

SearchMssql == LineChart("search", "mssql", SevenColours, Series, 40, 130, ReadTransactions,
  << <<77115, 73388, 62129, 41135>>,
     <<107385, 101901, 95598, 77336>>,
     <<108514, 105695, 100296, 83892>>,
     <<109856, 107103, 101644, 84266>>,
     <<120745, 117320, 111302, 96884>>,
     <<122085, 121620, 115303, 99243>>,
     <<124543, 124254, 115991, 100610>> >>)

SearchPgsql == LineChart("search", "pgsql", FiveColours, SeriesPgsql, 40, 140, ReadTransactions,
  << <<113590, 112450, 108666, 100365>>,
     <<97822, 97767, 96963, 92745>>,
     <<106762, 106830, 103455, 100000>>,
     <<130057, 129000, 123746, 116950>>,
     <<130898, 130759, 128792, 119900>> >>)

HundredMysql == LineChart("hundred", "mysql", SevenColours, EarlierSeries, 20, 110, HighCoefficients,
  << <<79624, 64992, 58152, 55596, 52159>>,
     <<90564, 74424, 66281, 63570, 59842>>,
     <<90546, 73867, 66015, 62325, 59493>>,
     <<88702, 72489, 65491, 61196, 56280>>,
     <<81929, 67365, 59548, 56681, 54232>>,
     <<81913, 66795, 59408, 56584, 54180>>,
     <<80540, 66579, 58873, 56130, 53950>> >>)

HundredMssql == LineChart("hundred", "mssql", SevenColours, EarlierSeries, 20, 100, HighCoefficients,
  << <<45375, 36507, 34696, 32453, 31094>>,
     <<85591, 71378, 64110, 57595, 56277>>,
     <<84515, 70517, 62423, 57149, 55094>>,
     <<82327, 69591, 61913, 56729, 52256>>,
     <<79625, 65499, 57988, 54163, 51701>>,
     <<77488, 61745, 57699, 53830, 51216>>,
     <<65944, 55245, 53604, 48676, 44047>> >>)

HundredPgsql == LineChart("hundred", "pgsql", EarlierFiveColours, EarlierSeriesPgsql, 20, 100, HighCoefficients,
  << <<78593, 73633, 67770, 64265, 60940>>,
     <<94200, 78351, 69379, 65155, 64644>>,
     <<89388, 76528, 67675, 64800, 64207>>,
     <<83114, 71165, 62939, 58642, 56546>>,
     <<67746, 55417, 49560, 47366, 45816>> >>)

ThreadsMysql == LineChart("threads", "mysql", SevenColours, EarlierSeries, 20, 100, ThreadNumbers,
  << <<49838, 52159, 51829, 50245, 45521>>,
     <<56949, 59842, 59846, 57725, 55666>>,
     <<56033, 59493, 59740, 56127, 54335>>,
     <<54335, 56280, 58430, 56099, 51422>>,
     <<54517, 53950, 55972, 53939, 49749>>,
     <<53243, 54180, 55293, 53832, 47096>>,
     <<52855, 53950, 53607, 52559, 43190>> >>)

ThreadsMssql == LineChart("threads", "mssql", SevenColours, EarlierSeries, 20, 100, ThreadNumbers,
  << <<30622, 31094, 31885, 28311, 26832>>,
     <<55576, 56277, 55926, 56537, 50730>>,
     <<55056, 55094, 54532, 56367, 49610>>,
     <<54951, 54236, 54236, 55893, 48666>>,
     <<43201, 51701, 44674, 39627, 34358>>,
     <<42817, 51216, 44086, 37359, 32683>>,
     <<36433, 44047, 35090, 30657, 29087>> >>)

ThreadsPgsql == LineChart("threads", "pgsql", EarlierFiveColours, EarlierSeriesPgsql, 20, 100, ThreadNumbers,
  << <<55264, 60940, 63515, 61216, 60632>>,
     <<63465, 64644, 65942, 62642, 62292>>,
     <<59265, 64207, 65182, 62886, 61591>>,
     <<48630, 56546, 54525, 51430, 50263>>,
     <<42736, 45816, 43642, 42427, 41316>> >>)

(* seeded fault: ranks counted from 0, as the values of ZipfGenerator's map *)
ProductChart_FromZero(coefficient, share) ==
  [coefficient |-> coefficient, share |-> SubSeq(share, 2, Len(share))]

(* the share of the product of each rank, from the first on *)
ProductChart(coefficient, share) == [coefficient |-> coefficient, share |-> share]

Product11 == ProductChart(11, <<12388, 5779, 3700, 2696, 2109, 1726, 1457, 1258, 1105>>)
Product12 == ProductChart(12, <<18953, 8250, 5072, 3591, 2747, 2208, 1835, 1563, 1357>>)
Product13 == ProductChart(13, <<25779, 10470, 6180, 4252, 3181, 2510, 2054, 1727, 1482>>)
Product14 == ProductChart(14, <<32304, 12241, 6939, 4638, 3394, 2629, 2119, 1758, 1490>>)
Product15 == ProductChart(15, <<38309, 13544, 7373, 4789, 3426, 2607, 2068, 1693, 1419>>)

-----------------------------------------------------------------------------
LineCharts == 
  {BatchMysql, BatchMssql, BatchPgsql, ZipfMysql, ZipfMssql, ZipfPgsql,
   SearchMysql, SearchMssql, SearchPgsql, HundredMysql, HundredMssql,
   HundredPgsql, ThreadsMysql, ThreadsMssql, ThreadsPgsql}
ProductCharts == {Product11, Product12, Product13, Product14, Product15}
=============================================================================
