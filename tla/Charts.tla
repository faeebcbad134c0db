------------------------------- MODULE Charts -------------------------------
(***************************************************************************)
(* The state machine is what a reader does with the charts: opens one,     *)
(* switches lines off and on in the legend, moves the pointer over the     *)
(* x axis, where the tooltip (trigger: axis) lists the visible lines.      *)
(***************************************************************************)
EXTENDS ChartData

VARIABLES
  option,   \* the chart on the page
  hidden,   \* lines switched off in the legend
  pointer   \* position on the x axis, 0 when the pointer is elsewhere

vars == <<option, hidden, pointer>>

IsLineChart == option \in LineCharts
Legend(chart) == {chart.legend[i] : i \in DOMAIN chart.legend}
Visible == Legend(option) \ hidden

Position(chart, line) == CHOOSE i \in DOMAIN chart.legend : chart.legend[i] = line

(* seeded fault: colours are dealt to the visible lines only *)
ColorOf_Visible(chart, off, line) ==
  chart.color[Len(SelectSeq(SubSeq(chart.legend, 1, Position(chart, line)),
                            LAMBDA s : s \notin off))]

(* the colour of a line does not depend on which others are switched off *)
ColorOf(chart, off, line) == chart.color[Position(chart, line)]

(* what the tooltip says of a line *)
ValueAt(chart, line, i) == chart.data[Position(chart, line)][i]

Init == option \in LineCharts \cup ProductCharts /\ hidden = {} /\ pointer = 0

Open ==
  /\ option' \in LineCharts \cup ProductCharts
  /\ hidden' = {} /\ pointer' = 0

Toggle ==
  /\ IsLineChart
  /\ \E line \in Legend(option) :
       hidden' = IF line \in hidden THEN hidden \ {line} ELSE hidden \cup {line}
  /\ UNCHANGED <<option, pointer>>

Point ==
  /\ IsLineChart
  /\ pointer' \in 0 .. Len(option.xAxis)
  /\ UNCHANGED <<option, hidden>>

Next == Open \/ Toggle \/ Point
Spec == Init /\ [][Next]_vars

-----------------------------------------------------------------------------
(* The page shows a chart of the repository in a state its legend and axis *)
(* allow, and the chart can be read: as many colours, all different, as    *)
(* lines, a value of every line for every category, none off the y axis.   *)
Readable ==
  \/ option \in ProductCharts /\ hidden = {} /\ pointer = 0
  \/ /\ IsLineChart
     /\ hidden \subseteq Legend(option) /\ pointer \in 0 .. Len(option.xAxis)
     /\ \A i, j \in DOMAIN option.legend :
          i # j => option.color[i] # option.color[j] /\ option.legend[i] # option.legend[j]
     /\ Len(option.data) = Len(option.legend)
     /\ \A i \in DOMAIN option.data :
          /\ Len(option.data[i]) = Len(option.xAxis)
          /\ \A j \in DOMAIN option.xAxis :
               option.min <= option.data[i][j] /\ option.data[i][j] <= option.max

(* The charts of the three products are laid side by side: in the three    *)
(* experiments that share a legend a deployment keeps its colour whatever  *)
(* is switched off, and when one product's chart follows another's.        *)
(* (In the two older experiments, js/db, it does not: PostgreSQL's rc has  *)
(* the colour of the others' ru.)                                          *)
SameColors ==
  [][/\ IsLineChart /\ IsLineChart'
     /\ option.experiment \in {"batch", "zipf", "search"}
     /\ option'.experiment = option.experiment
     => \A line \in Visible \cap Visible' :
          ColorOf(option, hidden, line) = ColorOf(option', hidden', line)]_vars

(* Locks inside the JVM spare the round trips to Redis: wherever both      *)
(* lines are listed, the Java locks are at least as fast as Redis's, on    *)
(* every product, level and measuring point.                               *)
JavaAboveRedis ==
  IsLineChart /\ pointer # 0 =>
    \A level \in {"ru", "rc", "rr"} :
      {<<level, "p2">>, <<level, "p3">>} \subseteq Visible =>
        ValueAt(option, <<level, "p3">>, pointer) >= ValueAt(option, <<level, "p2">>, pointer)

(* More locked rows or a steeper Zipf distribution mean more contention:   *)
(* towards larger values of these axes every deployment loses throughput.  *)
FallsWithContention ==
  [][/\ IsLineChart /\ option' = option /\ pointer # 0 /\ pointer' # 0
     /\ option.experiment \in {"batch", "zipf", "hundred"}
     /\ option.xAxis[pointer] < option.xAxis[pointer']
     => \A line \in Visible \cap Visible' :
          ValueAt(option, line, pointer) > ValueAt(option, line, pointer')]_vars

(* The configuration in common to the first three experiments (ten         *)
(* resources, coefficient 1.0, read transactions that only read).          *)
CommonPoint(chart) ==
  CHOOSE i \in DOMAIN chart.xAxis :
    chart.xAxis[i] = CASE chart.experiment = "batch"  -> 10
                       [] chart.experiment = "zipf"   -> 10
                       [] chart.experiment = "search" -> "reads only"

(* Each deployment's throughput at the common point stands in three        *)
(* charts: at most one of the three was copied wrongly.                    *)
CommonPointConfirmed ==
  IsLineChart /\ option.experiment \in {"batch", "zipf", "search"} =>
    LET charts == {c \in LineCharts : c.profile = option.profile
                                      /\ c.experiment \in {"batch", "zipf", "search"}}
    IN \A line \in Visible :
         \E c, d \in charts :
           /\ c # d
           /\ ValueAt(c, line, CommonPoint(c)) = ValueAt(d, line, CommonPoint(d))

(* The products' shares follow the power law of computeMap, 1/i^skew over  *)
(* the sum: the share of rank i*j times that of rank 1 is the product of   *)
(* the shares of ranks i and j, up to the rounding to thousandths.         *)
PowerLaw ==
  option \in ProductCharts =>
    LET p == option.share
    IN \A i, j \in 2 .. 4 : i * j <= Len(p) =>
         p[1] * p[i * j] - p[i] * p[j] \in -(p[1] + p[i]) .. p[1] + p[i]
=============================================================================
