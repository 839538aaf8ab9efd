----------------------------- MODULE Statistics -----------------------------
(***************************************************************************)
(* What a query computes: the program query_computation.mpc over the       *)
(* shared values, and the results that run_computation_query_client makes  *)
(* of its outputs.  A quotient is a pair of numbers.  The division by 1000 *)
(* of the largest value, the mean and the median, which only undoes the    *)
(* scale of the values, is left out, and so is the rounding of floats.     *)
(***************************************************************************)
EXTENDS Encodings

Total(s) == LET sum[i \in 0 .. Len(s)] == IF i = 0 THEN 0 ELSE sum[i - 1] + s[i]
            IN  sum[Len(s)]

\* The i-th smallest value counts 2 * i - 1 times (2 * i + 1 from 0).
Area(data) == Total([i \in 1 .. Len(data) |-> (2 * i - 1) * data[i]])

\* mpcstats_lib.median: the middle value; of two, one or the value halfway.
Medians(data) ==
  LET low == data[(Len(data) + 1) \div 2]
      high == data[Len(data) \div 2 + 1]
  IN  {low, high, (low + high) \div 2}

\* The two arrays in the file: client_values from 0, whose first entry is not a
\* value, and commitment_values, in which provider i has the entry i - 1.  Both
\* are functions from 0.
Sorted(client_values, num_data_providers) ==
  CHOOSE data \in {[i \in 1 .. num_data_providers |-> client_values[p[i]]] :
                     p \in Bijection(1 .. num_data_providers, 1 .. num_data_providers)} :
    \A i, j \in 1 .. num_data_providers : i <= j => data[i] <= data[j]

\* Whatever the library takes for the median.
Outputs(client_values, commitment_values, num_data_providers) ==
  LET data == Sorted(client_values, num_data_providers)
      commitments == [i \in 1 .. Cardinality(DOMAIN commitment_values) |->
                        commitment_values[i - 1]]
  IN  {<<num_data_providers, data[num_data_providers], Total(data), median, Area(data)>>
         \o commitments : median \in Medians(data)}

safe_div(a, b) == IF b = 0 THEN [num |-> 0, den |-> 1] ELSE [num |-> a, den |-> b]

\* Mutant: by the comment in the program, the area over the largest value.
StatsResultsOfMax(outputs) ==
  LET gini == safe_div(outputs[5], outputs[1] * outputs[2])
  IN  [num_data_providers |-> outputs[1], max |-> outputs[2], median |-> outputs[4],
       mean |-> safe_div(outputs[3], outputs[1]),
       gini_coefficient |-> [num |-> gini.num - gini.den, den |-> gini.den]]

StatsResults(outputs) ==
  LET gini == safe_div(outputs[5], outputs[1] * outputs[3])
  IN  [num_data_providers |-> outputs[1], max |-> outputs[2], median |-> outputs[4],
       mean |-> safe_div(outputs[3], outputs[1]),
       gini_coefficient |-> [num |-> gini.num - gini.den, den |-> gini.den]]

EMPTY_COMMITMENT == <<0>>

\* index -> commitment as a text, without those of zero.
DataCommitments(outputs) ==
  LET texts == [i \in 1 .. Len(outputs) - 5 |-> hex(reverse_bytes(outputs[i + 5]))]
  IN  [i \in {j \in DOMAIN texts : texts[j] # EMPTY_COMMITMENT} |-> texts[i]]

-----------------------------------------------------------------------------
(***************************************************************************)
(* What the figures mean.                                                  *)
(***************************************************************************)
Abs(n) == IF n < 0 THEN -n ELSE n

\* The sum of the differences of all pairs of values.
Differences(s) == Total([i \in DOMAIN s |-> Total([j \in DOMAIN s |-> Abs(s[i] - s[j])])])

\* The results are those of the values: their number, their maximum, their mean
\* and half of their relative mean difference.
ResultsOf(results, values) ==
  /\ results.num_data_providers = Len(values)
  /\ results.max \in ToSet(values) /\ \A i \in DOMAIN values : values[i] <= results.max
  /\ results.mean.num = Total(values) /\ results.mean.den = Len(values)
  /\ results.gini_coefficient.num * 2 * Len(values) * Total(values)
       = results.gini_coefficient.den * Differences(values)
=============================================================================
