--------------------- MODULE MCTransformationPipeline -----------------------
(* Tables of two columns with three transformers.  Independent ones come as  *)
(* one window (t, u), two windows (u changes what t changes), a transformer  *)
(* that may change any column (v), conditions and parameters on columns of   *)
(* another window; dependent ones read inside the window.                    *)
EXTENDS TransformationPipeline, TLC

CONSTANTS a, b, t, u, v

MCTransformer == {t, u, v}
MCColumn == {a, b}

Plain == [x \in MCTransformer |-> {}]
NoCond == [x \in MCTransformer |-> Always]

OneWindow == [chain |-> <<t, u>>, affected |-> [Plain EXCEPT ![t] = {a}, ![u] = {b}],
              reads |-> Plain, when |-> NoCond]
TwoWindows == [chain |-> <<t, u, v>>,
               affected |-> [Plain EXCEPT ![t] = {a}, ![u] = {b}, ![v] = {a, b}],
               reads |-> [Plain EXCEPT ![v] = {a, b}],
               when |-> [NoCond EXCEPT ![t] = a]]
AnyColumn == [chain |-> <<t, v, u>>, affected |-> [Plain EXCEPT ![t] = {a}, ![u] = {b}],
              reads |-> [Plain EXCEPT ![v] = {a}, ![u] = {a}],
              when |-> [NoCond EXCEPT ![u] = b]]
AnyFirst == [chain |-> <<v, u>>, affected |-> [Plain EXCEPT ![u] = {b}],
             reads |-> [Plain EXCEPT ![u] = {b}], when |-> NoCond]

\* A dynamic parameter, a condition, on a column of the same window.
Parameter == [OneWindow EXCEPT !.reads[u] = {a}]
Condition == [OneWindow EXCEPT !.when[u] = a]

MCIndependent == {OneWindow, TwoWindows, AnyColumn, AnyFirst}
MCTables == MCIndependent \cup {Parameter, Condition}
=============================================================================
