---------------------------- MODULE MCTableDump -----------------------------
(* The tables of MCTransformationPipeline, where u is a program, and tables  *)
(* without transformer, with a program only, with a template and a program.  *)
EXTENDS TableDump, TLC

CONSTANTS a, b, t, u, v, p

MCTransformer == {t, u, v, p}
MCColumn == {a, b}
MCCustom == {u, p}
MCDefined == {p}
MCTemplate == {v}

None == [x \in MCTransformer |-> {}]
NoCond == [x \in MCTransformer |-> Always]

NoTransformer == [chain |-> <<>>, affected |-> None, reads |-> None, when |-> NoCond]
ProgramOnly == [chain |-> <<u>>, affected |-> None,
                reads |-> [None EXCEPT ![u] = {a}], when |-> NoCond]
WithDefinition == [chain |-> <<p, t>>, affected |-> [None EXCEPT ![p] = {b}],
                   reads |-> [None EXCEPT ![t] = {b}], when |-> NoCond]
WithTemplate == [chain |-> <<u, v, t>>,
                 affected |-> [None EXCEPT ![u] = {b}, ![t] = {a}],
                 reads |-> [None EXCEPT ![v] = {b}], when |-> [NoCond EXCEPT ![t] = a]]
OneWindow == [chain |-> <<t, u>>, affected |-> [None EXCEPT ![t] = {a}, ![u] = {b}],
              reads |-> None, when |-> NoCond]
TwoWindows == [chain |-> <<t, u>>, affected |-> [None EXCEPT ![t] = {a}],
               reads |-> [None EXCEPT ![t] = {a, b}, ![u] = {a}],
               when |-> [NoCond EXCEPT ![t] = b]]
Condition == [OneWindow EXCEPT !.when[u] = a]

MCTables == {NoTransformer, ProgramOnly, WithDefinition, WithTemplate, OneWindow, TwoWindows, Condition}

Of(tb, st) == [table |-> tb, validate |-> FALSE, store |-> st]
MCDumps == {Of(NoTransformer, "directory"), Of(ProgramOnly, "s3"),
            Of(WithTemplate, "directory"), Of(WithDefinition, "directory"), Of(OneWindow, "s3"),
            Of(TwoWindows, "directory"), Of(Condition, "s3"),
            [Of(ProgramOnly, "directory") EXCEPT !.validate = TRUE],
            [Of(OneWindow, "directory") EXCEPT !.validate = TRUE]}
=============================================================================
