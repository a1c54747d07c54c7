---------------------------- MODULE MC_Snapshots ----------------------------
EXTENDS Snapshots, TLC

Symmetry == Permutations(Clients)

MCTables == {"t", "u"}
Plain == [views |-> 0, macros |-> FALSE, facts |-> {}, compactions |-> <<>>, fenced |-> FALSE]

\* Two views and a table created together; a table altered, rows of another deleted
\* and a macro created; an insert with its inline table; a fenced
\* rewrite; a table dropped and another compacted twice.
MCTransactions ==
    { [Plain EXCEPT !.views = 2, !.facts = {<<"creates", "t">>}],
      [Plain EXCEPT !.facts = {<<"alters", "t">>, <<"marked", "u">>}, !.macros = TRUE],
      [Plain EXCEPT !.facts = {<<"replaces", "t">>, <<"inserted", "t">>}],
      [Plain EXCEPT !.facts = {<<"added", "t">>, <<"removed", "t">>, <<"rewrite", "t">>},
                    !.fenced = TRUE],
      [Plain EXCEPT !.facts = {<<"drops", "t">>},
                    !.compactions = <<{<<"added", "u">>, <<"removed", "u">>},
                                      {<<"added", "u">>, <<"removed", "u">>, <<"rewrite", "u">>}>>] }
=============================================================================
