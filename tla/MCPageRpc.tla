------------------------------ MODULE MCPageRpc ------------------------------
EXTENDS PageRpc

SmallDefaults == [PORT |-> 8888, NUM_REQUESTS |-> 3, PAGE_COUNT |-> 2, CLIENT_THREADS |-> 4]

Line(key, value) == [key |-> key, value |-> value]
Nothing == [x \in {} |-> 0]

\* The defaults; a file that contradicts itself; a file and an environment that
\* disagree; one page less; a port that is too wide; values that are refused.
SmallSources ==
  {[file |-> <<>>, env |-> Nothing],
   [file |-> <<Line("PORT", 9000), Line("OTHER", NotANumber), Line("PORT", 8888)>>,
    env |-> Nothing],
   [file |-> <<Line("PAGE_COUNT", 5)>>, env |-> [PAGE_COUNT |-> 3]],
   [file |-> <<Line("PAGE_COUNT", 1)>>, env |-> Nothing],
   [file |-> <<>>, env |-> [PAGE_COUNT |-> 0, NUM_REQUESTS |-> 2]],
   [file |-> <<Line("PORT", 65536 + 8888)>>, env |-> Nothing],
   [file |-> <<Line("PORT", 65536)>>, env |-> Nothing],
   [file |-> <<Line("NUM_REQUESTS", NotANumber)>>, env |-> [NUM_REQUESTS |-> 1]]}
=============================================================================
