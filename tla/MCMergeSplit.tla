---------------------------- MODULE MCMergeSplit ----------------------------
\* Small instances of MergeSplit.
EXTENDS MergeSplit

Node(own, kids) == [own |-> own, kids |-> kids]
Item(id, size) == [id |-> id, size |-> size]

\* With two bytes for tag and length, two items of 61 bytes make a scope of 128:
\* the first size whose length takes two bytes.
ItemSizes == {3, 61}
OwnSizes == {2, 9}

\* Scopes of at most two items; resources of at most two scopes.
Scopes(id) ==
  {Node(own, [i \in 1..n |-> Item(10 * id + i, f[i])]) :
     own \in OwnSizes, n \in 0..2, f \in [1..2 -> ItemSizes]}
Resources(id) ==
  {Node(2, <<>>)}
  \cup {Node(2, <<s>>) : s \in Scopes(10 * id + 1)}
  \cup {Node(2, <<s, t>>) : s \in Scopes(10 * id + 1), t \in Scopes(10 * id + 2)}

\* Metrics of at most three points: gauges, which have no other fields, and sums.
Metrics(id) ==
  {[own |-> 2, extra |-> extra, kids |-> [i \in 1..n |-> Item(10 * id + i, f[i])]] :
     extra \in {0, 4}, n \in 0..3, f \in [1..3 -> ItemSizes]}

MCModes == {<<"logs", "bytes">>, <<"logs", "items">>, <<"metrics", "items">>}
MCModesLogs == {<<"logs", "bytes">>}
MCModesMetrics == {<<"metrics", "bytes">>}

\* None, in items, just above and below the overhead of a request, and around
\* the size whose length takes two bytes.
MCMaxes == {0, 1, 2, 13, 15, 21} \cup (128..132)

MCRequests ==
  [logs |-> {<<r>> : r \in Resources(1)},
   metrics |-> {<<Node(2, <<Node(2, <<m>>)>>)>> : m \in Metrics(1)}]
MCMerged ==
  [logs |-> {<<Node(2, <<Node(2, <<Item(211, n)>>)>>)>> : n \in ItemSizes},
   metrics |-> {<<Node(2, <<Node(2, <<m>>)>>)>> : m \in {x \in Metrics(2) : Len(x.kids) = 1}}]
============================================================================
