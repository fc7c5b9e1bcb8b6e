------------------------------ MODULE MCStartup ------------------------------
(* Three-bit addresses: every set of disjoint networks and every two ranges  *)
(* as the scenario file, and several address tables.                         *)
EXTENDS Startup

MCAddresses == 0 .. 7

\* The networks below a prefix of the given size: none, the whole, or both
\* halves' networks.
RECURSIVE Networks(_, _)
Networks(start, len) ==
  {<<>>, <<[start |-> start, end |-> start + len - 1, scenario |-> start + 1, fields |-> 3]>>}
  \cup (IF len = 1 THEN {} ELSE
        {a \o b : a \in Networks(start, len \div 2), b \in Networks(start + len \div 2, len \div 2)})

Wrong == <<[start |-> 0, end |-> 7, scenario |-> 9, fields |-> 2]>>

Ranges ==
  UNION {{<<[start |-> a, end |-> b, scenario |-> 1 + (a % 2), fields |-> 3]>> : b \in a .. 7} :
         a \in 0 .. 7}

Areas == <<[name |-> "cn", country |-> 2, province |-> 0, city |-> 0],
           [name |-> "cn", country |-> 1, province |-> 0, city |-> 0],
           [name |-> "gd", country |-> 1, province |-> 10, city |-> 0],
           [name |-> "bj", country |-> 1, province |-> 20, city |-> 0],
           [name |-> "sz", country |-> 1, province |-> 10, city |-> 11],
           [name |-> "gd", country |-> 2, province |-> 30, city |-> 0]>>

Names == <<<<"cn">>, <<"cn", " ", "gd">>, <<"cn", " ", "gd", " ", "sz">>, <<"us", " ">>>>

\* The table of the ranges that end at the given addresses.
Table(ends) ==
  LET s == Sorted(ends)
  IN [index |-> [i \in DOMAIN s |-> [upTo |-> s[i], name |-> Names[1 + ((i - 1) % 4)]]],
      flag  |-> [p \in 0 .. 7 \div PrefixSize |->
                   Cardinality({i \in DOMAIN s : s[i] < p * PrefixSize})]]

Static == <<[type |-> 0, from |-> <<270, 202>>, to |-> <<1, 0>>],
            [type |-> 0, from |-> <<270, 202>>, to |-> <<3, 0>>],
            [type |-> 1, from |-> <<984, 328>>, to |-> <<4, 0>>]>>
Rows == <<[type |-> 0, from |-> <<270, 202>>, to |-> <<3, 0>>],
          [type |-> 0, from |-> <<270, 202>>, to |-> <<1, 0>>],
          [type |-> 0, from |-> <<240, 180>>, to |-> <<1, 1>>]>>

Ambiguous == <<[type |-> 0, from |-> <<300, 250>>, to |-> <<3, 0>>]>>

Plain == [lines |-> Wrong, ipip |-> Table({7}), areas |-> <<>>, rows |-> <<>>, static |-> <<>>]

MCResources ==
  {[Plain EXCEPT !.lines = Wrong \o n] : n \in Networks(0, 8)}
  \cup {[Plain EXCEPT !.lines = a \o b] : a \in Ranges, b \in Ranges}
  \cup {[Plain EXCEPT !.ipip = Table(ends \cup {7}), !.areas = Areas] : ends \in SUBSET (0 .. 6)}
  \cup {[Plain EXCEPT !.rows = rows, !.static = Static] : rows \in {Rows, Rows \o Ambiguous}}

=============================================================================
