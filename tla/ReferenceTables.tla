--------------------------- MODULE ReferenceTables ---------------------------
(***************************************************************************)
(* The tables a worker consults for every bid: network scenarios           *)
(* (core_scenario_manager), areas by address (core_ip_manager) and native  *)
(* creative sizes (core_ad_sizemap).  Addresses are small numbers; the     *)
(* octet ipDataFind() jumps by is an address divided by PrefixSize.        *)
(***************************************************************************)
EXTENDS Integers, Sequences, FiniteSetsExt

CONSTANTS Bits,                    \* bits of an address: 32
          PrefixSize,              \* addresses that share their first octet
          AREACODE_MARGIN,
          IP_UNKNOWN,
          SOLUTION_SCENARIO_OTHER,
          Malformed                \* an address text sscanf() cannot read

-------------------------------------------------------------------------------
(* Scenarios.  A line of scenario.txt is [start, end, scenario, fields].   *)

\* x & y of numbers of n bits: the last bits, and the bits before them
And[n \in 0 .. Bits] ==
  [x \in Nat |-> [y \in Nat |->
     IF n = 0 THEN 0 ELSE 2 * And[n - 1][x \div 2][y \div 2] + (x % 2) * (y % 2)]]

Cidr(r) == And[Bits][r.start][r.end]

Rules(lines) == {r \in Range(lines) : r.fields = 3}

\* loadScenarioData(): the first line of a network wins.  The lines are those
\* that end with a newline; one at the end without it is not read.
LoadScenarioData(lines) ==
  LET Of(cidr) == {i \in DOMAIN lines : lines[i].fields = 3 /\ Cidr(lines[i]) = cidr}
  IN [cidr \in {Cidr(r) : r \in Rules(lines)} |-> lines[Min(Of(cidr))].scenario]

\* The elements of S in ascending order.
Sorted(S) ==
  [i \in 1 .. Cardinality(S) |-> CHOOSE x \in S : Cardinality({y \in S : y < x}) = i - 1]

\* cidrTable of init()
CidrTable(dict) == Sorted(DOMAIN dict)

\* Mutant: equal elements are passed over.
NarrowStrict(t, key, b) ==
  LET mid == b[1] + (b[2] - b[1]) \div 2
  IN IF b[1] > b[2] THEN b ELSE IF t[mid] >= key THEN <<b[1], mid - 1>> ELSE <<mid + 1, b[2]>>

\* A round of bSearch(): b holds l and h
Narrow(t, key, b) ==
  LET mid == b[1] + (b[2] - b[1]) \div 2
  IN IF b[1] > b[2] THEN b ELSE IF t[mid] > key THEN <<b[1], mid - 1>> ELSE <<mid + 1, b[2]>>

\* l and h after n rounds
Bounds(t, key) ==
  LET b[n \in 0 .. Len(t)] == IF n = 0 THEN <<1, Len(t)>> ELSE Narrow(t, key, b[n - 1]) IN b

\* bSearch(): the loop is over after Len(t) rounds.  0 stands for the code's
\* -1, a table begins at 1.
BSearch(t, key) == Bounds(t, key)[Len(t)][2]

GetScenario(dict, ip) ==
  LET t == CidrTable(dict)
      pos == BSearch(t, ip)
  IN IF pos > 0 /\ And[Bits][ip][t[pos]] = t[pos] THEN dict[t[pos]] ELSE SOLUTION_SCENARIO_OTHER

-------------------------------------------------------------------------------
(* Areas.  A line of the area file is [name, country, province, city], 0   *)
(* where a code is absent.  A name is a sequence of words and blanks.      *)

Level(l) == IF l.province = 0 THEN 1 ELSE IF l.city = 0 THEN 2 ELSE 3

GetAreaShortCode(l) ==
  l.country * AREACODE_MARGIN + (IF Level(l) = 3 THEN l.city ELSE l.province)

\* The entry a map of loadAreaData() holds: the first line of a level and code.
Kept(lines, level, code) ==
  lines[Min({i \in DOMAIN lines : Level(lines[i]) = level /\ GetAreaShortCode(lines[i]) = code})]

\* A city is named after its province, a province after its country, which
\* the file lists before them.
FullName(lines, l) ==
  LET country == Kept(lines, 1, l.country * AREACODE_MARGIN).name
      province == Kept(lines, 2, l.country * AREACODE_MARGIN + l.province).name
  IN CASE Level(l) = 1 -> <<l.name>>
       [] Level(l) = 2 -> <<country, l.name>>
       [] Level(l) = 3 -> <<country, province, l.name>>

\* areaDict: countries, provinces and cities are inserted in that order and
\* by code, and the first entry of a name stays.
LoadAreaData(lines) ==
  LET entries == {l \in Range(lines) : l = Kept(lines, Level(l), GetAreaShortCode(l))}
      Before(l, m) == \/ Level(l) < Level(m)
                      \/ Level(l) = Level(m) /\ GetAreaShortCode(l) <= GetAreaShortCode(m)
      Named(n) == {l \in entries : FullName(lines, l) = n}
  IN [n \in {FullName(lines, l) : l \in entries} |->
        CHOOSE l \in Named(n) : \A m \in Named(n) : Before(l, m)]

Trim(name) == SelectSeq(name, LAMBDA word : word # " ")

\* Mutant: an address that ends a range is looked for behind it.
IpDataFindAfter(ipip, ip) ==
  LET found == {i \in ipip.flag[ip \div PrefixSize] + 1 .. Len(ipip.index) :
                  ipip.index[i].upTo > ip}
  IN IF found = {} THEN <<>> ELSE ipip.index[Min(found)].name

\* ipDataFind(): the first entry from the prefix's on that ends at ip or behind
IpDataFind(ipip, ip) ==
  LET found == {i \in ipip.flag[ip \div PrefixSize] + 1 .. Len(ipip.index) :
                  ipip.index[i].upTo >= ip}
  IN IF found = {} THEN <<>> ELSE ipip.index[Min(found)].name

\* What name[] may hold after ipDataFind(): nothing writes it where the
\* address is malformed, so that it holds whatever was on the stack.
Found(ipip, ip) ==
  IF ip = Malformed THEN {e.name : e \in Range(ipip.index)} \cup {<<>>}
                    ELSE {IpDataFind(ipip, ip)}

\* getAreaByIp(): the codes it may return
GetAreaByIp(ipip, areaDict, ip) ==
  {IF Trim(n) \in DOMAIN areaDict THEN GetAreaShortCode(areaDict[Trim(n)]) ELSE IP_UNKNOWN :
     n \in Found(ipip, ip)}

-------------------------------------------------------------------------------
(* Sizes: [get, rget] are sizemap (by type and size) and rsizemap.         *)

NoSizes == [get |-> <<>>, rget |-> <<>>]

\* Mutant: rsizemap gets its pair the wrong way round.
AddSwapped(sizes, row) ==
  LET key == <<row.type, row.from>>
      old == IF key \in DOMAIN sizes.get THEN sizes.get[key] ELSE <<>>
  IN [get  |-> [k \in DOMAIN sizes.get \cup {key} |->
                  IF k = key THEN Append(old, row.to) ELSE sizes.get[k]],
      rget |-> [k \in DOMAIN sizes.rget \cup {row.from} |->
                  IF k \in DOMAIN sizes.rget THEN sizes.rget[k] ELSE row.to]]

\* AdSizeMap::add(): rsizemap keeps the first pair of a size.
Add(sizes, row) ==
  LET key == <<row.type, row.from>>
      old == IF key \in DOMAIN sizes.get THEN sizes.get[key] ELSE <<>>
  IN [get  |-> [k \in DOMAIN sizes.get \cup {key} |->
                  IF k = key THEN Append(old, row.to) ELSE sizes.get[k]],
      rget |-> [k \in DOMAIN sizes.rget \cup {row.to} |->
                  IF k \in DOMAIN sizes.rget THEN sizes.rget[k] ELSE row.from]]

\* AdSizeMap::get() and rget(): a size that is not mapped stands for itself
SizesFor(sizes, type, k) ==
  IF <<type, k>> \in DOMAIN sizes.get THEN sizes.get[<<type, k>>] ELSE <<k>>

Rget(sizes, k) == IF k \in DOMAIN sizes.rget THEN sizes.rget[k] ELSE k

\* The maps after the first n of the rows s
Added(s) ==
  LET sizes[n \in 0 .. Len(s)] == IF n = 0 THEN NoSizes ELSE Add(sizes[n - 1], s[n]) IN sizes

\* initFromDB() when the database fails behind the first n rows: initStatic()
\* adds its table to what was read.  It does not fail where there are fewer.
InitFromDB(rows, static, n) ==
  LET s == IF n > Len(rows) THEN rows ELSE SubSeq(rows, 1, n) \o static IN Added(s)[Len(s)]

=============================================================================
