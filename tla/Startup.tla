------------------------------- MODULE Startup -------------------------------
(***************************************************************************)
(* The life of the nginx workers around global_init() (main.cpp): a worker *)
(* initialises itself when its first request arrives, and serves from then *)
(* on.  The workers share one file, the binary cache of the scenario       *)
(* table: whoever finds it missing writes it, in place and with no lock,   *)
(* while the others read it.  An exception leaves adservice_handler()      *)
(* through C frames and ends the worker, and the nginx master starts       *)
(* another one.                                                            *)
(***************************************************************************)
EXTENDS ReferenceTables

CONSTANTS Workers,
          Resources,   \* the possible contents of res/ and of the database
          Addresses,
          KillLimit    \* bound: workers that are killed

Line == [start : Nat, end : Nat, scenario : Int, fields : Nat]
AreaLine == [name : STRING, country : Nat \ {0}, province : Nat, city : Nat]
Row == [type : Nat, from : Nat \X Nat, to : Nat \X Nat]

\* 2^k
Pow2[k \in 0 .. Bits] == IF k = 0 THEN 1 ELSE 2 * Pow2[k - 1]

\* The ranges of an address table are sorted and reach up to the last
\* address; what flag says of an octet is how many of them end before it.
TableOK(ipip) ==
  /\ ipip.index \in Seq([upTo : Nat, name : Seq(STRING)])
  /\ \A i, j \in DOMAIN ipip.index : i < j => ipip.index[i].upTo < ipip.index[j].upTo
  /\ \A ip \in Addresses :
       LET octet == ip \div PrefixSize IN
       /\ \E i \in DOMAIN ipip.index : ip <= ipip.index[i].upTo
       /\ ipip.flag[octet] \in 0 .. Len(ipip.index)
       /\ \A i \in 1 .. ipip.flag[octet] : ipip.index[i].upTo < octet * PrefixSize

\* A code is given to one area, and a country and a province come before
\* what they contain.
AreasOK(lines) ==
  /\ lines \in Seq(AreaLine)
  /\ \A l, m \in Range(lines) :
       Level(l) = Level(m) /\ GetAreaShortCode(l) = GetAreaShortCode(m) => l = m
  /\ \A i \in DOMAIN lines : \A level \in 1 .. Level(lines[i]) - 1 :
       \E j \in 1 .. i - 1 :
         /\ Level(lines[j]) = level /\ lines[j].country = lines[i].country
         /\ level = 2 => lines[j].province = lines[i].province

ASSUME ResourcesAssumption ==
  /\ Bits \in Nat /\ PrefixSize \in Nat \ {0} /\ AREACODE_MARGIN \in Nat \ {0}
  /\ Addresses \subseteq Nat /\ Malformed \notin Addresses
  /\ \A r \in Resources :
       /\ r.lines \in Seq(Line)
       /\ \A l \in Rules(r.lines) : l.start < Pow2[Bits] /\ l.end < Pow2[Bits]
       /\ TableOK(r.ipip) /\ AreasOK(r.areas)
       /\ r.rows \in Seq(Row) /\ r.static \in Seq(Row)

VARIABLES res,      \* lines, ipip, areas, rows, static of this behaviour
          cache,    \* scenario.bin: "absent", "partial" or "whole"
          cached,   \* the table in it
          phase,    \* where each worker is
          areas,    \* its areaDict
          dict,     \* its scenarioDict
          sizes,    \* its AdSizeMap
          sized,    \* whether AdSizeMap::started is set
          kills,
          torn      \* history: a worker was killed while it wrote the cache

file == <<cache, cached>>
startupVars == <<res, file, phase, areas, dict, sizes, sized, kills, torn>>

StartupInit ==
  /\ res \in Resources
  /\ cache = "absent" /\ cached = <<>>
  /\ phase = [w \in Workers |-> "new"]
  /\ areas = [w \in Workers |-> <<>>]
  /\ dict = [w \in Workers |-> <<>>]
  /\ sizes = [w \in Workers |-> NoSizes]
  /\ sized = [w \in Workers |-> FALSE]
  /\ kills = 0 /\ torn = FALSE

Goto(w, step) == phase' = [phase EXCEPT ![w] = step]

\* The worker is gone; the master starts another one in its place.
Respawn(w) ==
  /\ Goto(w, "new")
  /\ areas' = [areas EXCEPT ![w] = <<>>]
  /\ dict' = [dict EXCEPT ![w] = <<>>]
  /\ sizes' = [sizes EXCEPT ![w] = NoSizes]
  /\ sized' = [sized EXCEPT ![w] = FALSE]

-------------------------------------------------------------------------------
(* adservice_handler() of the first request: global_init() with the areas  *)
(* of IpManager::init(), up to ScenarioManager::init(), which opens the    *)
(* cache ...                                                               *)

FirstRequest(w) ==
  /\ phase[w] = "new"
  /\ areas' = [areas EXCEPT ![w] = LoadAreaData(res.areas)]
  /\ Goto(w, IF cache = "absent" THEN "create" ELSE "load")
  /\ UNCHANGED <<res, file, dict, sizes, sized, kills, torn>>

\* ... reads it: an archive that ends too early throws, ...
LoadCache(w) ==
  /\ phase[w] = "load" /\ cache = "whole"
  /\ dict' = [dict EXCEPT ![w] = cached]
  /\ Goto(w, "serving")
  /\ UNCHANGED <<res, file, areas, sizes, sized, kills, torn>>

LoadFails(w) ==
  /\ phase[w] = "load" /\ cache = "partial"
  /\ Respawn(w)
  /\ UNCHANGED <<res, file, kills, torn>>

\* ... or truncates it and writes the table it made from the text file.
CreateCache(w) ==
  /\ phase[w] = "create"
  /\ dict' = [dict EXCEPT ![w] = LoadScenarioData(res.lines)]
  /\ cache' = "partial"
  /\ Goto(w, "write")
  /\ UNCHANGED <<res, cached, areas, sizes, sized, kills, torn>>

\* Mutant: the stream is never flushed.
CloseCacheUnflushed(w) ==
  /\ phase[w] = "write"
  /\ Goto(w, "serving")
  /\ UNCHANGED <<res, file, areas, dict, sizes, sized, kills, torn>>

\* What a worker wrote before another one truncated the file is missing until
\* that one writes it, too.
CloseCache(w) ==
  /\ phase[w] = "write"
  /\ cache' \in {"whole"} \cup (IF torn \/ \E v \in Workers \ {w} : phase[v] = "write"
                               THEN {"partial"} ELSE {})
  /\ cached' = dict[w]
  /\ Goto(w, "serving")
  /\ UNCHANGED <<res, areas, dict, sizes, sized, kills, torn>>

\* AdSizeMap::getInstance() of the first bid that asks for a native size; the
\* database may fail at once, in the middle of its answer, or not at all.
LoadSizes(w) ==
  /\ phase[w] = "serving" /\ ~sized[w]
  /\ sized' = [sized EXCEPT ![w] = TRUE]
  /\ \E n \in 0 .. Len(res.rows) + 1 :
       sizes' = [sizes EXCEPT ![w] = InitFromDB(res.rows, res.static, n)]
  /\ UNCHANGED <<res, file, phase, areas, dict, kills, torn>>

Kill(w) ==
  /\ phase[w] # "new" /\ kills < KillLimit
  /\ kills' = kills + 1
  /\ torn' = (torn \/ phase[w] = "write")
  /\ Respawn(w)
  /\ UNCHANGED <<res, file>>

-------------------------------------------------------------------------------
Start(w) == FirstRequest(w) \/ LoadCache(w) \/ LoadFails(w) \/ CreateCache(w) \/ CloseCache(w)

StartupNext == \E w \in Workers : Start(w) \/ LoadSizes(w) \/ Kill(w)

\* Requests keep arriving at every worker, and a worker that handles one runs.
StartupSpec == StartupInit /\ [][StartupNext]_startupVars /\ \A w \in Workers : WF_startupVars(Start(w))

-------------------------------------------------------------------------------
(* Properties.                                                             *)

\* A line whose range is a network: 2^k addresses from a multiple of 2^k on.
Network(r) == \E k \in 0 .. Bits : r.end - r.start + 1 = Pow2[k] /\ r.start % Pow2[k] = 0

\* No other line is filed under an address of the range, unless it is filed
\* under the same one and says the same.
Unshadowed(r) ==
  \A s \in Rules(res.lines) :
    Cidr(s) \in r.start .. r.end => Cidr(s) = r.start /\ s.scenario = r.scenario

\* ScenarioKnown: a worker that serves knows the scenario of every address
\* of every network of the file, whatever else is in it and however the
\* workers raced for the cache, unless another line is filed under one of
\* its addresses (getScenario()).
ScenarioKnown ==
  \A w \in Workers : phase[w] = "serving" =>
    \A r \in Rules(res.lines) : Network(r) /\ Unshadowed(r) =>
      \A ip \in r.start .. r.end : GetScenario(dict[w], ip) = r.scenario

\* The range an address is in, and the line of the area that has its name.
RangeOf(ip) ==
  CHOOSE i \in DOMAIN res.ipip.index :
    res.ipip.index[i].upTo >= ip /\ (i = 1 \/ res.ipip.index[i - 1].upTo < ip)

CodesOf(name) ==
  {GetAreaShortCode(l) : l \in {m \in Range(res.areas) : FullName(res.areas, m) = Trim(name)}}

\* AreaKnown: the code of an address is the code of the area its range
\* belongs to, the lowest one where areas share a name, or IP_UNKNOWN where
\* no area has the name (getAreaByIp(), loadAreaData()).
AreaKnown ==
  \A w \in Workers : phase[w] = "serving" => \A ip \in Addresses :
    LET codes == CodesOf(res.ipip.index[RangeOf(ip)].name)
        known == IF codes = {} THEN IP_UNKNOWN ELSE Min(codes)
    IN GetAreaByIp(res.ipip, areas[w], ip) = {known}

\* A native size that stands for one size only.
Unambiguous(to) ==
  \A a, b \in Range(res.rows) \cup Range(res.static) : a.to = to /\ b.to = to => a.from = b.from

\* SizesReturn: a bid for a native size goes out with the size that was asked
\* for, however much of its table a worker got from the database (rget()).
SizesReturn ==
  \A w \in Workers : \A k \in DOMAIN sizes[w].get :
    LET native == SizesFor(sizes[w], k[1], k[2])
    IN \A i \in DOMAIN native : Unambiguous(native[i]) => Rget(sizes[w], native[i]) = k[2]

\* WorkersServe: in the end every worker serves, unless one was killed while
\* it wrote the cache (ScenarioManager::init()).
WorkersServe == <>torn \/ <>[](\A w \in Workers : phase[w] = "serving")

=============================================================================
