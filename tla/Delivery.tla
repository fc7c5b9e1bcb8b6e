------------------------------ MODULE Delivery ------------------------------
(***************************************************************************)
(* What happens to an ad after the auction: show, click and trace requests *)
(* (show_query_task, click_query_task, trace_task and the skeleton in      *)
(* abstract_query_task), the records they keep in Aerospike and the logs   *)
(* they write.  Every worker process serves one request at a time; a       *)
(* request is a sequence of Aerospike calls, and the steps of different    *)
(* workers interleave between them.                                        *)
(*                                                                         *)
(* Asynchronous calls are in flight until they land or are lost, in any    *)
(* order.  A synchronous call may fail without effect, or fail although    *)
(* the server carries it out, at once or later.  Records expire, and a     *)
(* worker may die between any two steps.                                   *)
(*                                                                         *)
(* Terms[ad] are an ad's terms in the sense of Charging, with the          *)
(* advertiser, the order, whether it has a product package of its own      *)
(* (counted), and whether its click url was handed out at bid time         *)
(* (native).                                                               *)
(***************************************************************************)
EXTENDS Charging, FiniteSets

CONSTANTS
  Workers,       \* worker processes
  Users,         \* users, as userCookieLogic() finds them
  Ads,           \* ads
  Terms,         \* [Ads -> records with the fields named above]
  Traffics,      \* kinds of traffic: ads that run, requests, and bounds
  ArriveLimit,   \* trace_task.cpp: a page view this soon is an arrival
  None

Owners == {Terms[ad].owner : ad \in Ads}
Orders == {Terms[ad].order : ad \in Ads}
Windows == {"daily", "hourly"}

\* The outside world of a behaviour: the ads that run, the requests that
\* come, and bounds on their number, on the clock, on losses, failed calls
\* and deaths, and on records that expire.
Traffic == [ads : SUBSET Ads, kinds : SUBSET {"show", "click", "trace"}, maxRequests : Nat,
            maxTime : Nat, maxFaults : Nat, maxExpired : Nat]

ASSUME ConstantsAssumption ==
  /\ IsFiniteSet(Workers)
  /\ Terms \in [Ads -> AdTerms]
  /\ Traffics \subseteq Traffic
  /\ ArriveLimit \in Nat
  /\ None \notin Users \cup Ads \cup Nat \cup [Ads -> Nat]

\* A click url is handed out at bid time only by the handlers of exchanges.
\* calcPrice() does not expect an ad settled by the click in a deal; such an
\* ad has a price of its own here, unless the exchange's price is fixed and in
\* the url: one made before the auction ends cannot name the price that wins.
ASSUME TermsAssumption ==
  \A ad \in Ads :
    LET t == Terms[ad] IN
    t.native => /\ t.adx # "ssp"
                /\ IsCpc(t.priceType) /\ t.adx # "fixed" /\ t.deal # 0 => t.fee # 0

VARIABLES
  traffic,   \* the traffic of this behaviour
  started,   \* number of requests so far; the number of the latest one
  now,       \* the clock
  pc,        \* [Workers -> what the worker does next]
  req,       \* [Workers -> the request it serves]
  shows,     \* [Orders -> bin "s" of its order-counter record]
  clicks,    \* [Orders -> bin "c"]
  counting,  \* [Orders -> asynchronous increments of "s" in flight]
  freq,      \* [Users \X Windows -> UserShowCounter, or None]
  putting,   \* [Users \X Windows \X Ads -> putAsync() of a counter in flight]
  adding,    \* [Users \X Windows \X Ads -> operateAsync() in flight]
  lastId,    \* bin "val" of last_source_id, 0 before the record exists
  sources,   \* source_id records: a partial function from ids
  index,     \* [Users \X Owners -> id in the source_id_index record, or None]
  late,      \* writes reported as failed that the server may still do
  links,     \* click urls handed out
  landed,    \* landing pages clicks were redirected to
  logs,      \* logs written, each with the number of its request
  faults,    \* history: [s, c, other |-> faults so far, by what they hit]
  expired,   \* number of records expired
  due,       \* history: [Users \X Windows \X Ads -> shows since the record began]
  made,      \* history: the click that each source id was drawn for
  clean      \* history: no show of the user overlapped a fresh counter

counters == <<shows, clicks, counting>>
frequency == <<freq, putting, adding, due, clean>>
trail == <<lastId, sources, index, late, made>>
vars == <<traffic, started, now, pc, req, counters, frequency, trail, links, landed, logs,
          faults, expired>>

Keys == Users \X Windows
Totals == Users \X Windows \X Ads
Idle == [nr |-> 0, kind |-> "none", user |-> None, ad |-> None, booking |-> NoBooking,
         landing |-> FALSE, source |-> None, at |-> 0, owner |-> None, from |-> 0]
Put(f, k, v) == [j \in DOMAIN f \cup {k} |-> IF j = k THEN v ELSE f[j]]
Bump(f, k) == [f EXCEPT ![k] = @ + 1]
Drop(f, k) == [f EXCEPT ![k] = @ - 1]
Fault(what) == /\ faults.s + faults.c + faults.other < traffic.maxFaults
               /\ faults' = [faults EXCEPT ![what] = @ + 1]

\* A log keeps the parts of LogItem the properties speak of.
Log(r, type, status) ==
  [nr |-> r.nr, type |-> type, user |-> r.user, ad |-> r.ad, status |-> status,
   booking |-> r.booking, landing |-> r.landing, source |-> r.source, record |-> None,
   owner |-> r.owner, from |-> r.from]
Finish(w) == pc' = [pc EXCEPT ![w] = "idle"] /\ req' = [req EXCEPT ![w] = Idle]
Continue(w, step, r) == pc' = [pc EXCEPT ![w] = step] /\ req' = [req EXCEPT ![w] = r]

\* A worker takes a request.
Begin(w, kind) ==
  /\ kind \in traffic.kinds /\ pc[w] = "idle" /\ started < traffic.maxRequests
  /\ started' = started + 1
Request(kind, user, ad, booking) ==
  [Idle EXCEPT !.nr = started + 1, !.kind = kind, !.user = user, !.ad = ad,
               !.booking = booking, !.at = now]

\* What the task does after a frequency record: the other one, or its log.
AfterFrequency(w, step) ==
  IF step = "daily" THEN Continue(w, "hourly", req[w]) /\ UNCHANGED logs
  ELSE Finish(w) /\ logs' = logs \cup {Log(req[w], req[w].kind, 200)}

\* SourceRecord: what a click leaves for traces.
SourceRecord(r) == [nr |-> r.nr, user |-> r.user, ad |-> r.ad, time |-> r.at]

-----------------------------------------------------------------------------
(* Faulty variants of some definitions; no specification uses them.        *)

\* Shows of the default package are counted, too.
CountShowAlways(ad) == counting' = Bump(counting, Terms[ad].order)

\* The hourly counter is kept under the key of the daily one.
CountFrequencyDailyKey(w) ==
  /\ pc[w] \in Windows
  /\ LET k == <<req[w].user, "daily">>
         t == <<req[w].user, "daily", req[w].ad>>
     IN IF freq[k] = None
          THEN putting' = Bump(putting, t) /\ UNCHANGED adding
          ELSE adding' = Bump(adding, t) /\ UNCHANGED putting
  /\ due' = Bump(due, <<req[w].user, pc[w], req[w].ad>>)
  /\ AfterFrequency(w, pc[w])
  /\ UNCHANGED <<traffic, started, now, counters, freq, clean, trail, links, landed, faults,
                 expired>>

\* The id is read and not incremented.
GenerateSourceIdReadOnly(w) ==
  /\ pc[w] = "generateSourceId"
  /\ IF lastId = 0 THEN Continue(w, "countClick", req[w]) /\ UNCHANGED made
     ELSE /\ Continue(w, "putSource", [req[w] EXCEPT !.source = lastId])
          /\ made' = Put(made, lastId, SourceRecord(req[w]))
  /\ UNCHANGED <<traffic, started, now, counters, frequency, lastId, sources, index, late, links,
                 landed, logs, faults, expired>>

\* The index is looked up by the user alone.
GetIndexByUser(w) ==
  /\ pc[w] = "getIndex"
  /\ \E o \in Owners :
       Continue(w, "getSource", [req[w] EXCEPT !.source = index[<<req[w].user, o>>]])
  /\ UNCHANGED <<traffic, started, now, counters, frequency, trail, links, landed, logs, faults,
                 expired>>

-----------------------------------------------------------------------------
(* Show requests.                                                          *)

\* The counter "s" of the order, unless the ad is of the default package.
CountShow(ad) == counting' = IF Terms[ad].counted THEN Bump(counting, Terms[ad].order) ELSE counting

\* An SSP placement: the selected ad is logged as shown at once; what the
\* task logs at its end is a BID.
ShowForSsp(w) ==
  /\ Begin(w, "show")
  /\ \E u \in Users, ad \in {a \in traffic.ads : Terms[a].adx = "ssp"} :
       LET r == Request("BID", u, ad, SspShowPrice(Terms[ad])) IN
       /\ logs' = logs \cup {Log(r, "SHOW", 200)}
       /\ links' = links \cup {[ad |-> ad, user |-> None, url |-> Cipher(BuildResponseForSsp(Terms[ad]))]}
       /\ CountShow(ad)
       /\ Continue(w, "daily", r)
  /\ UNCHANGED <<traffic, now, shows, clicks, frequency, trail, landed, faults, expired>>

\* No placement in the url: the log says a show, of nothing.
\* No ad for the placement: the log says a bid that failed.
ShowForSspFailed(w) ==
  /\ Begin(w, "show")
  /\ \E u \in Users, outcome \in {<<"SHOW", 200>>, <<"BID", 500>>} :
       logs' = logs \cup {Log(Request("BID", u, None, NoBooking), outcome[1], outcome[2])}
  /\ UNCHANGED <<traffic, now, pc, req, counters, frequency, trail, links, landed, faults, expired>>

\* An exchange's show: by the parameter "of" the creative, the log or both
\* are wanted; found says whether the ad server knows the banner.
ShowForDsp(w) ==
  /\ Begin(w, "show")
  /\ \E u \in Users, ad \in {a \in traffic.ads : Terms[a].adx # "ssp"},
        of \in {"both", "creative", "log"}, found \in BOOLEAN :
       LET url == ShowRequest(Terms[ad])
           r == Request("SHOW", u, ad, ParseObjectToLogItem(Terms[ad].adx, url, "SHOW"))
       IN IF of # "log" /\ ~found
            THEN /\ logs' = IF of = "both" THEN logs \cup {Log(r, "SHOW", 500)} ELSE logs
                 /\ UNCHANGED <<pc, req, links, counting>>
            ELSE /\ links' = IF of = "log" THEN links ELSE links \cup
                      {[ad |-> ad, user |-> u, url |-> Cipher(BuildResponseForDsp(url))]}
                 /\ IF of = "creative" THEN UNCHANGED <<pc, req, counting>>
                    ELSE CountShow(ad) /\ Continue(w, "daily", r)
                 /\ UNCHANGED logs
  /\ UNCHANGED <<traffic, now, shows, clicks, frequency, trail, landed, faults, expired>>

\* exists(), then a fresh counter that replaces the record or an increment
\* of the one that is there.  The call is asynchronous, so it makes no
\* difference that exists() is not atomic with it.
CountFrequency(w) ==
  /\ pc[w] \in Windows
  /\ LET k == <<req[w].user, pc[w]>>
         t == <<req[w].user, pc[w], req[w].ad>>
     IN /\ IF freq[k] = None
             THEN /\ putting' = Bump(putting, t) /\ UNCHANGED adding
                  /\ clean' = [clean EXCEPT ![k] = @ /\ \A ad \in Ads :
                                 putting[<<k[1], k[2], ad>>] + adding[<<k[1], k[2], ad>>] = 0]
             ELSE adding' = Bump(adding, t) /\ UNCHANGED <<putting, clean>>
        /\ due' = Bump(due, t)
  /\ AfterFrequency(w, pc[w])
  /\ UNCHANGED <<traffic, started, now, counters, freq, trail, links, landed, faults, expired>>

\* exists() fails: both records are left alone from here on.
FrequencyFails(w) ==
  /\ pc[w] \in Windows
  /\ Fault("other")
  /\ AfterFrequency(w, "hourly")
  /\ UNCHANGED <<traffic, started, now, counters, frequency, trail, links, landed, expired>>

-----------------------------------------------------------------------------
(* The asynchronous calls of show requests.                                *)

ShowCounted(o) ==
  /\ counting[o] > 0
  /\ counting' = Drop(counting, o)
  /\ shows' = Bump(shows, o)
  /\ UNCHANGED <<traffic, started, now, pc, req, clicks, frequency, trail, links, landed, logs,
                 faults, expired>>

ShowLost(o) ==
  /\ counting[o] > 0
  /\ Fault("s")
  /\ counting' = Drop(counting, o)
  /\ UNCHANGED <<traffic, started, now, pc, req, shows, clicks, frequency, trail, links, landed,
                 logs, expired>>

\* UserShowCounter: a record that counts one show of one ad.
FreshCounter(t) == [ad \in Ads |-> IF ad = t[3] THEN 1 ELSE 0]

PutLands(t) ==
  /\ putting[t] > 0
  /\ putting' = Drop(putting, t)
  /\ freq' = [freq EXCEPT ![<<t[1], t[2]>>] = FreshCounter(t)]
  /\ UNCHANGED <<traffic, started, now, pc, req, counters, adding, due, clean, trail, links,
                 landed, logs, faults, expired>>

\* An increment of a record that has expired meanwhile creates it.
AddLands(t) ==
  /\ adding[t] > 0
  /\ adding' = Drop(adding, t)
  /\ freq' = [freq EXCEPT ![<<t[1], t[2]>>] = IF @ = None THEN FreshCounter(t) ELSE Bump(@, t[3])]
  /\ UNCHANGED <<traffic, started, now, pc, req, counters, putting, due, clean, trail, links,
                 landed, logs, faults, expired>>

FrequencyLost(t) ==
  /\ \/ putting[t] > 0 /\ putting' = Drop(putting, t) /\ UNCHANGED adding
     \/ adding[t] > 0 /\ adding' = Drop(adding, t) /\ UNCHANGED putting
  /\ Fault("other")
  /\ clean' = [clean EXCEPT ![<<t[1], t[2]>>] = FALSE]
  /\ UNCHANGED <<traffic, started, now, pc, req, counters, freq, due, trail, links, landed, logs,
                 expired>>

\* A counter reaches the end of its day or hour.  The shows counted from
\* here on are those still in flight.
FrequencyExpires(k) ==
  /\ freq[k] # None /\ expired < traffic.maxExpired
  /\ expired' = expired + 1
  /\ freq' = [freq EXCEPT ![k] = None]
  /\ due' = [t \in Totals |-> IF <<t[1], t[2]>> = k THEN putting[t] + adding[t] ELSE due[t]]
  /\ UNCHANGED <<traffic, started, now, pc, req, counters, putting, adding, clean, trail, links,
                 landed, logs, faults>>

-----------------------------------------------------------------------------
(* Click requests.                                                         *)

ClickRequest(link, u, landing) ==
  [Request("CLICK", u, link.ad, ParseObjectToLogItem(Terms[link.ad].adx, link.url, "CLICK"))
     EXCEPT !.owner = Terms[link.ad].owner, !.landing = landing]

\* The click of a url that was handed out.  A url of an SSP page names no
\* user: it is the one of the browser's cookie.  Without a landing page the
\* answer is an error 400, the log says 302 all the same.
Click(w) ==
  /\ Begin(w, "click")
  /\ \E link \in links, u \in Users, landing \in BOOLEAN :
       LET r == ClickRequest(link, u, landing) IN
       /\ link.user \in {None, u}
       /\ IF landing THEN Continue(w, "generateSourceId", r) /\ UNCHANGED logs
          ELSE logs' = logs \cup {Log(r, "CLICK", 302)} /\ UNCHANGED <<pc, req>>
  /\ UNCHANGED <<traffic, now, counters, frequency, trail, links, landed, faults, expired>>

\* Read and increment in one operation.  The very first one reads nothing,
\* and a failed one may have counted.
GenerateSourceId(w) ==
  /\ pc[w] = "generateSourceId"
  /\ \/ /\ lastId' = lastId + 1
        /\ IF lastId = 0 THEN Continue(w, "countClick", req[w])
           ELSE Continue(w, "putSource", [req[w] EXCEPT !.source = lastId])
        /\ made' = IF lastId = 0 THEN made ELSE Put(made, lastId, SourceRecord(req[w]))
        /\ UNCHANGED faults
     \/ /\ Fault("other")
        /\ lastId' \in {lastId, lastId + 1}
        /\ Continue(w, "countClick", req[w])
        /\ UNCHANGED made
  /\ UNCHANGED <<traffic, started, now, counters, frequency, sources, index, late, links, landed,
                 logs, expired>>

\* put(): done, or failed and perhaps done later.
Store(write) ==
  IF write.at = "source"
    THEN sources' = Put(sources, write.id, write.record) /\ UNCHANGED index
    ELSE index' = [index EXCEPT ![write.key] = write.id] /\ UNCHANGED sources
Write(w, write, next) ==
  \/ /\ Store(write)
     /\ Continue(w, next, req[w])
     /\ UNCHANGED <<late, faults>>
  \/ /\ Fault("other")
     /\ late' \in {late, late \cup {write}}
     /\ Continue(w, "countClick", req[w])
     /\ UNCHANGED <<sources, index>>

PutSource(w) ==
  /\ pc[w] = "putSource"
  /\ Write(w, [at |-> "source", id |-> req[w].source, record |-> SourceRecord(req[w])], "putIndex")
  /\ UNCHANGED <<traffic, started, now, counters, frequency, lastId, made, links, landed, logs, expired>>

PutIndex(w) ==
  /\ pc[w] = "putIndex"
  /\ Write(w, [at |-> "index", id |-> req[w].source, key |-> <<req[w].user, req[w].owner>>],
           "countClick")
  /\ UNCHANGED <<traffic, started, now, counters, frequency, lastId, made, links, landed, logs, expired>>

\* A write that was reported as failed arrives.
LateWrite(write) ==
  /\ late' = late \ {write}
  /\ Store(write)
  /\ UNCHANGED <<traffic, started, now, pc, req, counters, frequency, lastId, made, links, landed, logs,
                 faults, expired>>

\* The counter "c" of the order, whatever its package.
CountClick(w) ==
  /\ pc[w] = "countClick"
  /\ \/ clicks' = Bump(clicks, Terms[req[w].ad].order) /\ UNCHANGED faults
     \/ Fault("c") /\ clicks' \in {clicks, Bump(clicks, Terms[req[w].ad].order)}
  /\ Continue(w, "logClick", req[w])
  /\ UNCHANGED <<traffic, started, now, shows, counting, frequency, trail, links, landed, logs,
                 expired>>

LogClick(w) ==
  /\ pc[w] = "logClick"
  /\ logs' = logs \cup {Log(req[w], "CLICK", 302)}
  /\ landed' = landed \cup {[nr |-> req[w].nr, user |-> req[w].user, owner |-> req[w].owner,
                             source |-> req[w].source]}
  /\ Finish(w)
  /\ UNCHANGED <<traffic, started, now, counters, frequency, trail, links, faults, expired>>

\* A source record or an index entry reaches its thirty days.
TrailExpires ==
  /\ expired < traffic.maxExpired
  /\ expired' = expired + 1
  /\ \/ \E i \in DOMAIN sources :
          sources' = [j \in DOMAIN sources \ {i} |-> sources[j]] /\ UNCHANGED index
     \/ \E k \in Users \X Owners :
          index[k] # None /\ index' = [index EXCEPT ![k] = None] /\ UNCHANGED sources
  /\ UNCHANGED <<traffic, started, now, pc, req, counters, frequency, lastId, late, made, links, landed,
                 logs, faults>>

-----------------------------------------------------------------------------
(* Trace requests: an advertiser's page reports what the user does there.  *)

TraceRequest(u, owner, source, from) ==
  [Request("TRACK", u, None, NoBooking) EXCEPT !.owner = owner, !.source = source, !.from = from]

\* The page either passes on the source of the click that led to it, or
\* leaves it to the server to find one for the user and the advertiser.
Trace(w) ==
  /\ Begin(w, "trace")
  /\ \E u \in Users :
       \/ \E page \in {p \in landed : p.source # None} :
            Continue(w, "getSource", TraceRequest(u, page.owner, page.source, page.nr))
       \/ \E ad \in traffic.ads :
            Continue(w, "getIndex", TraceRequest(u, Terms[ad].owner, None, 0))
  /\ UNCHANGED <<traffic, now, counters, frequency, trail, links, landed, logs, faults, expired>>

GetIndex(w) ==
  /\ pc[w] = "getIndex"
  /\ \/ /\ Continue(w, "getSource", [req[w] EXCEPT !.source = index[<<req[w].user, req[w].owner>>]])
        /\ UNCHANGED faults
     \/ Fault("other") /\ Continue(w, "getSource", req[w])
  /\ UNCHANGED <<traffic, started, now, counters, frequency, trail, links, landed, logs, expired>>

\* fillLog(): the log names the ad of the record if there is one.  A page
\* view soon enough after the click is logged as an arrival.
TraceLog(r, record, pageView) ==
  [Log(r, IF record # None /\ pageView /\ r.at - record.time <= ArriveLimit
            THEN "ARRIVE" ELSE "TRACK", 302)
     EXCEPT !.record = record, !.ad = IF record = None THEN None ELSE record.ad]

GetSource(w) ==
  /\ pc[w] = "getSource"
  /\ \E pageView \in BOOLEAN :
       \/ /\ logs' = logs \cup {TraceLog(req[w], IF req[w].source \in DOMAIN sources
                                          THEN sources[req[w].source] ELSE None, pageView)}
          /\ UNCHANGED faults
       \/ /\ req[w].source # None
          /\ Fault("other")
          /\ logs' = logs \cup {TraceLog(req[w], None, pageView)}
  /\ Finish(w)
  /\ UNCHANGED <<traffic, started, now, counters, frequency, trail, links, landed, expired>>

-----------------------------------------------------------------------------
\* The worker dies; nginx starts another one.
Dies(w) ==
  /\ pc[w] # "idle"
  /\ Fault(IF pc[w] \in Windows /\ req[w].kind = "SHOW" THEN "s" ELSE IF pc[w] = "logClick" THEN "c" ELSE "other")
  /\ Finish(w)
  /\ UNCHANGED <<traffic, started, now, counters, frequency, trail, links, landed, logs, expired>>

Tick ==
  /\ now < traffic.maxTime
  /\ now' = now + 1
  /\ UNCHANGED <<traffic, started, pc, req, counters, frequency, trail, links, landed, logs,
                 faults, expired>>

Init ==
  /\ traffic \in Traffics
  /\ started = 0 /\ now = 0
  /\ pc = [w \in Workers |-> "idle"]
  /\ req = [w \in Workers |-> Idle]
  /\ shows = [o \in Orders |-> 0]
  /\ clicks = [o \in Orders |-> 0]
  /\ counting = [o \in Orders |-> 0]
  /\ freq = [k \in Keys |-> None]
  /\ putting = [t \in Totals |-> 0]
  /\ adding = [t \in Totals |-> 0]
  /\ due = [t \in Totals |-> 0]
  /\ clean = [k \in Keys |-> TRUE]
  /\ lastId \in {0, 1}
  /\ sources = <<>> /\ made = <<>>
  /\ index = [k \in Users \X Owners |-> None]
  /\ late = {}
  /\ links = {[ad |-> ad, user |-> u, url |-> Cipher(ClickUrl(Terms[ad]))] :
                ad \in {a \in traffic.ads : Terms[a].native}, u \in Users}
  /\ landed = {} /\ logs = {}
  /\ faults = [s |-> 0, c |-> 0, other |-> 0]
  /\ expired = 0

Next ==
  \/ \E w \in Workers :
       \/ ShowForSsp(w) \/ ShowForSspFailed(w) \/ ShowForDsp(w)
       \/ CountFrequency(w) \/ FrequencyFails(w)
       \/ Click(w) \/ GenerateSourceId(w) \/ PutSource(w) \/ PutIndex(w)
       \/ CountClick(w) \/ LogClick(w)
       \/ Trace(w) \/ GetIndex(w) \/ GetSource(w)
       \/ Dies(w)
  \/ \E o \in Orders : ShowCounted(o) \/ ShowLost(o)
  \/ \E t \in Totals : PutLands(t) \/ AddLands(t) \/ FrequencyLost(t)
  \/ \E k \in Keys : FrequencyExpires(k)
  \/ \E write \in late : LateWrite(write)
  \/ TrailExpires
  \/ Tick

Spec == Init /\ [][Next]_vars

-----------------------------------------------------------------------------
(* Properties.                                                             *)

Served(o, type) ==
  Cardinality({l \in logs : /\ l.type = type /\ l.ad # None /\ Terms[l.ad].order = o
                            /\ type = "SHOW" => l.status = 200 /\ Terms[l.ad].counted
                            /\ type = "CLICK" => l.landing})
Serving(o, steps, kind) ==
  Cardinality({w \in Workers : /\ pc[w] \in steps /\ req[w].kind = kind
                               /\ Terms[req[w].ad].order = o
                               /\ kind = "SHOW" => Terms[req[w].ad].counted})

(* OrdersAgree: the counters of an order that budget control reads agree   *)
(* with the logs that are billed: apart from requests under way they       *)
(* differ by at most one for every lost increment or worker that died.     *)
OrdersAgree ==
  \A o \in Orders :
    /\ shows[o] + counting[o] - Served(o, "SHOW") - Serving(o, Windows, "SHOW")
         \in -faults.s..faults.s
    /\ clicks[o] - Served(o, "CLICK") - Serving(o, {"logClick"}, "CLICK")
         \in -faults.c..faults.c

(* FrequencyAccount: a user's counter never says more shows of an ad than  *)
(* there were since the record began, and says exactly as many if no       *)
(* fresh counter was put while other calls for the record were in flight   *)
(* and none was lost.                                                      *)
FrequencyAccount ==
  \A u \in Users, win \in Windows, ad \in Ads :
    LET k == <<u, win>>
        t == <<u, win, ad>>
        total == (IF freq[k] = None THEN 0 ELSE freq[k][ad]) + putting[t] + adding[t]
    IN total <= due[t] /\ (clean[k] => total = due[t])

(* TraceOwn: a trace that names a click names one on an ad of the page's   *)
(* advertiser: the very click that led to the page if the page passed on a *)
(* source, a click of the same user otherwise.                             *)
TraceOwn ==
  \A l \in {m \in logs : m.record # None} :
    /\ Terms[l.record.ad].owner = l.owner
    /\ IF l.from # 0 THEN l.record.nr = l.from ELSE l.record.user = l.user

(* ChargedOnce: what an impression costs and what the advertiser spends on *)
(* it is booked in exactly one of the logs SHOW and CLICK, and is what the *)
(* terms say, whichever way the click url reached the browser.             *)
ChargedOnce ==
  \A l \in {m \in logs : m.type \in {"SHOW", "CLICK"} /\ m.ad # None} :
    l.booking = Due(Terms[l.ad], l.type)

(* SourcesNeverRewritten: the record of a click is never replaced by the   *)
(* record of another one.                                                  *)
SourcesNeverRewritten ==
  [][\A i \in DOMAIN sources \cap DOMAIN sources' : sources'[i] = sources[i]]_vars
=============================================================================
