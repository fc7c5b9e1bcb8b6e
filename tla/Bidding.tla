------------------------------ MODULE Bidding ------------------------------
(***************************************************************************)
(* Bid requests: HandleBidQueryTask (core/logic/bid_query_task) with the   *)
(* handler of one exchange (protocol/).  A worker keeps one handler object *)
(* per exchange and serves every request of the exchange with it, so its   *)
(* members (the response, adInfo, adFlowExtraInfo, cmInfo, isDeal) outlive *)
(* a request.  The worker serves one request at a time.                    *)
(*                                                                         *)
(* A condition is named by its request and its place in it, <<n, i>>; so   *)
(* is a user: <<n, 0>> was found for request n, <<n, i>> was made while    *)
(* condition i was bid for.  The records behind the lookup, and the writes *)
(* of redoCookieMapping(), are the subject of CookieMapping.               *)
(***************************************************************************)
EXTENDS BidExchanges

CONSTANTS Exchanges,    \* the exchanges whose handlers are checked
          Solutions,    \* what the ad engine may select
          MaxImps,      \* impressions of a request
          Requests,     \* the requests that are sent
          MaxRequests,  \* requests served by the handler
          None

Impressions == UNION {[1..k -> Impression] : k \in 0..MaxImps}
\* What an exchange may send; GDT's handler reads impressions(0) unasked.
RequestsOf(a) ==
  {r \in [adx : {a}, test : BOOLEAN, imps : Impressions, device : Devices, content : BOOLEAN] :
     a = "gdt" => r.test \/ r.imps # <<>>}

Conditions == Nat \X Nat
NoCondition == <<0, 0>>

ASSUME BiddingAssumption ==
  /\ Exchanges \subseteq Adxs
  /\ Solutions \subseteq [sid : Nat \ {0}, deal : BOOLEAN, banner : Banners]
  /\ MaxImps \in Nat \ {0} /\ MaxRequests \in Nat
  /\ Requests \subseteq UNION {RequestsOf(a) : a \in Adxs}
  /\ None \notin Conditions

VARIABLES adx,     \* the exchange of the handler
          n,       \* number of the current, or last, request
          pc,      \* "bid" while filterCb runs, "build" in buildBidResult(),
                   \* otherwise "idle"
          device,  \* the request's device section
          conds,   \* the conditions filterCb was called with
          told,    \* the conditions with a content type, and with keywords
          looked,  \* history: this request looked its user up
          cm,      \* cmInfo: the user, cypherUserId, needReMapping, and
                   \* whether the key is a cookie
          isDeal,
          bidResponse,
          adInfo,  \* the ad of the last fillAdInfo() and its condition
          flow,    \* the condition adFlowExtraInfo was filled from
          calls,   \* of buildBidResult(): the calls still to come,
          ad,      \* the ad it makes
          added,   \* and whether that is in the response
          banned,  \* bannedSolutions
          log,     \* the log item, reused for every condition
          logs,    \* the logs written for the request
          sent     \* the answer to the request

handler == <<cm, isDeal, bidResponse, adInfo, flow>>
build == <<calls, ad, added>>
request == <<device, conds, told, looked, banned, log, logs>>
vars == <<adx, n, pc, handler, build, request, sent>>

CondSeq == Seq([deal : BOOLEAN])
User == Conditions \cup {None}
AdInfo == [cond : Conditions, sid : Nat]
NoAd == [cond |-> NoCondition, sid |-> 0]
CmInfo == [user : User, cypher : User, needRe : BOOLEAN, cookieKey : BOOLEAN]
NewCmInfo == [user |-> None, cypher |-> None, needRe |-> FALSE, cookieKey |-> FALSE]
Told == [typed : SUBSET Nat, worded : SUBSET Nat]
NothingTold == [typed |-> {}, worded |-> {}]
\* types, words, geo and media: the conditions that contentTypes, keyWords,
\* geoInfo and mediaType are of.
LogItem == [accepted : BOOLEAN, ad : AdInfo, flow : Conditions, user : User,
            types : SUBSET Conditions, words : Conditions, geo : Conditions, media : Conditions]
NewLog == [accepted |-> FALSE, ad |-> NoAd, flow |-> NoCondition, user |-> None,
           types |-> {}, words |-> NoCondition, geo |-> NoCondition, media |-> NoCondition]
Url == [ad : AdInfo, flow : Conditions, user : User]
Ad == [cond : Conditions, sid : Nat, deal : BOOLEAN, dealId : BOOLEAN,
       show : Url \cup {None}, click : Url \cup {None}]
\* id: the request that started the response.
NewResponse == [id |-> 0, ads |-> <<>>]
Answer(kind, response) == [kind |-> kind, id |-> response.id, ads |-> response.ads]

Init ==
  /\ adx \in Exchanges
  /\ n = 0 /\ pc = "idle"
  /\ device = "none" /\ conds = <<>> /\ told = NothingTold /\ looked = FALSE
  /\ cm = NewCmInfo /\ isDeal = FALSE
  /\ bidResponse = NewResponse /\ adInfo = NoAd /\ flow = NoCondition
  /\ calls = <<>> /\ ad = None /\ added = FALSE
  /\ banned = {} /\ log = NewLog /\ logs = <<>>
  /\ sent = Answer("none", NewResponse)

\* The condition being bid for.
Idx == Len(logs) + 1
Cond == <<n, Idx>>

-----------------------------------------------------------------------------
(* Faulty variants of some definitions; no specification uses them.        *)

\* parseRequestData() does not clear the response.
ParseRequestDataKeeps == bidResponse' = bidResponse

\* A missing record leaves the user of the request before.
LookupsNoReset(k, key) ==
  LET c == [cm EXCEPT !.needRe = FALSE, !.cookieKey = key = "cookie"]
  IN  {c, [c EXCEPT !.user = <<k, 0>>, !.cypher = None], [c EXCEPT !.needRe = TRUE]}

\* reset() forgets cypherUserId.
LookupsKeepCypher(k, key) ==
  LET c == [cm EXCEPT !.user = None, !.needRe = FALSE, !.cookieKey = key = "cookie"]
  IN  {c, [c EXCEPT !.user = <<k, 0>>], [c EXCEPT !.needRe = TRUE]}

\* Solutions already bid with are not banned.
CandidatesNoBan(cond) == {s \in Solutions : s.deal => cond.deal}

\* The log item keeps the ad of the condition before.
FillLogItemKeepsAd(accepted, info, extra, user) ==
  [accepted |-> accepted,
   ad |-> IF accepted THEN info ELSE log.ad,
   flow |-> extra,
   user |-> IF user # None THEN user ELSE log.user,
   types |-> IF accepted THEN {extra}
             ELSE log.types \cup (IF Idx \in told.typed THEN {Cond} ELSE {}),
   words |-> IF Idx \in told.worded THEN Cond ELSE log.words,
   geo |-> IF accepted THEN info.cond ELSE log.geo,
   media |-> IF accepted THEN extra ELSE log.media]

-----------------------------------------------------------------------------
(* parseRequestData() and filter() up to filterCb.                         *)

ParseRequestData == bidResponse' = NewResponse

\* queryCookieMapping(): the user is found, cannot be told (no device ids, or
\* Aerospike is busy), or is missing.
Lookups(k, key) ==
  LET c == [NewCmInfo EXCEPT !.cookieKey = key = "cookie"]
  IN  {c, [c EXCEPT !.user = <<k, 0>>], [c EXCEPT !.needRe = TRUE]}

Start(r) ==
  /\ pc = "idle" /\ n < MaxRequests /\ r.adx = adx
  /\ n' = n + 1
  /\ ParseRequestData
  /\ device' = r.device
  /\ banned' = {} /\ log' = NewLog /\ logs' = <<>>
  /\ UNCHANGED <<adx, adInfo, flow, build>>

LookUp(d) ==
  /\ looked' = (d.lookup # "no")
  /\ cm' \in IF d.lookup = "no" THEN {cm} ELSE Lookups(n + 1, d.lookup)

Accept(r) ==
  LET d == Filter(adx, r)
  IN  /\ Start(r) /\ d.go /\ LookUp(d)
      /\ isDeal' = IsDealAfterFilter(adx, r, isDeal)
      /\ conds' = d.conds /\ told' = [typed |-> Typed(adx, r), worded |-> Worded(adx, r)]
      /\ pc' = "bid" /\ sent' = Answer("none", NewResponse)

\* filter() returns before filterCb: reject().
RefuseRequest(r) ==
  LET d == Filter(adx, r)
  IN  /\ Start(r) /\ ~d.go /\ ~(adx = "yidian" /\ r.imps = <<>>)
      /\ LookUp(d)
      /\ isDeal' = IsDealAfterFilter(adx, r, isDeal)
      /\ conds' = <<>> /\ told' = NothingTold
      /\ sent' = Answer("reject", NewResponse)
      /\ UNCHANGED pc

\* Reading a field throws, before or after the lookup: status 500.
FilterThrows(r) ==
  LET d == Filter(adx, r)
  IN  /\ adx \in JsonAdxs
      /\ Start(r)
      /\ LookUp(d) \/ (looked' = FALSE /\ UNCHANGED cm)
      /\ isDeal' \in {isDeal, IsDealAfterFilter(adx, r, isDeal)}
      /\ conds' = <<>> /\ told' = NothingTold
      /\ sent' = Answer("error", NewResponse)
      /\ UNCHANGED pc

-----------------------------------------------------------------------------
(* buildBidResult(): the calls that are due, one step each.                *)

Call(c) ==
  /\ pc = "build" /\ calls # <<>> /\ Head(calls) = c
  /\ calls' = Tail(calls)
  /\ UNCHANGED <<adx, n, pc, isDeal, request, sent>>

OpenResponse ==
  /\ Call("open")
  /\ bidResponse' = [bidResponse EXCEPT !.id = IF @ = 0 THEN n ELSE @]
  /\ UNCHANGED <<cm, adInfo, flow, ad, added>>

AddAd ==
  /\ Call("add")
  /\ added' = TRUE
  /\ UNCHANGED <<cm, bidResponse, adInfo, flow, ad>>

FillAdInfo ==
  /\ Call("info")
  /\ adInfo' = [cond |-> Cond, sid |-> ad.sid]
  /\ flow' = Cond
  /\ UNCHANGED <<cm, bidResponse, ad, added>>

\* redoCookieMapping(): with a cookie key and a mapping url it returns before
\* needReMapping is reset.
RedoCookieMapping ==
  /\ Call("redo")
  /\ cm' = IF cm.needRe
             THEN [cm EXCEPT !.user = Cond, !.cypher = Cond,
                             !.needRe = cm.cookieKey /\ adx \in HasMappingUrl]
             ELSE cm
  /\ UNCHANGED <<bidResponse, adInfo, flow, ad, added>>

\* cypherUid() fills cypherUserId in; the click url takes it as it is.
GetShowPara ==
  LET cypher == IF cm.cypher = None THEN cm.user ELSE cm.cypher
  IN  /\ Call("show")
      /\ cm' = [cm EXCEPT !.cypher = cypher]
      /\ ad' = [ad EXCEPT !.show = [ad |-> adInfo, flow |-> flow, user |-> cypher]]
      /\ UNCHANGED <<bidResponse, adInfo, flow, added>>

GetClickPara ==
  /\ Call("click")
  /\ ad' = [ad EXCEPT !.click = [ad |-> adInfo, flow |-> flow, user |-> cm.cypher]]
  /\ UNCHANGED <<cm, bidResponse, adInfo, flow, added>>

SetDealId ==
  /\ \/ Call("deal") /\ ad' = [ad EXCEPT !.dealId = conds[Idx].deal /\ ad.deal]
     \/ Call("dealFlag") /\ ad' = [ad EXCEPT !.dealId = isDeal /\ ad.deal]
     \/ Call("dealAny") /\ ad' = [ad EXCEPT !.dealId = conds[Idx].deal]
  /\ UNCHANGED <<cm, bidResponse, adInfo, flow, added>>

\* The build goes on, or ends at a banner of an unknown style.
CheckStyle ==
  /\ pc = "build" /\ calls # <<>> /\ Head(calls) = "style"
  /\ calls' \in {Tail(calls), <<>>}
  /\ UNCHANGED <<adx, n, pc, handler, ad, added, request, sent>>

\* The response with what the build has added to it.
Response == [bidResponse EXCEPT !.ads = IF added THEN Append(@, ad) ELSE @]

EndBuild == calls' = <<>> /\ ad' = None /\ added' = FALSE

\* The creative's JSON lacks a field the build reads: onError(), status 500,
\* with the logs of the conditions before already written.
BuildThrows ==
  /\ pc = "build" /\ calls # <<>>
  /\ bidResponse' = Response /\ EndBuild
  /\ pc' = "idle" /\ sent' = Answer("error", NewResponse)
  /\ UNCHANGED <<adx, n, cm, isDeal, adInfo, flow, request>>

-----------------------------------------------------------------------------
(* The loop over the conditions.                                           *)

MoreConditions == pc = "bid" /\ Len(logs) < Len(conds)

\* AdSelectManager::search() with the banned solutions; an engine selects
\* deal solutions only for conditions with their deal.
Candidates(cond) == {s \in Solutions : s.sid \notin banned /\ (s.deal => cond.deal)}

\* Without an ad the content type is appended, if there is one; keywords are
\* replaced, if there are any; the area and the media type are left alone.
FillLogItem(accepted, info, extra, user) ==
  [accepted |-> accepted,
   ad |-> IF accepted THEN info ELSE NoAd,
   flow |-> extra,
   user |-> IF user # None THEN user ELSE log.user,
   types |-> IF accepted THEN {extra}
             ELSE log.types \cup (IF Idx \in told.typed THEN {Cond} ELSE {}),
   words |-> IF Idx \in told.worded THEN Cond ELSE log.words,
   geo |-> IF accepted THEN info.cond ELSE log.geo,
   media |-> IF accepted THEN extra ELSE log.media]

DoLog(item) == log' = item /\ logs' = Append(logs, item)

SearchFails ==
  /\ MoreConditions
  /\ flow' = Cond
  /\ DoLog(FillLogItem(FALSE, adInfo, Cond, cm.user))
  /\ UNCHANGED <<adx, n, pc, cm, isDeal, bidResponse, adInfo, build,
                 device, conds, told, looked, banned, sent>>

SearchFinds(s) ==
  /\ MoreConditions
  /\ s \in Candidates(conds[Idx])
  /\ pc' = "build" /\ calls' = Build(adx, device, s.banner)
  /\ ad' = [cond |-> Cond, sid |-> s.sid, deal |-> s.deal, dealId |-> FALSE,
            show |-> None, click |-> None]
  /\ added' = FALSE
  /\ UNCHANGED <<adx, n, handler, request, sent>>

Built ==
  /\ pc = "build" /\ calls = <<>>
  /\ bidResponse' = Response /\ EndBuild
  /\ banned' = banned \cup {ad.sid}
  /\ DoLog(FillLogItem(TRUE, adInfo, flow, cm.user))
  /\ pc' = "bid"
  /\ UNCHANGED <<adx, n, cm, isDeal, adInfo, flow, device, conds, told, looked, sent>>

\* match(), which rejects a response that cannot be written, or reject().
Finish ==
  /\ pc = "bid" /\ Len(logs) = Len(conds)
  /\ pc' = "idle"
  /\ \/ /\ \E i \in DOMAIN logs : logs[i].accepted
        /\ sent' = Answer("bid", bidResponse)
     \/ sent' = Answer("reject", NewResponse)
  /\ UNCHANGED <<adx, n, handler, build, request>>

Next ==
  \/ \E r \in Requests : Accept(r) \/ RefuseRequest(r) \/ FilterThrows(r)
  \/ SearchFails \/ \E s \in Solutions : SearchFinds(s)
  \/ OpenResponse \/ AddAd \/ FillAdInfo \/ RedoCookieMapping \/ GetShowPara \/ GetClickPara
  \/ SetDealId \/ CheckStyle \/ BuildThrows \/ Built
  \/ Finish

Spec == Init /\ [][Next]_vars

-----------------------------------------------------------------------------
(* Properties.                                                             *)

\* The handler's members, the log item and the answer have their types, and
\* the conditions are logged one by one, none beyond the last.
TypeOK ==
  /\ adx \in Adxs /\ n \in Nat /\ pc \in {"idle", "bid", "build"} /\ device \in Devices
  /\ conds \in CondSeq /\ told \in Told /\ looked \in BOOLEAN
  /\ cm \in CmInfo
  /\ bidResponse \in [id : Nat, ads : Seq(Ad)]
  /\ adInfo \in AdInfo /\ flow \in Conditions
  /\ calls \in Seq(Calls) /\ (pc = "build" => ad \in Ad) /\ added \in BOOLEAN
  /\ log \in LogItem /\ logs \in Seq(LogItem) /\ Len(logs) <= Len(conds)
  /\ sent \in [kind : {"none", "bid", "reject", "error"}, id : Nat, ads : Seq(Ad)]

\* A bid response answers its own request: it has the request's id and
\* exactly the ads that the request's logs call accepted, in their order,
\* whatever the handler served, refused or failed at before.
ResponseIsOwn ==
  sent.kind = "bid" =>
    /\ sent.id = n
    /\ \A k \in DOMAIN sent.ads :
         \E i \in DOMAIN logs :
           /\ logs[i].accepted /\ sent.ads[k].cond = <<n, i>>
           /\ logs[i].ad = [cond |-> sent.ads[k].cond, sid |-> sent.ads[k].sid]
    /\ \A i \in DOMAIN logs :
         logs[i].accepted => \E k \in DOMAIN sent.ads : sent.ads[k].cond = <<n, i>>
    /\ \A j, k \in DOMAIN sent.ads : j < k => sent.ads[j].cond[2] < sent.ads[k].cond[2]

\* What the log of condition i may hold.
NoneAccepted(from, to) == \A k \in from .. to : ~logs[k].accepted
LogOf(i) ==
  LET l == logs[i]
      own == <<n, i>>
  IN  /\ l.flow = own
      /\ l.ad.cond = IF l.accepted THEN own ELSE NoCondition
      /\ l.accepted => l.types = {own} /\ l.geo = own
      /\ l.media = l.geo
      /\ l.geo = NoCondition => NoneAccepted(1, i)
      /\ l.geo # NoCondition =>
           \E j \in 1 .. i : l.geo = <<n, j>> /\ logs[j].accepted /\ NoneAccepted(j + 1, i)
      /\ \A c \in l.types : \E j \in 1 .. i : c = <<n, j>> /\ NoneAccepted(j + 1, i)
      /\ l.words # NoCondition => \E j \in 1 .. i : l.words = <<n, j>>

\* The log of a condition names the ad bid for that condition, or none, and
\* the device and deals of that condition, although the log item is reused;
\* with an ad, its content type, area and media type are its own too.  The log
\* of a condition without an ad does carry things over, but only from this
\* request: the area and the media type are those of the last accepted
\* condition, if there is one, and content types are added up from it on.  The
\* keywords are always those of this or an earlier condition of the request.
LogOwnAd == \A i \in DOMAIN logs : LogOf(i)

\* The show and click urls of an ad charge that ad, for the device it was
\* bid for: every buildBidResult() calls fillAdInfo() before it makes a url.
UrlsOwnAd ==
  sent.kind = "bid" =>
    \A k \in DOMAIN sent.ads :
      LET a == sent.ads[k]
      IN  \A url \in {a.show, a.click} \ {None} :
            url.ad = [cond |-> a.cond, sid |-> a.sid] /\ url.flow = a.cond

\* A response never has two ads of one solution: bannedSolutions.
DistinctSolutions ==
  \A j, k \in DOMAIN sent.ads : j # k => sent.ads[j].sid # sent.ads[k].sid

\* The user in an ad's urls is the user its log names, if there is one:
\* cypherUserId is never that of another user than userId.
UserConsistent ==
  sent.kind = "bid" =>
    \A k \in DOMAIN sent.ads :
      \A url \in {sent.ads[k].show, sent.ads[k].click} \ {None} :
        url.user \in {None, logs[sent.ads[k].cond[2]].user}

\* A request that looked its user up is logged with that user, with one made
\* for it, or with none, never with the user of an earlier request.
OwnUser ==
  looked => \A i \in DOMAIN logs : logs[i].user # None => logs[i].user[1] = n

\* An ad of a deal solution for an impression that offered deals carries the
\* deal id, "deal 加特殊参数w": the show request charges the fixed price of
\* the deal only with it.
DealCarried ==
  sent.kind = "bid" =>
    \A k \in DOMAIN sent.ads :
      sent.ads[k].deal /\ conds[sent.ads[k].cond[2]].deal => sent.ads[k].dealId
=============================================================================
