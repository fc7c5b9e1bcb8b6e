--------------------------- MODULE CookieMapping ---------------------------
(***************************************************************************)
(* User identity: the Aerospike records that map device ids and exchange   *)
(* cookies to user ids (core_cm_manager, model/user), the bid handler      *)
(* that looks them up and rewrites them (base/abstract_bidding_handler),   *)
(* and the browser cookie and cookie-mapping request                       *)
(* (abstract_query_task, mapping_query_task).                              *)
(*                                                                         *)
(* Every nginx worker process keeps one handler object per exchange and    *)
(* reuses its cmInfo for every request; lookups and updateMappingAdxUid()  *)
(* are synchronous, all other writes are put on Aerospike's event loop and *)
(* carried out later in any order.                                         *)
(***************************************************************************)
EXTENDS Naturals, Sequences, FiniteSets

CONSTANTS Workers,      \* nginx worker processes
          UniqueIdSeq,  \* uniqueIdSeq of each worker, 0 when not known
          RandomSeqs,   \* what rng::randomInt() may give
          DeviceKinds,  \* the kinds of device ids, most trusted first
          Keys,         \* kinds with device ids or exchange user ids
          Excluded,     \* placeholders: excludeIDFAs, excludeIMEIs, ...
          Phones,       \* the keys an app request presents
          Browsers,
          AdxUid,       \* the exchange's user id of each browser
          Wap,          \* browsers the exchange calls mobile
          Mobile,       \* browsers whose user agent says "Mobile"
          Legacy,       \* keys whose record was written without origin id
          MaxMs, MaxBids, MaxConditions, MaxVisits, MaxFaults,
          None

PcKind == "adxuid_pc"
MobileKind == "adxuid_mobile"
AdxKinds == {PcKind, MobileKind}
\* The order in which the ids of an app request are bound.
BindOrder == Append(DeviceKinds, MobileKind)
\* The key a bid request looks a browser up with.
BidKey(b) == <<IF b \in Wap THEN MobileKind ELSE PcKind, AdxUid[b]>>
\* checkAdxId(): the key a cookie-mapping request is filed under.
CheckAdxId(b) == IF b \in Mobile THEN MobileKind ELSE PcKind
CookieKey(b) == <<CheckAdxId(b), AdxUid[b]>>
Seqs == RandomSeqs \cup {UniqueIdSeq[w] : w \in Workers}
Users == Seqs \X (0..MaxMs)
LegacyUser == <<CHOOSE s \in Seqs : TRUE, 0>>

ASSUME CookieMappingAssumption ==
  /\ DeviceKinds \in Seq(STRING)
  /\ \A i \in DOMAIN DeviceKinds : DeviceKinds[i] \notin AdxKinds
  /\ None \notin Users /\ None \notin Keys /\ None \notin Browsers
  /\ UniqueIdSeq \in [Workers -> Nat]
  /\ RandomSeqs \subseteq Nat /\ RandomSeqs # {}
  /\ \A phone \in Phones :
       /\ phone \subseteq Keys
       /\ \A k1, k2 \in phone : k1[1] = k2[1] => k1 = k2
       /\ \A k \in phone : \E i \in DOMAIN BindOrder : k[1] = BindOrder[i]
  /\ \A b \in Browsers : BidKey(b) \in Keys /\ CookieKey(b) \in Keys
  /\ Legacy \subseteq Keys
  /\ MaxMs \in Nat \ {0} /\ MaxBids \in Nat /\ MaxConditions \in Nat \ {0}
  /\ MaxVisits \in Nat /\ MaxFaults \in Nat

VARIABLES now,       \* getCurrentTimeStampMs()
          store,     \* the record of each key, or None
          inflight,  \* asynchronous operations not yet carried out
          cm,        \* cmInfo of each worker's handler
          cond,      \* the condition each worker bids for, 0 when idle
          bids,      \* the number of bid requests so far
          visits,    \* and of requests from browsers
          cur,       \* each worker's current request: its number, its
                     \* browser, the keys it presents, whether it timed out,
                     \* the users in the urls of its response
          urls,      \* users in the urls each browser was given
          cookie,    \* the browsers' COOKIES_MTTY_ID
          claims,    \* history: the keys a user may be stored under
          faults,    \* the number of records expired and writes lost
          lost       \* history: a write was lost

vars == <<now, store, inflight, cm, cond, bids, visits, cur, urls, cookie, claims, faults, lost>>
browser == <<urls, cookie>>
failures == <<faults, lost>>

Record == [user : Users, origin : BOOLEAN]
Op == [type : {"put", "touch"}, key : Keys, user : Users, origin : BOOLEAN,
       bid : (1..MaxBids) \X (1..MaxConditions)]
CmInfo == [key : Keys \cup {None}, devices : SUBSET Keys, isAdxCookie : BOOLEAN,
           user : Users \cup {None},
           needRe : BOOLEAN, needTouch : BOOLEAN, needFix : BOOLEAN]
Request == [bid : 0..MaxBids, browser : Browsers \cup {None}, keys : SUBSET Keys,
            timeout : BOOLEAN, urls : SUBSET Users]
NoRequest == [bid |-> 0, browser |-> None, keys |-> {}, timeout |-> FALSE, urls |-> {}]

Init ==
  /\ now = 1
  /\ store = [k \in Keys |-> IF k \in Legacy THEN [user |-> LegacyUser, origin |-> FALSE]
                                             ELSE None]
  /\ inflight = {}
  /\ cm = [w \in Workers |->
             [key |-> None, devices |-> {}, isAdxCookie |-> FALSE, user |-> None,
              needRe |-> FALSE, needTouch |-> FALSE, needFix |-> FALSE]]
  /\ cond = [w \in Workers |-> 0]
  /\ bids = 0 /\ visits = 0
  /\ cur = [w \in Workers |-> NoRequest]
  /\ urls = [b \in Browsers |-> {}]
  /\ cookie = [b \in Browsers |-> None]
  /\ claims = [u \in Users |-> IF u = LegacyUser THEN Legacy ELSE {}]
  /\ faults = 0 /\ lost = FALSE

-----------------------------------------------------------------------------
(* Faulty variants of some definitions; no specification uses them.        *)

\* clearDeviceMapping() forgets deviceMappings.clear().
CookieMappingKeyMobileKept(c, phone) ==
  [c EXCEPT !.key = IF phone \ Excluded = {} THEN None ELSE CHOOSE k \in phone \ Excluded : TRUE,
            !.devices = @ \cup (phone \ Excluded),
            !.isAdxCookie = FALSE]

\* A lookup that timed out is taken for a missing record.
QueryCookieMappingNoTimeout(c, answer) ==
  LET found == c.key # None /\ answer = "ok" /\ store[c.key] # None
      fix == found /\ ~c.isAdxCookie /\ ~store[c.key].origin
  IN  [c EXCEPT !.user = IF found THEN store[c.key].user ELSE None,
                !.needRe = IF c.key # None THEN ~found ELSE c.isAdxCookie,
                !.needFix = fix,
                !.needTouch = found /\ ~fix]

\* needReMapping stays set after the device records were written.
RedoReMapAgain(w, user) ==
  /\ cm[w].needRe
  /\ cm' = [cm EXCEPT ![w].user = user]
  /\ inflight' = inflight \cup
       IF cm[w].isAdxCookie THEN {}
       ELSE {[type |-> "put", key |-> k, user |-> user, origin |-> k[1] \notin AdxKinds,
              bid |-> <<cur[w].bid, cond[w]>>] : k \in cm[w].devices}
  /\ claims' = [claims EXCEPT ![user] = @ \cup cur[w].keys]

\* touchMappingAsyncCallback() ignores a missing record.
ApplyTouchOnly(op) ==
  /\ op \in inflight /\ op.type = "touch"
  /\ inflight' = inflight \ {op}
  /\ UNCHANGED <<now, store, cm, cond, bids, visits, cur, browser, claims, failures>>

-----------------------------------------------------------------------------
(* Helpers.                                                                *)

\* The id of a new user: a number of the worker and the time in ms.
NewUsers(w) ==
  (IF UniqueIdSeq[w] = 0 THEN RandomSeqs ELSE {UniqueIdSeq[w]}) \X {now}

\* Device records carry the id before md5; exchange ids have none.
HasOrigin(k) == k[1] \notin AdxKinds

\* filterIDFA(), filterIMEI(), filterMAC(): a placeholder binds nothing.
Bound(phone) == phone \ Excluded

\* Aerospike's put: bins that the new record lacks keep their value.
Merged(k, user, origin) ==
  [user |-> user, origin |-> origin \/ (store[k] # None /\ store[k].origin)]

-----------------------------------------------------------------------------
(* A bid request, first half: parse, bind the query key and look it up.    *)

\* cookieMappingKeyMobile(): clearDeviceMapping() and a chain of
\* rebindDevice().
CookieMappingKeyMobile(c, phone) ==
  LET bound == Bound(phone)
      kinds == {k[1] : k \in bound}
      First(k) == \E i \in DOMAIN BindOrder :
                    /\ BindOrder[i] = k[1]
                    /\ \A j \in 1..(i - 1) : BindOrder[j] \notin kinds
  IN  [c EXCEPT !.key = IF bound = {} THEN None ELSE CHOOSE k \in bound : First(k),
                !.devices = bound,
                !.isAdxCookie = FALSE]

\* cookieMappingKeyPC() and cookieMappingKeyWap(); the devices of an
\* earlier app request stay.
CookieMappingKeyPC(c, key) == [c EXCEPT !.key = key, !.isAdxCookie = TRUE]

\* queryCookieMapping() with getUserMappingByKey(): the lookup answers,
\* times out, or throws, which is taken for a missing record.
QueryCookieMapping(c, answer) ==
  LET found == c.key # None /\ answer = "ok" /\ store[c.key] # None
      fix == found /\ ~c.isAdxCookie /\ ~store[c.key].origin
  IN  [c EXCEPT !.user = IF found THEN store[c.key].user ELSE None,
                !.needRe = IF c.key # None THEN ~found /\ answer # "timeout"
                                           ELSE c.isAdxCookie,
                !.needFix = fix,
                !.needTouch = found /\ ~fix]

\* What both kinds of requests have in common.  The history variable claims
\* learns that the keys of a request belong to the user found under one of
\* them.
Query(w, bound, keys, b, answer) ==
  LET c == QueryCookieMapping(bound, answer)
  IN  /\ cond[w] = 0
      /\ bids < MaxBids
      /\ bids' = bids + 1
      /\ cond' = [cond EXCEPT ![w] = 1]
      /\ cm' = [cm EXCEPT ![w] = c]
      /\ cur' = [cur EXCEPT ![w] = [bid |-> bids + 1, browser |-> b, keys |-> keys,
                                    timeout |-> answer = "timeout" /\ bound.key # None,
                                    urls |-> {}]]
      /\ claims' = IF c.user # None /\ bound.key \in keys
                   THEN [claims EXCEPT ![c.user] = @ \cup keys]
                   ELSE claims
      /\ UNCHANGED <<now, store, inflight, visits, browser, failures>>

BidApp(w, phone, answer) ==
  Query(w, CookieMappingKeyMobile(cm[w], phone), phone \ Excluded, None, answer)

\* A page or wap request: the exchange may not know the browser.
BidWeb(w, b, known, answer) ==
  LET key == IF known THEN BidKey(b) ELSE None
  IN  Query(w, CookieMappingKeyPC(cm[w], key), {BidKey(b)}, b, answer)

-----------------------------------------------------------------------------
(* A bid request, second half: for every condition, a bid or not.          *)

\* updateMappingDeviceAsync() or touchMapping() for every key of a set.
Ops(w, type, keys, user) ==
  {[type |-> type, key |-> k, user |-> user, origin |-> HasOrigin(k),
    bid |-> <<cur[w].bid, cond[w]>>] : k \in keys}

\* redoCookieMapping(), first branch.  With a cookie key it returns the
\* mapping url before needReMapping is reset, so the next condition makes
\* another id.
RedoReMap(w, user) ==
  LET c == cm[w]
  IN  /\ c.needRe
      /\ cm' = [cm EXCEPT ![w].user = user, ![w].needRe = c.isAdxCookie]
      /\ inflight' = inflight \cup IF c.isAdxCookie THEN {}
                                   ELSE Ops(w, "put", c.devices, user)
      /\ claims' = [claims EXCEPT ![user] = @ \cup cur[w].keys]

RedoTouch(w) ==
  LET c == cm[w]
  IN  /\ ~c.needRe /\ c.needTouch
      /\ inflight' = inflight \cup
           Ops(w, "touch", IF c.isAdxCookie THEN {c.key} ELSE c.devices, c.user)
      /\ UNCHANGED <<cm, claims>>

RedoFix(w) ==
  /\ ~cm[w].needRe /\ ~cm[w].needTouch /\ cm[w].needFix
  /\ inflight' = inflight \cup Ops(w, "put", cm[w].devices, cm[w].user)
  /\ UNCHANGED <<cm, claims>>

RedoNothing(w) ==
  /\ ~cm[w].needRe /\ ~cm[w].needTouch /\ ~cm[w].needFix
  /\ UNCHANGED <<cm, claims, inflight>>

\* match() or reject(): the response reaches the browser.
Respond(w, users) ==
  /\ cond' = [cond EXCEPT ![w] = 0]
  /\ cur' = [cur EXCEPT ![w] = NoRequest]
  /\ urls' = [b \in Browsers |-> IF b = cur[w].browser THEN urls[b] \cup users ELSE urls[b]]

\* The urls of the creative carry the user when it has room for them.
NextCondition(w, shown) ==
  LET users == cur[w].urls \cup
                 IF shown /\ cur[w].browser # None THEN {cm'[w].user} \ {None} ELSE {}
  IN  IF cond[w] = MaxConditions THEN Respond(w, users)
      ELSE /\ cond' = [cond EXCEPT ![w] = @ + 1]
           /\ cur' = [cur EXCEPT ![w].urls = users]
           /\ UNCHANGED urls

\* The search for the condition found an ad: buildBidResult().
BuildBid(w) ==
  /\ cond[w] > 0
  /\ \/ \E user \in NewUsers(w) : RedoReMap(w, user)
     \/ RedoTouch(w) \/ RedoFix(w) \/ RedoNothing(w)
  /\ \E shown \in BOOLEAN : NextCondition(w, shown)
  /\ UNCHANGED <<now, store, bids, visits, cookie, failures>>

\* No ad for the remaining conditions.
EndBid(w) ==
  /\ cond[w] > 0
  /\ Respond(w, cur[w].urls)
  /\ UNCHANGED <<now, store, inflight, cm, bids, visits, cookie, claims, failures>>

-----------------------------------------------------------------------------
(* Aerospike and its event loop.                                           *)

ApplyPut(op) ==
  /\ op \in inflight /\ op.type = "put"
  /\ store' = [store EXCEPT ![op.key] = Merged(op.key, op.user, op.origin)]
  /\ inflight' = inflight \ {op}
  /\ UNCHANGED <<now, cm, cond, bids, visits, cur, browser, claims, failures>>

\* touchMappingAsyncCallback(): a missing record is put again.
ApplyTouch(op) ==
  /\ op \in inflight /\ op.type = "touch"
  /\ inflight' = (inflight \ {op}) \cup
                 IF store[op.key] = None THEN {[op EXCEPT !.type = "put"]} ELSE {}
  /\ UNCHANGED <<now, store, cm, cond, bids, visits, cur, browser, claims, failures>>

LoseOp(op) ==
  /\ op \in inflight /\ faults < MaxFaults
  /\ inflight' = inflight \ {op}
  /\ faults' = faults + 1 /\ lost' = TRUE
  /\ UNCHANGED <<now, store, cm, cond, bids, visits, cur, browser, claims>>

Expire(k) ==
  /\ store[k] # None
  /\ faults < MaxFaults /\ faults' = faults + 1
  /\ store' = [store EXCEPT ![k] = None]
  /\ UNCHANGED <<now, inflight, cm, cond, bids, visits, cur, browser, claims, lost>>

Tick ==
  /\ now < MaxMs
  /\ now' = now + 1
  /\ UNCHANGED <<store, inflight, cm, cond, bids, visits, cur, browser, claims, failures>>

-----------------------------------------------------------------------------
(* Requests of the browser itself.                                         *)

\* userCookieLogic(): the user of the url wins over the cookie; without
\* either a new id is planted.
UserCookieLogic(w, b, u) ==
  IF u # None THEN {u} ELSE IF cookie[b] # None THEN {cookie[b]} ELSE NewUsers(w)

\* A show or click: only the cookie logic concerns this module.
ShowRequest(w, b, u) ==
  /\ cond[w] = 0
  /\ visits < MaxVisits /\ visits' = visits + 1
  /\ \E user \in UserCookieLogic(w, b, u) : cookie' = [cookie EXCEPT ![b] = user]
  /\ UNCHANGED <<now, store, inflight, cm, cond, bids, cur, urls, claims, failures>>

\* HandleMappingQueryTask::customLogic() with updateMappingAdxUid(); the
\* put may fail.
MappingRequest(w, b, u) ==
  LET k == CookieKey(b)
  IN  /\ cond[w] = 0
      /\ visits < MaxVisits /\ visits' = visits + 1
      /\ \E user \in UserCookieLogic(w, b, u) :
           /\ cookie' = [cookie EXCEPT ![b] = user]
           /\ \/ /\ store' = [store EXCEPT ![k] = Merged(k, user, FALSE)]
                 /\ UNCHANGED failures
              \/ /\ faults < MaxFaults /\ faults' = faults + 1 /\ lost' = TRUE
                 /\ UNCHANGED store
           /\ claims' = [claims EXCEPT ![user] = @ \cup {k}]
      /\ UNCHANGED <<now, inflight, cm, cond, bids, cur, urls>>

-----------------------------------------------------------------------------
Answers == {"ok", "timeout", "error"}

Next ==
  \/ \E w \in Workers :
       \/ \E phone \in Phones, answer \in Answers : BidApp(w, phone, answer)
       \/ \E b \in Browsers, known \in BOOLEAN, answer \in Answers :
            BidWeb(w, b, known, answer)
       \/ BuildBid(w) \/ EndBid(w)
       \/ \E b \in Browsers : \E u \in urls[b] \cup {None} :
            ShowRequest(w, b, u) \/ MappingRequest(w, b, u)
  \/ \E op \in inflight : ApplyPut(op) \/ ApplyTouch(op) \/ LoseOp(op)
  \/ \E k \in Keys : Expire(k)
  \/ Tick

Spec == Init /\ [][Next]_vars

\* Aerospike's event loop runs every operation it was given.
FairSpec == Spec /\ WF_vars(\E op \in inflight : ApplyPut(op) \/ ApplyTouch(op))

-----------------------------------------------------------------------------
(* Properties.                                                             *)

\* The fields of cmInfo, the records and the operations have their types.
TypeOK ==
  /\ now \in 1..MaxMs
  /\ store \in [Keys -> Record \cup {None}]
  /\ inflight \subseteq Op
  /\ cm \in [Workers -> CmInfo]
  /\ cond \in [Workers -> 0..MaxConditions]
  /\ bids \in 0..MaxBids /\ visits \in 0..MaxVisits
  /\ cur \in [Workers -> Request]
  /\ urls \in [Browsers -> SUBSET Users]
  /\ cookie \in [Browsers -> Users \cup {None}]
  /\ claims \in [Users -> SUBSET Keys]
  /\ faults \in 0..MaxFaults /\ lost \in BOOLEAN

\* A record never holds a user of somebody else: the user stored (or about
\* to be stored) under a key was made for that key, or found for a request
\* that presented it, whatever requests the reused handler served before and
\* in whatever order the writes arrive.
NoForeignUser ==
  /\ \A k \in Keys : store[k] # None => k \in claims[store[k].user]
  /\ \A op \in inflight : op.key \in claims[op.user]

\* A bid request that presents device ids writes one user to all of them,
\* also when several of its conditions are bid for.
OneUserPerBid ==
  \A o1, o2 \in inflight : o1.bid[1] = o2.bid[1] => o1.user = o2.user

\* A request whose lookup timed out ("aerospike busy") writes nothing: the
\* flags of the request before it are not acted on.
SilentAfterTimeout ==
  \A w \in Workers : cur[w].timeout =>
    \A op \in inflight : op.bid[1] # cur[w].bid

\* A key that a bid touches or puts has a record some time later, also when
\* the record expires before the touch, unless Aerospike loses a write.  Keys
\* that had a record from the start are left aside.
WritesLand ==
  \A k \in Keys \ (Excluded \cup Legacy) :
    (\E op \in inflight : op.key = k) ~> (store[k] # None \/ lost)
=============================================================================
