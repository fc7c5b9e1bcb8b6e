---------------------------- MODULE BidExchanges ----------------------------
(***************************************************************************)
(* What the bidding handlers of the 14 exchanges decide and in which order *)
(* they work: filter() and buildBidResult() of protocol/*/*_handler.cpp.   *)
(* The contents of requests, creatives and urls are left out.              *)
(*                                                                         *)
(* A request is its test (or ping) flag, the device section it carries,    *)
(* whether it tells what its page or app is about (a category, keywords),  *)
(* and its impressions.  An impression may offer deals, and is usable when *)
(* it names the sizes, styles or assets the handler needs.  A post body    *)
(* that does not parse leaves a handler with an empty request.             *)
(*                                                                         *)
(* XFilter(r) says whether filterCb is called, for which conditions (with  *)
(* or without dealId), and under which kind of key the user is looked up:  *)
(* a cookie, device ids, or not at all.                                    *)
(*                                                                         *)
(* XBuild(d, banner) is the order of the calls of buildBidResult() for a   *)
(* device section and a type of banner:                                    *)
(*   open      start the response unless it has been started               *)
(*   add       add the ad to the response                                  *)
(*   info      fillAdInfo()                                                *)
(*   redo      redoCookieMapping()                                         *)
(*   show      getShowPara()                                               *)
(*   click     getClickPara()                                              *)
(*   deal      add the deal id, when the condition and the solution have   *)
(*             one; dealFlag asks the member isDeal instead of the         *)
(*             condition, dealAny does not ask the solution                *)
(*   style     return early when the style of the banner is unknown        *)
(***************************************************************************)
EXTENDS Naturals, Sequences, FiniteSetsExt

Devices == {"none", "pc", "wap", "app"}
Banners == {"native", "video", "html", "pic"}
Adxs == {"tanx", "baidu", "youku", "gdt", "sohu", "netease", "guangyin", "inmobi",
         "nex", "kupai", "liebao", "max360", "yidian", "adx2345"}

Impression == [deal : BOOLEAN, usable : BOOLEAN]

\* Handlers that bid for the first impression only, and for all of them.
First(deal) == <<[deal |-> deal]>>
NoConditions == <<>>
All(r, Deal(_)) == [i \in DOMAIN r.imps |-> [deal |-> Deal(i)]]

Decision(go, conds, lookup) == [go |-> go, conds |-> conds, lookup |-> lookup]
Refuse == Decision(FALSE, NoConditions, "no")

\* The cookie of a page, the device ids of an app.
CookieOrDevice(d) == IF d = "app" THEN "device" ELSE "cookie"
DeviceIfAny(d) == IF d = "none" THEN "no" ELSE "device"

-----------------------------------------------------------------------------
(* filter()                                                                *)

TanxFilter(r) ==
  IF r.test \/ r.imps = <<>> THEN Refuse
  ELSE Decision(TRUE, First(FALSE), CookieOrDevice(r.device))

\* Without impressions filterCb is called with no conditions.
BaiduFilter(r) ==
  IF r.test THEN Refuse
  ELSE Decision(TRUE, All(r, LAMBDA i : FALSE),
                IF r.imps = <<>> THEN "no" ELSE CookieOrDevice(r.device))

\* An unusable impression is passed over: with it the lookup, if it is the
\* first, and its deals.
YoukuFilter(r) ==
  IF r.imps = <<>> THEN Refuse
  ELSE Decision(TRUE, All(r, LAMBDA i : r.imps[i].usable /\ r.imps[i].deal),
                IF r.imps[1].usable THEN CookieOrDevice(r.device) ELSE "no")

\* impressions(0) is read before anything asks whether there is one.
GdtFilter(r) ==
  IF r.test \/ ~r.imps[1].usable THEN Refuse
  ELSE Decision(TRUE, First(FALSE), DeviceIfAny(r.device))

SohuFilter(r) ==
  IF r.test \/ r.imps = <<>> THEN Refuse
  ELSE Decision(TRUE, First(r.imps[1].deal), CookieOrDevice(r.device))

\* The request has one ad unit; a missing one has the default styles.
NetEaseFilter(r) ==
  IF r.test THEN Refuse
  ELSE Decision(r.imps = <<>> \/ r.imps[1].usable, First(FALSE), DeviceIfAny(r.device))

GuangyinFilter(r) ==
  IF r.test \/ r.imps = <<>> THEN Refuse
  ELSE Decision(TRUE, First(FALSE), IF r.device \in {"wap", "app"} THEN "device" ELSE "no")

InmobiFilter(r) ==
  IF r.imps = <<>> \/ ~r.imps[1].usable THEN Refuse
  ELSE Decision(TRUE, First(r.imps[1].deal), DeviceIfAny(r.device))

NexFilter(r) ==
  IF r.imps = <<>> THEN Refuse
  ELSE Decision(TRUE, All(r, LAMBDA i : r.imps[i].usable /\ r.imps[i].deal),
                IF r.imps[1].usable THEN DeviceIfAny(r.device) ELSE "no")

KupaiFilter(r) ==
  IF r.test \/ r.imps = <<>> THEN Refuse ELSE Decision(TRUE, First(FALSE), "no")

\* One unusable impression ends the request, after the lookup.
LieBaoFilter(r) ==
  IF r.test \/ r.imps = <<>> THEN Refuse
  ELSE Decision(\A i \in DOMAIN r.imps : r.imps[i].usable,
                All(r, LAMBDA i : r.imps[i].deal), DeviceIfAny(r.device))

JuxiaoMaxFilter(r) ==
  IF r.imps = <<>> THEN Refuse
  ELSE Decision(TRUE, First(r.imps[1].deal), CookieOrDevice(r.device))

\* Usable: the tagid is a known one.  Without one its conversion throws.
YidianFilter(r) ==
  IF r.imps = <<>> \/ ~r.imps[1].usable THEN Refuse
  ELSE Decision(TRUE, First(r.imps[1].deal), "device")

Adx2345Filter(r) ==
  IF r.imps = <<>> THEN Refuse ELSE Decision(TRUE, All(r, LAMBDA i : FALSE), "no")

Filter(adx, r) ==
  CASE adx = "tanx" -> TanxFilter(r)           [] adx = "baidu" -> BaiduFilter(r)
    [] adx = "youku" -> YoukuFilter(r)         [] adx = "gdt" -> GdtFilter(r)
    [] adx = "sohu" -> SohuFilter(r)           [] adx = "netease" -> NetEaseFilter(r)
    [] adx = "guangyin" -> GuangyinFilter(r)   [] adx = "inmobi" -> InmobiFilter(r)
    [] adx = "nex" -> NexFilter(r)             [] adx = "kupai" -> KupaiFilter(r)
    [] adx = "liebao" -> LieBaoFilter(r)       [] adx = "max360" -> JuxiaoMaxFilter(r)
    [] adx = "yidian" -> YidianFilter(r)       [] adx = "adx2345" -> Adx2345Filter(r)

\* The usable impressions.
Usable(r) == {i \in DOMAIN r.imps : r.imps[i].usable}

\* isDeal of Youku and Nex is set for every usable impression in turn; the
\* last one stays.
IsDealAfterFilter(adx, r, isDeal) ==
  IF adx \notin {"youku", "nex"} \/ Usable(r) = {} THEN isDeal
  ELSE r.imps[Max(Usable(r))].deal

\* The conditions that get a content type (mttyContentType) and keywords from
\* a request that tells them.
Typed(adx, r) ==
  CASE ~r.content -> {}
    [] r.content /\ adx \in {"tanx", "inmobi", "max360"} -> {1}
    [] r.content /\ adx = "baidu" -> DOMAIN r.imps
    [] r.content /\ adx = "youku" -> Usable(r)
    [] OTHER -> {}
Worded(adx, r) ==
  CASE ~r.content -> {}
    [] r.content /\ adx \in {"kupai", "guangyin", "liebao"} -> {1}
    [] r.content /\ adx = "youku" -> Usable(r)
    [] r.content /\ adx = "nex" -> Usable(r) \cap {1}
    [] OTHER -> {}

\* Exchanges whose requests are JSON: reading a missing field throws.
JsonAdxs == {"youku", "netease", "inmobi", "nex", "liebao", "yidian", "adx2345"}

\* Exchanges whose call of redoCookieMapping() names a mapping url.
HasMappingUrl == {"tanx", "baidu", "youku", "sohu", "max360"}

-----------------------------------------------------------------------------
(* buildBidResult()                                                        *)

Calls == {"open", "add", "info", "redo", "show", "click", "deal", "dealFlag", "dealAny", "style"}

TanxBuild(d, banner) ==
  IF d \in {"none", "pc"} /\ banner # "video"
    THEN <<"open", "add", "info", "redo", "show">>
    ELSE <<"open", "add", "info", "redo", "click", "show">>

BaiduBuild(d, banner) == <<"open", "add", "info", "redo", "click", "show">>

YoukuBuild(d, banner) == <<"open", "info", "redo", "show", "dealFlag", "click", "add">>

GdtBuild(d, banner) == <<"open", "redo", "add", "info", "show", "click", "redo">>

SohuBuild(d, banner) == <<"open", "add", "info", "show", "click", "dealAny", "redo">>

\* The response itself is the ad.
NetEaseBuild(d, banner) == <<"open", "add", "info", "show", "click", "redo">>

GuangyinBuild(d, banner) ==
  IF banner = "html" THEN <<"open", "info", "add", "show", "redo">>
                     ELSE <<"open", "info", "add", "show", "click", "redo">>

InmobiBuild(d, banner) ==
  IF banner \in {"html", "pic"}
    THEN <<"open", "info", "show", "deal", "show", "add", "redo">>
    ELSE <<"open", "info", "show", "deal", "click", "add", "redo">>

NexBuild(d, banner) == <<"open", "info", "show", "dealFlag", "click", "add", "redo">>

KupaiBuild(d, banner) == <<"open", "info", "add", "show", "click">>

\* The show url is put together before fillAdInfo().  (A faulty variant; no
\* specification uses it.)
LieBaoBuildShowFirst(d, banner) ==
  IF banner = "native" THEN <<"open", "show", "info", "deal", "click", "add", "redo">>
                       ELSE <<"open", "show", "info", "deal", "add", "redo">>

LieBaoBuild(d, banner) ==
  IF banner = "native" THEN <<"open", "info", "show", "deal", "click", "add", "redo">>
                       ELSE <<"open", "info", "show", "deal", "add", "redo">>

JuxiaoMaxBuild(d, banner) ==
  CASE banner = "native" -> <<"open", "add", "info", "redo", "click", "show", "deal">>
    [] banner # "native" /\ d \in {"none", "pc"} -> <<"open", "add", "info", "redo", "show">>
    [] banner # "native" /\ d \in {"wap", "app"} -> <<"open", "add", "info", "redo", "click", "show">>

\* The response itself is the ad.
YidianBuild(d, banner) ==
  IF banner = "native" THEN <<"open", "add", "info", "style", "click", "show", "redo">>
                       ELSE <<"open", "add", "info", "click", "show", "redo">>

Adx2345Build(d, banner) == <<"open", "info", "show", "click", "add">>

Build(adx, d, banner) ==
  CASE adx = "tanx" -> TanxBuild(d, banner)          [] adx = "baidu" -> BaiduBuild(d, banner)
    [] adx = "youku" -> YoukuBuild(d, banner)        [] adx = "gdt" -> GdtBuild(d, banner)
    [] adx = "sohu" -> SohuBuild(d, banner)          [] adx = "netease" -> NetEaseBuild(d, banner)
    [] adx = "guangyin" -> GuangyinBuild(d, banner)  [] adx = "inmobi" -> InmobiBuild(d, banner)
    [] adx = "nex" -> NexBuild(d, banner)            [] adx = "kupai" -> KupaiBuild(d, banner)
    [] adx = "liebao" -> LieBaoBuild(d, banner)      [] adx = "max360" -> JuxiaoMaxBuild(d, banner)
    [] adx = "yidian" -> YidianBuild(d, banner)      [] adx = "adx2345" -> Adx2345Build(d, banner)
=============================================================================
