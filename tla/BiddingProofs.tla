----------------------------- MODULE BiddingProofs -----------------------------
(***************************************************************************)
(* Proofs about Bidding, for any of the 14 exchanges, any solutions and    *)
(* any number of requests and impressions.                                 *)
(***************************************************************************)
EXTENDS Bidding, SequenceTheorems, TLAPS

\* Steps are for Zenon unless they name another prover.
USE ZenonT(60)


-------------------------------------------------------------------------------
(* The order of the calls of buildBidResult().                             *)

\* The call c is still to come, and none of S before it.
Ahead(c, S, cs) == \E i \in DOMAIN cs : cs[i] = c /\ \A j \in 1 .. (i - 1) : cs[j] \notin S

HasCall(c, cs) == \E i \in DOMAIN cs : cs[i] = c

Urls == {"show", "click"}

\* Exchanges that may ask for a new id again, and do so before the urls.
EarlyRedo == HasMappingUrl \ {"sohu"}

\* redoCookieMapping() comes before the urls, or last.
RedoOrder(a, cs) ==
  /\ a \in EarlyRedo => \A i, j \in DOMAIN cs : cs[i] = "redo" /\ cs[j] \in Urls => i < j
  /\ a = "sohu" => \A i \in DOMAIN cs : cs[i] = "redo" => i = Len(cs)

\* Every build starts the response, adds its ad and fills adInfo in before it
\* makes a url or gives up on the style.
WellOrdered(a, cs) ==
  /\ cs \in Seq(Calls)
  /\ Ahead("open", {"style"}, cs) /\ Ahead("add", {"style"}, cs)
  /\ Ahead("info", Urls \cup {"style"}, cs)
  /\ RedoOrder(a, cs)

-------------------------------------------------------------------------------
(* The calls of each exchange are in that order.                           *)

\* The calls of buildBidResult() in tanx_bidding_handler.cpp.
LEMMA TanxOrdered ==
  ASSUME NEW d \in Devices, NEW banner \in Banners, NEW cs, cs = TanxBuild(d, banner)
  PROVE  WellOrdered("tanx", cs)
<1>1. CASE d \in {"none", "pc"} /\ banner # "video"
  <2>1. cs = <<"open", "add", "info", "redo", "show">>
    BY <1>1 DEF TanxBuild
  <2>2. cs \in Seq(Calls) /\ Len(cs) = 5 /\ DOMAIN cs = 1 .. 5
    BY <2>1, SMTT(20) DEF Calls
  <2>3. cs[1] = "open" /\ cs[2] = "add" /\ cs[3] = "info" /\ cs[4] = "redo" /\ cs[5] = "show"
    BY <2>1, SMTT(20)
  <2> QED
    BY <2>2, <2>3, SMTT(20) DEF WellOrdered, RedoOrder, Ahead, Urls, EarlyRedo, HasMappingUrl
<1>2. CASE ~(d \in {"none", "pc"} /\ banner # "video")
  <2>1. cs = <<"open", "add", "info", "redo", "click", "show">>
    BY <1>2 DEF TanxBuild
  <2>2. cs \in Seq(Calls) /\ Len(cs) = 6 /\ DOMAIN cs = 1 .. 6
    BY <2>1, SMTT(20) DEF Calls
  <2>3. cs[1] = "open" /\ cs[2] = "add" /\ cs[3] = "info" /\ cs[4] = "redo" /\ cs[5] = "click" /\ cs[6] = "show"
    BY <2>1, SMTT(20)
  <2> QED
    BY <2>2, <2>3, SMTT(20) DEF WellOrdered, RedoOrder, Ahead, Urls, EarlyRedo, HasMappingUrl
<1> QED
  BY <1>1, <1>2

\* The calls of buildBidResult() in baidu_bidding_handler.cpp.
LEMMA BaiduOrdered ==
  ASSUME NEW d \in Devices, NEW banner \in Banners, NEW cs, cs = BaiduBuild(d, banner)
  PROVE  WellOrdered("baidu", cs)
<1>1. cs = <<"open", "add", "info", "redo", "click", "show">>
  BY DEF BaiduBuild
<1>2. cs \in Seq(Calls) /\ Len(cs) = 6 /\ DOMAIN cs = 1 .. 6
  BY <1>1, SMTT(20) DEF Calls
<1>3. cs[1] = "open" /\ cs[2] = "add" /\ cs[3] = "info" /\ cs[4] = "redo" /\ cs[5] = "click" /\ cs[6] = "show"
  BY <1>1, SMTT(20)
<1> QED
  BY <1>2, <1>3, SMTT(20) DEF WellOrdered, RedoOrder, Ahead, Urls, EarlyRedo, HasMappingUrl

\* The calls of buildBidResult() in youku_bidding_handlerv2.cpp.
LEMMA YoukuOrdered ==
  ASSUME NEW d \in Devices, NEW banner \in Banners, NEW cs, cs = YoukuBuild(d, banner)
  PROVE  WellOrdered("youku", cs)
<1>1. cs = <<"open", "info", "redo", "show", "dealFlag", "click", "add">>
  BY DEF YoukuBuild
<1>2. cs \in Seq(Calls) /\ Len(cs) = 7 /\ DOMAIN cs = 1 .. 7
  BY <1>1, SMTT(20) DEF Calls
<1>3. cs[1] = "open" /\ cs[2] = "info" /\ cs[3] = "redo" /\ cs[4] = "show" /\ cs[5] = "dealFlag" /\ cs[6] = "click" /\ cs[7] = "add"
  BY <1>1, SMTT(20)
<1> QED
  BY <1>2, <1>3, SMTT(20) DEF WellOrdered, RedoOrder, Ahead, Urls, EarlyRedo, HasMappingUrl

\* The calls of buildBidResult() in gdt_bidding_handler.cpp.
LEMMA GdtOrdered ==
  ASSUME NEW d \in Devices, NEW banner \in Banners, NEW cs, cs = GdtBuild(d, banner)
  PROVE  WellOrdered("gdt", cs)
<1>1. cs = <<"open", "redo", "add", "info", "show", "click", "redo">>
  BY DEF GdtBuild
<1>2. cs \in Seq(Calls) /\ Len(cs) = 7 /\ DOMAIN cs = 1 .. 7
  BY <1>1, SMTT(20) DEF Calls
<1>3. cs[1] = "open" /\ cs[2] = "redo" /\ cs[3] = "add" /\ cs[4] = "info" /\ cs[5] = "show" /\ cs[6] = "click" /\ cs[7] = "redo"
  BY <1>1, SMTT(20)
<1> QED
  BY <1>2, <1>3, SMTT(20) DEF WellOrdered, RedoOrder, Ahead, Urls, EarlyRedo, HasMappingUrl

\* The calls of buildBidResult() in sohu_bidding_handler.cpp.
LEMMA SohuOrdered ==
  ASSUME NEW d \in Devices, NEW banner \in Banners, NEW cs, cs = SohuBuild(d, banner)
  PROVE  WellOrdered("sohu", cs)
<1>1. cs = <<"open", "add", "info", "show", "click", "dealAny", "redo">>
  BY DEF SohuBuild
<1>2. cs \in Seq(Calls) /\ Len(cs) = 7 /\ DOMAIN cs = 1 .. 7
  BY <1>1, SMTT(20) DEF Calls
<1>3. cs[1] = "open" /\ cs[2] = "add" /\ cs[3] = "info" /\ cs[4] = "show" /\ cs[5] = "click" /\ cs[6] = "dealAny" /\ cs[7] = "redo"
  BY <1>1, SMTT(20)
<1> QED
  BY <1>2, <1>3, SMTT(20) DEF WellOrdered, RedoOrder, Ahead, Urls, EarlyRedo, HasMappingUrl

\* The calls of buildBidResult() in netease_bidding_handlerv2.cpp.
LEMMA NetEaseOrdered ==
  ASSUME NEW d \in Devices, NEW banner \in Banners, NEW cs, cs = NetEaseBuild(d, banner)
  PROVE  WellOrdered("netease", cs)
<1>1. cs = <<"open", "add", "info", "show", "click", "redo">>
  BY DEF NetEaseBuild
<1>2. cs \in Seq(Calls) /\ Len(cs) = 6 /\ DOMAIN cs = 1 .. 6
  BY <1>1, SMTT(20) DEF Calls
<1>3. cs[1] = "open" /\ cs[2] = "add" /\ cs[3] = "info" /\ cs[4] = "show" /\ cs[5] = "click" /\ cs[6] = "redo"
  BY <1>1, SMTT(20)
<1> QED
  BY <1>2, <1>3, SMTT(20) DEF WellOrdered, RedoOrder, Ahead, Urls, EarlyRedo, HasMappingUrl

\* The calls of buildBidResult() in guangyin_bidding_handler.cpp.
LEMMA GuangyinOrdered ==
  ASSUME NEW d \in Devices, NEW banner \in Banners, NEW cs, cs = GuangyinBuild(d, banner)
  PROVE  WellOrdered("guangyin", cs)
<1>1. CASE banner = "html"
  <2>1. cs = <<"open", "info", "add", "show", "redo">>
    BY <1>1 DEF GuangyinBuild
  <2>2. cs \in Seq(Calls) /\ Len(cs) = 5 /\ DOMAIN cs = 1 .. 5
    BY <2>1, SMTT(20) DEF Calls
  <2>3. cs[1] = "open" /\ cs[2] = "info" /\ cs[3] = "add" /\ cs[4] = "show" /\ cs[5] = "redo"
    BY <2>1, SMTT(20)
  <2> QED
    BY <2>2, <2>3, SMTT(20) DEF WellOrdered, RedoOrder, Ahead, Urls, EarlyRedo, HasMappingUrl
<1>2. CASE banner # "html"
  <2>1. cs = <<"open", "info", "add", "show", "click", "redo">>
    BY <1>2 DEF GuangyinBuild
  <2>2. cs \in Seq(Calls) /\ Len(cs) = 6 /\ DOMAIN cs = 1 .. 6
    BY <2>1, SMTT(20) DEF Calls
  <2>3. cs[1] = "open" /\ cs[2] = "info" /\ cs[3] = "add" /\ cs[4] = "show" /\ cs[5] = "click" /\ cs[6] = "redo"
    BY <2>1, SMTT(20)
  <2> QED
    BY <2>2, <2>3, SMTT(20) DEF WellOrdered, RedoOrder, Ahead, Urls, EarlyRedo, HasMappingUrl
<1> QED
  BY <1>1, <1>2

\* The calls of buildBidResult() in inmobi_bidding_handler.cpp.
LEMMA InmobiOrdered ==
  ASSUME NEW d \in Devices, NEW banner \in Banners, NEW cs, cs = InmobiBuild(d, banner)
  PROVE  WellOrdered("inmobi", cs)
<1>1. CASE banner \in {"html", "pic"}
  <2>1. cs = <<"open", "info", "show", "deal", "show", "add", "redo">>
    BY <1>1 DEF InmobiBuild
  <2>2. cs \in Seq(Calls) /\ Len(cs) = 7 /\ DOMAIN cs = 1 .. 7
    BY <2>1, SMTT(20) DEF Calls
  <2>3. cs[1] = "open" /\ cs[2] = "info" /\ cs[3] = "show" /\ cs[4] = "deal" /\ cs[5] = "show" /\ cs[6] = "add" /\ cs[7] = "redo"
    BY <2>1, SMTT(20)
  <2> QED
    BY <2>2, <2>3, SMTT(20) DEF WellOrdered, RedoOrder, Ahead, Urls, EarlyRedo, HasMappingUrl
<1>2. CASE banner \notin {"html", "pic"}
  <2>1. cs = <<"open", "info", "show", "deal", "click", "add", "redo">>
    BY <1>2 DEF InmobiBuild
  <2>2. cs \in Seq(Calls) /\ Len(cs) = 7 /\ DOMAIN cs = 1 .. 7
    BY <2>1, SMTT(20) DEF Calls
  <2>3. cs[1] = "open" /\ cs[2] = "info" /\ cs[3] = "show" /\ cs[4] = "deal" /\ cs[5] = "click" /\ cs[6] = "add" /\ cs[7] = "redo"
    BY <2>1, SMTT(20)
  <2> QED
    BY <2>2, <2>3, SMTT(20) DEF WellOrdered, RedoOrder, Ahead, Urls, EarlyRedo, HasMappingUrl
<1> QED
  BY <1>1, <1>2

\* The calls of buildBidResult() in nex_bidding_handler.cpp.
LEMMA NexOrdered ==
  ASSUME NEW d \in Devices, NEW banner \in Banners, NEW cs, cs = NexBuild(d, banner)
  PROVE  WellOrdered("nex", cs)
<1>1. cs = <<"open", "info", "show", "dealFlag", "click", "add", "redo">>
  BY DEF NexBuild
<1>2. cs \in Seq(Calls) /\ Len(cs) = 7 /\ DOMAIN cs = 1 .. 7
  BY <1>1, SMTT(20) DEF Calls
<1>3. cs[1] = "open" /\ cs[2] = "info" /\ cs[3] = "show" /\ cs[4] = "dealFlag" /\ cs[5] = "click" /\ cs[6] = "add" /\ cs[7] = "redo"
  BY <1>1, SMTT(20)
<1> QED
  BY <1>2, <1>3, SMTT(20) DEF WellOrdered, RedoOrder, Ahead, Urls, EarlyRedo, HasMappingUrl

\* The calls of buildBidResult() in kupai_bidding_handler.cpp.
LEMMA KupaiOrdered ==
  ASSUME NEW d \in Devices, NEW banner \in Banners, NEW cs, cs = KupaiBuild(d, banner)
  PROVE  WellOrdered("kupai", cs)
<1>1. cs = <<"open", "info", "add", "show", "click">>
  BY DEF KupaiBuild
<1>2. cs \in Seq(Calls) /\ Len(cs) = 5 /\ DOMAIN cs = 1 .. 5
  BY <1>1, SMTT(20) DEF Calls
<1>3. cs[1] = "open" /\ cs[2] = "info" /\ cs[3] = "add" /\ cs[4] = "show" /\ cs[5] = "click"
  BY <1>1, SMTT(20)
<1> QED
  BY <1>2, <1>3, SMTT(20) DEF WellOrdered, RedoOrder, Ahead, Urls, EarlyRedo, HasMappingUrl

\* The calls of buildBidResult() in liebao_bidding_handler.cpp.
LEMMA LieBaoOrdered ==
  ASSUME NEW d \in Devices, NEW banner \in Banners, NEW cs, cs = LieBaoBuild(d, banner)
  PROVE  WellOrdered("liebao", cs)
<1>1. CASE banner = "native"
  <2>1. cs = <<"open", "info", "show", "deal", "click", "add", "redo">>
    BY <1>1 DEF LieBaoBuild
  <2>2. cs \in Seq(Calls) /\ Len(cs) = 7 /\ DOMAIN cs = 1 .. 7
    BY <2>1, SMTT(20) DEF Calls
  <2>3. cs[1] = "open" /\ cs[2] = "info" /\ cs[3] = "show" /\ cs[4] = "deal" /\ cs[5] = "click" /\ cs[6] = "add" /\ cs[7] = "redo"
    BY <2>1, SMTT(20)
  <2> QED
    BY <2>2, <2>3, SMTT(20) DEF WellOrdered, RedoOrder, Ahead, Urls, EarlyRedo, HasMappingUrl
<1>2. CASE banner # "native"
  <2>1. cs = <<"open", "info", "show", "deal", "add", "redo">>
    BY <1>2 DEF LieBaoBuild
  <2>2. cs \in Seq(Calls) /\ Len(cs) = 6 /\ DOMAIN cs = 1 .. 6
    BY <2>1, SMTT(20) DEF Calls
  <2>3. cs[1] = "open" /\ cs[2] = "info" /\ cs[3] = "show" /\ cs[4] = "deal" /\ cs[5] = "add" /\ cs[6] = "redo"
    BY <2>1, SMTT(20)
  <2> QED
    BY <2>2, <2>3, SMTT(20) DEF WellOrdered, RedoOrder, Ahead, Urls, EarlyRedo, HasMappingUrl
<1> QED
  BY <1>1, <1>2

\* The calls of buildBidResult() in 360max_bidding_handler.cpp.
LEMMA JuxiaoMaxOrdered ==
  ASSUME NEW d \in Devices, NEW banner \in Banners, NEW cs, cs = JuxiaoMaxBuild(d, banner)
  PROVE  WellOrdered("max360", cs)
<1>1. CASE banner = "native"
  <2>1. cs = <<"open", "add", "info", "redo", "click", "show", "deal">>
    BY <1>1 DEF JuxiaoMaxBuild, Devices
  <2>2. cs \in Seq(Calls) /\ Len(cs) = 7 /\ DOMAIN cs = 1 .. 7
    BY <2>1, SMTT(20) DEF Calls
  <2>3. cs[1] = "open" /\ cs[2] = "add" /\ cs[3] = "info" /\ cs[4] = "redo" /\ cs[5] = "click" /\ cs[6] = "show" /\ cs[7] = "deal"
    BY <2>1, SMTT(20)
  <2> QED
    BY <2>2, <2>3, SMTT(20) DEF WellOrdered, RedoOrder, Ahead, Urls, EarlyRedo, HasMappingUrl
<1>2. CASE banner # "native" /\ d \in {"none", "pc"}
  <2>1. cs = <<"open", "add", "info", "redo", "show">>
    BY <1>2 DEF JuxiaoMaxBuild, Devices
  <2>2. cs \in Seq(Calls) /\ Len(cs) = 5 /\ DOMAIN cs = 1 .. 5
    BY <2>1, SMTT(20) DEF Calls
  <2>3. cs[1] = "open" /\ cs[2] = "add" /\ cs[3] = "info" /\ cs[4] = "redo" /\ cs[5] = "show"
    BY <2>1, SMTT(20)
  <2> QED
    BY <2>2, <2>3, SMTT(20) DEF WellOrdered, RedoOrder, Ahead, Urls, EarlyRedo, HasMappingUrl
<1>3. CASE banner # "native" /\ d \in {"wap", "app"}
  <2>1. cs = <<"open", "add", "info", "redo", "click", "show">>
    BY <1>3 DEF JuxiaoMaxBuild, Devices
  <2>2. cs \in Seq(Calls) /\ Len(cs) = 6 /\ DOMAIN cs = 1 .. 6
    BY <2>1, SMTT(20) DEF Calls
  <2>3. cs[1] = "open" /\ cs[2] = "add" /\ cs[3] = "info" /\ cs[4] = "redo" /\ cs[5] = "click" /\ cs[6] = "show"
    BY <2>1, SMTT(20)
  <2> QED
    BY <2>2, <2>3, SMTT(20) DEF WellOrdered, RedoOrder, Ahead, Urls, EarlyRedo, HasMappingUrl
<1> QED
  BY <1>1, <1>2, <1>3 DEF Devices

\* The calls of buildBidResult() in yidian_bidding_handler.cpp.
LEMMA YidianOrdered ==
  ASSUME NEW d \in Devices, NEW banner \in Banners, NEW cs, cs = YidianBuild(d, banner)
  PROVE  WellOrdered("yidian", cs)
<1>1. CASE banner = "native"
  <2>1. cs = <<"open", "add", "info", "style", "click", "show", "redo">>
    BY <1>1 DEF YidianBuild
  <2>2. cs \in Seq(Calls) /\ Len(cs) = 7 /\ DOMAIN cs = 1 .. 7
    BY <2>1, SMTT(20) DEF Calls
  <2>3. cs[1] = "open" /\ cs[2] = "add" /\ cs[3] = "info" /\ cs[4] = "style" /\ cs[5] = "click" /\ cs[6] = "show" /\ cs[7] = "redo"
    BY <2>1, SMTT(20)
  <2> QED
    BY <2>2, <2>3, SMTT(20) DEF WellOrdered, RedoOrder, Ahead, Urls, EarlyRedo, HasMappingUrl
<1>2. CASE banner # "native"
  <2>1. cs = <<"open", "add", "info", "click", "show", "redo">>
    BY <1>2 DEF YidianBuild
  <2>2. cs \in Seq(Calls) /\ Len(cs) = 6 /\ DOMAIN cs = 1 .. 6
    BY <2>1, SMTT(20) DEF Calls
  <2>3. cs[1] = "open" /\ cs[2] = "add" /\ cs[3] = "info" /\ cs[4] = "click" /\ cs[5] = "show" /\ cs[6] = "redo"
    BY <2>1, SMTT(20)
  <2> QED
    BY <2>2, <2>3, SMTT(20) DEF WellOrdered, RedoOrder, Ahead, Urls, EarlyRedo, HasMappingUrl
<1> QED
  BY <1>1, <1>2

\* The calls of buildBidResult() in adx2345_bidding_handler.cpp.
LEMMA Adx2345Ordered ==
  ASSUME NEW d \in Devices, NEW banner \in Banners, NEW cs, cs = Adx2345Build(d, banner)
  PROVE  WellOrdered("adx2345", cs)
<1>1. cs = <<"open", "info", "show", "click", "add">>
  BY DEF Adx2345Build
<1>2. cs \in Seq(Calls) /\ Len(cs) = 5 /\ DOMAIN cs = 1 .. 5
  BY <1>1, SMTT(20) DEF Calls
<1>3. cs[1] = "open" /\ cs[2] = "info" /\ cs[3] = "show" /\ cs[4] = "click" /\ cs[5] = "add"
  BY <1>1, SMTT(20)
<1> QED
  BY <1>2, <1>3, SMTT(20) DEF WellOrdered, RedoOrder, Ahead, Urls, EarlyRedo, HasMappingUrl

\* buildBidResult() of every exchange works in order.
LEMMA BuildOrdered ==
  ASSUME NEW a \in Adxs, NEW d \in Devices, NEW banner \in Banners
  PROVE  WellOrdered(a, Build(a, d, banner))
  BY TanxOrdered, BaiduOrdered, YoukuOrdered, GdtOrdered, SohuOrdered, NetEaseOrdered,
     GuangyinOrdered, InmobiOrdered, NexOrdered, KupaiOrdered, LieBaoOrdered,
     JuxiaoMaxOrdered, YidianOrdered, Adx2345Ordered DEF Build, Adxs

-------------------------------------------------------------------------------
(* What a call leaves of the calls to come.                                *)

\* The calls that remain once the first one is made.
LEMMA TailCalls ==
  ASSUME NEW cs \in Seq(Calls), cs # <<>>
  PROVE  /\ Tail(cs) \in Seq(Calls) /\ Len(cs) \in Nat \ {0} /\ Len(Tail(cs)) = Len(cs) - 1
         /\ DOMAIN cs = 1 .. Len(cs) /\ DOMAIN Tail(cs) = 1 .. (Len(cs) - 1)
         /\ Head(cs) = cs[1] /\ \A i \in 1 .. (Len(cs) - 1) : Tail(cs)[i] = cs[i + 1]
<1>1. Tail(cs) \in Seq(Calls) /\ Len(Tail(cs)) = Len(cs) - 1 /\ \A i \in 1 .. Len(Tail(cs)) : Tail(cs)[i] = cs[i + 1]
  BY HeadTailProperties
<1>2. Head(cs) = cs[1] /\ Len(cs) \in Nat \ {0}
  BY EmptySeq, SMTT(20)
<1> QED
  BY <1>1, <1>2, SMTT(20)

\* A call that is not the one awaited leaves it ahead; none that must not come
\* before it can be due.
LEMMA AheadTail ==
  ASSUME NEW cs \in Seq(Calls), cs # <<>>, NEW c, NEW S, Ahead(c, S, cs), Head(cs) # c
  PROVE  Ahead(c, S, Tail(cs)) /\ Head(cs) \notin S
<1>1. PICK i \in DOMAIN cs : cs[i] = c /\ \A j \in 1 .. (i - 1) : cs[j] \notin S
  BY DEF Ahead
<1>2. i \in 2 .. Len(cs) /\ Len(cs) \in Nat
  BY <1>1, TailCalls, SMTT(20)
<1>3. i - 1 \in DOMAIN Tail(cs) /\ Tail(cs)[i - 1] = c
  BY <1>1, <1>2, TailCalls, SMTT(20)
<1>4. \A j \in 1 .. (i - 1 - 1) : Tail(cs)[j] \notin S
  BY <1>1, <1>2, TailCalls, SMTT(20)
<1>5. Head(cs) \notin S
  BY <1>1, <1>2, TailCalls, SMTT(20)
<1> QED
  BY <1>3, <1>4, <1>5 DEF Ahead

\* The place of redoCookieMapping() among the remaining calls.
LEMMA RedoTail ==
  ASSUME NEW cs \in Seq(Calls), cs # <<>>, NEW a, RedoOrder(a, cs)
  PROVE  /\ RedoOrder(a, Tail(cs)) /\ (HasCall("redo", Tail(cs)) => HasCall("redo", cs))
         /\ a \in EarlyRedo /\ Head(cs) \in Urls => ~HasCall("redo", Tail(cs))
         /\ a = "sohu" /\ Head(cs) = "redo" => ~HasCall("redo", Tail(cs))
<1>1. /\ Len(cs) \in Nat \ {0} /\ Len(Tail(cs)) = Len(cs) - 1
      /\ DOMAIN cs = 1 .. Len(cs) /\ DOMAIN Tail(cs) = 1 .. (Len(cs) - 1)
      /\ Head(cs) = cs[1] /\ \A i \in 1 .. (Len(cs) - 1) : Tail(cs)[i] = cs[i + 1]
  BY TailCalls
<1>2. \A i \in DOMAIN Tail(cs) : i + 1 \in DOMAIN cs /\ Tail(cs)[i] = cs[i + 1]
  BY <1>1, SMTT(20)
<1>3. RedoOrder(a, Tail(cs))
  BY <1>1, <1>2, SMTT(20) DEF RedoOrder
<1>4. HasCall("redo", Tail(cs)) => HasCall("redo", cs)
  BY <1>2 DEF HasCall
<1>5. a \in EarlyRedo /\ Head(cs) \in Urls => ~HasCall("redo", Tail(cs))
  BY <1>1, <1>2, SMTT(20) DEF RedoOrder, HasCall
<1>6. a = "sohu" /\ Head(cs) = "redo" => ~HasCall("redo", Tail(cs))
  BY <1>1, <1>2, SMTT(20) DEF RedoOrder, HasCall
<1> QED
  BY <1>3, <1>4, <1>5, <1>6

-------------------------------------------------------------------------------
(* What filter() decides.                                                  *)

\* The impressions of a request are a sequence.
LEMMA ImpSeq ==
  ASSUME NEW a, NEW r \in RequestsOf(a)
  PROVE  /\ r.imps \in Seq(Impression) /\ r.device \in Devices /\ r.test \in BOOLEAN
         /\ Len(r.imps) \in Nat /\ DOMAIN r.imps = 1 .. Len(r.imps)
         /\ \A i \in DOMAIN r.imps : r.imps[i].deal \in BOOLEAN /\ r.imps[i].usable \in BOOLEAN
         /\ r.imps # <<>> => 1 \in DOMAIN r.imps
<1>1. r.imps \in Impressions /\ r.device \in Devices /\ r.test \in BOOLEAN
  BY DEF RequestsOf
<1>2. PICK k \in 0 .. MaxImps : r.imps \in [1 .. k -> Impression]
  BY <1>1 DEF Impressions
<1>3. r.imps \in Seq(Impression)
  BY <1>2, BiddingAssumption, SMTT(20)
<1>4. Len(r.imps) \in Nat /\ DOMAIN r.imps = 1 .. Len(r.imps)
  BY <1>3, SMTT(20)
<1>5. ASSUME NEW i \in DOMAIN r.imps PROVE r.imps[i].deal \in BOOLEAN /\ r.imps[i].usable \in BOOLEAN
  <2>1. r.imps[i] \in Impression
    BY <1>3, <1>4, SMTT(20)
  <2> QED
    BY <2>1 DEF Impression
<1>6. r.imps # <<>> => 1 \in DOMAIN r.imps
  BY <1>3, <1>4, EmptySeq, SMTT(20)
<1> QED
  BY <1>1, <1>3, <1>4, <1>5, <1>6

\* The conditions with a content type or keywords are told by their numbers.
LEMMA ToldType ==
  ASSUME NEW a, NEW r \in RequestsOf(a)
  PROVE  [typed |-> Typed(a, r), worded |-> Worded(a, r)] \in Told
<1>1. DOMAIN r.imps \in SUBSET Nat /\ {1} \in SUBSET Nat
  <2>1. Len(r.imps) \in Nat /\ DOMAIN r.imps = 1 .. Len(r.imps)
    BY ImpSeq
  <2> QED
    BY <2>1, SMTT(20)
<1>2. Usable(r) \in SUBSET Nat /\ Usable(r) \cap {1} \in SUBSET Nat
  BY <1>1 DEF Usable
<1>3. r.content \in BOOLEAN
  BY DEF RequestsOf
<1>4. Typed(a, r) \in SUBSET Nat
  BY <1>1, <1>2, <1>3 DEF Typed
<1>5. Worded(a, r) \in SUBSET Nat
  BY <1>1, <1>2, <1>3 DEF Worded
<1> QED
  BY <1>4, <1>5 DEF Told

\* The conditions of a request, one for all and one for each impression.
LEMMA CondSeqs ==
  ASSUME NEW a, NEW r \in RequestsOf(a)
  PROVE  /\ NoConditions \in CondSeq
         /\ First(FALSE) \in CondSeq /\ Len(First(FALSE)) = 1
         /\ r.imps # <<>> => First(r.imps[1].deal) \in CondSeq /\ Len(First(r.imps[1].deal)) = 1
         /\ [i \in DOMAIN r.imps |-> [deal |-> FALSE]] \in CondSeq
         /\ [i \in DOMAIN r.imps |-> [deal |-> r.imps[i].deal]] \in CondSeq
         /\ [i \in DOMAIN r.imps |-> [deal |-> r.imps[i].usable /\ r.imps[i].deal]] \in CondSeq
<1> USE DEF CondSeq
<1>1. NoConditions \in CondSeq
  BY SMTT(20) DEF NoConditions
<1>2. ASSUME NEW deal \in BOOLEAN PROVE First(deal) \in CondSeq /\ Len(First(deal)) = 1
  BY SMTT(20) DEF First
<1>3. r.imps # <<>> => r.imps[1].deal \in BOOLEAN
  BY ImpSeq
<1>k. Len(r.imps) \in Nat /\ DOMAIN r.imps = 1 .. Len(r.imps)
  BY ImpSeq
<1>4. [i \in DOMAIN r.imps |-> [deal |-> FALSE]] \in CondSeq
  <2>1. [i \in 1 .. Len(r.imps) |-> [deal |-> FALSE]] \in CondSeq
    BY <1>k, SMTT(20)
  <2> QED
    BY <2>1, <1>k
<1>5. [i \in DOMAIN r.imps |-> [deal |-> r.imps[i].deal]] \in CondSeq
  <2>1. \A i \in 1 .. Len(r.imps) : [deal |-> r.imps[i].deal] \in [deal : BOOLEAN]
    BY <1>k, ImpSeq
  <2>2. [i \in 1 .. Len(r.imps) |-> [deal |-> r.imps[i].deal]] \in CondSeq
    BY <1>k, <2>1, SMTT(20)
  <2> QED
    BY <2>2, <1>k
<1>6. [i \in DOMAIN r.imps |-> [deal |-> r.imps[i].usable /\ r.imps[i].deal]] \in CondSeq
  <2>1. \A i \in 1 .. Len(r.imps) : [deal |-> r.imps[i].usable /\ r.imps[i].deal] \in [deal : BOOLEAN]
    BY <1>k, ImpSeq
  <2>2. [i \in 1 .. Len(r.imps) |-> [deal |-> r.imps[i].usable /\ r.imps[i].deal]] \in CondSeq
    BY <1>k, <2>1, SMTT(20)
  <2> QED
    BY <2>2, <1>k
<1> QED
  BY <1>1, <1>2, <1>3, <1>4, <1>5, <1>6

\* filter() of every exchange; Sohu's bids for one impression, after a lookup.
LEMMA FilterFacts ==
  ASSUME NEW a \in Adxs, NEW r \in RequestsOf(a)
  PROVE  /\ Filter(a, r).conds \in CondSeq
         /\ a = "sohu" /\ Filter(a, r).go => Len(Filter(a, r).conds) = 1 /\ Filter(a, r).lookup # "no"
<1> USE DEF Decision, Refuse, CookieOrDevice, DeviceIfAny
<1>1. CASE a = "tanx"
  BY <1>1, CondSeqs DEF Filter, TanxFilter
<1>2. CASE a = "baidu"
  BY <1>2, CondSeqs DEF Filter, BaiduFilter, All
<1>3. CASE a = "youku"
  <2> DEFINE all == [i \in DOMAIN r.imps |-> [deal |-> r.imps[i].usable /\ r.imps[i].deal]]
  <2>1. all \in CondSeq /\ NoConditions \in CondSeq
    BY CondSeqs
  <2>2. Filter(a, r) = YoukuFilter(r)
    BY <1>3 DEF Filter
  <2>3. Filter(a, r).conds \in {NoConditions, all}
    <3> HIDE DEF all
    <3>1. CASE r.imps = <<>>
      BY <2>2, <3>1, SMTT(20) DEF YoukuFilter
    <3>2. CASE ~(r.imps = <<>>)
      <4>1. YoukuFilter(r).conds = all
        BY <3>2 DEF YoukuFilter, All, all
      <4> QED
        BY <2>2, <4>1
    <3> QED
      BY <3>1, <3>2
  <2> QED
    BY <1>3, <2>1, <2>3
<1>4. CASE a = "gdt"
  BY <1>4, CondSeqs DEF Filter, GdtFilter
<1>5. CASE a = "sohu"
  BY <1>5, CondSeqs DEF Filter, SohuFilter
<1>6. CASE a = "netease"
  BY <1>6, CondSeqs DEF Filter, NetEaseFilter
<1>7. CASE a = "guangyin"
  BY <1>7, CondSeqs DEF Filter, GuangyinFilter
<1>8. CASE a = "inmobi"
  BY <1>8, CondSeqs DEF Filter, InmobiFilter
<1>9. CASE a = "nex"
  <2> DEFINE all == [i \in DOMAIN r.imps |-> [deal |-> r.imps[i].usable /\ r.imps[i].deal]]
  <2>1. all \in CondSeq /\ NoConditions \in CondSeq
    BY CondSeqs
  <2>2. Filter(a, r) = NexFilter(r)
    BY <1>9 DEF Filter
  <2>3. Filter(a, r).conds \in {NoConditions, all}
    <3> HIDE DEF all
    <3>1. CASE r.imps = <<>>
      BY <2>2, <3>1, SMTT(20) DEF NexFilter
    <3>2. CASE ~(r.imps = <<>>)
      <4>1. NexFilter(r).conds = all
        BY <3>2 DEF NexFilter, All, all
      <4> QED
        BY <2>2, <4>1
    <3> QED
      BY <3>1, <3>2
  <2> QED
    BY <1>9, <2>1, <2>3
<1>10. CASE a = "kupai"
  BY <1>10, CondSeqs DEF Filter, KupaiFilter
<1>11. CASE a = "liebao"
  <2> DEFINE all == [i \in DOMAIN r.imps |-> [deal |-> r.imps[i].deal]]
  <2>1. all \in CondSeq /\ NoConditions \in CondSeq
    BY CondSeqs
  <2>2. Filter(a, r) = LieBaoFilter(r)
    BY <1>11 DEF Filter
  <2>3. Filter(a, r).conds \in {NoConditions, all}
    <3> HIDE DEF all
    <3>1. CASE r.imps = <<>> \/ r.test
      BY <2>2, <3>1, SMTT(20) DEF LieBaoFilter
    <3>2. CASE ~(r.imps = <<>> \/ r.test)
      <4>1. LieBaoFilter(r).conds = all
        BY <3>2 DEF LieBaoFilter, All, all
      <4> QED
        BY <2>2, <4>1
    <3> QED
      BY <3>1, <3>2
  <2> QED
    BY <1>11, <2>1, <2>3
<1>12. CASE a = "max360"
  BY <1>12, CondSeqs DEF Filter, JuxiaoMaxFilter
<1>13. CASE a = "yidian"
  BY <1>13, CondSeqs DEF Filter, YidianFilter
<1>14. CASE a = "adx2345"
  BY <1>14, CondSeqs DEF Filter, Adx2345Filter, All
<1> QED
  BY <1>1, <1>2, <1>3, <1>4, <1>5, <1>6, <1>7, <1>8, <1>9, <1>10, <1>11, <1>12, <1>13, <1>14 DEF Adxs
-------------------------------------------------------------------------------
(* The inductive invariant.                                                *)

\* The urls an ad has.
LinksOf(a) == {a.show, a.click} \ {None}

\* The urls of an ad charge it, for its own condition.
LinksOwn(a) ==
  \A url \in LinksOf(a) : url.ad = [cond |-> a.cond, sid |-> a.sid] /\ url.flow = a.cond

\* An ad that was bid: an accepted log is its own, and the user of its urls.
AdLogged(a) ==
  /\ a.cond[2] \in DOMAIN logs /\ a.cond = <<n, a.cond[2]>>
  /\ logs[a.cond[2]].accepted /\ logs[a.cond[2]].ad = [cond |-> a.cond, sid |-> a.sid]
  /\ a.sid \in banned
  /\ LinksOwn(a)
  /\ \A url \in LinksOf(a) : url.user \in {None, logs[a.cond[2]].user}

\* The ads of a response are those of the accepted logs, in their order, each
\* of a solution of its own.
AdsOwn(ads) ==
  /\ \A k \in DOMAIN ads : AdLogged(ads[k])
  /\ \A i \in DOMAIN logs : logs[i].accepted => \E k \in DOMAIN ads : ads[k].cond = <<n, i>>
  /\ \A j, k \in DOMAIN ads : j < k => ads[j].cond[2] < ads[k].cond[2] /\ ads[j].sid # ads[k].sid

\* The response while the request is served.
ResponseInv ==
  pc # "idle" =>
    /\ n > 0 /\ bidResponse.id \in {0, n}
    /\ (\E i \in DOMAIN logs : logs[i].accepted) => bidResponse.id = n
    /\ AdsOwn(bidResponse.ads)

\* The answer.
SentInv ==
  /\ sent.kind = "bid" => pc = "idle" /\ sent.id = n /\ AdsOwn(sent.ads)
  /\ sent.kind # "bid" => sent.ads = <<>>

\* A build: what it has not done yet is ahead, before the urls and the check of
\* the style; a url made before the user got a new id names no user.
BuildInv ==
  pc = "build" =>
    /\ Len(logs) < Len(conds)
    /\ ad.cond = Cond /\ ad.sid \notin banned
    /\ bidResponse.id = n \/ Ahead("open", {"style"}, calls)
    /\ added = TRUE \/ Ahead("add", {"style"}, calls)
    /\ \/ adInfo = [cond |-> Cond, sid |-> ad.sid] /\ flow = Cond
       \/ Ahead("info", Urls \cup {"style"}, calls) /\ ad.show = None /\ ad.click = None
    /\ RedoOrder(adx, calls)
    /\ LinksOwn(ad)
    /\ \A url \in LinksOf(ad) :
         /\ url.user \in {None, cm.user}
         /\ cm.needRe /\ HasCall("redo", calls) => url.user = None

\* Sohu bids for one impression; until that is built a user to be renewed is none.
SohuInv ==
  adx = "sohu" /\ pc # "idle" =>
    /\ Len(conds) = 1
    /\ (pc = "bid" /\ logs = <<>>) \/ (pc = "build" /\ HasCall("redo", calls))
         => (cm.needRe => cm.user = None)

\* cypherUserId is userId's; a user that was looked up is the request's.
UserInv ==
  /\ cm.cypher \in {None, cm.user}
  /\ adx \notin HasMappingUrl /\ cm.needRe => cm.user = None
  /\ SohuInv
  /\ looked => /\ cm.user # None => cm.user[1] = n
               /\ log.user # None => log.user[1] = n
               /\ OwnUser

\* The log item is as it was last written.
LogInv ==
  /\ LogOwnAd
  /\ log = IF logs = <<>> THEN NewLog ELSE logs[Len(logs)]

IInv == TypeOK /\ ResponseInv /\ SentInv /\ BuildInv /\ UserInv /\ LogInv

\* The logs stay as they are.
LEMMA LogFrame ==
  ASSUME LogInv, UNCHANGED <<n, log, logs>>
  PROVE  LogInv'
  BY DEF LogInv, LogOwnAd, LogOf, NoneAccepted

-------------------------------------------------------------------------------
(* A call of buildBidResult() leaves the logs and the ads of the response. *)

\* The ads of a response and the logs that stay.
LEMMA AdsFrame ==
  ASSUME AdsOwn(bidResponse.ads), bidResponse'.ads = bidResponse.ads, UNCHANGED <<n, logs, banned>>
  PROVE  AdsOwn(bidResponse.ads)'
<1>1. ASSUME NEW k \in DOMAIN bidResponse'.ads PROVE AdLogged(bidResponse.ads[k])'
  <2>1. AdLogged(bidResponse.ads[k])
    BY DEF AdsOwn
  <2> QED
    BY <2>1 DEF AdLogged, LinksOwn, LinksOf
<1>2. \A k \in DOMAIN bidResponse'.ads : AdLogged(bidResponse.ads[k])'
  BY <1>1
<1>3. \A i \in DOMAIN logs : logs[i].accepted => \E k \in DOMAIN bidResponse'.ads : bidResponse'.ads[k].cond = <<n, i>>
  BY DEF AdsOwn
<1>4. \A j, k \in DOMAIN bidResponse'.ads : j < k =>
        bidResponse'.ads[j].cond[2] < bidResponse'.ads[k].cond[2] /\ bidResponse'.ads[j].sid # bidResponse'.ads[k].sid
  BY DEF AdsOwn
<1> QED
  BY <1>2, <1>3, <1>4 DEF AdsOwn

\* The ads that are sent.
LEMMA SentFrame ==
  ASSUME NEW ads, AdsOwn(ads), sent'.ads = ads, UNCHANGED <<n, logs, banned>>
  PROVE  AdsOwn(sent.ads)'
<1>1. ASSUME NEW k \in DOMAIN sent'.ads PROVE AdLogged(sent.ads[k])'
  <2>1. AdLogged(ads[k])
    BY DEF AdsOwn
  <2> QED
    BY <2>1 DEF AdLogged, LinksOwn, LinksOf
<1>2. \A i \in DOMAIN logs : logs[i].accepted => \E k \in DOMAIN sent'.ads : sent'.ads[k].cond = <<n, i>>
  BY DEF AdsOwn
<1>3. \A j, k \in DOMAIN sent'.ads : j < k =>
        sent'.ads[j].cond[2] < sent'.ads[k].cond[2] /\ sent'.ads[j].sid # sent'.ads[k].sid
  BY DEF AdsOwn
<1> QED
  BY <1>1, <1>2, <1>3 DEF AdsOwn

\* An answer without ads.
LEMMA NoAds ==
  ASSUME NEW kind \in {"none", "bid", "reject", "error"}
  PROVE  [kind |-> kind, id |-> 0, ads |-> <<>>]
           \in [kind : {"none", "bid", "reject", "error"}, id : Nat, ads : Seq(Ad)]
  BY EmptySeq

\* A call that adds no ad keeps what the response, the last answer and the logs
\* say.
LEMMA CallFrame ==
  ASSUME IInv, pc = "build", UNCHANGED <<adx, n, pc, request, sent>>,
         bidResponse'.ads = bidResponse.ads, bidResponse'.id \in {bidResponse.id, n}
  PROVE  ResponseInv' /\ SentInv' /\ LogInv' /\ (looked => OwnUser)'
<1> USE DEF IInv, request
<1>1. ResponseInv'
  <2>1. AdsOwn(bidResponse.ads)'
    BY AdsFrame DEF ResponseInv
  <2>2. n' > 0 /\ bidResponse'.id \in {0, n'}
    BY DEF ResponseInv
  <2>3. (\E i \in DOMAIN logs : logs[i].accepted) => bidResponse'.id = n
    BY DEF ResponseInv
  <2> QED
    BY <2>1, <2>2, <2>3 DEF ResponseInv
<1>2. SentInv'
  BY DEF SentInv
<1>3. LogInv'
  BY LogFrame
<1>4. (looked => OwnUser)'
  BY DEF UserInv, OwnUser
<1> QED
  BY <1>1, <1>2, <1>3, <1>4

\* The calls after the one that is due.
LEMMA CallsAhead ==
  ASSUME IInv, pc = "build", calls # <<>>, calls' = Tail(calls), adx' = adx
  PROVE  /\ calls' \in Seq(Calls) /\ RedoOrder(adx', calls')
         /\ HasCall("redo", calls') => HasCall("redo", calls)
         /\ adx \in EarlyRedo /\ Head(calls) \in Urls => ~HasCall("redo", calls')
         /\ adx = "sohu" /\ Head(calls) = "redo" => ~HasCall("redo", calls')
         /\ Head(calls) = "redo" => HasCall("redo", calls)
         /\ Head(calls) # "open" => bidResponse.id = n \/ Ahead("open", {"style"}, calls')
         /\ Head(calls) # "add" => added = TRUE \/ Ahead("add", {"style"}, calls')
         /\ Head(calls) # "info" =>
              \/ adInfo = [cond |-> Cond, sid |-> ad.sid] /\ flow = Cond
              \/ /\ Ahead("info", Urls \cup {"style"}, calls') /\ Head(calls) \notin Urls
                 /\ ad.show = None /\ ad.click = None
         /\ Head(calls) = "style" =>
              bidResponse.id = n /\ added = TRUE
                /\ adInfo = [cond |-> Cond, sid |-> ad.sid] /\ flow = Cond
<1> USE DEF IInv
<1>1. calls \in Seq(Calls) /\ RedoOrder(adx, calls)
  BY DEF TypeOK, BuildInv
<1>2. /\ bidResponse.id = n \/ Ahead("open", {"style"}, calls)
      /\ added = TRUE \/ Ahead("add", {"style"}, calls)
      /\ \/ adInfo = [cond |-> Cond, sid |-> ad.sid] /\ flow = Cond
         \/ Ahead("info", Urls \cup {"style"}, calls) /\ ad.show = None /\ ad.click = None
  BY DEF BuildInv
<1>3. Tail(calls) \in Seq(Calls) /\ Head(calls) = calls[1] /\ 1 \in DOMAIN calls
  BY <1>1, TailCalls, SMTT(20)
<1>4. Head(calls) = "redo" => HasCall("redo", calls)
  BY <1>3 DEF HasCall
<1>5. /\ RedoOrder(adx, Tail(calls)) /\ (HasCall("redo", Tail(calls)) => HasCall("redo", calls))
      /\ adx \in EarlyRedo /\ Head(calls) \in Urls => ~HasCall("redo", Tail(calls))
      /\ adx = "sohu" /\ Head(calls) = "redo" => ~HasCall("redo", Tail(calls))
  BY <1>1, RedoTail
<1>6. ASSUME NEW c, NEW S, Ahead(c, S, calls), Head(calls) # c
      PROVE  Ahead(c, S, Tail(calls)) /\ Head(calls) \notin S
  BY <1>1, <1>6, AheadTail
<1>7. Head(calls) # "open" => bidResponse.id = n \/ (Ahead("open", {"style"}, Tail(calls)) /\ Head(calls) # "style")
  BY <1>2, <1>6
<1>8. Head(calls) # "add" => added = TRUE \/ (Ahead("add", {"style"}, Tail(calls)) /\ Head(calls) # "style")
  BY <1>2, <1>6
<1>9. Head(calls) # "info" =>
              \/ adInfo = [cond |-> Cond, sid |-> ad.sid] /\ flow = Cond
              \/ /\ Ahead("info", Urls \cup {"style"}, Tail(calls)) /\ Head(calls) \notin Urls \cup {"style"}
                 /\ ad.show = None /\ ad.click = None
  BY <1>2, <1>6
<1> HIDE DEF IInv
<1> QED
  BY <1>3, <1>4, <1>5, <1>7, <1>8, <1>9

-------------------------------------------------------------------------------
(* Each call keeps the invariant.                                          *)

\* Starting the response sets its id to that of the request.
LEMMA OpenKeeps == IInv /\ OpenResponse => IInv'
<1> SUFFICES ASSUME IInv, OpenResponse PROVE IInv'
  OBVIOUS
<1> USE DEF OpenResponse, Call, request
<1>1. bidResponse' \in [id : Nat, ads : Seq(Ad)] /\ bidResponse'.ads = bidResponse.ads
      /\ bidResponse'.id = IF bidResponse.id = 0 THEN n ELSE bidResponse.id
  BY DEF IInv, TypeOK
<1>2. bidResponse'.id = n
  BY <1>1 DEF IInv, ResponseInv
<1>3. ResponseInv' /\ SentInv' /\ LogInv' /\ (looked => OwnUser)'
  BY <1>1, <1>2, CallFrame
<1>4. TypeOK'
  BY <1>1, CallsAhead DEF IInv, TypeOK
<1>5. BuildInv'
  <2>1. /\ Len(logs) < Len(conds) /\ ad.cond = Cond /\ ad.sid \notin banned /\ LinksOwn(ad)
        /\ \A url \in LinksOf(ad) : url.user \in {None, cm.user}
                                   /\ (cm.needRe /\ HasCall("redo", calls) => url.user = None)
    BY DEF IInv, BuildInv
  <2>2. /\ RedoOrder(adx', calls') /\ (HasCall("redo", calls') => HasCall("redo", calls))
        /\ added = TRUE \/ Ahead("add", {"style"}, calls')
        /\ \/ adInfo = [cond |-> Cond, sid |-> ad.sid] /\ flow = Cond
           \/ Ahead("info", Urls \cup {"style"}, calls') /\ ad.show = None /\ ad.click = None
    BY CallsAhead
  <2>3. LinksOwn(ad)' /\ LinksOf(ad)' = LinksOf(ad)
    BY <2>1 DEF LinksOwn, LinksOf
  <2>4. Cond' = Cond
    BY DEF Cond, Idx
  <2> QED
    BY <1>2, <2>1, <2>2, <2>3, <2>4 DEF BuildInv
<1>6. UserInv'
  BY <1>3, CallsAhead DEF IInv, UserInv, SohuInv
<1> QED
  BY <1>3, <1>4, <1>5, <1>6 DEF IInv

\* Adding the bid to the response.
LEMMA AddKeeps == IInv /\ AddAd => IInv'
<1> SUFFICES ASSUME IInv, AddAd PROVE IInv'
  OBVIOUS
<1> USE DEF AddAd, Call, request
<1>1. ResponseInv' /\ SentInv' /\ LogInv' /\ (looked => OwnUser)'
  BY CallFrame
<1>2. TypeOK'
  BY CallsAhead DEF IInv, TypeOK
<1>3. BuildInv'
  <2>1. /\ Len(logs) < Len(conds) /\ ad.cond = Cond /\ ad.sid \notin banned /\ LinksOwn(ad)
        /\ \A url \in LinksOf(ad) : url.user \in {None, cm.user}
                                   /\ (cm.needRe /\ HasCall("redo", calls) => url.user = None)
    BY DEF IInv, BuildInv
  <2>2. /\ RedoOrder(adx', calls') /\ (HasCall("redo", calls') => HasCall("redo", calls))
        /\ bidResponse.id = n \/ Ahead("open", {"style"}, calls')
        /\ \/ adInfo = [cond |-> Cond, sid |-> ad.sid] /\ flow = Cond
           \/ Ahead("info", Urls \cup {"style"}, calls') /\ ad.show = None /\ ad.click = None
    BY CallsAhead
  <2>3. LinksOwn(ad)' /\ LinksOf(ad)' = LinksOf(ad)
    BY <2>1 DEF LinksOwn, LinksOf
  <2>4. Cond' = Cond
    BY DEF Cond, Idx
  <2> QED
    BY <2>1, <2>2, <2>3, <2>4 DEF BuildInv
<1>4. UserInv'
  BY <1>1, CallsAhead DEF IInv, UserInv, SohuInv
<1> QED
  BY <1>1, <1>2, <1>3, <1>4 DEF IInv

\* fillAdInfo() makes adInfo and the flow those of the current impression.
LEMMA InfoKeeps == IInv /\ FillAdInfo => IInv'
<1> SUFFICES ASSUME IInv, FillAdInfo PROVE IInv'
  OBVIOUS
<1> USE DEF FillAdInfo, Call, request
<1>1. ResponseInv' /\ SentInv' /\ LogInv' /\ (looked => OwnUser)'
  BY CallFrame
<1>2. TypeOK'
  <2>1. Cond \in Conditions /\ ad.sid \in Nat
    <3>1. n \in Nat /\ logs \in Seq(LogItem) /\ ad \in Ad
      BY DEF IInv, TypeOK
    <3>2. Len(logs) + 1 \in Nat
      BY <3>1, SMTT(20)
    <3> QED
      BY <3>1, <3>2 DEF Ad, Cond, Idx, Conditions
  <2>2. adInfo' \in AdInfo /\ flow' \in Conditions
    BY <2>1 DEF AdInfo
  <2> QED
    BY <2>2, CallsAhead DEF IInv, TypeOK
<1>3. BuildInv'
  <2>1. /\ Len(logs) < Len(conds) /\ ad.cond = Cond /\ ad.sid \notin banned /\ LinksOwn(ad)
        /\ \A url \in LinksOf(ad) : url.user \in {None, cm.user}
                                   /\ (cm.needRe /\ HasCall("redo", calls) => url.user = None)
    BY DEF IInv, BuildInv
  <2>2. /\ RedoOrder(adx', calls') /\ (HasCall("redo", calls') => HasCall("redo", calls))
        /\ bidResponse.id = n \/ Ahead("open", {"style"}, calls')
        /\ added = TRUE \/ Ahead("add", {"style"}, calls')
    BY CallsAhead
  <2>3. LinksOwn(ad)' /\ LinksOf(ad)' = LinksOf(ad)
    BY <2>1 DEF LinksOwn, LinksOf
  <2>4. Cond' = Cond
    BY DEF Cond, Idx
  <2> QED
    BY <2>1, <2>2, <2>3, <2>4 DEF BuildInv
<1>4. UserInv'
  BY <1>1, CallsAhead DEF IInv, UserInv, SohuInv
<1> QED
  BY <1>1, <1>2, <1>3, <1>4 DEF IInv

\* A new id: the urls made before it name no user.
LEMMA RedoKeeps == IInv /\ RedoCookieMapping => IInv'
<1> SUFFICES ASSUME IInv, RedoCookieMapping PROVE IInv'
  OBVIOUS
<1> USE DEF RedoCookieMapping, Call, request
<1>1. ResponseInv' /\ SentInv' /\ LogInv' /\ (looked => OwnUser)'
  BY CallFrame
<1>2. Cond \in Conditions /\ Cond[1] = n /\ Cond' = Cond
  BY SMTT(20) DEF IInv, TypeOK, Cond, Idx, Conditions
<1>3. cm' \in CmInfo
  BY <1>2 DEF IInv, TypeOK, User, CmInfo
<1>4. /\ ~cm.needRe => cm' = cm
      /\ cm.needRe => /\ cm'.user = Cond /\ cm'.cypher = Cond
                      /\ cm'.needRe = (cm.cookieKey /\ adx \in HasMappingUrl)
  BY <1>2 DEF IInv, TypeOK, CmInfo
<1>5. TypeOK'
  BY <1>3, CallsAhead DEF IInv, TypeOK
<1>6. BuildInv'
  <2>1. /\ Len(logs) < Len(conds) /\ ad.cond = Cond /\ ad.sid \notin banned /\ LinksOwn(ad)
        /\ \A url \in LinksOf(ad) : url.user \in {None, cm.user}
                                   /\ (cm.needRe /\ HasCall("redo", calls) => url.user = None)
    BY DEF IInv, BuildInv
  <2>2. /\ RedoOrder(adx', calls') /\ HasCall("redo", calls)
        /\ bidResponse.id = n \/ Ahead("open", {"style"}, calls')
        /\ added = TRUE \/ Ahead("add", {"style"}, calls')
        /\ \/ adInfo = [cond |-> Cond, sid |-> ad.sid] /\ flow = Cond
           \/ Ahead("info", Urls \cup {"style"}, calls') /\ ad.show = None /\ ad.click = None
    BY CallsAhead
  <2>3. LinksOwn(ad)' /\ LinksOf(ad)' = LinksOf(ad)
    BY <2>1 DEF LinksOwn, LinksOf
  <2>4. \A url \in LinksOf(ad) : url.user \in {None, cm'.user} /\ (cm'.needRe => url.user = None)
    BY <1>4, <2>1, <2>2
  <2> QED
    BY <1>2, <2>1, <2>2, <2>3, <2>4 DEF BuildInv
<1>7. UserInv'
  <2>1. cm'.cypher \in {None, cm'.user} /\ (adx' \notin HasMappingUrl /\ cm'.needRe => cm'.user = None)
    BY <1>4 DEF IInv, UserInv
  <2>2. SohuInv'
    BY <1>4, CallsAhead DEF IInv, UserInv, SohuInv
  <2>3. looked => (cm'.user # None => cm'.user[1] = n) /\ (log.user # None => log.user[1] = n)
    BY <1>2, <1>4 DEF IInv, UserInv
  <2> QED
    BY <1>1, <2>1, <2>2, <2>3 DEF UserInv
<1> QED
  BY <1>1, <1>5, <1>6, <1>7 DEF IInv

\* A url made now: an id still to be renewed is none, if it is renewed after
\* the url.
LEMMA UrlUser ==
  ASSUME IInv, pc = "build", calls # <<>>, Head(calls) \in Urls, calls' = Tail(calls), adx' = adx,
         cm.needRe, HasCall("redo", calls')
  PROVE  cm.user = None /\ cm.cypher = None
<1>1. adx \notin EarlyRedo /\ HasCall("redo", calls)
  BY CallsAhead
<1>2. cm.cypher \in {None, cm.user} /\ SohuInv /\ (adx \notin HasMappingUrl => cm.user = None)
  BY DEF IInv, UserInv
<1>3. adx = "sohu" => cm.user = None
  BY <1>1, <1>2 DEF SohuInv
<1> QED
  BY <1>1, <1>2, <1>3 DEF EarlyRedo

\* getShowPara() makes a url of adInfo, the flow and the user of the request.
LEMMA ShowKeeps == IInv /\ GetShowPara => IInv'
<1> SUFFICES ASSUME IInv, GetShowPara PROVE IInv'
  OBVIOUS
<1> DEFINE cypher == IF cm.cypher = None THEN cm.user ELSE cm.cypher
           url0 == [ad |-> adInfo, flow |-> flow, user |-> cypher]
<1>a. /\ Call("show") /\ cm' = [cm EXCEPT !.cypher = cypher] /\ ad' = [ad EXCEPT !.show = url0]
      /\ UNCHANGED <<bidResponse, adInfo, flow, added>>
  BY DEF GetShowPara
<1> USE <1>a DEF Call, request
<1>b. cypher \in User /\ cypher = cm.user
  BY DEF IInv, TypeOK, CmInfo, UserInv
<1>c. url0 \in Url /\ url0.ad = adInfo /\ url0.flow = flow /\ url0.user = cm.user
  BY <1>b DEF IInv, TypeOK, Url
<1> HIDE DEF cypher, url0
<1>1. ResponseInv' /\ SentInv' /\ LogInv' /\ (looked => OwnUser)'
  BY CallFrame
<1>2. cm' \in CmInfo
      /\ cm'.user = cm.user /\ cm'.cypher = cm.user /\ cm'.needRe = cm.needRe
  BY <1>b DEF IInv, TypeOK, CmInfo
<1>3. ad' \in Ad /\ ad'.show = url0 /\ ad'.click = ad.click /\ ad'.cond = ad.cond /\ ad'.sid = ad.sid
  BY <1>c DEF IInv, TypeOK, Ad
<1>4. TypeOK'
  BY <1>2, <1>3, CallsAhead DEF IInv, TypeOK
<1>5. BuildInv'
  <2>1. /\ Len(logs) < Len(conds) /\ ad.cond = Cond /\ ad.sid \notin banned /\ LinksOwn(ad)
        /\ \A url \in LinksOf(ad) : url.user \in {None, cm.user}
                                   /\ (cm.needRe /\ HasCall("redo", calls) => url.user = None)
    BY DEF IInv, BuildInv
  <2>2. /\ RedoOrder(adx', calls') /\ (HasCall("redo", calls') => HasCall("redo", calls))
        /\ bidResponse.id = n \/ Ahead("open", {"style"}, calls')
        /\ added = TRUE \/ Ahead("add", {"style"}, calls')
        /\ adInfo = [cond |-> Cond, sid |-> ad.sid] /\ flow = Cond
    BY CallsAhead DEF Urls
  <2>3. LinksOf(ad)' \subseteq LinksOf(ad) \cup {url0}
    BY <1>3 DEF LinksOf
  <2>4. LinksOwn(ad)'
    <3> SUFFICES ASSUME NEW url \in LinksOf(ad)'
                 PROVE  url.ad = [cond |-> ad.cond, sid |-> ad.sid] /\ url.flow = ad.cond
      BY <1>3 DEF LinksOwn
    <3> QED
      BY <1>c, <2>1, <2>2, <2>3 DEF LinksOwn
  <2>5. cm.needRe /\ HasCall("redo", calls') => cm.user = None
    BY UrlUser DEF Urls
  <2>6. \A url \in LinksOf(ad)' : url.user \in {None, cm'.user}
                                 /\ (cm'.needRe /\ HasCall("redo", calls') => url.user = None)
    BY <1>c, <1>2, <2>1, <2>2, <2>3, <2>5
  <2>7. Cond' = Cond
    BY DEF Cond, Idx
  <2>8. /\ Len(logs') < Len(conds') /\ ad'.cond = Cond' /\ ad'.sid \notin banned'
        /\ bidResponse'.id = n' \/ Ahead("open", {"style"}, calls')
        /\ added' = TRUE \/ Ahead("add", {"style"}, calls')
        /\ adInfo' = [cond |-> Cond', sid |-> ad'.sid] /\ flow' = Cond'
    BY <1>3, <2>1, <2>2, <2>7, SMTT(20)
  <2> QED
    BY <2>2, <2>4, <2>6, <2>8 DEF BuildInv
<1>6. UserInv'
  BY <1>1, <1>2, CallsAhead DEF IInv, UserInv, SohuInv
<1> QED
  BY <1>1, <1>4, <1>5, <1>6 DEF IInv

\* getClickPara() makes a url of them too.
LEMMA ClickKeeps == IInv /\ GetClickPara => IInv'
<1> SUFFICES ASSUME IInv, GetClickPara PROVE IInv'
  OBVIOUS
<1> DEFINE url0 == [ad |-> adInfo, flow |-> flow, user |-> cm.cypher]
<1>a. /\ Call("click") /\ ad' = [ad EXCEPT !.click = url0]
      /\ UNCHANGED <<cm, bidResponse, adInfo, flow, added>>
  BY DEF GetClickPara
<1> USE <1>a DEF Call, request
<1>c. url0 \in Url /\ url0.ad = adInfo /\ url0.flow = flow /\ url0.user = cm.cypher
  BY DEF IInv, TypeOK, CmInfo, Url
<1> HIDE DEF url0
<1>1. ResponseInv' /\ SentInv' /\ LogInv' /\ (looked => OwnUser)'
  BY CallFrame
<1>2. ad' \in Ad /\ ad'.click = url0 /\ ad'.show = ad.show /\ ad'.cond = ad.cond /\ ad'.sid = ad.sid
  BY <1>c DEF IInv, TypeOK, Ad
<1>3. TypeOK'
  BY <1>2, CallsAhead DEF IInv, TypeOK
<1>4. BuildInv'
  <2>1. /\ Len(logs) < Len(conds) /\ ad.cond = Cond /\ ad.sid \notin banned /\ LinksOwn(ad)
        /\ \A url \in LinksOf(ad) : url.user \in {None, cm.user}
                                   /\ (cm.needRe /\ HasCall("redo", calls) => url.user = None)
    BY DEF IInv, BuildInv
  <2>2. /\ RedoOrder(adx', calls') /\ (HasCall("redo", calls') => HasCall("redo", calls))
        /\ bidResponse.id = n \/ Ahead("open", {"style"}, calls')
        /\ added = TRUE \/ Ahead("add", {"style"}, calls')
        /\ adInfo = [cond |-> Cond, sid |-> ad.sid] /\ flow = Cond
    BY CallsAhead DEF Urls
  <2>3. LinksOf(ad)' \subseteq LinksOf(ad) \cup {url0}
    BY <1>2 DEF LinksOf
  <2>4. LinksOwn(ad)'
    <3> SUFFICES ASSUME NEW url \in LinksOf(ad)'
                 PROVE  url.ad = [cond |-> ad.cond, sid |-> ad.sid] /\ url.flow = ad.cond
      BY <1>2 DEF LinksOwn
    <3> QED
      BY <1>c, <2>1, <2>2, <2>3 DEF LinksOwn
  <2>5. cm.cypher \in {None, cm.user} /\ (cm.needRe /\ HasCall("redo", calls') => cm.cypher = None)
    BY UrlUser DEF Urls, IInv, UserInv
  <2>6. \A url \in LinksOf(ad)' : url.user \in {None, cm'.user}
                                 /\ (cm'.needRe /\ HasCall("redo", calls') => url.user = None)
    BY <1>c, <2>1, <2>2, <2>3, <2>5
  <2>7. Cond' = Cond
    BY DEF Cond, Idx
  <2>8. /\ Len(logs') < Len(conds') /\ ad'.cond = Cond' /\ ad'.sid \notin banned'
        /\ bidResponse'.id = n' \/ Ahead("open", {"style"}, calls')
        /\ added' = TRUE \/ Ahead("add", {"style"}, calls')
        /\ adInfo' = [cond |-> Cond', sid |-> ad'.sid] /\ flow' = Cond'
    BY <1>2, <2>1, <2>2, <2>7, SMTT(20)
  <2> QED
    BY <2>2, <2>4, <2>6, <2>8 DEF BuildInv
<1>5. UserInv'
  BY <1>1, CallsAhead DEF IInv, UserInv, SohuInv
<1> QED
  BY <1>1, <1>3, <1>4, <1>5 DEF IInv

\* Setting the deal id touches neither the urls nor the user.
LEMMA DealKeeps == IInv /\ SetDealId => IInv'
<1> SUFFICES ASSUME IInv, SetDealId PROVE IInv'
  OBVIOUS
<1>a. /\ pc = "build" /\ calls # <<>> /\ Head(calls) \in {"deal", "dealFlag", "dealAny"}
      /\ calls' = Tail(calls)
      /\ UNCHANGED <<adx, n, pc, isDeal, request, sent, cm, bidResponse, adInfo, flow, added>>
  BY DEF SetDealId, Call
<1> USE <1>a DEF request
<1>1. ResponseInv' /\ SentInv' /\ LogInv' /\ (looked => OwnUser)'
  BY CallFrame
<1>2. ad' \in Ad /\ ad'.show = ad.show /\ ad'.click = ad.click /\ ad'.cond = ad.cond /\ ad'.sid = ad.sid
  <2>1. conds[Idx].deal \in BOOLEAN
    <3>1. conds \in CondSeq /\ Idx \in 1 .. Len(conds)
      BY SMTT(20) DEF IInv, TypeOK, BuildInv, Idx, CondSeq
    <3>2. conds[Idx] \in [deal : BOOLEAN]
      BY <3>1, ElementOfSeq DEF CondSeq
    <3> QED
      BY <3>2
  <2>2. ad \in Ad
    BY DEF IInv, TypeOK
  <2>3. \E b \in BOOLEAN : ad' = [ad EXCEPT !.dealId = b]
    BY <2>1 DEF SetDealId
  <2> QED
    BY <2>2, <2>3 DEF Ad
<1>3. TypeOK'
  BY <1>2, CallsAhead DEF IInv, TypeOK
<1>4. BuildInv'
  <2>1. /\ Len(logs) < Len(conds) /\ ad.cond = Cond /\ ad.sid \notin banned /\ LinksOwn(ad)
        /\ \A url \in LinksOf(ad) : url.user \in {None, cm.user}
                                   /\ (cm.needRe /\ HasCall("redo", calls) => url.user = None)
    BY DEF IInv, BuildInv
  <2>2. /\ RedoOrder(adx', calls') /\ (HasCall("redo", calls') => HasCall("redo", calls))
        /\ bidResponse.id = n \/ Ahead("open", {"style"}, calls')
        /\ added = TRUE \/ Ahead("add", {"style"}, calls')
        /\ \/ adInfo = [cond |-> Cond, sid |-> ad.sid] /\ flow = Cond
           \/ Ahead("info", Urls \cup {"style"}, calls') /\ ad.show = None /\ ad.click = None
    BY CallsAhead
  <2>3. LinksOwn(ad)' /\ LinksOf(ad)' = LinksOf(ad)
    BY <1>2, <2>1 DEF LinksOwn, LinksOf
  <2>4. Cond' = Cond
    BY DEF Cond, Idx
  <2> QED
    BY <1>2, <2>1, <2>2, <2>3, <2>4 DEF BuildInv
<1>5. UserInv'
  BY <1>1, CallsAhead DEF IInv, UserInv, SohuInv
<1> QED
  BY <1>1, <1>3, <1>4, <1>5 DEF IInv

\* A build that ends at the style has done what it must.
LEMMA StyleKeeps == IInv /\ CheckStyle => IInv'
<1> SUFFICES ASSUME IInv, CheckStyle PROVE IInv'
  OBVIOUS
<1> USE DEF CheckStyle, request, handler
<1>1. ResponseInv' /\ SentInv' /\ LogInv' /\ (looked => OwnUser)'
  BY CallFrame
<1>2. /\ calls' \in Seq(Calls) /\ RedoOrder(adx', calls')
      /\ HasCall("redo", calls') => HasCall("redo", calls)
      /\ bidResponse.id = n /\ added = TRUE
      /\ adInfo = [cond |-> Cond, sid |-> ad.sid] /\ flow = Cond
  <2>1. calls \in Seq(Calls) /\ Tail(calls) \in Seq(Calls) /\ Head(calls) = calls[1] /\ 1 \in DOMAIN calls
    BY TailCalls, SMTT(20) DEF IInv, TypeOK
  <2>2. Head(calls) \in {"style"} /\ Head(calls) \notin {"open", "add", "info"}
    OBVIOUS
  <2>3. ASSUME NEW c \in {"open", "add", "info"}, NEW S, "style" \in S PROVE ~Ahead(c, S, calls)
    BY <2>1, <2>2, <2>3, AheadTail, SMTT(20)
  <2>4. /\ bidResponse.id = n /\ added = TRUE
        /\ adInfo = [cond |-> Cond, sid |-> ad.sid] /\ flow = Cond
    BY <2>3 DEF IInv, BuildInv
  <2>5. CASE calls' = Tail(calls)
    BY <2>4, <2>5, CallsAhead
  <2>6. CASE calls' = <<>>
    <3>1. calls' \in Seq(Calls) /\ DOMAIN calls' = {}
      BY <2>6, SMTT(20)
    <3> QED
      BY <2>4, <3>1 DEF HasCall, RedoOrder
  <2> QED
    BY <2>5, <2>6
<1>3. TypeOK'
  BY <1>2 DEF IInv, TypeOK
<1>4. BuildInv'
  <2>1. /\ Len(logs) < Len(conds) /\ ad.cond = Cond /\ ad.sid \notin banned /\ LinksOwn(ad)
        /\ \A url \in LinksOf(ad) : url.user \in {None, cm.user}
                                   /\ (cm.needRe /\ HasCall("redo", calls) => url.user = None)
    BY DEF IInv, BuildInv
  <2>2. LinksOwn(ad)' /\ LinksOf(ad)' = LinksOf(ad)
    BY <2>1 DEF LinksOwn, LinksOf
  <2>3. Cond' = Cond
    BY DEF Cond, Idx
  <2> QED
    BY <1>2, <2>1, <2>2, <2>3 DEF BuildInv
<1>5. UserInv'
  BY <1>1, <1>2 DEF IInv, UserInv, SohuInv
<1> QED
  BY <1>1, <1>3, <1>4, <1>5 DEF IInv

-------------------------------------------------------------------------------
(* The loop over the conditions.                                           *)

\* A solution is selected: its build has everything ahead.
LEMMA FindsKeeps == ASSUME NEW s \in Solutions, IInv, SearchFinds(s) PROVE IInv'
<1> USE DEF SearchFinds, MoreConditions, request, handler
<1>1. s.sid \in Nat /\ s.deal \in BOOLEAN /\ s.banner \in Banners /\ s.sid \notin banned
  BY BiddingAssumption DEF Candidates
<1>2. Cond \in Conditions /\ Cond' = Cond
  BY SMTT(20) DEF IInv, TypeOK, Cond, Idx, Conditions
<1>3. ad' \in Ad /\ ad'.show = None /\ ad'.click = None /\ ad'.cond = Cond /\ ad'.sid = s.sid
  BY <1>1, <1>2 DEF Ad
<1>4. WellOrdered(adx, calls')
  BY <1>1, BuildOrdered DEF IInv, TypeOK
<1>5. TypeOK'
  BY <1>3, <1>4 DEF IInv, TypeOK, WellOrdered
<1>6. ResponseInv'
  <2>1. pc # "idle" /\ pc' # "idle" /\ bidResponse' = bidResponse /\ n' = n /\ logs' = logs /\ banned' = banned
    OBVIOUS
  <2>2. AdsOwn(bidResponse.ads)'
    BY <2>1, AdsFrame DEF IInv, ResponseInv
  <2> QED
    BY <2>1, <2>2 DEF IInv, ResponseInv
<1>7. SentInv'
  BY DEF IInv, SentInv
<1>8. BuildInv'
  <2>1. LinksOf(ad)' = {} /\ LinksOwn(ad)'
    BY <1>3 DEF LinksOf, LinksOwn
  <2> QED
    BY <1>1, <1>2, <1>3, <1>4, <2>1 DEF BuildInv, WellOrdered
<1>9. UserInv'
  <2>1. SohuInv'
    <3>1. CASE adx = "sohu"
      <4>0. Len(logs) \in Nat
        BY SMTT(20) DEF IInv, TypeOK
      <4>a. Len(conds) = 1
        BY <3>1 DEF IInv, UserInv, SohuInv
      <4>1. Len(conds) = 1 /\ Len(logs) = 0
        BY <4>0, <4>a, SMTT(20)
      <4>2. logs = <<>>
        BY <4>1, EmptySeq DEF IInv, TypeOK
      <4> QED
        BY <3>1, <4>1, <4>2 DEF IInv, UserInv, SohuInv
    <3>2. CASE adx # "sohu"
      BY <3>2 DEF SohuInv
    <3> QED
      BY <3>1, <3>2
  <2>2. (looked => OwnUser)'
    BY DEF IInv, UserInv, OwnUser
  <2> QED
    BY <2>1, <2>2 DEF IInv, UserInv
<1>10. LogInv'
  BY LogFrame DEF IInv
<1> QED
  BY <1>5, <1>6, <1>7, <1>8, <1>9, <1>10 DEF IInv

\* One more log.
LEMMA LogAppended ==
  ASSUME TypeOK, NEW item \in LogItem, logs' = Append(logs, item)
  PROVE  /\ logs' \in Seq(LogItem) /\ Len(logs) \in Nat /\ Len(logs') = Idx /\ logs' # <<>>
         /\ DOMAIN logs = 1 .. Len(logs) /\ DOMAIN logs' = 1 .. (Len(logs) + 1)
         /\ \A i \in DOMAIN logs : logs'[i] = logs[i]
         /\ logs'[Idx] = item
<1>1. logs \in Seq(LogItem)
  BY DEF TypeOK
<1> QED
  BY <1>1, AppendProperties, EmptySeq, SMTT(20) DEF Idx

\* LogOf(i), of any logs of any request.
NoneIn(s, from, to) == \A k \in from .. to : ~s[k].accepted
OwnLog(s, m, i) ==
  /\ s[i].flow = <<m, i>>
  /\ s[i].ad.cond = IF s[i].accepted THEN <<m, i>> ELSE NoCondition
  /\ s[i].accepted => s[i].types = {<<m, i>>} /\ s[i].geo = <<m, i>>
  /\ s[i].media = s[i].geo
  /\ s[i].geo = NoCondition => NoneIn(s, 1, i)
  /\ s[i].geo # NoCondition =>
       \E j \in 1 .. i : s[i].geo = <<m, j>> /\ s[j].accepted /\ NoneIn(s, j + 1, i)
  /\ \A c \in s[i].types : \E j \in 1 .. i : c = <<m, j>> /\ NoneIn(s, j + 1, i)
  /\ s[i].words # NoCondition => \E j \in 1 .. i : s[i].words = <<m, j>>

\* What fillLogItem() makes of the log item l for a condition.
Filled(l, item, own) ==
  /\ item.flow = own /\ item.ad.cond = IF item.accepted THEN own ELSE NoCondition
  /\ item.accepted => item.types = {own} /\ item.geo = own /\ item.media = own
  /\ ~item.accepted => /\ item.types \in {l.types, l.types \cup {own}}
                       /\ item.geo = l.geo /\ item.media = l.media
  /\ item.words \in {own, l.words}

\* Numbers of conditions.
LEMMA Places ==
  ASSUME NEW L \in Nat
  PROVE  /\ \A i \in 1 .. L : i \in 1 .. (L + 1) /\ i + 1 \in 1 .. (L + 1)
         /\ L + 1 \in 1 .. (L + 1) /\ 1 \in 1 .. (L + 1)
         /\ \A i \in 1 .. (L + 1) : i \in 1 .. L \/ i = L + 1
         /\ \A k : k \notin (L + 1 + 1) .. (L + 1)
         /\ \A i \in 1 .. L : \A j \in 1 .. i : j \in 1 .. L /\ j + 1 \in 1 .. (L + 1)
         /\ \A f \in 1 .. (L + 1) : \A k \in f .. (L + 1) : (k \in 1 .. L /\ k \in f .. L) \/ k = L + 1
         /\ \A i \in 1 .. L : \A f \in 1 .. (L + 1) : \A k \in f .. i : k \in 1 .. L
  BY SMTT(20)

\* The logs of the conditions before are what they were.
LEMMA LogStays ==
  ASSUME NEW m, NEW L \in Nat, NEW s, NEW t, \A i \in 1 .. L : t[i] = s[i],
         NEW i \in 1 .. L, OwnLog(s, m, i)
  PROVE  OwnLog(t, m, i)
<1>1. \A f \in 1 .. (L + 1) : NoneIn(s, f, i) => NoneIn(t, f, i)
  BY Places DEF NoneIn
<1>2. t[i] = s[i] /\ 1 \in 1 .. (L + 1)
  BY Places
<1>3. \A j \in 1 .. i : t[j] = s[j] /\ j + 1 \in 1 .. (L + 1)
  BY Places
<1> QED
  BY <1>1, <1>2, <1>3 DEF OwnLog

\* The log of one more condition, made of the log item of the one before.
LEMMA LogAdded ==
  ASSUME NEW m \in Nat, NEW L \in Nat, NEW s, NEW t, NEW l, NEW item,
         \A i \in 1 .. L : t[i] = s[i], t[L + 1] = item,
         L = 0 => l = NewLog, L # 0 => l = s[L] /\ OwnLog(s, m, L),
         Filled(l, item, <<m, L + 1>>)
  PROVE  OwnLog(t, m, L + 1)
<1> DEFINE own == <<m, L + 1>>
<1>1. own # NoCondition
  BY SMTT(20) DEF NoCondition
<1>2. L + 1 \in 1 .. (L + 1) /\ NoneIn(t, L + 1 + 1, L + 1)
  BY Places DEF NoneIn
<1>5. item.words # NoCondition => \E j \in 1 .. (L + 1) : item.words = <<m, j>>
  <2>1. item.words = own \/ item.words = l.words
    BY DEF Filled
  <2>2. L = 0 => l.words = NoCondition
    BY SMTT(20) DEF NewLog
  <2>3. L # 0 => (l.words # NoCondition => \E j \in 1 .. L : l.words = <<m, j>>)
    BY DEF OwnLog
  <2>4. \A j \in 1 .. L : j \in 1 .. (L + 1)
    BY Places
  <2> QED
    BY <1>2, <2>1, <2>2, <2>3, <2>4
<1>3. CASE item.accepted
  <2>1. /\ item.flow = own /\ item.ad.cond = own /\ item.types = {own} /\ item.geo = own
        /\ item.media = own
    BY <1>3 DEF Filled
  <2>2. item.geo # NoCondition
    BY <1>1, <2>1
  <2>3. \A c \in item.types : \E j \in 1 .. (L + 1) : c = <<m, j>> /\ NoneIn(t, j + 1, L + 1)
    BY <1>2, <2>1
  <2>4. \E j \in 1 .. (L + 1) : item.geo = <<m, j>> /\ t[j].accepted /\ NoneIn(t, j + 1, L + 1)
    BY <1>2, <1>3, <2>1
  <2> QED
    BY <1>3, <1>5, <2>1, <2>2, <2>3, <2>4 DEF OwnLog
<1>4. CASE ~item.accepted
  <2>1. \A c \in item.types : c = own \/ c \in l.types
    BY <1>4 DEF Filled
  <2>2. CASE L = 0
    <3>1. l.types = {} /\ l.geo = NoCondition /\ l.media = NoCondition
      BY <2>2, SMTT(20) DEF NewLog
    <3>2. NoneIn(t, 1, L + 1)
      <4>1. \A k \in 1 .. (L + 1) : k = L + 1
        BY <2>2, SMTT(20)
      <4> QED
        BY <4>1, <1>4 DEF NoneIn
    <3> QED
      BY <1>2, <1>4, <1>5, <2>1, <3>1, <3>2 DEF OwnLog, Filled
  <2>3. CASE L # 0
    <3>1. L \in 1 .. L /\ l = s[L] /\ OwnLog(s, m, L)
      BY <2>3, SMTT(20)
    <3>2. \A f \in 1 .. (L + 1) : NoneIn(s, f, L) => NoneIn(t, f, L + 1)
      BY <1>4, Places DEF NoneIn
    <3>3. \A j \in 1 .. L : j \in 1 .. (L + 1) /\ t[j] = s[j] /\ j + 1 \in 1 .. (L + 1)
      BY Places
    <3>4. \A c \in item.types : \E j \in 1 .. (L + 1) : c = <<m, j>> /\ NoneIn(t, j + 1, L + 1)
      BY <1>2, <2>1, <3>1, <3>2, <3>3 DEF OwnLog
    <3>5. item.geo = NoCondition => NoneIn(t, 1, L + 1)
      BY <1>4, <3>1, <3>2, Places DEF OwnLog, Filled
    <3>6. item.geo # NoCondition =>
            \E j \in 1 .. (L + 1) : item.geo = <<m, j>> /\ t[j].accepted /\ NoneIn(t, j + 1, L + 1)
      BY <1>4, <3>1, <3>2, <3>3 DEF OwnLog, Filled
    <3>7. item.media = item.geo
      BY <1>4, <3>1 DEF OwnLog, Filled
    <3> QED
      BY <1>4, <1>5, <3>4, <3>5, <3>6, <3>7 DEF OwnLog, Filled
  <2> QED
    BY <2>2, <2>3
<1> QED
  BY <1>3, <1>4

\* The facts about the logs, after one more.
LEMMA LogsKeep ==
  ASSUME IInv, NEW item \in LogItem, logs' = Append(logs, item), UNCHANGED <<n, looked, cm>>, log' = item,
         Filled(log, item, Cond), item.user \in {cm.user, log.user}
  PROVE  LogInv' /\ (looked => (log.user # None => log.user[1] = n) /\ OwnUser)'
<1>1. /\ Len(logs) \in Nat /\ DOMAIN logs = 1 .. Len(logs) /\ DOMAIN logs' = 1 .. (Len(logs) + 1)
      /\ \A i \in DOMAIN logs : logs'[i] = logs[i]
      /\ logs'[Len(logs) + 1] = item /\ logs' # <<>> /\ Len(logs') = Len(logs) + 1
  BY LogAppended DEF IInv, Idx
<1>2. LogInv'
  <2>1. \A i \in 1 .. Len(logs) : OwnLog(logs, n, i)
    BY <1>1 DEF IInv, LogInv, LogOwnAd, LogOf, NoneAccepted, OwnLog, NoneIn
  <2>2. n \in Nat /\ Filled(log, item, <<n, Len(logs) + 1>>)
    BY DEF IInv, TypeOK, Cond, Idx
  <2>3. /\ Len(logs) = 0 => log = NewLog
        /\ Len(logs) # 0 => log = logs[Len(logs)] /\ Len(logs) \in 1 .. Len(logs)
    <3>1. Len(logs) = 0 <=> logs = <<>>
      BY EmptySeq, SMTT(20) DEF IInv, TypeOK
    <3>2. Len(logs) # 0 => Len(logs) \in 1 .. Len(logs)
      BY <1>1, SMTT(20)
    <3> QED
      BY <3>1, <3>2 DEF IInv, LogInv
  <2>4. \A i \in 1 .. Len(logs) : OwnLog(logs', n, i)
    BY <1>1, <2>1, LogStays
  <2>5. OwnLog(logs', n, Len(logs) + 1)
    BY <1>1, <2>1, <2>2, <2>3, LogAdded
  <2>6. \A i \in DOMAIN logs' : OwnLog(logs', n', i)
    BY <1>1, <2>4, <2>5, Places
  <2>7. LogOwnAd'
    BY <2>6 DEF LogOwnAd, LogOf, NoneAccepted, OwnLog, NoneIn
  <2> QED
    BY <1>1, <2>7 DEF LogInv
<1>3. ASSUME looked PROVE item.user # None => item.user[1] = n
  BY <1>3 DEF IInv, UserInv
<1>4. ASSUME looked PROVE \A i \in DOMAIN logs' : logs'[i].user # None => logs'[i].user[1] = n
  BY <1>1, <1>3, <1>4, SMTT(20) DEF IInv, UserInv, OwnUser
<1> QED
  BY <1>2, <1>3, <1>4 DEF OwnUser

\* AdLogged(a) of an ad that stays, after the step.
LoggedThen(a) ==
  /\ a.cond[2] \in DOMAIN logs' /\ a.cond = <<n', a.cond[2]>>
  /\ logs'[a.cond[2]].accepted /\ logs'[a.cond[2]].ad = [cond |-> a.cond, sid |-> a.sid]
  /\ a.sid \in banned'
  /\ LinksOwn(a)
  /\ \A url \in LinksOf(a) : url.user \in {None, logs'[a.cond[2]].user}

\* An ad of the response stays logged when another log is appended.
LEMMA StillLogged ==
  ASSUME TypeOK, NEW item \in LogItem, logs' = Append(logs, item), n' = n, banned \subseteq banned',
         NEW a, AdLogged(a)
  PROVE  LoggedThen(a) /\ a.cond[2] \in 1 .. Len(logs)
<1>1. /\ DOMAIN logs = 1 .. Len(logs) /\ DOMAIN logs' = 1 .. (Len(logs) + 1) /\ Len(logs) \in Nat
      /\ \A i \in DOMAIN logs : logs'[i] = logs[i]
  BY LogAppended
<1>2. a.cond[2] \in DOMAIN logs /\ a.cond[2] \in DOMAIN logs' /\ logs'[a.cond[2]] = logs[a.cond[2]]
  BY <1>1, SMTT(20) DEF AdLogged
<1> QED
  BY <1>1, <1>2 DEF AdLogged, LoggedThen

\* The ads of the response after a step, from what the step's logs say of each.
LEMMA AdsThen ==
  ASSUME \A k \in DOMAIN bidResponse'.ads : LoggedThen(bidResponse'.ads[k]),
         \A i \in DOMAIN logs' : logs'[i].accepted =>
           \E k \in DOMAIN bidResponse'.ads : bidResponse'.ads[k].cond = <<n', i>>,
         \A j, k \in DOMAIN bidResponse'.ads : j < k =>
           /\ bidResponse'.ads[j].cond[2] < bidResponse'.ads[k].cond[2]
           /\ bidResponse'.ads[j].sid # bidResponse'.ads[k].sid
  PROVE  AdsOwn(bidResponse.ads)'
<1>1. \A k \in DOMAIN bidResponse'.ads : AdLogged(bidResponse.ads[k])'
  BY DEF AdLogged, LoggedThen, LinksOwn, LinksOf
<1> QED
  BY <1>1 DEF AdsOwn

\* A search without result logs the impression as not accepted.
LEMMA FailsKeeps == IInv /\ SearchFails => IInv'
<1> SUFFICES ASSUME IInv, SearchFails PROVE IInv'
  OBVIOUS
<1> DEFINE item == FillLogItem(FALSE, adInfo, Cond, cm.user)
<1>a. /\ pc = "bid" /\ Len(logs) < Len(conds) /\ flow' = Cond /\ log' = item /\ logs' = Append(logs, item)
      /\ UNCHANGED <<adx, n, pc, cm, isDeal, bidResponse, adInfo, calls, ad, added,
                     device, conds, told, looked, banned, sent>>
  BY DEF SearchFails, MoreConditions, DoLog, build
<1>b. Cond \in Conditions
  BY SMTT(20) DEF IInv, TypeOK, Cond, Idx, Conditions
<1>c. NoAd \in AdInfo /\ NoAd.cond = NoCondition
  BY DEF NoAd, AdInfo, NoCondition, Conditions
<1>d. /\ item \in LogItem /\ ~item.accepted /\ Filled(log, item, Cond)
      /\ item.user \in {cm.user, log.user}
  <2>1. /\ cm.user \in User /\ log.user \in User /\ log.types \in SUBSET Conditions
        /\ log.words \in Conditions /\ log.geo \in Conditions /\ log.media \in Conditions
    BY DEF IInv, TypeOK, CmInfo, LogItem
  <2>2. log.types \cup {Cond} \in SUBSET Conditions
    BY <1>b, <2>1
  <2>3. item \in LogItem
    BY <1>b, <1>c, <2>1, <2>2 DEF FillLogItem, LogItem
  <2>4. ~item.accepted /\ Filled(log, item, Cond) /\ item.user \in {cm.user, log.user}
    BY <1>c DEF FillLogItem, Filled
  <2> QED
    BY <2>3, <2>4
<1> HIDE DEF item
<1> USE <1>a
<1>e. /\ logs' \in Seq(LogItem) /\ Len(logs) \in Nat /\ Len(logs') = Len(logs) + 1 /\ logs' # <<>>
      /\ DOMAIN logs = 1 .. Len(logs) /\ DOMAIN logs' = 1 .. (Len(logs) + 1)
      /\ \A i \in DOMAIN logs : logs'[i] = logs[i]
      /\ logs'[Len(logs) + 1] = item
  BY <1>d, LogAppended DEF IInv, Idx
<1>1. TypeOK'
  <2>1. Len(conds) \in Nat
    BY SMTT(20) DEF IInv, TypeOK, CondSeq
  <2> QED
    BY <1>b, <1>d, <1>e, <2>1, SMTT(20) DEF IInv, TypeOK
<1>2. ResponseInv'
  <2>1. AdsOwn(bidResponse.ads) /\ n > 0 /\ bidResponse.id \in {0, n}
        /\ ((\E i \in DOMAIN logs : logs[i].accepted) => bidResponse.id = n)
    BY DEF IInv, ResponseInv
  <2>2. \A k \in DOMAIN bidResponse'.ads : LoggedThen(bidResponse'.ads[k])
    BY <1>d, <2>1, StillLogged DEF IInv, AdsOwn
  <2>3. \A i \in DOMAIN logs' : logs'[i].accepted => i \in DOMAIN logs /\ logs[i].accepted
    BY <1>d, <1>e, SMTT(20)
  <2>4. AdsOwn(bidResponse.ads)'
    BY <2>1, <2>2, <2>3, AdsThen DEF AdsOwn
  <2> QED
    BY <2>1, <2>3, <2>4 DEF ResponseInv
<1>3. SentInv'
  BY DEF IInv, SentInv
<1>4. BuildInv'
  BY DEF BuildInv
<1>5. LogInv' /\ (looked => (log.user # None => log.user[1] = n) /\ OwnUser)'
  BY <1>d, LogsKeep
<1>6. UserInv'
  BY <1>5, <1>e DEF IInv, UserInv, SohuInv
<1> QED
  BY <1>1, <1>2, <1>3, <1>4, <1>5, <1>6 DEF IInv

\* A build that has ended has done what it must.
LEMMA BuildDone ==
  ASSUME IInv, pc = "build", calls = <<>>
  PROVE  bidResponse.id = n /\ added = TRUE /\ adInfo = [cond |-> Cond, sid |-> ad.sid] /\ flow = Cond
<1>1. \A c, S : ~Ahead(c, S, calls)
  BY SMTT(20) DEF Ahead
<1> QED
  BY <1>1 DEF IInv, BuildInv

\* The end of buildBidResult(): the ad is banned for the other impressions and
\* logged as accepted.
LEMMA BuiltKeeps == IInv /\ Built => IInv'
<1> SUFFICES ASSUME IInv, Built PROVE IInv'
  OBVIOUS
<1> DEFINE item == FillLogItem(TRUE, adInfo, flow, cm.user)
<1>a. /\ pc = "build" /\ calls = <<>> /\ bidResponse' = Response /\ calls' = <<>> /\ added' = FALSE
      /\ banned' = banned \cup {ad.sid} /\ log' = item /\ logs' = Append(logs, item) /\ pc' = "bid"
      /\ UNCHANGED <<adx, n, cm, isDeal, adInfo, flow, device, conds, told, looked, sent>>
  BY DEF Built, EndBuild, DoLog
<1>b. bidResponse.id = n /\ added = TRUE /\ adInfo = [cond |-> Cond, sid |-> ad.sid] /\ flow = Cond
  BY <1>a, BuildDone
<1>c. /\ item \in LogItem /\ item.flow = Cond /\ item.accepted /\ item.ad = adInfo
      /\ item.user = IF cm.user # None THEN cm.user ELSE log.user
      /\ item.types = {Cond} /\ item.geo = adInfo.cond /\ item.media = Cond
      /\ item.words \in {Cond, log.words}
  <2>1. /\ flow \in Conditions /\ adInfo \in AdInfo /\ cm.user \in User /\ log.user \in User
        /\ log.words \in Conditions
    BY DEF IInv, TypeOK, CmInfo, LogItem
  <2>2. adInfo.cond \in Conditions /\ {flow} \in SUBSET Conditions
    BY <2>1 DEF AdInfo
  <2> QED
    BY <1>b, <2>1, <2>2 DEF FillLogItem, LogItem
<1> HIDE DEF item
<1>d. Filled(log, item, Cond)
  <2>1. adInfo.cond = Cond
    BY <1>b
  <2> QED
    BY <1>c, <2>1 DEF Filled
<1> USE <1>a
<1>e. /\ logs' \in Seq(LogItem) /\ Len(logs) \in Nat /\ Len(logs') = Len(logs) + 1 /\ logs' # <<>>
      /\ DOMAIN logs = 1 .. Len(logs) /\ DOMAIN logs' = 1 .. (Len(logs) + 1)
      /\ \A i \in DOMAIN logs : logs'[i] = logs[i]
      /\ logs'[Len(logs) + 1] = item
  BY <1>c, LogAppended DEF IInv, Idx
<1>f. ad \in Ad /\ ad.cond = Cond /\ ad.sid \notin banned /\ LinksOwn(ad) /\ Len(logs) < Len(conds)
      /\ \A url \in LinksOf(ad) : url.user \in {None, cm.user}
  BY DEF IInv, TypeOK, BuildInv
<1>g. bidResponse.ads \in Seq(Ad) /\ bidResponse' \in [id : Nat, ads : Seq(Ad)]
      /\ bidResponse'.id = n /\ bidResponse'.ads = Append(bidResponse.ads, ad)
  <2>1. bidResponse \in [id : Nat, ads : Seq(Ad)]
    BY DEF IInv, TypeOK
  <2>2. bidResponse' = [bidResponse EXCEPT !.ads = Append(bidResponse.ads, ad)]
    BY <1>b DEF Response
  <2>3. Append(bidResponse.ads, ad) \in Seq(Ad)
    BY <1>f, <2>1, AppendProperties
  <2> QED
    BY <1>b, <2>1, <2>2, <2>3
<1>h. /\ Len(bidResponse.ads) \in Nat /\ DOMAIN bidResponse.ads = 1 .. Len(bidResponse.ads)
      /\ DOMAIN bidResponse'.ads = 1 .. (Len(bidResponse.ads) + 1)
      /\ \A k \in DOMAIN bidResponse.ads : bidResponse'.ads[k] = bidResponse.ads[k]
      /\ bidResponse'.ads[Len(bidResponse.ads) + 1] = ad
  BY <1>f, <1>g, AppendProperties, SMTT(20)
<1>1. TypeOK'
  <2>1. Len(conds) \in Nat
    BY SMTT(20) DEF IInv, TypeOK, CondSeq
  <2>2. Len(logs') <= Len(conds')
    BY <1>e, <1>f, <2>1, SMTT(20)
  <2>3. calls' \in Seq(Calls) /\ added' \in BOOLEAN
    BY EmptySeq
  <2>4. TypeOK
    BY DEF IInv
  <2> QED
    BY <1>c, <1>e, <1>g, <2>2, <2>3, <2>4 DEF TypeOK
<1>2. ResponseInv'
  <2>1. AdsOwn(bidResponse.ads) /\ n > 0
    BY DEF IInv, ResponseInv
  <2>2. \A k \in DOMAIN bidResponse.ads : /\ LoggedThen(bidResponse.ads[k])
                                         /\ bidResponse.ads[k].cond[2] \in 1 .. Len(logs)
                                         /\ bidResponse.ads[k].sid \in banned
    BY <1>c, <2>1, StillLogged DEF IInv, AdsOwn, AdLogged
  <2>3. LoggedThen(ad) /\ ad.cond[2] = Len(logs) + 1
    <3>1. ad.cond = <<n, Len(logs) + 1>> /\ ad.cond[2] = Len(logs) + 1 /\ ad.cond[2] \in DOMAIN logs'
      BY <1>e, <1>f, SMTT(20) DEF Cond, Idx
    <3>2. logs'[ad.cond[2]] = item
      BY <1>e, <3>1
    <3>3. item.ad = [cond |-> ad.cond, sid |-> ad.sid]
      BY <1>b, <1>c, <1>f
    <3>4. \A url \in LinksOf(ad) : url.user \in {None, item.user}
      BY <1>c, <1>f
    <3> QED
      BY <1>c, <1>f, <3>1, <3>2, <3>3, <3>4 DEF LoggedThen
  <2>4. \A k \in DOMAIN bidResponse'.ads : LoggedThen(bidResponse'.ads[k])
    <3> SUFFICES ASSUME NEW k \in DOMAIN bidResponse'.ads PROVE LoggedThen(bidResponse'.ads[k])
      OBVIOUS
    <3>1. CASE k \in DOMAIN bidResponse.ads
      BY <1>h, <2>2, <3>1
    <3>2. CASE k = Len(bidResponse.ads) + 1
      BY <1>h, <2>3, <3>2
    <3> QED
      BY <1>h, <3>1, <3>2, SMTT(20)
  <2>5. \A i \in DOMAIN logs' : logs'[i].accepted => \E k \in DOMAIN bidResponse'.ads : bidResponse'.ads[k].cond = <<n, i>>
    <3> SUFFICES ASSUME NEW i \in DOMAIN logs', logs'[i].accepted
                 PROVE  \E k \in DOMAIN bidResponse'.ads : bidResponse'.ads[k].cond = <<n, i>>
      OBVIOUS
    <3>1. CASE i \in DOMAIN logs
      <4>1. PICK k \in DOMAIN bidResponse.ads : bidResponse.ads[k].cond = <<n, i>>
        BY <1>e, <2>1, <3>1 DEF AdsOwn
      <4> QED
        BY <1>h, <4>1, SMTT(20)
    <3>2. CASE i = Len(logs) + 1
      BY <1>f, <1>h, <3>2, SMTT(20) DEF Cond, Idx
    <3> QED
      BY <1>e, <3>1, <3>2, SMTT(20)
  <2>6. \A j, k \in DOMAIN bidResponse'.ads : j < k =>
           /\ bidResponse'.ads[j].cond[2] < bidResponse'.ads[k].cond[2]
           /\ bidResponse'.ads[j].sid # bidResponse'.ads[k].sid
    <3> SUFFICES ASSUME NEW j \in DOMAIN bidResponse'.ads, NEW k \in DOMAIN bidResponse'.ads, j < k
                 PROVE  /\ bidResponse'.ads[j].cond[2] < bidResponse'.ads[k].cond[2]
                        /\ bidResponse'.ads[j].sid # bidResponse'.ads[k].sid
      OBVIOUS
    <3>1. j \in DOMAIN bidResponse.ads /\ bidResponse'.ads[j] = bidResponse.ads[j]
      BY <1>h, SMTT(20)
    <3>2. CASE k \in DOMAIN bidResponse.ads
      <4>1. bidResponse'.ads[k] = bidResponse.ads[k]
        BY <1>h, <3>2
      <4>2. bidResponse.ads[j].cond[2] < bidResponse.ads[k].cond[2] /\ bidResponse.ads[j].sid # bidResponse.ads[k].sid
        BY <2>1, <3>1, <3>2 DEF AdsOwn
      <4> QED
        BY <3>1, <4>1, <4>2
    <3>3. CASE k = Len(bidResponse.ads) + 1
      <4>1. bidResponse'.ads[k] = ad
        BY <1>h, <3>3
      <4>2. bidResponse.ads[j].cond[2] \in 1 .. Len(logs) /\ bidResponse.ads[j].sid \in banned
        BY <2>2, <3>1
      <4>3. bidResponse.ads[j].cond[2] < ad.cond[2] /\ bidResponse.ads[j].sid # ad.sid
        BY <1>e, <1>f, <2>3, <4>2, SMTT(20)
      <4> QED
        BY <3>1, <4>1, <4>3
    <3> QED
      BY <1>h, <3>2, <3>3, SMTT(20)
  <2>7. AdsOwn(bidResponse.ads)'
    BY <2>4, <2>5, <2>6, AdsThen
  <2> QED
    BY <1>g, <2>1, <2>7 DEF ResponseInv
<1>3. SentInv'
  BY DEF IInv, SentInv
<1>4. BuildInv'
  BY DEF BuildInv
<1>5. LogInv' /\ (looked => (log.user # None => log.user[1] = n) /\ OwnUser)'
  BY <1>c, <1>d, LogsKeep
<1>6. UserInv'
  BY <1>5, <1>e DEF IInv, UserInv, SohuInv
<1> QED
  BY <1>1, <1>2, <1>3, <1>4, <1>5, <1>6 DEF IInv

\* The build throws: whatever is in the response is not sent.
LEMMA ThrowsKeeps == IInv /\ BuildThrows => IInv'
<1> SUFFICES ASSUME IInv, BuildThrows PROVE IInv'
  OBVIOUS
<1>a. /\ pc = "build" /\ bidResponse' = Response /\ calls' = <<>> /\ added' = FALSE /\ pc' = "idle"
      /\ sent' = Answer("error", NewResponse)
      /\ UNCHANGED <<adx, n, cm, isDeal, adInfo, flow, device, conds, told, looked, banned, log, logs>>
  BY DEF BuildThrows, EndBuild, request
<1> USE <1>a
<1>1. bidResponse' \in [id : Nat, ads : Seq(Ad)]
  <2>1. bidResponse \in [id : Nat, ads : Seq(Ad)] /\ ad \in Ad
    BY DEF IInv, TypeOK
  <2>2. Append(bidResponse.ads, ad) \in Seq(Ad)
    BY <2>1, AppendProperties
  <2> QED
    BY <2>1, <2>2 DEF Response
<1>2. sent' = [kind |-> "error", id |-> 0, ads |-> <<>>]
  BY DEF Answer, NewResponse
<1>3. TypeOK'
  <2>1. TypeOK
    BY DEF IInv
  <2>2. calls' \in Seq(Calls) /\ <<>> \in Seq(Ad)
    BY <1>a, EmptySeq
  <2>3. sent' \in [kind : {"none", "bid", "reject", "error"}, id : Nat, ads : Seq(Ad)]
    BY <1>2, NoAds
  <2> QED
    BY <1>1, <2>1, <2>2, <2>3 DEF TypeOK
<1>4. ResponseInv' /\ BuildInv'
  BY DEF ResponseInv, BuildInv
<1>5. SentInv'
  BY <1>2, SMTT(20) DEF SentInv
<1>6. LogInv'
  BY LogFrame DEF IInv
<1>7. UserInv'
  BY DEF IInv, UserInv, SohuInv, OwnUser
<1> QED
  BY <1>3, <1>4, <1>5, <1>6, <1>7 DEF IInv

\* The response is sent as it is, or none.
LEMMA FinishKeeps == IInv /\ Finish => IInv'
<1> SUFFICES ASSUME IInv, Finish PROVE IInv'
  OBVIOUS
<1>a. /\ pc = "bid" /\ pc' = "idle"
      /\ \/ (\E i \in DOMAIN logs : logs[i].accepted) /\ sent' = Answer("bid", bidResponse)
         \/ sent' = Answer("reject", NewResponse)
      /\ UNCHANGED <<adx, n, cm, isDeal, bidResponse, adInfo, flow, calls, ad, added,
                     device, conds, told, looked, banned, log, logs>>
  BY DEF Finish, handler, build, request
<1> USE <1>a
<1>0. \/ /\ sent' = [kind |-> "bid", id |-> bidResponse.id, ads |-> bidResponse.ads]
         /\ bidResponse.id = n /\ AdsOwn(bidResponse.ads)
      \/ sent' = [kind |-> "reject", id |-> 0, ads |-> <<>>]
  BY DEF Answer, NewResponse, IInv, ResponseInv
<1>1. TypeOK'
  <2>1. TypeOK /\ <<>> \in Seq(Ad)
    BY EmptySeq DEF IInv
  <2>2. bidResponse.id \in Nat /\ bidResponse.ads \in Seq(Ad)
    BY <2>1 DEF TypeOK
  <2>3. sent' \in [kind : {"none", "bid", "reject", "error"}, id : Nat, ads : Seq(Ad)]
    <3>1. CASE sent' = [kind |-> "reject", id |-> 0, ads |-> <<>>]
      BY <3>1, NoAds
    <3>2. CASE sent' = [kind |-> "bid", id |-> bidResponse.id, ads |-> bidResponse.ads]
      BY <2>2, <3>2
    <3> QED
      BY <1>0, <3>1, <3>2
  <2> QED
    BY <2>1, <2>3 DEF TypeOK
<1>2. ResponseInv' /\ BuildInv'
  BY DEF ResponseInv, BuildInv
<1>3. SentInv'
  <2>1. CASE sent' = [kind |-> "reject", id |-> 0, ads |-> <<>>]
    BY <2>1 DEF SentInv
  <2>2. CASE /\ sent' = [kind |-> "bid", id |-> bidResponse.id, ads |-> bidResponse.ads]
             /\ bidResponse.id = n /\ AdsOwn(bidResponse.ads)
    <3>1. sent'.kind = "bid" /\ sent'.id = n' /\ sent'.ads = bidResponse.ads
      BY <2>2
    <3>2. AdsOwn(sent.ads)'
      BY <2>2, <3>1, SentFrame
    <3> QED
      BY <3>1, <3>2 DEF SentInv
  <2> QED
    BY <1>0, <2>1, <2>2
<1>4. LogInv'
  BY LogFrame DEF IInv
<1>5. UserInv'
  BY DEF IInv, UserInv, SohuInv, OwnUser
<1> QED
  BY <1>1, <1>2, <1>3, <1>4, <1>5 DEF IInv

-------------------------------------------------------------------------------
(* A request.                                                              *)

\* Whatever filter() makes of it, the request starts from an empty response, no
\* logs, and a user that is its own if it looked one up.
LEMMA StartKeeps ==
  ASSUME IInv, NEW r \in RequestsOf(adx), Start(r), told' \in Told,
         LookUp(Filter(adx, r)) \/ (looked' = FALSE /\ UNCHANGED cm),
         conds' \in CondSeq, NEW kind \in {"none", "reject", "error"}, sent' = Answer(kind, NewResponse),
         pc' \in {"idle", "bid"},
         adx = "sohu" /\ pc' = "bid" => Len(conds') = 1 /\ looked'
  PROVE  IInv'
<1>a. /\ pc = "idle" /\ n' = n + 1 /\ bidResponse' = [id |-> 0, ads |-> <<>>] /\ device' = r.device
      /\ banned' = {} /\ log' = NewLog /\ logs' = <<>>
      /\ UNCHANGED <<adx, adInfo, flow, calls, ad, added>>
  BY DEF Start, ParseRequestData, NewResponse, build
<1>b. sent' = [kind |-> kind, id |-> 0, ads |-> <<>>]
  BY DEF Answer, NewResponse
<1>c. <<>> \in Seq(Ad) /\ <<>> \in Seq(LogItem) /\ Len(<<>>) = 0 /\ DOMAIN logs' = {} /\ DOMAIN bidResponse'.ads = {}
  BY <1>a, EmptySeq, SMTT(20)
<1>d. NewLog \in LogItem /\ NewLog.user = None
  <2>1. NoCondition \in Conditions /\ NoAd \in AdInfo
    BY DEF NoAd, AdInfo, NoCondition, Conditions
  <2> QED
    BY <2>1 DEF NewLog, LogItem, User
<1>e. <<n + 1, 0>> \in Conditions /\ n' \in Nat /\ n' > 0
  BY <1>a, SMTT(20) DEF IInv, TypeOK, Conditions
<1>f. /\ looked' \in BOOLEAN
      /\ cm' \in CmInfo
      /\ \/ looked' = FALSE /\ cm' = cm
         \/ /\ cm'.user \in {None, <<n + 1, 0>>} /\ cm'.cypher = None
            /\ cm'.needRe => cm'.user = None
  <2>1. CASE looked' = FALSE /\ cm' = cm
    BY <2>1 DEF IInv, TypeOK
  <2>2. CASE LookUp(Filter(adx, r)) /\ ~(looked' = FALSE /\ cm' = cm)
    <3>1. PICK key : cm' \in Lookups(n + 1, key) /\ looked' \in BOOLEAN
      BY <2>2 DEF LookUp
    <3> DEFINE b == key = "cookie"
    <3>2. \/ cm' = [user |-> None, cypher |-> None, needRe |-> FALSE, cookieKey |-> b]
          \/ cm' = [user |-> <<n + 1, 0>>, cypher |-> None, needRe |-> FALSE, cookieKey |-> b]
          \/ cm' = [user |-> None, cypher |-> None, needRe |-> TRUE, cookieKey |-> b]
      BY <3>1, ZenonT(40) DEF Lookups, NewCmInfo
    <3>3. b \in BOOLEAN
      OBVIOUS
    <3> HIDE DEF b
    <3>4. None \in User /\ <<n + 1, 0>> \in User
      BY <1>e DEF User
    <3>5. CASE cm' = [user |-> <<n + 1, 0>>, cypher |-> None, needRe |-> FALSE, cookieKey |-> b]
      BY <3>1, <3>3, <3>4, <3>5 DEF CmInfo
    <3>6. CASE \E g \in BOOLEAN : cm' = [user |-> None, cypher |-> None, needRe |-> g, cookieKey |-> b]
      BY <3>1, <3>3, <3>4, <3>6, SMTT(20) DEF CmInfo
    <3> QED
      BY <3>2, <3>5, <3>6
  <2> QED
    BY <2>1, <2>2
<1>1. TypeOK'
  <2>1. r.device \in Devices
    BY ImpSeq
  <2>2. sent' \in [kind : {"none", "bid", "reject", "error"}, id : Nat, ads : Seq(Ad)]
    BY <1>b, <1>c, SMTT(20)
  <2>3. bidResponse' \in [id : Nat, ads : Seq(Ad)]
    BY <1>a, <1>c
  <2>4. Len(logs') <= Len(conds')
    BY <1>a, <1>c, SMTT(20) DEF CondSeq
  <2> QED
    BY <1>a, <1>c, <1>d, <1>e, <1>f, <2>1, <2>2, <2>3, <2>4 DEF IInv, TypeOK
<1>2. ResponseInv'
  <2>1. AdsOwn(bidResponse.ads)'
    BY <1>c DEF AdsOwn
  <2> QED
    BY <1>a, <1>c, <1>e, <2>1 DEF ResponseInv
<1>3. SentInv'
  BY <1>b, SMTT(20) DEF SentInv
<1>4. BuildInv'
  BY DEF BuildInv
<1>5. LogInv' /\ OwnUser'
  BY <1>a, <1>c DEF LogInv, LogOwnAd, OwnUser
<1>6. UserInv'
  <2>1. cm'.cypher \in {None, cm'.user} /\ (adx' \notin HasMappingUrl /\ cm'.needRe => cm'.user = None)
    BY <1>a, <1>f DEF IInv, UserInv
  <2>2. SohuInv'
    BY <1>a, <1>f DEF SohuInv
  <2>3. looked' => (cm'.user # None => cm'.user[1] = n')
    BY <1>a, <1>f, SMTT(20)
  <2> QED
    BY <1>a, <1>d, <1>5, <2>1, <2>2, <2>3 DEF UserInv
<1> QED
  BY <1>1, <1>2, <1>3, <1>4, <1>5, <1>6 DEF IInv

\* A new request starts from an empty response and no user, accepted or not.
LEMMA RequestKeeps ==
  ASSUME IInv, NEW r \in Requests, Accept(r) \/ RefuseRequest(r) \/ FilterThrows(r)
  PROVE  IInv'
<1>0. adx \in Adxs /\ pc \in {"idle", "bid", "build"}
  BY DEF IInv, TypeOK
<1>4. r \in RequestsOf(adx)
  <2>1. PICK a \in Adxs : r \in RequestsOf(a)
    BY BiddingAssumption
  <2>2. r.adx = a
    BY <2>1 DEF RequestsOf
  <2>3. r.adx = adx
    BY DEF Accept, RefuseRequest, FilterThrows, Start
  <2> QED
    BY <2>1, <2>2, <2>3
<1>5. NothingTold \in Told
  BY DEF NothingTold, Told
<1>1. CASE Accept(r)
  <2>1. /\ Filter(adx, r).go /\ Start(r) /\ LookUp(Filter(adx, r)) /\ conds' = Filter(adx, r).conds
        /\ pc' = "bid" /\ sent' = Answer("none", NewResponse) /\ told' \in Told
    BY <1>1, <1>4, ToldType DEF Accept
  <2>2. /\ Filter(adx, r).conds \in CondSeq
        /\ adx = "sohu" => Len(Filter(adx, r).conds) = 1 /\ Filter(adx, r).lookup # "no"
    BY <1>0, <1>4, <2>1, FilterFacts
  <2>3. adx = "sohu" => looked'
    BY <2>1, <2>2 DEF LookUp
  <2> QED
    BY <1>4, <2>1, <2>2, <2>3, StartKeeps
<1>2. CASE RefuseRequest(r)
  <2>1. /\ Start(r) /\ LookUp(Filter(adx, r)) /\ conds' = <<>>
        /\ pc' = "idle" /\ sent' = Answer("reject", NewResponse) /\ told' \in Told
    BY <1>2, <1>5 DEF RefuseRequest, Start
  <2>2. conds' \in CondSeq
    BY <2>1, EmptySeq DEF CondSeq
  <2> QED
    BY <1>4, <2>1, <2>2, StartKeeps
<1>3. CASE FilterThrows(r)
  <2>1. /\ Start(r) /\ (LookUp(Filter(adx, r)) \/ (looked' = FALSE /\ UNCHANGED cm)) /\ conds' = <<>>
        /\ pc' = "idle" /\ sent' = Answer("error", NewResponse) /\ told' \in Told
    BY <1>3, <1>5 DEF FilterThrows, Start
  <2>2. conds' \in CondSeq
    BY <2>1, EmptySeq DEF CondSeq
  <2> QED
    BY <1>4, <2>1, <2>2, StartKeeps
<1> QED
  BY <1>1, <1>2, <1>3

-------------------------------------------------------------------------------
(* The invariant and what follows.                                         *)

\* A handler just constructed.
LEMMA InvInit == Init => IInv
<1> SUFFICES ASSUME Init PROVE IInv
  OBVIOUS
<1> USE DEF Init
<1>1. <<>> \in Seq(Ad) /\ <<>> \in Seq(LogItem) /\ <<>> \in CondSeq /\ <<>> \in Seq(Calls) /\ Len(<<>>) = 0 /\ DOMAIN logs = {}
  BY EmptySeq, SMTT(20) DEF CondSeq
<1>2. NoCondition \in Conditions /\ NoAd \in AdInfo
  BY DEF NoAd, AdInfo, NoCondition, Conditions
<1>3. NewLog \in LogItem /\ NewLog.user = None
  BY <1>2 DEF NewLog, LogItem, User
<1>4. cm \in CmInfo
      /\ cm.user = None /\ cm.cypher = None
  BY DEF NewCmInfo, User, CmInfo
<1>5. bidResponse \in [id : Nat, ads : Seq(Ad)]
  BY <1>1 DEF NewResponse
<1>6. sent = [kind |-> "none", id |-> 0, ads |-> <<>>]
  BY DEF Answer, NewResponse
<1>7. sent \in [kind : {"none", "bid", "reject", "error"}, id : Nat, ads : Seq(Ad)]
  BY <1>6, NoAds
<1>8. TypeOK
  <2>1. adx \in Adxs /\ n \in Nat /\ pc \in {"idle", "bid", "build"} /\ device \in Devices /\ looked \in BOOLEAN
        /\ told \in Told
    BY BiddingAssumption DEF Devices, Told, NothingTold
  <2>2. conds \in CondSeq /\ logs \in Seq(LogItem) /\ calls \in Seq(Calls) /\ Len(logs) <= Len(conds)
    BY <1>1, SMTT(20)
  <2> QED
    BY <1>2, <1>3, <1>4, <1>5, <1>7, <2>1, <2>2 DEF TypeOK
<1>9. ResponseInv /\ SentInv /\ BuildInv
  BY <1>1, <1>6, SMTT(20) DEF ResponseInv, SentInv, BuildInv
<1>11. LogInv
  BY <1>1 DEF LogInv, LogOwnAd
<1>10. UserInv
  BY <1>4 DEF UserInv, SohuInv
<1> QED
  BY <1>8, <1>9, <1>10, <1>11 DEF IInv

\* Every step of a bid request keeps the invariant, for every exchange.
LEMMA InvStep == IInv /\ [Next]_vars => IInv'
<1> SUFFICES ASSUME IInv, [Next]_vars PROVE IInv'
  OBVIOUS
<1>1. CASE \E r \in Requests : Accept(r) \/ RefuseRequest(r) \/ FilterThrows(r)
  BY <1>1, RequestKeeps
<1>2. CASE SearchFails
  BY <1>2, FailsKeeps
<1>3. CASE \E s \in Solutions : SearchFinds(s)
  BY <1>3, FindsKeeps
<1>4. CASE OpenResponse \/ AddAd \/ FillAdInfo \/ RedoCookieMapping
  BY <1>4, OpenKeeps, AddKeeps, InfoKeeps, RedoKeeps
<1>5. CASE GetShowPara \/ GetClickPara \/ SetDealId \/ CheckStyle
  BY <1>5, ShowKeeps, ClickKeeps, DealKeeps, StyleKeeps
<1>6. CASE BuildThrows \/ Built \/ Finish
  BY <1>6, ThrowsKeeps, BuiltKeeps, FinishKeeps
<1>7. CASE UNCHANGED vars
  <2> USE <1>7 DEF vars, handler, build, request
  <2>1. TypeOK'
    BY DEF IInv, TypeOK
  <2>2. ResponseInv'
    BY AdsFrame DEF IInv, ResponseInv
  <2>3. SentInv'
    <3>1. sent' = sent /\ logs' = logs /\ n' = n /\ banned' = banned /\ pc' = pc /\ SentInv
      BY DEF IInv
    <3>2. AdsOwn(sent.ads) => AdsOwn(sent.ads)'
      BY <3>1, SentFrame
    <3> QED
      BY <3>1, <3>2 DEF SentInv
  <2>4. BuildInv'
    BY DEF IInv, BuildInv, Cond, Idx, LinksOwn, LinksOf
  <2>5. UserInv' /\ LogInv'
    BY LogFrame DEF IInv, UserInv, SohuInv, OwnUser
  <2> QED
    BY <2>1, <2>2, <2>3, <2>4, <2>5 DEF IInv
<1> QED
  BY <1>1, <1>2, <1>3, <1>4, <1>5, <1>6, <1>7 DEF Next

\* Of a handler that serves one request after the other, whatever it refused or
\* failed at before: the response under way and the answer are made of the
\* accepted logs of the request, a build has ahead what it has not done, and the
\* user of cmInfo is the one of the urls and of the log.
THEOREM HandlerInvariant == Spec => []IInv
  BY InvInit, InvStep, PTL DEF Spec

\* The handler's members, the log item and the answer keep their types, and no
\* more conditions are logged than filter() made.
THEOREM TypeCorrect == Spec => []TypeOK
  BY HandlerInvariant, PTL DEF IInv

\* A bid response has the id of its request, and exactly the ads of the accepted
\* logs, in their order: parseRequestData() empties the response that a failed
\* request left behind.
THEOREM ResponsesOwn == Spec => []ResponseIsOwn
<1>1. IInv => ResponseIsOwn
  BY DEF IInv, SentInv, ResponseIsOwn, AdsOwn, AdLogged
<1> QED
  BY <1>1, HandlerInvariant, PTL

\* The log of a condition names the ad and the flow of that condition.  What the
\* reused log item carries over into the log of a condition without an ad is of
\* the same request: the area and media type of the last accepted condition and
\* the content types from it on; keywords, too, are of the same request.
THEOREM LogsOwn == Spec => []LogOwnAd
<1>1. IInv => LogOwnAd
  BY DEF IInv, LogInv
<1> QED
  BY <1>1, HandlerInvariant, PTL

\* The urls of an ad charge that ad: in all 14 exchanges fillAdInfo() comes before
\* getShowPara() and getClickPara().
THEOREM UrlsOwn == Spec => []UrlsOwnAd
<1>1. IInv => UrlsOwnAd
  BY DEF IInv, SentInv, UrlsOwnAd, AdsOwn, AdLogged, LinksOwn, LinksOf
<1> QED
  BY <1>1, HandlerInvariant, PTL

\* No two ads of a response are of one solution: bannedSolutions.
THEOREM SolutionsDistinct == Spec => []DistinctSolutions
<1>1. IInv => DistinctSolutions
  <2> SUFFICES ASSUME IInv, NEW j \in DOMAIN sent.ads, NEW k \in DOMAIN sent.ads, j # k
               PROVE  sent.ads[j].sid # sent.ads[k].sid
    BY DEF DistinctSolutions
  <2>1. sent.ads \in Seq(Ad) /\ j \in Nat /\ k \in Nat
    BY SMTT(20) DEF IInv, TypeOK
  <2>2. sent.kind = "bid"
    BY SMTT(20) DEF IInv, SentInv
  <2>3. j < k \/ k < j
    BY <2>1, SMTT(20)
  <2> QED
    BY <2>2, <2>3 DEF IInv, SentInv, AdsOwn
<1> QED
  BY <1>1, HandlerInvariant, PTL

\* The user in the urls of an ad is the one of its log: redoCookieMapping() comes
\* before the urls where it may be asked again, and otherwise finds no user yet.
THEOREM UsersConsistent == Spec => []UserConsistent
<1>1. IInv => UserConsistent
  BY DEF IInv, SentInv, UserConsistent, AdsOwn, AdLogged, LinksOf
<1> QED
  BY <1>1, HandlerInvariant, PTL

\* A request that looked its user up is never logged with the user of another.
THEOREM UsersOwn == Spec => []OwnUser
<1>1. IInv => OwnUser
  BY DEF IInv, UserInv, OwnUser
<1> QED
  BY <1>1, HandlerInvariant, PTL
==============================================================================
