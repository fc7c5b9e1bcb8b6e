------------------------------ MODULE Charging ------------------------------
(***************************************************************************)
(* What an impression and a click cost and earn: the parameters of show    *)
(* and click urls (utility/url, show_query_task, the bid handler's         *)
(* getShowPara and getClickPara) and the price rules a request applies to  *)
(* them (abstract_query_task).  Pure operators, used by Delivery.          *)
(*                                                                         *)
(* An ad stands for a SelectResult together with the auction it won:       *)
(* priceType is how the advertiser settles, fee the settlement price,      *)
(* rate the advertiser's fee rate in percent; buyType and base are how an  *)
(* SSP placement is bought and its price; win is the price the exchange    *)
(* reports and deal the number of a deal, 0 without one.  Prices are in    *)
(* the integers the code uses, fee rates in percent instead of doubles.    *)
(***************************************************************************)
EXTENDS Integers, Sequences

\* Numbers of mtty/constants.h; only that they differ matters.
PRICETYPE_RCPC == 3
PRICETYPE_RRTB_CPM == 4
PRICETYPE_RRTB_CPC == 5
PriceTypes == {PRICETYPE_RCPC, PRICETYPE_RRTB_CPM, PRICETYPE_RRTB_CPC}

\* Exchanges with one price for every impression (NetEase, Yidian), the
\* others, and the server's own placements.
Adx == {"fixed", "rtb", "ssp"}
AdTerms == [adx : Adx, priceType : PriceTypes, fee : Nat, rate : Nat,
            buyType : {0, PRICETYPE_RRTB_CPM, PRICETYPE_RRTB_CPC}, base : Nat,
            win : Nat, deal : Nat, owner : STRING, order : STRING,
            counted : BOOLEAN, native : BOOLEAN]

IsCpc(priceType) == priceType \in {PRICETYPE_RRTB_CPC, PRICETYPE_RCPC}
Ceil(n, d) == (n + d - 1) \div d

-----------------------------------------------------------------------------
(* Faulty variants of some definitions; no specification uses them.        *)

\* The price of the placement goes into every click url.
BuildResponseForSspAlways(ad) ==
  [b |-> ad.fee, pt |-> ad.priceType, buy |-> PRICETYPE_RRTB_CPC, p |-> ad.base * 100,
   rate |-> ad.rate, split |-> TRUE]

-----------------------------------------------------------------------------
(* Urls.  A url is a function from parameter names to values.              *)

\* numberEncode(): groups of seven bits, lowest first, each but the last
\* marked by the eighth bit.
Groups[n \in Nat] == IF n = 0 THEN <<>> ELSE <<(n % 128) + 128>> \o Groups[n \div 128]
NumberEncode(n) == [Groups[n] EXCEPT ![Len(Groups[n])] = @ - 128]

\* numberDecode(): the groups up to the first one without a mark.
NumberDecode(bytes) ==
  LET value[i \in DOMAIN bytes] ==
        IF bytes[i] > 127 THEN (bytes[i] - 128) + 128 * value[i + 1] ELSE bytes[i]
  IN value[1]

\* The parameters of paramBindingTable that prices depend on, and those of
\* them that are PARAM_INT.
Params == {"b", "p", "pt", "deal", "rate", "split", "buy"}
IntParams == {"b", "pt", "deal", "buy"}

\* cipherParam() followed by processParamData(): a number that is not
\* positive is written as 0, and neither it nor an empty string is put into
\* the map again.
Cipher(url) ==
  LET kept == {k \in DOMAIN url : k \in IntParams => url[k] > 0}
  IN [k \in kept |-> IF k \in IntParams THEN NumberDecode(NumberEncode(url[k])) ELSE url[k]]

Get(url, param, default) == IF param \in DOMAIN url THEN url[param] ELSE default
With(url, more) == [k \in DOMAIN url \cup DOMAIN more |->
                      IF k \in DOMAIN more THEN more[k] ELSE url[k]]

\* getShowPara(), with the deal that the exchange's handler adds.
ShowUrl(ad) ==
  [b |-> ad.fee, pt |-> ad.priceType, rate |-> ad.rate, split |-> TRUE, deal |-> ad.deal]

\* The show request: the exchange has put its price beside the ciphered
\* parameters, and commonLogic() takes it over.
ShowRequest(ad) == With(Cipher(ShowUrl(ad)), [p |-> ad.win])

\* getClickPara(): the click url of an ad without a page of ours, with the
\* price that the handlers of the exchanges with a fixed one add.
ClickUrl(ad) ==
  With([b |-> ad.fee, pt |-> ad.priceType, rate |-> ad.rate, split |-> TRUE],
       IF ad.adx = "fixed" THEN [p |-> ad.win] ELSE <<>>)

\* buildResponseForDsp(): the page's click url repeats the show url.
BuildResponseForDsp(url) ==
  With(url, [p |-> Get(url, "p", 0), rate |-> Get(url, "rate", 0)])

\* buildResponseForSsp(): price and fee rate of the placement only when they
\* are due at the click.
BuildResponseForSsp(ad) ==
  With(With([b |-> ad.fee, pt |-> ad.priceType],
            IF ad.buyType = PRICETYPE_RRTB_CPC
              THEN [buy |-> PRICETYPE_RRTB_CPC, p |-> ad.base * 100] ELSE <<>>),
       IF IsCpc(ad.priceType) THEN [rate |-> ad.rate, split |-> TRUE] ELSE <<>>)

-----------------------------------------------------------------------------
(* Prices.  A booking is what a log says of money: the cost of the         *)
(* placement, what the advertiser spends and whether its fee is split up.  *)

Booking == [cost : Nat, spend : Nat, split : BOOLEAN]
NoBooking == [cost |-> 0, spend |-> 0, split |-> FALSE]

\* calcPrice() in the phase SHOW of an exchange.
CalcPriceShow(fixed, decodePrice, offerPrice, rate, split, priceType, buyType) ==
  [cost  |-> IF buyType = PRICETYPE_RRTB_CPM THEN decodePrice ELSE 0,
   spend |-> IF IsCpc(priceType) THEN 0
             ELSE IF fixed THEN offerPrice ELSE Ceil(decodePrice * rate, 100),
   split |-> ~IsCpc(priceType) /\ split]

\* calcPrice() in the phase CLICK.
CalcPriceClick(decodePrice, offerPrice, split, priceType, buyType) ==
  [cost  |-> IF buyType = PRICETYPE_RRTB_CPM THEN 0 ELSE decodePrice * 1000,
   spend |-> IF IsCpc(priceType) THEN offerPrice * 1000 ELSE 0,
   split |-> IsCpc(priceType) /\ split]

\* parseObjectToLogItem(): the price rules applied to the parameters of a
\* request.  A reported price that is empty decodes to 0; that a price fails
\* to decode, and the log has none and status 500, is left out.
ParseObjectToLogItem(adx, url, phase) ==
  LET rate == IF Get(url, "rate", 100) <= 100 THEN 100 ELSE url["rate"]
      decodePrice == Get(url, "p", 0)
      isDeal == "p" \in DOMAIN url /\ "deal" \in DOMAIN url
      fixed == isDeal \/ adx = "fixed"
      offer == Get(url, "b", 0)
      offerPrice == IF fixed /\ offer = 0 THEN decodePrice ELSE offer
      split == Get(url, "split", FALSE)
      priceType == Get(url, "pt", 0)
      buyType == Get(url, "buy", PRICETYPE_RRTB_CPM)
  IN IF phase = "SHOW"
       THEN CalcPriceShow(fixed, decodePrice, offerPrice, rate, split, priceType, buyType)
       ELSE CalcPriceClick(decodePrice, offerPrice, split, priceType, buyType)

\* The prices that an SSP show puts into its log itself.
SspShowPrice(ad) ==
  [cost  |-> IF ad.buyType = PRICETYPE_RRTB_CPC THEN 0 ELSE ad.base * 100,
   spend |-> IF IsCpc(ad.priceType) THEN 0 ELSE ad.fee,
   split |-> ~IsCpc(ad.priceType)]

-----------------------------------------------------------------------------
(* What is due, independently of urls and requests.                        *)

SettledAt(ad) == IF IsCpc(ad.priceType) THEN "CLICK" ELSE "SHOW"
BoughtAt(ad) == IF ad.adx = "ssp" /\ ad.buyType = PRICETYPE_RRTB_CPC THEN "CLICK" ELSE "SHOW"

\* The price of a thousand impressions or of one click, times a thousand.
\* A fee rate never lowers the price.
DueSpend(ad) ==
  LET fixed == ad.adx = "fixed" \/ ad.deal # 0
      rate == IF ad.rate <= 100 THEN 100 ELSE ad.rate
      agreed == IF ad.adx # "ssp" /\ fixed /\ ad.fee = 0 THEN ad.win ELSE ad.fee
  IN CASE IsCpc(ad.priceType) -> agreed * 1000
       [] ~IsCpc(ad.priceType) /\ (ad.adx = "ssp" \/ fixed) -> agreed
       [] OTHER -> Ceil(ad.win * rate, 100)
DueCost(ad) ==
  IF ad.adx # "ssp" THEN ad.win
  ELSE IF BoughtAt(ad) = "CLICK" THEN ad.base * 100 * 1000 ELSE ad.base * 100

\* Due(ad, phase): all of the spend and all of the cost is booked in one
\* phase each, the fee split together with the spend.
Due(ad, phase) ==
  [cost |-> IF BoughtAt(ad) = phase THEN DueCost(ad) ELSE 0,
   spend |-> IF SettledAt(ad) = phase THEN DueSpend(ad) ELSE 0,
   split |-> SettledAt(ad) = phase]
=============================================================================
