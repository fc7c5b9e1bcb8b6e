----------------------------- MODULE MCDelivery -----------------------------
(* Instances of Delivery. *)
EXTENDS Delivery, TLC

Base == [adx |-> "rtb", priceType |-> PRICETYPE_RRTB_CPM, fee |-> 300, rate |-> 150,
         buyType |-> 0, base |-> 0, win |-> 201, deal |-> 0,
         owner |-> "v1", order |-> "o1", counted |-> TRUE, native |-> FALSE]
Ssp(p, b) == [Base EXCEPT !.adx = "ssp", !.priceType = p, !.buyType = b, !.base = 2, !.win = 0]
MCTerms ==
  [cpm   |-> Base,
   low   |-> [Base EXCEPT !.rate = 80],
   cpc   |-> [Base EXCEPT !.priceType = PRICETYPE_RRTB_CPC, !.native = TRUE, !.counted = FALSE],
   deal  |-> [Base EXCEPT !.deal = 128, !.fee = 0],
   dealC |-> [Base EXCEPT !.deal = 16384, !.priceType = PRICETYPE_RCPC, !.native = TRUE],
   fixed |-> [Base EXCEPT !.adx = "fixed", !.native = TRUE, !.owner = "v2"],
   fixC  |-> [Base EXCEPT !.adx = "fixed", !.priceType = PRICETYPE_RRTB_CPC, !.fee = 0, !.native = TRUE],
   sspMM |-> Ssp(PRICETYPE_RRTB_CPM, 0),
   sspMC |-> Ssp(PRICETYPE_RRTB_CPM, PRICETYPE_RRTB_CPC),
   sspCM |-> Ssp(PRICETYPE_RCPC, PRICETYPE_RRTB_CPM),
   sspCC |-> Ssp(PRICETYPE_RCPC, PRICETYPE_RRTB_CPC)]
MCAds == DOMAIN MCTerms
\* Every kind of terms with a show and a click; shows of two ads that
\* overlap; clicks and traces of one ad and of two advertisers; all three.
T(ads, kinds, requests, time, faulty, ends) ==
  [ads |-> ads, kinds |-> kinds, maxRequests |-> requests, maxTime |-> time,
   maxFaults |-> faulty, maxExpired |-> ends]
MCTraffics ==
  {T({ad}, {"show", "click"}, 2, 0, 0, 0) : ad \in MCAds}
  \cup {T({"cpm", "cpc"}, {"show"}, 2, 0, 1, 1),
        T({"cpc"}, {"click", "trace"}, 3, 0, 1, 1),
        T({"cpc", "fixed"}, {"click", "trace"}, 2, 1, 1, 1),
        T({"sspCC"}, {"show", "click", "trace"}, 3, 0, 0, 0)}
Symmetry == Permutations(Users) \cup Permutations(Workers)
=============================================================================
