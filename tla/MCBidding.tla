----------------------------- MODULE MCBidding -----------------------------
(* Instances of Bidding: three solutions, one of them a deal, and of the   *)
(* requests of an exchange one for each way its handler can treat them.    *)
EXTENDS Bidding

AllExchanges == Adxs
DealFlagExchanges == {"youku", "nex"}
SomeSolutions == {[sid |-> 1, deal |-> TRUE, banner |-> "native"],
                  [sid |-> 2, deal |-> FALSE, banner |-> "html"],
                  [sid |-> 3, deal |-> FALSE, banner |-> "video"]}

\* All that the actions of Bidding ask about a request.
Treatment(a, r) ==
  <<Filter(a, r), IsDealAfterFilter(a, r, TRUE), IsDealAfterFilter(a, r, FALSE),
    Typed(a, r), Worded(a, r), [b \in Banners |-> Build(a, r.device, b)], r.imps = <<>>>>

OneOfEach ==
  UNION {{CHOOSE r \in RequestsOf(a) : Treatment(a, r) = w :
            w \in {Treatment(a, r) : r \in RequestsOf(a)}} : a \in Exchanges}
=============================================================================
