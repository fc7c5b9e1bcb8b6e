-------------------------- MODULE MCCookieMapping --------------------------
(* Instances of CookieMapping.  Two phones send the same placeholder for    *)
(* an idfa; the second one and the browser share an exchange user id.       *)
EXTENDS CookieMapping

MCSeq == [w \in Workers |-> IF w = CHOOSE v \in Workers : TRUE THEN 1 ELSE 0]
MCKinds == <<"idfa", "imei">>
MCExcluded == {<<"idfa", "zero">>}
MCPhones == {{<<"idfa", "zero">>, <<"imei", "m1">>},
             {<<"idfa", "zero">>, <<"imei", "m2">>, <<MobileKind, "t">>}}
MCKeys == UNION MCPhones
MCAdxUid == [b \in Browsers |-> "t"]
MCLegacy == {<<"imei", "m1">>}
=============================================================================
