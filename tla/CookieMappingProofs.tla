------------------------ MODULE CookieMappingProofs ------------------------
(***************************************************************************)
(* The invariants of CookieMapping hold for any workers, devices, browsers *)
(* and bounds.                                                             *)
(***************************************************************************)
EXTENDS CookieMapping, SequenceTheorems, WellFoundedInduction, TLAPS

\* Steps are for Zenon unless they name another prover.
USE ZenonT(60)


-------------------------------------------------------------------------------
(* The inductive invariant and the steps of a handler.                     *)

\* What the handler of a busy worker holds belongs to its current request.
HandlerInv ==
  \A w \in Workers : cond[w] > 0 =>
    /\ ~cm[w].isAdxCookie => cm[w].devices \subseteq cur[w].keys
    /\ cm[w].needTouch /\ cm[w].isAdxCookie => cm[w].key \in cur[w].keys
    /\ cm[w].needFix => ~cm[w].isAdxCookie
    /\ cm[w].needTouch \/ cm[w].needFix =>
         cm[w].user # None /\ cur[w].keys \subseteq claims[cm[w].user]

\* Requests have numbers of their own, and a handler whose lookup timed out
\* has nothing to do.
RequestInv ==
  /\ \A w \in Workers : cond[w] = 0 => cur[w] = NoRequest
  /\ \A w \in Workers : cond[w] > 0 => cur[w].bid \in 1..bids
  /\ \A w, v \in Workers : cond[w] > 0 /\ cond[v] > 0 /\ cur[w].bid = cur[v].bid => w = v
  /\ \A w \in Workers : cur[w].timeout =>
       ~cm[w].needRe /\ ~cm[w].needTouch /\ ~cm[w].needFix
  /\ \A op \in inflight : op.bid[1] \in 1..bids

\* The operations of a request that is still served are for the user its
\* handler holds; before an id is made there are none.
BidUserInv ==
  \A w \in Workers, op \in inflight :
    cond[w] > 0 /\ op.bid[1] = cur[w].bid => ~cm[w].needRe /\ op.user = cm[w].user

IInv == /\ TypeOK /\ NoForeignUser /\ HandlerInv
        /\ RequestInv /\ SilentAfterTimeout /\ BidUserInv /\ OneUserPerBid

\* The bounds are natural numbers and None is a value of its own.
LEMMA Bounds ==
  /\ None \notin Users /\ None \notin Keys /\ None \notin Browsers
  /\ MaxMs \in Nat \ {0} /\ MaxBids \in Nat /\ MaxConditions \in Nat \ {0}
  /\ MaxVisits \in Nat /\ MaxFaults \in Nat
BY CookieMappingAssumption

\* Among the ids an app request binds there is a most trusted one, and it is
\* the query key.
LEMMA FirstKey ==
  ASSUME NEW phone \in Phones, NEW c \in CmInfo, Bound(phone) # {}
  PROVE  CookieMappingKeyMobile(c, phone).key \in Bound(phone)
<1> DEFINE bound == Bound(phone)
           kinds == {k[1] : k \in bound}
           First(k) == \E i \in DOMAIN BindOrder :
                         /\ BindOrder[i] = k[1]
                         /\ \A j \in 1..(i - 1) : BindOrder[j] \notin kinds
           T == {i \in DOMAIN BindOrder : BindOrder[i] \in kinds}
<1>1. BindOrder \in Seq(STRING \cup {MobileKind})
  <2>1. DeviceKinds \in Seq(STRING)
    BY CookieMappingAssumption DEF CookieMappingAssumption
  <2>2. DeviceKinds \in Seq(STRING \cup {MobileKind})
    BY ONLY <2>1, SMTT(20)
  <2> QED
    BY ONLY <2>2, AppendProperties DEF BindOrder
<1>2. T \subseteq Nat /\ DOMAIN BindOrder = 1..Len(BindOrder) /\ Len(BindOrder) \in Nat
  BY <1>1, SMTT(20)
<1>3. T # {}
  BY CookieMappingAssumption, SMTT(20) DEF Bound
<1>4. PICK i \in T : \A j \in T : ~(<<j, i>> \in OpToRel(<, Nat))
  BY ONLY <1>2, <1>3, WFMin, NatLessThanWellFounded
<1>5. \A j \in T : ~(j < i)
  BY <1>2, <1>4 DEF OpToRel
<1>6. \A j \in 1..(i - 1) : BindOrder[j] \notin kinds
  BY <1>2, <1>5, SMTT(20)
<1>7. PICK k \in bound : k[1] = BindOrder[i]
  <2>1. BindOrder[i] \in kinds
    BY ONLY <1>4
  <2> QED
    BY ONLY <2>1
<1>8. First(k)
  BY <1>2, <1>6, <1>7
<1>9. (CHOOSE x \in bound : First(x)) \in bound
  BY <1>8
<1>10. CookieMappingKeyMobile(c, phone).key = CHOOSE x \in bound : First(x)
  BY DEF CookieMappingKeyMobile, CmInfo
<1> QED
  BY <1>9, <1>10

\* New ids are users, and so is the user of the records without origin id.
LEMMA UserIds ==
  /\ LegacyUser \in Users
  /\ now \in 1..MaxMs => \A w \in Workers : NewUsers(w) \subseteq Users
<1>1. Seqs # {}
  BY CookieMappingAssumption DEF Seqs
<1>2. LegacyUser \in Users
  BY <1>1, CookieMappingAssumption, SMTT(20) DEF LegacyUser, Users
<1>3. now \in 1..MaxMs => \A w \in Workers : NewUsers(w) \subseteq Users
  BY SMTT(20) DEF NewUsers, Users, Seqs
<1> QED
  BY <1>2, <1>3

\* The user a lookup finds claims the key it was found under, and a lookup
\* that timed out asks for no write.
LEMMA Lookup ==
  ASSUME TypeOK, NoForeignUser, NEW b \in CmInfo, NEW answer
  PROVE  LET c == QueryCookieMapping(b, answer)
         IN  /\ c \in CmInfo
             /\ c.key = b.key /\ c.devices = b.devices /\ c.isAdxCookie = b.isAdxCookie
             /\ c.user # None => b.key # None /\ b.key \in claims[c.user]
             /\ c.needTouch \/ c.needFix => c.user # None
             /\ c.needFix => ~c.isAdxCookie
             /\ answer = "timeout" /\ b.key # None =>
                  ~c.needRe /\ ~c.needTouch /\ ~c.needFix
<1> DEFINE c == QueryCookieMapping(b, answer)
           found == b.key # None /\ answer = "ok" /\ store[b.key] # None
<1>1. found => b.key \in Keys /\ store[b.key] \in Record
  BY DEF TypeOK, CmInfo
<1>2. found => store[b.key].user \in Users /\ store[b.key].user # None
  BY <1>1, Bounds DEF Record
<1>3. /\ c.key = b.key /\ c.devices = b.devices /\ c.isAdxCookie = b.isAdxCookie
      /\ c.user = (IF found THEN store[b.key].user ELSE None)
      /\ c.needRe = (IF b.key # None THEN ~found /\ answer # "timeout" ELSE b.isAdxCookie)
      /\ c.needFix = (found /\ ~b.isAdxCookie /\ ~store[b.key].origin)
      /\ c.needTouch = (found /\ ~(found /\ ~b.isAdxCookie /\ ~store[b.key].origin))
  BY DEF QueryCookieMapping, CmInfo
<1>4. c \in CmInfo
  BY <1>1, <1>2 DEF QueryCookieMapping, CmInfo
<1>5. c.user # None => b.key # None /\ b.key \in claims[c.user]
  BY <1>1, <1>2, <1>3 DEF NoForeignUser
<1>6. c.needTouch \/ c.needFix => c.user # None
  BY <1>2, <1>3
<1>7. answer = "timeout" /\ b.key # None => ~c.needRe /\ ~c.needTouch /\ ~c.needFix
  BY <1>3
<1> QED
  BY <1>3, <1>4, <1>5, <1>6, <1>7

\* Nothing is mapped yet.
LEMMA InitIInv == Init => IInv
<1> SUFFICES ASSUME Init PROVE IInv
  OBVIOUS
<1> USE DEF Init
<1>1. store \in [Keys -> Record \cup {None}]
  BY UserIds DEF Record
<1>2. cm \in [Workers -> CmInfo]
  BY DEF CmInfo
<1>3. cur \in [Workers -> Request]
  BY Bounds, SMTT(20) DEF Request, NoRequest
<1>4. TypeOK
  <2>1. now \in 1..MaxMs /\ claims \in [Users -> SUBSET Keys]
    BY CookieMappingAssumption, SMTT(20)
  <2>2. /\ cond \in [Workers -> 0..MaxConditions]
        /\ bids \in 0..MaxBids /\ visits \in 0..MaxVisits /\ faults \in 0..MaxFaults
    BY Bounds, SMTT(20)
  <2>4. inflight \subseteq Op /\ lost \in BOOLEAN
    OBVIOUS
  <2>3. /\ urls \in [Browsers -> SUBSET Users]
        /\ cookie \in [Browsers -> Users \cup {None}]
    OBVIOUS
  <2> QED
    BY ONLY <1>1, <1>2, <1>3, <2>1, <2>2, <2>3, <2>4 DEF TypeOK
<1>5. NoForeignUser
  BY UserIds DEF NoForeignUser
<1>6. HandlerInv /\ RequestInv
  BY SMTT(20) DEF HandlerInv, RequestInv, NoRequest
<1>7. SilentAfterTimeout /\ BidUserInv /\ OneUserPerBid
  BY DEF SilentAfterTimeout, BidUserInv, OneUserPerBid
<1> QED
  BY <1>4, <1>5, <1>6, <1>7 DEF IInv

\* A request goes on to its next condition or ends; what it is about stays.
CurStep ==
  \A v \in Workers :
    /\ cond'[v] = 0 => cur'[v] = NoRequest
    /\ cond'[v] > 0 => /\ cond[v] > 0
                       /\ cur'[v].bid = cur[v].bid /\ cur'[v].keys = cur[v].keys
                       /\ cur'[v].timeout = cur[v].timeout

\* Steps that neither touch a handler nor add operations keep the invariant.
LEMMA QuietIInv ==
  ASSUME IInv, TypeOK', CurStep, UNCHANGED <<cm, bids>>,
         \A u \in Users : claims[u] \subseteq claims'[u],
         \A k \in Keys : store'[k] # None => k \in claims'[store'[k].user],
         \A op \in inflight' : \E o \in inflight :
           o.key = op.key /\ o.user = op.user /\ o.bid = op.bid
  PROVE  IInv'
<1> USE DEF IInv, CurStep
<1>1. /\ cond \in [Workers -> 0..MaxConditions] /\ cond' \in [Workers -> 0..MaxConditions]
      /\ \A v \in Workers : cond'[v] > 0 \/ cond'[v] = 0
  BY SMTT(20) DEF TypeOK
<1>2. \A v \in Workers : cur'[v].timeout => cond'[v] > 0
  BY <1>1, SMTT(20) DEF NoRequest
<1>3. \A v \in Workers : cm[v].user # None => cm[v].user \in Users
  BY SMTT(20) DEF TypeOK, CmInfo
<1>4. \A op \in inflight : op.user \in Users
  BY DEF TypeOK, Op
<1>5. NoForeignUser'
  BY <1>4 DEF NoForeignUser
<1>6. HandlerInv'
  BY <1>3 DEF HandlerInv
<1>7. RequestInv'
  <2>1. \A v \in Workers : cond'[v] > 0 => cur'[v].bid \in 1..bids'
    BY DEF RequestInv
  <2>2. \A v, x \in Workers :
          cond'[v] > 0 /\ cond'[x] > 0 /\ cur'[v].bid = cur'[x].bid => v = x
    BY DEF RequestInv
  <2>3. \A v \in Workers : cur'[v].timeout =>
          ~cm'[v].needRe /\ ~cm'[v].needTouch /\ ~cm'[v].needFix
    BY <1>2 DEF RequestInv
  <2>4. \A op \in inflight' : op.bid[1] \in 1..bids'
    BY DEF RequestInv
  <2> QED
    BY <2>1, <2>2, <2>3, <2>4 DEF RequestInv
<1>8. SilentAfterTimeout'
  BY <1>2, SMTT(20) DEF SilentAfterTimeout
<1>9. BidUserInv'
  BY SMTT(20) DEF BidUserInv
<1>10. OneUserPerBid'
  BY SMTT(20) DEF OneUserPerBid
<1> QED
  BY <1>5, <1>6, <1>7, <1>8, <1>9, <1>10

\* The operations a handler issues are for the condition it is at.
LEMMA OpsOfBid ==
  ASSUME TypeOK, RequestInv, NEW w \in Workers, cond[w] > 0,
         NEW type \in {"put", "touch"}, NEW keys \in SUBSET Keys, NEW user \in Users
  PROVE  /\ Ops(w, type, keys, user) \subseteq Op
         /\ \A op \in Ops(w, type, keys, user) :
              op.bid[1] = cur[w].bid /\ op.user = user /\ op.key \in keys
<1>1. cur[w].bid \in 1..MaxBids
  BY Bounds, SMTT(20) DEF TypeOK, RequestInv
<1>2. cond[w] \in 1..MaxConditions
  BY SMTT(20) DEF TypeOK
<1>3. \A k : HasOrigin(k) \in BOOLEAN
  BY DEF HasOrigin
<1> QED
  BY <1>1, <1>2, <1>3, SMTT(20) DEF Ops, Op

\* match(), reject() and the step to the next condition.
LEMMA ConditionStep ==
  ASSUME TypeOK, cm' \in [Workers -> CmInfo], RequestInv,
         NEW w \in Workers, cond[w] > 0,
         Respond(w, cur[w].urls) \/ \E shown \in BOOLEAN : NextCondition(w, shown)
  PROVE  /\ CurStep
         /\ cond' \in [Workers -> 0..MaxConditions]
         /\ cur' \in [Workers -> Request]
         /\ urls' \in [Browsers -> SUBSET Users]
<1>1. NoRequest \in Request
  BY Bounds, SMTT(20) DEF NoRequest, Request
<1>2. cur[w].urls \in SUBSET Users /\ cm'[w].user \in Users \cup {None}
  BY DEF TypeOK, Request, CmInfo
<1>3. ASSUME NEW us \in SUBSET Users, Respond(w, us)
      PROVE  /\ CurStep
             /\ cond' \in [Workers -> 0..MaxConditions]
             /\ cur' \in [Workers -> Request]
             /\ urls' \in [Browsers -> SUBSET Users]
  <2>1. CurStep
    BY <1>3, SMTT(20) DEF TypeOK, Respond, CurStep, RequestInv
  <2>2. cond' \in [Workers -> 0..MaxConditions] /\ cur' \in [Workers -> Request]
    BY <1>1, <1>3, Bounds, SMTT(20) DEF TypeOK, Respond
  <2>3. urls' \in [Browsers -> SUBSET Users]
    BY <1>3 DEF TypeOK, Respond
  <2> QED
    BY <2>1, <2>2, <2>3
<1>4. ASSUME NEW shown \in BOOLEAN, NextCondition(w, shown)
      PROVE  /\ CurStep
             /\ cond' \in [Workers -> 0..MaxConditions]
             /\ cur' \in [Workers -> Request]
             /\ urls' \in [Browsers -> SUBSET Users]
  <2> DEFINE us == cur[w].urls \cup
                     IF shown /\ cur[w].browser # None THEN {cm'[w].user} \ {None} ELSE {}
  <2>1. us \in SUBSET Users
    BY <1>2
  <2>2. CASE cond[w] = MaxConditions
    <3>1. Respond(w, us)
      BY <1>4, <2>2 DEF NextCondition
    <3> QED
      BY <1>3, <2>1, <3>1
  <2>3. CASE cond[w] # MaxConditions
    <3> HIDE DEF us
    <3>1. /\ cond' = [cond EXCEPT ![w] = @ + 1]
          /\ cur' = [cur EXCEPT ![w].urls = us]
          /\ urls' = urls
      BY <1>4, <2>3 DEF NextCondition, us
    <3>2. cur' \in [Workers -> Request]
      <4>1. cur \in [Workers -> Request]
        BY DEF TypeOK
      <4>2. [cur[w] EXCEPT !.urls = us] \in Request
        BY ONLY <2>1, <4>1, w \in Workers DEF Request
      <4> QED
        BY ONLY <3>1, <4>1, <4>2
    <3>3. cond' \in [Workers -> 0..MaxConditions]
      BY <2>3, <3>1, Bounds, SMTT(20) DEF TypeOK
    <3>4. CurStep
      BY <3>1, SMTT(20) DEF TypeOK, CurStep, RequestInv, Request
    <3> QED
      BY <3>1, <3>2, <3>3, <3>4 DEF TypeOK
  <2> QED
    BY <2>2, <2>3
<1> QED
  BY <1>2, <1>3, <1>4

\* A new request: whatever the handler held before, it now holds what the
\* lookup found for this request's keys.
LEMMA QueryIInv ==
  ASSUME IInv, NEW w \in Workers, NEW b \in CmInfo, NEW keys \in SUBSET Keys,
         NEW br \in Browsers \cup {None}, NEW answer,
         ~b.isAdxCookie => b.devices \subseteq keys,
         b.key # None => b.key \in keys,
         Query(w, b, keys, br, answer)
  PROVE  IInv'
<1> DEFINE c == QueryCookieMapping(b, answer)
           timeout == answer = "timeout" /\ b.key # None
<1> USE DEF IInv
<1>1. /\ c \in CmInfo
      /\ c.key = b.key /\ c.devices = b.devices /\ c.isAdxCookie = b.isAdxCookie
      /\ c.user # None => b.key # None /\ b.key \in claims[c.user]
      /\ c.needTouch \/ c.needFix => c.user # None
      /\ c.needFix => ~c.isAdxCookie
      /\ timeout => ~c.needRe /\ ~c.needTouch /\ ~c.needFix
  BY Lookup
<1>2. /\ cond[w] = 0 /\ bids < MaxBids /\ bids' = bids + 1
      /\ cond' = [cond EXCEPT ![w] = 1]
      /\ cm' = [cm EXCEPT ![w] = c]
      /\ cur' = [cur EXCEPT ![w] = [bid |-> bids + 1, browser |-> br, keys |-> keys,
                                    timeout |-> timeout, urls |-> {}]]
      /\ claims' = IF c.user # None /\ b.key \in keys
                   THEN [claims EXCEPT ![c.user] = @ \cup keys] ELSE claims
      /\ UNCHANGED <<now, store, inflight, visits, urls, cookie, faults, lost>>
  BY DEF Query, browser, failures
<1> HIDE DEF c
<1>3. c.user # None => c.user \in Users
  BY <1>1 DEF CmInfo
<1>4. timeout \in BOOLEAN
  OBVIOUS
<1> HIDE DEF timeout
<1>5. /\ claims' \in [Users -> SUBSET Keys]
      /\ \A u \in Users : claims[u] \subseteq claims'[u]
      /\ c.user # None => keys \subseteq claims'[c.user]
  BY <1>1, <1>2, <1>3 DEF TypeOK
<1>6. TypeOK'
  <2>1. bids' \in 0..MaxBids /\ bids \in Nat
    BY <1>2, Bounds, SMTT(20) DEF TypeOK
  <2>2. cond' \in [Workers -> 0..MaxConditions] /\ cm' \in [Workers -> CmInfo]
    BY <1>1, <1>2, Bounds, SMTT(20) DEF TypeOK
  <2>3. [bid |-> bids + 1, browser |-> br, keys |-> keys, timeout |-> timeout,
         urls |-> {}] \in Request
    BY <1>2, <1>4, <2>1 DEF Request
  <2>4. cur' \in [Workers -> Request]
    BY <1>2, <2>3 DEF TypeOK
  <2> QED
    BY <1>2, <1>5, <2>1, <2>2, <2>4 DEF TypeOK
<1>7. /\ \A v \in Workers : v # w =>
           cond'[v] = cond[v] /\ cm'[v] = cm[v] /\ cur'[v] = cur[v]
      /\ cond'[w] = 1 /\ cm'[w] = c
      /\ cur'[w].bid = bids + 1 /\ cur'[w].keys = keys /\ cur'[w].timeout = timeout
  BY <1>2 DEF TypeOK
<1>8. \A op \in inflight : op.user \in Users /\ op.bid[1] \in 1..bids /\ bids \in Nat
  BY SMTT(20) DEF TypeOK, Op, RequestInv
<1>9. NoForeignUser'
  <2>1. \A k \in Keys : store[k] # None => store[k].user \in Users
    BY DEF TypeOK, Record
  <2> QED
    BY <1>2, <1>5, <1>8, <2>1 DEF NoForeignUser
<1>10. HandlerInv'
  <2>1. \A v \in Workers : cm[v].user # None => cm[v].user \in Users
    BY DEF TypeOK, CmInfo
  <2>2. ASSUME NEW v \in Workers, v # w, cond'[v] > 0
        PROVE  /\ ~cm'[v].isAdxCookie => cm'[v].devices \subseteq cur'[v].keys
               /\ cm'[v].needTouch /\ cm'[v].isAdxCookie => cm'[v].key \in cur'[v].keys
               /\ cm'[v].needFix => ~cm'[v].isAdxCookie
               /\ cm'[v].needTouch \/ cm'[v].needFix =>
                    cm'[v].user # None /\ cur'[v].keys \subseteq claims'[cm'[v].user]
    BY <1>5, <1>7, <2>1, <2>2 DEF HandlerInv
  <2>3. /\ ~c.isAdxCookie => c.devices \subseteq keys
        /\ c.needTouch /\ c.isAdxCookie => c.key \in keys
        /\ c.needFix => ~c.isAdxCookie
        /\ c.needTouch \/ c.needFix => c.user # None /\ keys \subseteq claims'[c.user]
    BY <1>1, <1>5
  <2> QED
    BY <1>7, <2>2, <2>3 DEF HandlerInv
<1>11. RequestInv'
  <2>1. bids \in Nat /\ bids' = bids + 1
    BY <1>2, SMTT(20) DEF TypeOK
  <2>2. \A v \in Workers : cond'[v] = 0 => cur'[v] = NoRequest
    BY <1>7, SMTT(20) DEF RequestInv
  <2>3. \A v \in Workers : cond'[v] > 0 => cur'[v].bid \in 1..bids'
    BY <1>7, <2>1, SMTT(20) DEF RequestInv
  <2>4. \A v, x \in Workers :
          cond'[v] > 0 /\ cond'[x] > 0 /\ cur'[v].bid = cur'[x].bid => v = x
    BY <1>7, <2>1, SMTT(20) DEF RequestInv
  <2>5. \A v \in Workers : cur'[v].timeout =>
          ~cm'[v].needRe /\ ~cm'[v].needTouch /\ ~cm'[v].needFix
    BY <1>1, <1>7 DEF RequestInv
  <2>6. \A op \in inflight' : op.bid[1] \in 1..bids'
    BY <1>2, <2>1, SMTT(20) DEF RequestInv
  <2> QED
    BY <2>2, <2>3, <2>4, <2>5, <2>6 DEF RequestInv
<1>12. SilentAfterTimeout'
  BY <1>2, <1>7, <1>8, SMTT(20) DEF SilentAfterTimeout
<1>13. BidUserInv'
  BY <1>2, <1>7, <1>8, SMTT(20) DEF BidUserInv
<1>14. OneUserPerBid'
  BY <1>2 DEF OneUserPerBid
<1> QED
  BY <1>6, <1>9, <1>10, <1>11, <1>12, <1>13, <1>14

\* What redoCookieMapping() may do to handler w: the operations it adds are
\* for the user the handler then holds, who claims their keys.
Redo(w, N) ==
  /\ inflight' = inflight \cup N
  /\ N \subseteq Op
  /\ \A op \in N : /\ op.bid[1] = cur[w].bid /\ op.user = cm'[w].user
                   /\ op.key \in claims'[op.user]
  /\ N # {} => ~cm'[w].needRe /\ ~cur[w].timeout
  /\ cm' \in [Workers -> CmInfo]
  /\ \A v \in Workers : v # w => cm'[v] = cm[v]
  /\ \A op \in inflight : op.bid[1] = cur[w].bid => ~cm'[w].needRe /\ op.user = cm'[w].user
  /\ claims' \in [Users -> SUBSET Keys]
  /\ \A u \in Users : claims[u] \subseteq claims'[u]
  /\ cm'[w].devices = cm[w].devices /\ cm'[w].key = cm[w].key
  /\ cm'[w].isAdxCookie = cm[w].isAdxCookie
  /\ cm'[w].needTouch = cm[w].needTouch /\ cm'[w].needFix = cm[w].needFix
  /\ cm'[w].needRe => cm[w].needRe
  /\ cm'[w].needTouch \/ cm'[w].needFix =>
       cm'[w].user # None /\ cur[w].keys \subseteq claims'[cm'[w].user]

\* Each branch of redoCookieMapping() is such a step.
LEMMA RedoStep ==
  ASSUME IInv, NEW w \in Workers, cond[w] > 0,
         \/ \E user \in NewUsers(w) : RedoReMap(w, user)
         \/ RedoTouch(w) \/ RedoFix(w) \/ RedoNothing(w)
  PROVE  \E N : Redo(w, N)
<1> DEFINE c == cm[w]
<1> USE DEF IInv
<1>1. /\ c \in CmInfo /\ cm \in [Workers -> CmInfo] /\ claims \in [Users -> SUBSET Keys]
      /\ cur[w] \in Request /\ c.devices \in SUBSET Keys /\ cur[w].keys \in SUBSET Keys
  BY DEF TypeOK, CmInfo, Request
<1>2. /\ ~c.isAdxCookie => c.devices \subseteq cur[w].keys
      /\ c.needTouch /\ c.isAdxCookie => c.key \in cur[w].keys
      /\ c.needFix => ~c.isAdxCookie
      /\ c.needTouch \/ c.needFix =>
           c.user # None /\ cur[w].keys \subseteq claims[c.user]
  BY DEF HandlerInv
<1>3. cur[w].timeout => ~c.needRe /\ ~c.needTouch /\ ~c.needFix
  BY DEF RequestInv
<1>4. \A op \in inflight : op.bid[1] = cur[w].bid => ~c.needRe /\ op.user = c.user
  BY DEF BidUserInv
<1>5. c.user # None => c.user \in Users
  BY <1>1 DEF CmInfo
<1>6. ASSUME UNCHANGED <<cm, claims>>, ~c.needRe,
             NEW type \in {"put", "touch"}, NEW keys \in SUBSET cur[w].keys,
             c.needTouch \/ c.needFix,
             inflight' = inflight \cup Ops(w, type, keys, c.user)
      PROVE  Redo(w, Ops(w, type, keys, c.user))
  <2> DEFINE N == Ops(w, type, keys, c.user)
  <2>1. /\ N \subseteq Op
        /\ \A op \in N : op.bid[1] = cur[w].bid /\ op.user = c.user /\ op.key \in keys
    BY <1>1, <1>2, <1>5, <1>6, OpsOfBid
  <2> HIDE DEF N
  <2>2. cm' \in [Workers -> CmInfo] /\ claims' \in [Users -> SUBSET Keys]
    BY <1>1, <1>6
  <2>3. \A op \in N : op.key \in claims'[op.user]
    BY <1>2, <1>6, <2>1
  <2>4. Redo(w, N)
    BY <1>2, <1>3, <1>4, <1>6, <2>1, <2>2, <2>3, ZenonT(40) DEF Redo, N
  <2> QED
    BY <2>4 DEF N
<1>7. ASSUME NEW user \in NewUsers(w), RedoReMap(w, user)
      PROVE  \E N : Redo(w, N)
  <2> DEFINE N == IF c.isAdxCookie THEN {} ELSE Ops(w, "put", c.devices, user)
  <2>1. user \in Users /\ user # None
    BY UserIds, Bounds DEF TypeOK
  <2>2. /\ c.needRe /\ inflight' = inflight \cup N
        /\ cm' = [cm EXCEPT ![w] = [c EXCEPT !.user = user, !.needRe = c.isAdxCookie]]
        /\ claims' = [claims EXCEPT ![user] = @ \cup cur[w].keys]
    BY <1>1, <1>7, ZenonT(40) DEF RedoReMap
  <2>3. /\ N \subseteq Op
        /\ \A op \in N : op.bid[1] = cur[w].bid /\ op.user = user /\ op.key \in c.devices
        /\ N # {} => ~c.isAdxCookie
    BY <1>1, <2>1, OpsOfBid
  <2> HIDE DEF N
  <2>4. [c EXCEPT !.user = user, !.needRe = c.isAdxCookie] \in CmInfo
    BY <1>1, <2>1 DEF CmInfo
  <2>5. /\ cm' \in [Workers -> CmInfo]
        /\ cm'[w] = [c EXCEPT !.user = user, !.needRe = c.isAdxCookie]
        /\ \A v \in Workers : v # w => cm'[v] = cm[v]
    BY <1>1, <2>2, <2>4
  <2>6. /\ cm'[w].user = user /\ cm'[w].needRe = c.isAdxCookie
        /\ cm'[w].devices = c.devices /\ cm'[w].key = c.key
        /\ cm'[w].isAdxCookie = c.isAdxCookie
        /\ cm'[w].needTouch = c.needTouch /\ cm'[w].needFix = c.needFix
    BY <1>1, <2>5 DEF CmInfo
  <2>7. /\ claims' \in [Users -> SUBSET Keys]
        /\ \A u \in Users : claims[u] \subseteq claims'[u]
        /\ cur[w].keys \subseteq claims'[user]
    BY <1>1, <2>1, <2>2
  <2>8. \A op \in N : op.key \in claims'[op.user]
    BY <1>2, <2>3, <2>7
  <2>9. \A op \in inflight : op.bid[1] # cur[w].bid
    BY <1>4, <2>2
  <2>10. Redo(w, N)
    BY <1>3, <2>1, <2>2, <2>3, <2>5, <2>6, <2>7, <2>8, <2>9 DEF Redo
  <2> QED
    BY <2>10
<1>8. CASE RedoTouch(w)
  <2>1. (IF c.isAdxCookie THEN {c.key} ELSE c.devices) \in SUBSET cur[w].keys
    BY <1>2, <1>8 DEF RedoTouch
  <2> QED
    BY <1>6, <1>8, <2>1 DEF RedoTouch
<1>9. CASE RedoFix(w)
  BY <1>2, <1>6, <1>9 DEF RedoFix
<1>10. CASE RedoNothing(w)
  <2>1. Redo(w, {})
    BY <1>1, <1>2, <1>3, <1>4, <1>10, ZenonT(40) DEF Redo, RedoNothing
  <2> QED
    BY <2>1
<1> QED
  BY <1>7, <1>8, <1>9, <1>10

-------------------------------------------------------------------------------
(* Every step keeps the invariant, and what follows from it.               *)

\* buildBidResult() for one condition keeps the invariant.
LEMMA BuildIInv ==
  ASSUME IInv, NEW w \in Workers, BuildBid(w)
  PROVE  IInv'
<1> USE DEF IInv
<1>1. /\ cond[w] > 0
      /\ \/ \E user \in NewUsers(w) : RedoReMap(w, user)
         \/ RedoTouch(w) \/ RedoFix(w) \/ RedoNothing(w)
      /\ \E shown \in BOOLEAN : NextCondition(w, shown)
      /\ UNCHANGED <<now, store, bids, visits, cookie, faults, lost>>
  BY DEF BuildBid, failures
<1>2. PICK N : Redo(w, N)
  BY <1>1, RedoStep
<1>3. /\ CurStep
      /\ cond' \in [Workers -> 0..MaxConditions] /\ cur' \in [Workers -> Request]
      /\ urls' \in [Browsers -> SUBSET Users]
  <2>1. cm' \in [Workers -> CmInfo]
    BY <1>2 DEF Redo
  <2> QED
    BY <1>1, <2>1, ConditionStep
<1>4. TypeOK'
  BY <1>1, <1>2, <1>3, ZenonT(40) DEF TypeOK, Redo
<1>5. \A v \in Workers : cond'[v] > 0 \/ (cond'[v] = 0 /\ ~cur'[v].timeout)
  <2>1. \A v \in Workers : cond'[v] > 0 \/ cond'[v] = 0
    BY ONLY <1>3, SMTT(20)
  <2> QED
    BY ONLY <1>3, <2>1, SMTT(20) DEF CurStep, NoRequest
<1>6. /\ \A op \in inflight : op.user \in Users
      /\ \A k \in Keys : store[k] # None => store[k].user \in Users
      /\ \A v \in Workers : cm[v].user # None => cm[v].user \in Users
  BY DEF TypeOK, Op, Record, CmInfo
<1>7. NoForeignUser'
  BY <1>1, <1>2, <1>6, ZenonT(40) DEF NoForeignUser, Redo
<1>8. HandlerInv'
  <2>1. ASSUME NEW v \in Workers, cond'[v] > 0
        PROVE  /\ ~cm'[v].isAdxCookie => cm'[v].devices \subseteq cur'[v].keys
               /\ cm'[v].needTouch /\ cm'[v].isAdxCookie => cm'[v].key \in cur'[v].keys
               /\ cm'[v].needFix => ~cm'[v].isAdxCookie
               /\ cm'[v].needTouch \/ cm'[v].needFix =>
                    cm'[v].user # None /\ cur'[v].keys \subseteq claims'[cm'[v].user]
    <3>1. CASE v = w
      <4>1. cond[w] > 0 /\ cur'[w].keys = cur[w].keys
        BY <1>3, <2>1, <3>1 DEF CurStep
      <4>2. /\ cm'[w].devices = cm[w].devices /\ cm'[w].key = cm[w].key
            /\ cm'[w].isAdxCookie = cm[w].isAdxCookie
            /\ cm'[w].needTouch = cm[w].needTouch /\ cm'[w].needFix = cm[w].needFix
            /\ cm'[w].needTouch \/ cm'[w].needFix =>
                 cm'[w].user # None /\ cur[w].keys \subseteq claims'[cm'[w].user]
        BY <1>2 DEF Redo
      <4>3. /\ ~cm[w].isAdxCookie => cm[w].devices \subseteq cur[w].keys
            /\ cm[w].needTouch /\ cm[w].isAdxCookie => cm[w].key \in cur[w].keys
            /\ cm[w].needFix => ~cm[w].isAdxCookie
        BY <4>1 DEF HandlerInv
      <4> QED
        BY ONLY <3>1, <4>1, <4>2, <4>3
    <3>2. CASE v # w
      <4>1. cond[v] > 0 /\ cur'[v].keys = cur[v].keys
        BY <1>3, <2>1 DEF CurStep
      <4>2. cm'[v] = cm[v] /\ \A u \in Users : claims[u] \subseteq claims'[u]
        BY <1>2, <3>2 DEF Redo
      <4> QED
        BY <1>6, <4>1, <4>2 DEF HandlerInv
    <3> QED
      BY <3>1, <3>2
  <2> QED
    BY <2>1 DEF HandlerInv
<1>9. RequestInv'
  <2>1. \A v \in Workers : cond'[v] = 0 => cur'[v] = NoRequest
    BY <1>3 DEF CurStep
  <2>2. \A v \in Workers : cond'[v] > 0 => cur'[v].bid \in 1..bids'
    BY <1>1, <1>3 DEF CurStep, RequestInv
  <2>3. \A v, x \in Workers :
          cond'[v] > 0 /\ cond'[x] > 0 /\ cur'[v].bid = cur'[x].bid => v = x
    BY <1>3 DEF CurStep, RequestInv
  <2>4. \A v \in Workers : cur'[v].timeout =>
          ~cm'[v].needRe /\ ~cm'[v].needTouch /\ ~cm'[v].needFix
    BY <1>2, <1>3, <1>5 DEF CurStep, RequestInv, Redo
  <2>5. \A op \in inflight' : op.bid[1] \in 1..bids'
    BY <1>1, <1>2, ZenonT(40) DEF RequestInv, Redo
  <2> QED
    BY <2>1, <2>2, <2>3, <2>4, <2>5 DEF RequestInv
<1>10. SilentAfterTimeout'
  <2>1. ASSUME NEW v \in Workers, cur'[v].timeout, NEW op \in inflight'
        PROVE  op.bid[1] # cur'[v].bid
    <3>1. cond[v] > 0 /\ cur[v].timeout /\ cur'[v].bid = cur[v].bid
      BY <1>3, <1>5, <2>1 DEF CurStep
    <3>2. CASE op \in inflight
      BY <3>1, <3>2 DEF SilentAfterTimeout
    <3>3. CASE op \in N
      BY <1>1, <1>2, <3>1, <3>3, ZenonT(40) DEF Redo, RequestInv
    <3> QED
      BY <1>2, <3>2, <3>3 DEF Redo
  <2> QED
    BY <2>1 DEF SilentAfterTimeout
<1>11. BidUserInv'
  <2>1. ASSUME NEW v \in Workers, NEW op \in inflight', cond'[v] > 0,
               op.bid[1] = cur'[v].bid
        PROVE  ~cm'[v].needRe /\ op.user = cm'[v].user
    <3>1. cond[v] > 0 /\ cur'[v].bid = cur[v].bid
      BY <1>3, <2>1 DEF CurStep
    <3>2. CASE v = w
      BY <1>2, <2>1, <3>1, <3>2 DEF Redo
    <3>3. CASE v # w
      <4>1. cm'[v] = cm[v]
        BY ONLY <1>2, <3>3, v \in Workers DEF Redo
      <4>2. CASE op \in inflight
        <5>1. op.bid[1] = cur[v].bid
          BY ONLY <2>1, <3>1
        <5> QED
          BY <3>1, <4>1, <4>2, <5>1 DEF BidUserInv
      <4>3. CASE op \in N
        <5>1. cur[w].bid = cur[v].bid
          BY ONLY <1>2, <2>1, <3>1, <4>3 DEF Redo
        <5> QED
          BY <1>1, <3>1, <3>3, <5>1 DEF RequestInv
      <4> QED
        BY ONLY <1>2, <2>1, <4>2, <4>3 DEF Redo
    <3> QED
      BY <3>2, <3>3
  <2> QED
    BY <2>1 DEF BidUserInv
<1>12. OneUserPerBid'
  <2>1. ASSUME NEW o1 \in inflight', NEW o2 \in inflight', o1.bid[1] = o2.bid[1]
        PROVE  o1.user = o2.user
    <3>1. \A op \in inflight' : op \in inflight \/ op \in N
      BY ONLY <1>2 DEF Redo
    <3>2. \A op \in inflight' : op.bid[1] = cur[w].bid => op.user = cm'[w].user
      BY ONLY <1>2, <3>1 DEF Redo
    <3>3. \A op \in N : op.bid[1] = cur[w].bid
      BY ONLY <1>2 DEF Redo
    <3>4. CASE o1 \in N \/ o2 \in N
      BY ONLY <2>1, <3>2, <3>3, <3>4
    <3>5. CASE o1 \in inflight /\ o2 \in inflight
      BY <2>1, <3>5 DEF OneUserPerBid
    <3> QED
      BY ONLY <2>1, <3>1, <3>4, <3>5
  <2> QED
    BY <2>1 DEF OneUserPerBid
<1> QED
  BY <1>4, <1>7, <1>8, <1>9, <1>10, <1>11, <1>12

\* Every step keeps the invariant.
LEMMA NextIInv == IInv /\ [Next]_vars => IInv'
<1> SUFFICES ASSUME IInv, [Next]_vars PROVE IInv'
  OBVIOUS
<1> USE DEF browser, failures
<1>0. TypeOK /\ NoForeignUser /\ RequestInv
  BY DEF IInv
<1>1. ASSUME UNCHANGED cond, UNCHANGED cur PROVE CurStep
  BY <1>0, <1>1 DEF CurStep, RequestInv
<1>2. \A op \in inflight : op \in Op /\ op.key \in Keys /\ op.user \in Users
                           /\ op.origin \in BOOLEAN /\ op.key \in claims[op.user]
  BY <1>0 DEF TypeOK, Op, NoForeignUser
<1>3. \A k \in Keys, user \in Users, origin \in BOOLEAN :
        Merged(k, user, origin) \in Record /\ Merged(k, user, origin).user = user
  BY <1>0 DEF TypeOK, Merged, Record
<1>4. ASSUME NEW w \in Workers, NEW phone \in Phones, NEW answer \in Answers,
             BidApp(w, phone, answer)
      PROVE  IInv'
  <2> DEFINE b == CookieMappingKeyMobile(cm[w], phone)
             keys == phone \ Excluded
  <2>1. cm[w] \in CmInfo /\ keys \in SUBSET Keys /\ keys = Bound(phone)
    BY <1>0, CookieMappingAssumption DEF TypeOK, Bound
  <2>2. b.devices = keys /\ ~b.isAdxCookie
    BY <2>1 DEF CookieMappingKeyMobile, CmInfo
  <2>3. IF keys = {} THEN b.key = None ELSE b.key \in keys
    <3>1. CASE keys = {}
      BY <2>1, <3>1 DEF CookieMappingKeyMobile, CmInfo
    <3>2. CASE keys # {}
      BY <2>1, <3>2, FirstKey
    <3> QED
      BY <3>1, <3>2
  <2>4. b \in CmInfo
    <3>1. PICK k, d : b = [cm[w] EXCEPT !.key = k, !.devices = d, !.isAdxCookie = FALSE]
      BY DEF CookieMappingKeyMobile
    <3> HIDE DEF b
    <3>2. k = b.key /\ d = b.devices
      BY ONLY <2>1, <3>1 DEF CmInfo
    <3>3. k \in Keys \cup {None} /\ d \in SUBSET Keys
      BY <2>1, <2>2, <2>3, <3>2
    <3> QED
      BY ONLY <2>1, <3>1, <3>3, ZenonT(40) DEF CmInfo
  <2>5. Query(w, b, keys, None, answer)
    BY <1>4 DEF BidApp
  <2> HIDE DEF b, keys
  <2> QED
    BY <2>1, <2>2, <2>3, <2>4, <2>5, QueryIInv
<1>5. ASSUME NEW w \in Workers, NEW br \in Browsers, NEW known \in BOOLEAN,
             NEW answer \in Answers, BidWeb(w, br, known, answer)
      PROVE  IInv'
  <2> DEFINE key == IF known THEN BidKey(br) ELSE None
             b == CookieMappingKeyPC(cm[w], key)
  <2>1. cm[w] \in CmInfo /\ BidKey(br) \in Keys
    BY <1>0, CookieMappingAssumption DEF TypeOK
  <2>2. b \in CmInfo /\ b.isAdxCookie /\ (b.key # None => b.key \in {BidKey(br)})
    BY <2>1, ZenonT(40) DEF CookieMappingKeyPC, CmInfo
  <2>3. Query(w, b, {BidKey(br)}, br, answer)
    BY <1>5 DEF BidWeb
  <2>4. {BidKey(br)} \in SUBSET Keys /\ br \in Browsers \cup {None}
    BY <2>1
  <2> HIDE DEF b
  <2> QED
    BY ONLY IInv, w \in Workers, <2>2, <2>3, <2>4, QueryIInv
<1>6. ASSUME NEW w \in Workers, EndBid(w) PROVE IInv'
  <2>1. /\ cond[w] > 0 /\ Respond(w, cur[w].urls)
        /\ UNCHANGED <<now, store, inflight, cm, bids, visits, cookie, claims, faults, lost>>
    BY <1>6 DEF EndBid
  <2>2. cur[w].urls \in SUBSET Users /\ cm' \in [Workers -> CmInfo]
    BY <1>0, <2>1 DEF TypeOK, Request
  <2>3. /\ CurStep
        /\ cond' \in [Workers -> 0..MaxConditions] /\ cur' \in [Workers -> Request]
        /\ urls' \in [Browsers -> SUBSET Users]
    BY <1>0, <2>1, <2>2, ConditionStep
  <2>4. TypeOK'
    BY <1>0, <2>1, <2>3 DEF TypeOK
  <2> QED
    BY <1>0, <2>1, <2>3, <2>4, QuietIInv DEF NoForeignUser
<1>7. ASSUME NEW op \in inflight, ApplyPut(op) PROVE IInv'
  <2> USE <1>7 DEF ApplyPut
  <2>1. Merged(op.key, op.user, op.origin) \in Record
        /\ Merged(op.key, op.user, op.origin).user = op.user
    <3>1. op.key \in Keys /\ op.user \in Users /\ op.origin \in BOOLEAN
      BY ONLY <1>2, <1>7
    <3> QED
      BY ONLY <1>3, <3>1
  <2>2. TypeOK'
    BY <1>0, <1>2, <2>1 DEF TypeOK
  <2>3. \A k \in Keys : store'[k] # None => k \in claims'[store'[k].user]
    BY <1>0, <1>2, <2>1 DEF TypeOK, NoForeignUser
  <2> QED
    BY <1>1, <2>2, <2>3, QuietIInv, ZenonT(40)
<1>8. ASSUME NEW op \in inflight, ApplyTouch(op) PROVE IInv'
  <2> DEFINE put == [op EXCEPT !.type = "put"]
  <2>1. put \in Op /\ put.key = op.key /\ put.user = op.user /\ put.bid = op.bid
    BY <1>2 DEF Op
  <2>2. /\ inflight' = (inflight \ {op}) \cup IF store[op.key] = None THEN {put} ELSE {}
        /\ UNCHANGED <<now, store, cm, cond, bids, visits, cur, urls, cookie, claims,
                       faults, lost>>
    BY <1>8 DEF ApplyTouch
  <2> HIDE DEF put
  <2>3. TypeOK'
    BY <1>0, <2>1, <2>2 DEF TypeOK
  <2>4. \A o \in inflight' : \E p \in inflight :
          p.key = o.key /\ p.user = o.user /\ p.bid = o.bid
    BY <2>1, <2>2
  <2> QED
    BY <1>0, <1>1, <2>2, <2>3, <2>4, QuietIInv DEF NoForeignUser
<1>9. ASSUME NEW op \in inflight, LoseOp(op) PROVE IInv'
  <2> USE <1>9 DEF LoseOp
  <2>1. faults' \in 0..MaxFaults /\ lost' \in BOOLEAN
    BY <1>0, Bounds, SMTT(20) DEF TypeOK
  <2>2. TypeOK'
    BY <1>0, <2>1 DEF TypeOK
  <2> QED
    BY <1>0, <1>1, <2>2, QuietIInv DEF NoForeignUser
<1>10. ASSUME NEW k \in Keys, Expire(k) PROVE IInv'
  <2> USE <1>10 DEF Expire
  <2>1. TypeOK'
    BY <1>0, Bounds, SMTT(20) DEF TypeOK
  <2>2. \A x \in Keys : store'[x] # None => store'[x] = store[x]
    BY <1>0 DEF TypeOK
  <2>3. \A x \in Keys : store'[x] # None => x \in claims'[store'[x].user]
    BY <1>0, <2>2 DEF NoForeignUser
  <2> QED
    BY <1>1, <2>1, <2>3, QuietIInv
<1>11. CASE Tick
  <2> USE <1>11 DEF Tick
  <2>1. TypeOK'
    BY <1>0, Bounds, SMTT(20) DEF TypeOK
  <2> QED
    BY <1>0, <1>1, <2>1, QuietIInv DEF NoForeignUser
<1>12. ASSUME NEW w \in Workers, NEW b \in Browsers, NEW u \in urls[b] \cup {None}
       PROVE  UserCookieLogic(w, b, u) \subseteq Users
  BY <1>0, UserIds DEF TypeOK, UserCookieLogic
<1>13. ASSUME NEW w \in Workers, NEW b \in Browsers, NEW u \in urls[b] \cup {None},
              ShowRequest(w, b, u)
       PROVE  IInv'
  <2> USE <1>13 DEF ShowRequest
  <2>1. TypeOK'
    BY <1>0, <1>12, Bounds, SMTT(20) DEF TypeOK
  <2> QED
    BY <1>0, <1>1, <2>1, QuietIInv, ZenonT(40) DEF NoForeignUser
<1>14. ASSUME NEW w \in Workers, NEW b \in Browsers, NEW u \in urls[b] \cup {None},
              MappingRequest(w, b, u)
       PROVE  IInv'
  <2> DEFINE k == CookieKey(b)
             record(user) == Merged(k, user, FALSE)
  <2>1. k \in Keys
    BY CookieMappingAssumption
  <2>2. PICK user \in UserCookieLogic(w, b, u) :
          /\ cookie' = [cookie EXCEPT ![b] = user]
          /\ \/ store' = [store EXCEPT ![k] = record(user)] /\ UNCHANGED <<faults, lost>>
             \/ /\ faults < MaxFaults /\ faults' = faults + 1 /\ lost' = TRUE
                /\ UNCHANGED store
          /\ claims' = [claims EXCEPT ![user] = @ \cup {k}]
    BY <1>14 DEF MappingRequest
  <2>3. /\ visits < MaxVisits /\ visits' = visits + 1
        /\ UNCHANGED <<now, inflight, cm, cond, bids, cur, urls>>
    BY <1>14 DEF MappingRequest
  <2>4. /\ user \in Users
        /\ record(user) \in Record /\ record(user).user = user
    BY <1>3, <1>12, <2>1, ZenonT(40)
  <2> HIDE DEF k, record
  <2>5. /\ claims' \in [Users -> SUBSET Keys]
        /\ \A x \in Users : claims[x] \subseteq claims'[x]
        /\ k \in claims'[user]
    BY <1>0, <2>1, <2>2, <2>4 DEF TypeOK
  <2>6. TypeOK'
    <3>1. store' \in [Keys -> Record \cup {None}]
      <4>1. store \in [Keys -> Record \cup {None}]
        BY <1>0 DEF TypeOK
      <4>2. CASE store' = [store EXCEPT ![k] = record(user)]
        BY ONLY <2>4, <4>1, <4>2, ZenonT(40)
      <4>3. CASE UNCHANGED store
        BY <4>1, <4>3
      <4> QED
        BY <2>2, <4>2, <4>3
    <3>2. faults' \in 0..MaxFaults /\ visits' \in 0..MaxVisits
      BY <1>0, <2>2, <2>3, Bounds, SMTT(20) DEF TypeOK
    <3>3. lost' \in BOOLEAN
      BY <1>0, <2>2, ZenonT(40) DEF TypeOK
    <3> QED
      BY <1>0, <2>2, <2>3, <2>4, <2>5, <3>1, <3>2, <3>3 DEF TypeOK
  <2>7. \A x \in Keys : store'[x] # None => x \in claims'[store'[x].user]
    <3> SUFFICES ASSUME NEW x \in Keys, store'[x] # None
                 PROVE  x \in claims'[store'[x].user]
      OBVIOUS
    <3>1. store'[x] = store[x] \/ (x = k /\ store'[x] = record(user))
      BY <1>0, <2>2 DEF TypeOK
    <3>2. CASE store'[x] = store[x]
      <4>1. store[x].user \in Users /\ x \in claims[store[x].user]
        BY <1>0, <3>2 DEF TypeOK, NoForeignUser, Record
      <4> QED
        BY ONLY <2>5, <3>2, <4>1
    <3>3. CASE x = k /\ store'[x] = record(user)
      BY ONLY <2>4, <2>5, <3>3
    <3> QED
      BY ONLY <3>1, <3>2, <3>3, ZenonT(40)
  <2> QED
    BY <1>1, <2>3, <2>5, <2>6, <2>7, QuietIInv, ZenonT(40)
<1>15. CASE UNCHANGED vars
  <2> USE <1>15 DEF vars
  <2>1. TypeOK'
    BY <1>0 DEF TypeOK
  <2> QED
    BY <1>0, <1>1, <2>1, QuietIInv DEF NoForeignUser
<1> QED
  BY <1>4, <1>5, <1>6, <1>7, <1>8, <1>9, <1>10, <1>11, <1>13, <1>14, <1>15, BuildIInv
  DEF Next

\* Records, pending operations and handlers have their types in every
\* reachable state.
THEOREM TypeCorrect == Spec => []TypeOK
<1>1. IInv => TypeOK
  BY DEF IInv
<1> QED
  BY <1>1, InitIInv, NextIInv, PTL DEF Spec

\* The reused handlers never write a user under a key that no request
\* connected with that user (updateMappingDeviceAsync(), touchMapping(),
\* updateMappingAdxUid()), in whatever order the writes are carried out.
THEOREM RecordsBelong == Spec => []NoForeignUser
<1>1. IInv => NoForeignUser
  BY DEF IInv
<1> QED
  BY <1>1, InitIInv, NextIInv, PTL DEF Spec

\* All pending writes of one bid request carry the same user
\* (redoCookieMapping() over several conditions).
THEOREM OneUser == Spec => []OneUserPerBid
<1>1. IInv => OneUserPerBid
  BY DEF IInv
<1> QED
  BY <1>1, InitIInv, NextIInv, PTL DEF Spec

\* A bid request whose lookup timed out writes nothing
\* (queryCookieMapping()).
THEOREM Silent == Spec => []SilentAfterTimeout
<1>1. IInv => SilentAfterTimeout
  BY DEF IInv
<1> QED
  BY <1>1, InitIInv, NextIInv, PTL DEF Spec
=============================================================================
