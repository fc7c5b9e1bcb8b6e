--------------------------- MODULE DeliveryProofs ---------------------------
(***************************************************************************)
(* Proofs about Delivery, for any finite set of workers and any users, ads *)
(* and traffic: what a frequency counter says (FrequencyAccount), whose    *)
(* click a trace names (TraceOwn), that no source record is replaced       *)
(* (SourcesNeverRewritten) and that the counters of an order agree with    *)
(* its logs (OrdersAgree).  What is booked is left to TLC.                 *)
(***************************************************************************)
EXTENDS Delivery, FiniteSetTheorems, TLAPS

\* Steps are for Zenon unless they name another prover.
USE ZenonT(60)


-----------------------------------------------------------------------------
(* The inductive invariant.                                                *)

\* A request is a record with these fields; what it books does not matter.
IsRequest(r) ==
  DOMAIN r = {"nr", "kind", "user", "ad", "booking", "landing", "source", "at", "owner", "from"}

ClickSteps == {"generateSourceId", "putSource", "putIndex", "countClick", "logClick"}

\* The click fits the page that a trace request comes from.
Fits(click, r) ==
  /\ Terms[click.ad].owner = r.owner
  /\ IF r.from # 0 THEN click.nr = r.from ELSE click.user = r.user

\* What a worker at step p knows about the request r it serves, when m says
\* which click each id was drawn for.
WorkerOK(p, r, m) ==
  /\ IsRequest(r)
  /\ p \in Windows => r.user \in Users /\ r.ad \in Ads
  /\ p \in ClickSteps =>
       /\ r.nr # 0 /\ r.user \in Users /\ r.ad \in Ads /\ r.owner = Terms[r.ad].owner
       /\ r.source = None \/ (r.source \in DOMAIN m /\ m[r.source] = SourceRecord(r))
  /\ p \in {"putSource", "putIndex"} => r.source # None
  /\ p = "generateSourceId" => r.source = None
  /\ p = "getIndex" => r.user \in Users /\ r.owner \in Owners /\ r.from = 0 /\ r.source = None
  /\ p = "getSource" => r.source = None \/ (r.source \in DOMAIN m /\ Fits(m[r.source], r))

WorkersOK ==
  /\ started \in Nat /\ traffic.ads \subseteq Ads
  /\ pc = [w \in Workers |-> pc[w]]
  /\ req = [w \in Workers |-> req[w]]
  /\ \A w \in Workers : WorkerOK(pc[w], req[w], made)

\* Every id that is anywhere was drawn for one click, and what is stored
\* under it is that click's.
MadeOK ==
  /\ lastId \in Nat
  /\ made = [i \in DOMAIN made |-> made[i]]
  /\ \A i \in DOMAIN made :
       i \in Nat /\ i < lastId /\ made[i].user \in Users /\ made[i].ad \in Ads
SourcesOK ==
  /\ sources = [i \in DOMAIN sources |-> sources[i]]
  /\ \A i \in DOMAIN sources : i \in DOMAIN made /\ sources[i] = made[i]
IndexKey(click) == <<click.user, Terms[click.ad].owner>>
IndexOK ==
  /\ index = [k \in Users \X Owners |-> index[k]]
  /\ \A k \in Users \X Owners :
       index[k] = None \/ (index[k] \in DOMAIN made /\ k = IndexKey(made[index[k]]))
WriteOK(x, m) ==
  /\ x.id \in DOMAIN m
  /\ IF x.at = "source" THEN x.record = m[x.id] ELSE x.key = IndexKey(m[x.id])
LateOK == \A x \in late : WriteOK(x, made)
PagesOK ==
  /\ \A l \in links : l.ad \in Ads
  /\ \A p \in landed :
       p.source = None \/ (/\ p.source \in DOMAIN made /\ p.nr # 0
                           /\ made[p.source].nr = p.nr
                           /\ Terms[made[p.source].ad].owner = p.owner)
TrailInv == WorkersOK /\ MadeOK /\ SourcesOK /\ IndexOK /\ LateOK /\ PagesOK /\ TraceOwn

FrequencyOK ==
  /\ freq \in [Keys -> [Ads -> Nat] \cup {None}]
  /\ putting \in [Totals -> Nat] /\ adding \in [Totals -> Nat] /\ due \in [Totals -> Nat]
  /\ clean \in [Keys -> BOOLEAN]
\* FrequencyAccount for one user and window; a fresh counter that no other
\* call overlaps is put where no record is.
Total(u, win, ad) ==
  (IF freq[<<u, win>>] = None THEN 0 ELSE freq[<<u, win>>][ad])
    + putting[<<u, win, ad>>] + adding[<<u, win, ad>>]
KeyOK(u, win) ==
  /\ \A ad \in Ads : /\ Total(u, win, ad) <= due[<<u, win, ad>>]
                     /\ clean[<<u, win>>] => Total(u, win, ad) = due[<<u, win, ad>>]
  /\ clean[<<u, win>>] => \A ad \in Ads : putting[<<u, win, ad>>] > 0 =>
       /\ freq[<<u, win>>] = None
       /\ putting[<<u, win, ad>>] = 1
       /\ \A b \in Ads : adding[<<u, win, b>>] = 0 /\ (b # ad => putting[<<u, win, b>>] = 0)
FrequencyInv == FrequencyOK /\ \A u \in Users, win \in Windows : KeyOK(u, win)

-----------------------------------------------------------------------------
(* Frequency counters.                                                     *)

\* The values that KeyOK speaks of, with their types.
LEMMA FrequencyTypes ==
  ASSUME FrequencyOK, NEW u \in Users, NEW win \in Windows
  PROVE  /\ freq[<<u, win>>] \in [Ads -> Nat] \cup {None}
         /\ clean[<<u, win>>] \in BOOLEAN
         /\ \A ad \in Ads : /\ putting[<<u, win, ad>>] \in Nat
                            /\ adding[<<u, win, ad>>] \in Nat
                            /\ due[<<u, win, ad>>] \in Nat
BY DEF FrequencyOK, Keys, Totals

\* A step that changes nothing of a user's window keeps what holds of it.
LEMMA OtherKeysKeep ==
  ASSUME NEW u \in Users, NEW win \in Windows, KeyOK(u, win),
         freq'[<<u, win>>] = freq[<<u, win>>], clean'[<<u, win>>] = clean[<<u, win>>],
         \A ad \in Ads : /\ putting'[<<u, win, ad>>] = putting[<<u, win, ad>>]
                         /\ adding'[<<u, win, ad>>] = adding[<<u, win, ad>>]
                         /\ due'[<<u, win, ad>>] = due[<<u, win, ad>>]
  PROVE  KeyOK(u, win)'
BY SMTT(20) DEF KeyOK, Total

\* One more, or one less, of the calls in flight.
LEMMA BumpDrop ==
  ASSUME NEW f \in [Totals -> Nat], NEW t \in Totals
  PROVE  /\ Bump(f, t) \in [Totals -> Nat]
         /\ f[t] > 0 => Drop(f, t) \in [Totals -> Nat]
         /\ \A s \in Totals : /\ Bump(f, t)[s] = IF s = t THEN f[s] + 1 ELSE f[s]
                              /\ Drop(f, t)[s] = IF s = t THEN f[s] - 1 ELSE f[s]
BY SMTT(20) DEF Bump, Drop

\* A show is added to the calls in flight, as a fresh counter if there is
\* no record.
LEMMA CountFrequencyKeeps ==
  ASSUME WorkersOK, FrequencyInv, NEW w \in Workers, CountFrequency(w)
  PROVE  FrequencyInv'
<1> DEFINE u0 == req[w].user
           win0 == pc[w]
           ad0 == req[w].ad
           t0 == <<u0, win0, ad0>>
<1>1. u0 \in Users /\ win0 \in Windows /\ ad0 \in Ads /\ <<u0, win0>> \in Keys
  BY DEF WorkersOK, WorkerOK, CountFrequency, Keys
<1>2. /\ FrequencyOK /\ freq' = freq /\ due' = Bump(due, t0)
      /\ \/ /\ freq[<<u0, win0>>] = None
            /\ putting' = Bump(putting, t0) /\ adding' = adding
            /\ clean' = [clean EXCEPT ![<<u0, win0>>] = @ /\ \A ad \in Ads :
                           putting[<<u0, win0, ad>>] + adding[<<u0, win0, ad>>] = 0]
         \/ /\ freq[<<u0, win0>>] # None
            /\ adding' = Bump(adding, t0) /\ putting' = putting /\ clean' = clean
  BY DEF CountFrequency, FrequencyInv
<1>3. /\ putting \in [Totals -> Nat] /\ adding \in [Totals -> Nat] /\ due \in [Totals -> Nat]
      /\ clean \in [Keys -> BOOLEAN]
  BY <1>2 DEF FrequencyOK
<1>4. t0 \in Totals
  BY <1>1 DEF Totals
<1>5. /\ due' \in [Totals -> Nat] /\ Bump(putting, t0) \in [Totals -> Nat]
      /\ Bump(adding, t0) \in [Totals -> Nat]
  BY <1>2, <1>3, <1>4, BumpDrop
<1>6. FrequencyOK'
  BY <1>1, <1>2, <1>3, <1>5 DEF FrequencyOK
<1>7. ASSUME NEW u \in Users, NEW win \in Windows
      PROVE  KeyOK(u, win)'
  <2>1. KeyOK(u, win) /\ <<u, win>> \in Keys
    BY DEF FrequencyInv, Keys
  <2>4. ASSUME NEW f \in [Totals -> Nat], NEW ad \in Ads
        PROVE  Bump(f, t0)[<<u, win, ad>>] =
                 f[<<u, win, ad>>] + (IF u = u0 /\ win = win0 /\ ad = ad0 THEN 1 ELSE 0)
    <3>1. <<u, win, ad>> \in Totals
      BY DEF Totals
    <3> QED BY <1>4, <3>1, BumpDrop, SMTT(20)
  <2>5. /\ freq[<<u, win>>] \in [Ads -> Nat] \cup {None}
        /\ clean[<<u, win>>] \in BOOLEAN
        /\ \A ad \in Ads : /\ putting[<<u, win, ad>>] \in Nat
                           /\ adding[<<u, win, ad>>] \in Nat
                           /\ due[<<u, win, ad>>] \in Nat
    BY <1>2, FrequencyTypes
  <2>2. CASE u = u0 /\ win = win0
    <3>1. CASE freq[<<u, win>>] = None
      <4>1. clean'[<<u, win>>] => clean[<<u, win>>] /\ \A ad \in Ads :
              putting[<<u, win, ad>>] + adding[<<u, win, ad>>] = 0
        BY <1>2, <1>3, <2>1, <2>2, <3>1
      <4>2. \A ad \in Ads :
              /\ due'[<<u, win, ad>>] = due[<<u, win, ad>>] + (IF ad = ad0 THEN 1 ELSE 0)
              /\ putting'[<<u, win, ad>>] = putting[<<u, win, ad>>] + (IF ad = ad0 THEN 1 ELSE 0)
              /\ adding'[<<u, win, ad>>] = adding[<<u, win, ad>>]
              /\ freq'[<<u, win>>] = None
        BY <1>2, <1>3, <2>2, <2>4, <3>1, SMTT(20)
      <4>3. \A ad \in Ads : /\ Total(u, win, ad)' <= due'[<<u, win, ad>>]
                            /\ clean'[<<u, win>>] => Total(u, win, ad)' = due'[<<u, win, ad>>]
        BY <2>1, <2>5, <3>1, <4>1, <4>2, SMTT(20) DEF KeyOK, Total
      <4>4. ASSUME clean'[<<u, win>>], NEW ad \in Ads, putting'[<<u, win, ad>>] > 0
            PROVE  /\ ad = ad0 /\ putting'[<<u, win, ad>>] = 1
                   /\ \A b \in Ads : /\ adding'[<<u, win, b>>] = 0
                                     /\ b # ad => putting'[<<u, win, b>>] = 0
        BY <2>5, <4>1, <4>2, <4>4, SMTT(20)
      <4> QED BY <4>2, <4>3, <4>4 DEF KeyOK
    <3>2. CASE freq[<<u, win>>] # None
      <4>1. \A ad \in Ads :
              /\ due'[<<u, win, ad>>] = due[<<u, win, ad>>] + (IF ad = ad0 THEN 1 ELSE 0)
              /\ adding'[<<u, win, ad>>] = adding[<<u, win, ad>>] + (IF ad = ad0 THEN 1 ELSE 0)
              /\ putting'[<<u, win, ad>>] = putting[<<u, win, ad>>]
        BY <1>2, <1>3, <2>2, <2>4, <3>2, SMTT(20)
      <4>2. clean' = clean /\ freq' = freq
        BY <1>2, <2>2, <3>2
      <4> QED BY <2>1, <2>5, <3>2, <4>1, <4>2, SMTT(20) DEF KeyOK, Total
    <3> QED BY <3>1, <3>2
  <2>3. CASE ~(u = u0 /\ win = win0)
    <3>1. freq'[<<u, win>>] = freq[<<u, win>>] /\ clean'[<<u, win>>] = clean[<<u, win>>]
      BY <1>1, <1>2, <1>3, <2>1, <2>3
    <3>2. \A ad \in Ads : /\ putting'[<<u, win, ad>>] = putting[<<u, win, ad>>]
                          /\ adding'[<<u, win, ad>>] = adding[<<u, win, ad>>]
                          /\ due'[<<u, win, ad>>] = due[<<u, win, ad>>]
      BY <1>2, <1>3, <2>3, <2>4, <2>5, SMTT(20)
    <3> QED BY <2>1, <3>1, <3>2, OtherKeysKeep
  <2> QED BY <2>2, <2>3
<1> QED BY <1>6, <1>7 DEF FrequencyInv

\* A call lands or is lost: the other users and windows are left alone, and
\* a fresh counter that is clean is alone.
LEMMA CallLandsKeeps ==
  ASSUME FrequencyInv, NEW t \in Totals, PutLands(t) \/ AddLands(t) \/ FrequencyLost(t)
  PROVE  FrequencyInv'
<1>1. PICK u0 \in Users, win0 \in Windows, ad0 \in Ads : t = <<u0, win0, ad0>>
  BY SMTT(20) DEF Totals
<1>2. /\ freq \in [Keys -> [Ads -> Nat] \cup {None}] /\ clean \in [Keys -> BOOLEAN]
      /\ putting \in [Totals -> Nat] /\ adding \in [Totals -> Nat] /\ due \in [Totals -> Nat]
      /\ <<u0, win0>> \in Keys
  BY DEF FrequencyInv, FrequencyOK, Keys
<1> DEFINE k0 == <<u0, win0>>
           Fresh == [ad \in Ads |-> IF ad = ad0 THEN 1 ELSE 0]
           FreshPut == /\ putting[t] > 0 /\ putting' = Drop(putting, t) /\ adding' = adding
                       /\ freq' = [freq EXCEPT ![k0] = Fresh] /\ clean' = clean
           Add == /\ adding[t] > 0 /\ adding' = Drop(adding, t) /\ putting' = putting
                  /\ freq' = [freq EXCEPT ![k0] = IF @ = None THEN Fresh ELSE Bump(@, ad0)]
                  /\ clean' = clean
           Lost == /\ \/ putting[t] > 0 /\ putting' = Drop(putting, t) /\ adding' = adding
                      \/ adding[t] > 0 /\ adding' = Drop(adding, t) /\ putting' = putting
                   /\ freq' = freq /\ clean' = [clean EXCEPT ![k0] = FALSE]
<1>3. due' = due /\ (FreshPut \/ Add \/ Lost)
  BY <1>1 DEF PutLands, AddLands, FrequencyLost, FreshCounter
<1> HIDE DEF FreshPut, Add, Lost, Fresh, k0
<1>4. Fresh \in [Ads -> Nat] /\ \A ad \in Ads : Fresh[ad] = IF ad = ad0 THEN 1 ELSE 0
  BY DEF Fresh
<1>5. ASSUME NEW f \in [Ads -> Nat]
      PROVE  /\ Bump(f, ad0) \in [Ads -> Nat]
             /\ \A ad \in Ads : Bump(f, ad0)[ad] = f[ad] + (IF ad = ad0 THEN 1 ELSE 0)
  BY <1>1, SMTT(20) DEF Bump
<1>6. FrequencyOK'
  <2>1. putting' \in [Totals -> Nat] /\ adding' \in [Totals -> Nat]
    BY <1>2, <1>3, BumpDrop, SMTT(20) DEF FreshPut, Add, Lost
  <2>2. clean' \in [Keys -> BOOLEAN]
    BY <1>2, <1>3 DEF FreshPut, Add, Lost
  <2>3. freq' \in [Keys -> [Ads -> Nat] \cup {None}]
    BY <1>2, <1>3, <1>4, <1>5, SMTT(20) DEF FreshPut, Add, Lost, k0
  <2> QED BY <1>2, <1>3, <2>1, <2>2, <2>3 DEF FrequencyOK
<1>7. ASSUME NEW u \in Users, NEW win \in Windows
      PROVE  KeyOK(u, win)'
  <2>1. KeyOK(u, win) /\ <<u, win>> \in Keys
    BY DEF FrequencyInv, Keys
  <2>2. /\ freq[<<u, win>>] \in [Ads -> Nat] \cup {None}
        /\ clean[<<u, win>>] \in BOOLEAN
        /\ \A ad \in Ads : /\ putting[<<u, win, ad>>] \in Nat
                           /\ adding[<<u, win, ad>>] \in Nat
                           /\ due[<<u, win, ad>>] \in Nat
    BY FrequencyTypes DEF FrequencyInv
  <2>3. ASSUME NEW f \in [Totals -> Nat], NEW ad \in Ads
        PROVE  Drop(f, t)[<<u, win, ad>>] =
                 f[<<u, win, ad>>] - (IF u = u0 /\ win = win0 /\ ad = ad0 THEN 1 ELSE 0)
    <3>1. <<u, win, ad>> \in Totals
      BY DEF Totals
    <3>2. /\ Drop(f, t)[<<u, win, ad>>] = IF <<u, win, ad>> = t THEN f[<<u, win, ad>>] - 1
                                          ELSE f[<<u, win, ad>>]
          /\ f[<<u, win, ad>>] \in Nat
      BY <3>1, BumpDrop
    <3> QED BY <1>1, <3>2, SMTT(20)
  <2>4. CASE ~(u = u0 /\ win = win0)
    <3>1. freq'[<<u, win>>] = freq[<<u, win>>] /\ clean'[<<u, win>>] = clean[<<u, win>>]
      BY <1>2, <1>3, <2>1, <2>4 DEF FreshPut, Add, Lost, k0
    <3>2. \A ad \in Ads : /\ putting'[<<u, win, ad>>] = putting[<<u, win, ad>>]
                          /\ adding'[<<u, win, ad>>] = adding[<<u, win, ad>>]
                          /\ due'[<<u, win, ad>>] = due[<<u, win, ad>>]
      BY <1>2, <1>3, <2>2, <2>3, <2>4, SMTT(20) DEF FreshPut, Add, Lost
    <3> QED BY <2>1, <3>1, <3>2, OtherKeysKeep
  <2>5. CASE u = u0 /\ win = win0
    <3> DEFINE less(ad) == IF ad = ad0 THEN 1 ELSE 0
    <3>1. CASE FreshPut
      <4>1. /\ freq'[<<u, win>>] = Fresh /\ clean'[<<u, win>>] = clean[<<u, win>>]
            /\ putting[<<u, win, ad0>>] > 0
        BY <1>1, <1>2, <2>5, <3>1 DEF FreshPut, k0
      <4>2. \A ad \in Ads : /\ putting'[<<u, win, ad>>] = putting[<<u, win, ad>>] - less(ad)
                            /\ adding'[<<u, win, ad>>] = adding[<<u, win, ad>>]
                            /\ due'[<<u, win, ad>>] = due[<<u, win, ad>>]
        BY <1>2, <1>3, <2>3, <2>5, <3>1 DEF FreshPut
      <4>3. Fresh # None
        BY <1>4, ConstantsAssumption
      <4>4. \A ad \in Ads : /\ Total(u, win, ad)' <= due'[<<u, win, ad>>]
                            /\ clean'[<<u, win>>] => Total(u, win, ad)' = due'[<<u, win, ad>>]
        BY <1>4, <2>1, <2>2, <4>1, <4>2, <4>3, SMTT(20) DEF KeyOK, Total
      <4>5. clean'[<<u, win>>] => \A ad \in Ads : ~(putting'[<<u, win, ad>>] > 0)
        BY <1>1, <2>1, <2>2, <4>1, <4>2, SMTT(20) DEF KeyOK
      <4> QED BY <4>4, <4>5 DEF KeyOK
    <3>2. CASE Add
      <4>1. /\ freq'[<<u, win>>] = IF freq[<<u, win>>] = None THEN Fresh
                                   ELSE Bump(freq[<<u, win>>], ad0)
            /\ clean'[<<u, win>>] = clean[<<u, win>>] /\ adding[<<u, win, ad0>>] > 0
        BY <1>1, <1>2, <2>5, <3>2 DEF Add, k0
      <4>2. \A ad \in Ads : /\ adding'[<<u, win, ad>>] = adding[<<u, win, ad>>] - less(ad)
                            /\ putting'[<<u, win, ad>>] = putting[<<u, win, ad>>]
                            /\ due'[<<u, win, ad>>] = due[<<u, win, ad>>]
        BY <1>2, <1>3, <2>3, <2>5, <3>2 DEF Add
      <4>3. /\ freq'[<<u, win>>] # None
            /\ \A ad \in Ads : freq'[<<u, win>>][ad] = less(ad) +
                 (IF freq[<<u, win>>] = None THEN 0 ELSE freq[<<u, win>>][ad])
        BY <1>4, <1>5, <2>2, <4>1, ConstantsAssumption, SMTT(20)
      <4>4. \A ad \in Ads : /\ Total(u, win, ad)' <= due'[<<u, win, ad>>]
                            /\ clean'[<<u, win>>] => Total(u, win, ad)' = due'[<<u, win, ad>>]
        BY <2>1, <2>2, <4>1, <4>2, <4>3, SMTT(20) DEF KeyOK, Total
      <4>5. clean'[<<u, win>>] => \A ad \in Ads : ~(putting'[<<u, win, ad>>] > 0)
        BY <1>1, <2>1, <2>2, <4>1, <4>2, SMTT(20) DEF KeyOK
      <4> QED BY <4>4, <4>5 DEF KeyOK
    <3>3. CASE Lost
      <4>1. freq'[<<u, win>>] = freq[<<u, win>>] /\ ~clean'[<<u, win>>]
        BY <1>2, <2>5, <3>3 DEF Lost, k0
      <4>2. \A ad \in Ads : /\ putting'[<<u, win, ad>>] <= putting[<<u, win, ad>>]
                            /\ adding'[<<u, win, ad>>] <= adding[<<u, win, ad>>]
                            /\ due'[<<u, win, ad>>] = due[<<u, win, ad>>]
                            /\ putting'[<<u, win, ad>>] \in Int /\ adding'[<<u, win, ad>>] \in Int
        BY <1>2, <1>3, <2>2, <2>3, <2>5, <3>3, SMTT(20) DEF Lost
      <4> QED BY <2>1, <2>2, <4>1, <4>2, SMTT(20) DEF KeyOK, Total
    <3> QED BY <1>3, <3>1, <3>2, <3>3
  <2> QED BY <2>4, <2>5
<1> QED BY <1>6, <1>7 DEF FrequencyInv

\* When a record ends, the calls in flight are all that is due.
LEMMA FrequencyExpiresKeeps ==
  ASSUME FrequencyInv, NEW k \in Keys, FrequencyExpires(k)
  PROVE  FrequencyInv'
<1>1. PICK u0 \in Users, win0 \in Windows : k = <<u0, win0>>
  BY SMTT(20) DEF Keys
<1>2. /\ freq \in [Keys -> [Ads -> Nat] \cup {None}] /\ clean \in [Keys -> BOOLEAN]
      /\ putting \in [Totals -> Nat] /\ adding \in [Totals -> Nat] /\ due \in [Totals -> Nat]
  BY DEF FrequencyInv, FrequencyOK
<1>3. /\ freq[k] # None /\ freq' = [freq EXCEPT ![k] = None]
      /\ putting' = putting /\ adding' = adding /\ clean' = clean
      /\ due' = [t \in Totals |-> IF <<t[1], t[2]>> = k THEN putting[t] + adding[t] ELSE due[t]]
  BY DEF FrequencyExpires
<1>4. FrequencyOK'
  BY <1>2, <1>3, SMTT(20) DEF FrequencyOK
<1>5. ASSUME NEW u \in Users, NEW win \in Windows
      PROVE  KeyOK(u, win)'
  <2>1. KeyOK(u, win) /\ <<u, win>> \in Keys
    BY DEF FrequencyInv, Keys
  <2>2. /\ clean[<<u, win>>] \in BOOLEAN
        /\ \A ad \in Ads : /\ putting[<<u, win, ad>>] \in Nat
                           /\ adding[<<u, win, ad>>] \in Nat
                           /\ due[<<u, win, ad>>] \in Nat
    BY FrequencyTypes DEF FrequencyInv
  <2>3. \A ad \in Ads : due'[<<u, win, ad>>] =
          IF u = u0 /\ win = win0 THEN putting[<<u, win, ad>>] + adding[<<u, win, ad>>]
          ELSE due[<<u, win, ad>>]
    BY <1>1, <1>3 DEF Totals
  <2>4. CASE u = u0 /\ win = win0
    <3>1. freq'[<<u, win>>] = None /\ freq[<<u, win>>] # None
      BY <1>1, <1>2, <1>3, <2>4
    <3> QED BY <1>3, <2>1, <2>2, <2>3, <2>4, <3>1, SMTT(20) DEF KeyOK, Total
  <2>5. CASE ~(u = u0 /\ win = win0)
    <3>1. freq'[<<u, win>>] = freq[<<u, win>>]
      BY <1>1, <1>2, <1>3, <2>1, <2>5
    <3> QED BY <1>3, <2>1, <2>3, <2>5, <3>1, OtherKeysKeep
  <2> QED BY <2>4, <2>5
<1> QED BY <1>4, <1>5 DEF FrequencyInv

-----------------------------------------------------------------------------
(* Source ids and traces.                                                  *)

\* A log that is not of a trace names no click.
LEMMA LogNamesNothing ==
  ASSUME NEW r, NEW type, NEW status
  PROVE  Log(r, type, status).record = None
BY DEF Log

\* Requests are numbered from 1 on.
LEMMA NextNumber ==
  ASSUME NEW n \in Nat
  PROVE  n + 1 \in Nat /\ n + 1 # 0
BY SMTT(20)

\* New requests have all fields, and later steps only change some.
LEMMA RequestFields ==
  ASSUME NEW kind, NEW user, NEW ad, NEW booking
  PROVE  /\ IsRequest(Request(kind, user, ad, booking))
         /\ Request(kind, user, ad, booking).nr = started + 1
         /\ Request(kind, user, ad, booking).kind = kind
         /\ Request(kind, user, ad, booking).user = user
         /\ Request(kind, user, ad, booking).ad = ad
         /\ Request(kind, user, ad, booking).source = None
         /\ Request(kind, user, ad, booking).from = 0
BY DEF Request, Idle, IsRequest

\* A worker that takes a step leaves the others alone.
LEMMA WorkerSteps ==
  ASSUME WorkersOK, NEW w \in Workers, NEW p, NEW r, WorkerOK(p, r, made'),
         pc' = [pc EXCEPT ![w] = p], req' = [req EXCEPT ![w] = r],
         started' \in Nat, traffic' = traffic,
         \A i \in DOMAIN made : i \in DOMAIN made' /\ made'[i] = made[i]
  PROVE  WorkersOK'
<1>1. ASSUME NEW v \in Workers, v # w
      PROVE  WorkerOK(pc'[v], req'[v], made')
  <2>1. pc'[v] = pc[v] /\ req'[v] = req[v] /\ WorkerOK(pc[v], req[v], made)
    BY <1>1 DEF WorkersOK
  <2> HIDE DEF IsRequest
  <2> QED BY <2>1 DEF WorkerOK
<1>2. pc'[w] = p /\ req'[w] = r
  BY DEF WorkersOK
<1> QED BY <1>1, <1>2 DEF WorkersOK

\* Nothing of the trail changes but the requests and the logs, and a new log
\* names no click, or one that fits.
LEMMA LogKeeps ==
  ASSUME TrailInv, WorkersOK', UNCHANGED <<trail, links, landed>>, NEW log,
         logs' = logs \/ logs' = logs \cup {log},
         log.record = None \/ Fits(log.record, log)
  PROVE  TrailInv'
<1>1. MadeOK' /\ SourcesOK' /\ IndexOK' /\ LateOK' /\ PagesOK'
  BY DEF TrailInv, MadeOK, SourcesOK, IndexOK, LateOK, PagesOK, trail
<1>2. TraceOwn'
  BY DEF TrailInv, TraceOwn, Fits
<1> QED BY <1>1, <1>2 DEF TrailInv

\* A worker without a request.
LEMMA IdleOK ==
  ASSUME NEW m
  PROVE  WorkerOK("idle", Idle, m)
BY DEF WorkerOK, Windows, ClickSteps, IsRequest, Idle

\* A step of the frequency control goes on with the request, or logs it.
LEMMA FrequencyStepKeeps ==
  ASSUME TrailInv, NEW w \in Workers, CountFrequency(w) \/ FrequencyFails(w)
  PROVE  TrailInv'
<1>1. /\ UNCHANGED <<traffic, started, trail, links, landed>> /\ made' = made
      /\ pc[w] \in Windows
      /\ \/ Continue(w, "hourly", req[w]) /\ logs' = logs
         \/ Finish(w) /\ logs' = logs \cup {Log(req[w], req[w].kind, 200)}
  BY DEF CountFrequency, FrequencyFails, AfterFrequency, trail
<1>2. WorkersOK /\ WorkerOK(pc[w], req[w], made)
  BY DEF TrailInv, WorkersOK
<1>3. WorkerOK("hourly", req[w], made)
  BY <1>1, <1>2 DEF WorkerOK, Windows, ClickSteps, IsRequest, Idle
<1>4. WorkersOK'
  BY <1>1, <1>2, <1>3, IdleOK, WorkerSteps DEF Continue, Finish, WorkersOK
<1>a. PICK status : logs' = logs \/ logs' = logs \cup {Log(req[w], req[w].kind, status)}
  BY <1>1
<1> DEFINE x == Log(req[w], req[w].kind, status)
<1>5. /\ x.record = None
      /\ logs' = logs \/ logs' = logs \cup {x}
  BY <1>a, LogNamesNothing
<1> HIDE DEF x
<1> QED BY <1>1, <1>4, <1>5, LogKeeps

\* A show request may hand out a click url and writes logs without a click.
LEMMA ShowKeeps ==
  ASSUME TrailInv, NEW w \in Workers, ShowForSsp(w) \/ ShowForSspFailed(w) \/ ShowForDsp(w)
  PROVE  TrailInv'
<1>1. /\ WorkersOK /\ started' = started + 1 /\ started' \in Nat
      /\ UNCHANGED <<traffic, trail, landed>> /\ made' = made
  <2>1. WorkersOK /\ started \in Nat
    BY DEF TrailInv, WorkersOK
  <2>2. started' = started + 1 /\ UNCHANGED <<traffic, trail, landed>> /\ made' = made
    BY DEF ShowForSsp, ShowForSspFailed, ShowForDsp, Begin, trail
  <2>3. started + 1 \in Nat
    BY <2>1, NextNumber
  <2> QED BY <2>1, <2>2, <2>3
<1>2. ASSUME NEW u \in Users, NEW ad \in Ads, NEW kind, NEW booking,
             Continue(w, "daily", Request(kind, u, ad, booking))
      PROVE  WorkersOK'
  <2>1. WorkerOK("daily", Request(kind, u, ad, booking), made)
    BY RequestFields, SMTT(20) DEF WorkerOK, Windows, ClickSteps
  <2> QED BY <1>1, <1>2, <2>1, WorkerSteps DEF Continue
<1>3. ASSUME pc' = pc, req' = req
      PROVE  WorkersOK'
  BY <1>1, <1>3 DEF WorkersOK
<1>4. WorkersOK'
  <2>1. CASE ShowForSsp(w)
    BY <1>1, <1>2, <2>1 DEF ShowForSsp, WorkersOK
  <2>2. CASE ShowForSspFailed(w)
    BY <1>3, <2>2 DEF ShowForSspFailed
  <2>3. CASE ShowForDsp(w)
    BY <1>1, <1>2, <1>3, <2>3 DEF ShowForDsp, WorkersOK
  <2> QED BY <2>1, <2>2, <2>3
<1>5. /\ \A l \in links' : l \in links \/ l.ad \in Ads
      /\ \A l \in logs' : l \in logs \/ l.record = None
  <2>1. CASE ShowForSsp(w)
    <3>1. PICK u \in Users, ad \in {a \in traffic.ads : Terms[a].adx = "ssp"} :
            LET r == Request("BID", u, ad, SspShowPrice(Terms[ad])) IN
            /\ \E status : logs' = logs \cup {Log(r, "SHOW", status)}
            /\ links' = links \cup {[ad |-> ad, user |-> None, url |-> Cipher(BuildResponseForSsp(Terms[ad]))]}
      BY <2>1 DEF ShowForSsp
    <3> DEFINE r == Request("BID", u, ad, SspShowPrice(Terms[ad]))
               link == [ad |-> ad, user |-> None, url |-> Cipher(BuildResponseForSsp(Terms[ad]))]
    <3>2. PICK status : logs' = logs \cup {Log(r, "SHOW", status)}
      BY <3>1
    <3>3. links' = links \cup {link}
      BY <3>1
    <3>4. link.ad \in Ads
      BY <1>1 DEF WorkersOK
    <3> HIDE DEF r, link
    <3> DEFINE x == Log(r, "SHOW", status)
    <3>5. x.record = None /\ logs' = logs \cup {x}
      BY <3>2, LogNamesNothing
    <3> HIDE DEF x
    <3> QED BY <3>3, <3>4, <3>5
  <2>2. CASE ShowForSspFailed(w)
    BY <2>2, LogNamesNothing DEF ShowForSspFailed
  <2>3. CASE ShowForDsp(w)
    <3>1. PICK u \in Users, ad \in {a \in traffic.ads : Terms[a].adx # "ssp"},
               of \in {"both", "creative", "log"}, found \in BOOLEAN :
            LET url == ShowRequest(Terms[ad])
                r == Request("SHOW", u, ad, ParseObjectToLogItem(Terms[ad].adx, url, "SHOW"))
            IN IF of # "log" /\ ~found
                 THEN /\ logs' = IF of = "both" THEN logs \cup {Log(r, "SHOW", 500)} ELSE logs
                      /\ UNCHANGED <<pc, req, links, counting>>
                 ELSE /\ links' = IF of = "log" THEN links ELSE links \cup
                           {[ad |-> ad, user |-> u, url |-> Cipher(BuildResponseForDsp(url))]}
                      /\ IF of = "creative" THEN UNCHANGED <<pc, req, counting>>
                         ELSE CountShow(ad) /\ Continue(w, "daily", r)
                      /\ UNCHANGED logs
      BY <2>3 DEF ShowForDsp
    <3> DEFINE url == ShowRequest(Terms[ad])
               r == Request("SHOW", u, ad, ParseObjectToLogItem(Terms[ad].adx, url, "SHOW"))
               link == [ad |-> ad, user |-> u, url |-> Cipher(BuildResponseForDsp(url))]
    <3>2. PICK status : logs' = logs \/ logs' = logs \cup {Log(r, "SHOW", status)}
      BY <3>1
    <3>3. links' = links \/ links' = links \cup {link}
      BY <3>1
    <3>4. link.ad \in Ads
      BY <1>1 DEF WorkersOK
    <3> HIDE DEF r, link
    <3> DEFINE x == Log(r, "SHOW", status)
    <3>5. x.record = None /\ (logs' = logs \/ logs' = logs \cup {x})
      BY <3>2, LogNamesNothing
    <3> HIDE DEF x
    <3> QED BY <3>3, <3>4, <3>5
  <2> QED BY <2>1, <2>2, <2>3
<1>6. MadeOK' /\ SourcesOK' /\ IndexOK' /\ LateOK' /\ PagesOK' /\ TraceOwn'
  BY <1>1, <1>5 DEF TrailInv, MadeOK, SourcesOK, IndexOK, LateOK, PagesOK, TraceOwn, trail
<1> QED BY <1>4, <1>6 DEF TrailInv

\* A click request takes its ad and user from the url.
LEMMA ClickKeeps ==
  ASSUME TrailInv, NEW w \in Workers, Click(w)
  PROVE  TrailInv'
<1>1. PICK link \in links, u \in Users, landing \in BOOLEAN :
        \/ Continue(w, "generateSourceId", ClickRequest(link, u, landing)) /\ logs' = logs
        \/ /\ logs' = logs \cup {Log(ClickRequest(link, u, landing), "CLICK", 302)}
           /\ pc' = pc /\ req' = req
  BY DEF Click
<1> DEFINE r0 == ClickRequest(link, u, landing)
<1>2. /\ WorkersOK /\ started \in Nat /\ started' = started + 1 /\ link.ad \in Ads
      /\ UNCHANGED <<traffic, trail, links, landed>> /\ made' = made
  BY DEF TrailInv, WorkersOK, PagesOK, Click, Begin, trail
<1>3. PICK q : /\ r0 = [q EXCEPT !.owner = Terms[link.ad].owner, !.landing = landing]
               /\ IsRequest(q) /\ q.nr = started + 1 /\ q.user = u /\ q.ad = link.ad
               /\ q.source = None
  <2> DEFINE booking == ParseObjectToLogItem(Terms[link.ad].adx, link.url, "CLICK")
             q0 == Request("CLICK", u, link.ad, booking)
  <2>1. r0 = [q0 EXCEPT !.owner = Terms[link.ad].owner, !.landing = landing]
    BY DEF ClickRequest
  <2> HIDE DEF booking, r0
  <2>2. /\ IsRequest(q0) /\ q0.nr = started + 1 /\ q0.user = u /\ q0.ad = link.ad
        /\ q0.source = None
    BY RequestFields, SMTT(20)
  <2> HIDE DEF q0
  <2> QED BY <2>1, <2>2
<1>4. /\ IsRequest(r0) /\ r0.nr = started + 1 /\ r0.user = u /\ r0.ad = link.ad
      /\ r0.source = None /\ r0.owner = Terms[link.ad].owner
  BY <1>3 DEF IsRequest
<1>5. started' \in Nat /\ started + 1 # 0
  BY <1>2, NextNumber
<1>6. WorkerOK("generateSourceId", r0, made)
  <2> HIDE DEF r0
  <2>1. r0.nr # 0
    BY <1>4, <1>5
  <2> QED BY <1>2, <1>4, <2>1 DEF WorkerOK, Windows, ClickSteps
<1>7. WorkersOK'
  <2>1. CASE Continue(w, "generateSourceId", r0)
    BY <1>2, <1>5, <1>6, <2>1, WorkerSteps DEF Continue
  <2>2. CASE pc' = pc /\ req' = req
    BY <1>2, <1>5, <2>2 DEF WorkersOK
  <2> QED BY <1>1, <2>1, <2>2
<1>a. PICK status : logs' = logs \/ logs' = logs \cup {Log(r0, "CLICK", status)}
  BY <1>1
<1> DEFINE x == Log(r0, "CLICK", status)
<1>8. /\ x.record = None
      /\ logs' = logs \/ logs' = logs \cup {x}
  BY <1>a, LogNamesNothing
<1> HIDE DEF x
<1> QED BY <1>2, <1>7, <1>8, LogKeeps

\* Counting a click, and the death of a worker, touch no source.
LEMMA CountClickDiesKeep ==
  ASSUME TrailInv, NEW w \in Workers, CountClick(w) \/ Dies(w)
  PROVE  TrailInv'
<1>1. /\ UNCHANGED <<traffic, started, trail, links, landed, logs>> /\ made' = made
      /\ \/ pc[w] = "countClick" /\ Continue(w, "logClick", req[w])
         \/ Finish(w)
  BY DEF CountClick, Dies, trail
<1>2. WorkersOK /\ WorkerOK(pc[w], req[w], made)
  BY DEF TrailInv, WorkersOK
<1>3. pc[w] = "countClick" => WorkerOK("logClick", req[w], made)
  BY <1>2 DEF WorkerOK, Windows, ClickSteps
<1>4. WorkersOK'
  BY <1>1, <1>2, <1>3, IdleOK, WorkerSteps DEF Continue, Finish, WorkersOK
<1> QED BY <1>1, <1>4, LogKeeps, LogNamesNothing

\* The page a click leads to is given the id that was drawn for it.
LEMMA LogClickKeeps ==
  ASSUME TrailInv, NEW w \in Workers, LogClick(w)
  PROVE  TrailInv'
<1>1. /\ UNCHANGED <<traffic, started, trail, links>> /\ made' = made
      /\ Finish(w) /\ pc[w] = "logClick"
      /\ logs' = logs \cup {Log(req[w], "CLICK", 302)}
      /\ landed' = landed \cup {[nr |-> req[w].nr, user |-> req[w].user,
                                 owner |-> req[w].owner, source |-> req[w].source]}
  BY DEF LogClick, trail
<1>2. WorkersOK /\ WorkerOK(pc[w], req[w], made)
  BY DEF TrailInv, WorkersOK
<1>3. WorkersOK'
  BY <1>1, <1>2, IdleOK, WorkerSteps DEF Finish, WorkersOK
<1>4. PagesOK'
  <2> DEFINE page == [nr |-> req[w].nr, user |-> req[w].user,
                      owner |-> req[w].owner, source |-> req[w].source]
  <2>1. /\ page.nr = req[w].nr /\ page.owner = req[w].owner /\ page.source = req[w].source
        /\ landed' = landed \cup {page} /\ links' = links /\ made' = made
    BY <1>1
  <2> HIDE DEF page
  <2>2. /\ req[w].nr # 0 /\ req[w].owner = Terms[req[w].ad].owner
        /\ \/ req[w].source = None
           \/ req[w].source \in DOMAIN made /\ made[req[w].source] = SourceRecord(req[w])
    BY <1>1, <1>2 DEF WorkerOK, ClickSteps
  <2>3. SourceRecord(req[w]).nr = req[w].nr /\ SourceRecord(req[w]).ad = req[w].ad
    BY DEF SourceRecord
  <2>4. PagesOK
    BY DEF TrailInv
  <2>5. page.source = None \/ (/\ page.source \in DOMAIN made /\ page.nr # 0
                                /\ made[page.source].nr = page.nr
                                /\ Terms[made[page.source].ad].owner = page.owner)
    BY <2>1, <2>2, <2>3
  <2>6. ASSUME NEW p \in landed'
        PROVE  p.source = None \/ (/\ p.source \in DOMAIN made /\ p.nr # 0
                                    /\ made[p.source].nr = p.nr
                                    /\ Terms[made[p.source].ad].owner = p.owner)
    BY <2>1, <2>4, <2>5 DEF PagesOK
  <2>7. \A l \in links' : l.ad \in Ads
    BY <2>1, <2>4 DEF PagesOK
  <2> QED BY <2>1, <2>6, <2>7 DEF PagesOK
<1>5. MadeOK' /\ SourcesOK' /\ IndexOK' /\ LateOK'
  BY <1>1 DEF TrailInv, MadeOK, SourcesOK, IndexOK, LateOK, trail
<1>6. TraceOwn'
  <2>1. \A l \in logs' : l \in logs \/ l.record = None
    <3>1. PICK status : logs' = logs \cup {Log(req[w], "CLICK", status)}
      BY <1>1
    <3>2. Log(req[w], "CLICK", status).record = None
      BY LogNamesNothing
    <3> QED BY <3>1, <3>2
  <2> QED BY <2>1 DEF TrailInv, TraceOwn
<1> QED BY <1>3, <1>4, <1>5, <1>6 DEF TrailInv

\* A trace request takes its source, if it has one, from such a page.
LEMMA TraceKeeps ==
  ASSUME TrailInv, NEW w \in Workers, Trace(w)
  PROVE  TrailInv'
<1>1. /\ WorkersOK /\ started \in Nat /\ started' = started + 1 /\ traffic.ads \subseteq Ads
      /\ UNCHANGED <<traffic, trail, links, landed, logs>> /\ made' = made
  BY DEF TrailInv, WorkersOK, Trace, Begin, trail
<1>2. started' \in Nat
  BY <1>1, NextNumber
<1>3. ASSUME NEW u \in Users, NEW page \in landed, page.source # None
      PROVE  WorkerOK("getSource", TraceRequest(u, page.owner, page.source, page.nr), made)
  <2>1. /\ page.source \in DOMAIN made /\ page.nr # 0 /\ made[page.source].nr = page.nr
        /\ Terms[made[page.source].ad].owner = page.owner
    BY <1>3 DEF TrailInv, PagesOK
  <2> DEFINE r == TraceRequest(u, page.owner, page.source, page.nr)
  <2>2. /\ IsRequest(r) /\ r.user = u /\ r.owner = page.owner /\ r.source = page.source
        /\ r.from = page.nr
    BY DEF TraceRequest, Request, Idle, IsRequest
  <2> HIDE DEF r
  <2>3. WorkerOK("getSource", r, made)
    BY <2>1, <2>2 DEF WorkerOK, Windows, ClickSteps, Fits
  <2> QED BY <2>3 DEF r
<1>4. ASSUME NEW u \in Users, NEW ad \in Ads
      PROVE  WorkerOK("getIndex", TraceRequest(u, Terms[ad].owner, None, 0), made)
  <2> DEFINE r == TraceRequest(u, Terms[ad].owner, None, 0)
  <2>1. IsRequest(r) /\ r.user = u /\ r.owner = Terms[ad].owner /\ r.source = None /\ r.from = 0
    BY DEF TraceRequest, Request, Idle, IsRequest
  <2> HIDE DEF r
  <2>2. WorkerOK("getIndex", r, made)
    BY <2>1 DEF WorkerOK, Windows, ClickSteps, Owners
  <2> QED BY <2>2 DEF r
<1>5. PICK p, r : WorkerOK(p, r, made) /\ Continue(w, p, r)
  BY <1>1, <1>3, <1>4 DEF Trace
<1>6. WorkersOK'
  BY <1>1, <1>2, <1>5, WorkerSteps DEF Continue
<1> QED BY <1>1, <1>6, LogKeeps, LogNamesNothing

\* The index has only clicks of the user on the advertiser's ads.
LEMMA GetIndexKeeps ==
  ASSUME TrailInv, NEW w \in Workers, GetIndex(w)
  PROVE  TrailInv'
<1> DEFINE k == <<req[w].user, req[w].owner>>
<1>1. /\ UNCHANGED <<traffic, started, trail, links, landed, logs>> /\ made' = made
      /\ pc[w] = "getIndex"
      /\ \/ Continue(w, "getSource", [req[w] EXCEPT !.source = index[k]])
         \/ Continue(w, "getSource", req[w])
  BY DEF GetIndex, trail
<1>2. WorkersOK /\ WorkerOK(pc[w], req[w], made) /\ started' \in Nat
  BY <1>1 DEF TrailInv, WorkersOK
<1>3. /\ IsRequest(req[w]) /\ req[w].user \in Users /\ req[w].owner \in Owners
      /\ req[w].from = 0 /\ req[w].source = None
  BY <1>1, <1>2 DEF WorkerOK
<1>4. WorkerOK("getSource", req[w], made)
  BY <1>3 DEF WorkerOK, Windows, ClickSteps
<1>5. index[k] = None \/ (index[k] \in DOMAIN made /\ k = IndexKey(made[index[k]]))
  BY <1>3 DEF TrailInv, IndexOK
<1>6. ASSUME NEW i, i = None \/ (i \in DOMAIN made /\ k = IndexKey(made[i]))
      PROVE  WorkerOK("getSource", [req[w] EXCEPT !.source = i], made)
  <2> DEFINE r == [req[w] EXCEPT !.source = i]
  <2>1. /\ IsRequest(r) /\ r.user = req[w].user /\ r.owner = req[w].owner
        /\ r.from = 0 /\ r.source = i
    BY <1>3 DEF IsRequest
  <2> HIDE DEF r
  <2>2. WorkerOK("getSource", r, made)
    BY <1>6, <2>1 DEF WorkerOK, Windows, ClickSteps, Fits, IndexKey
  <2> QED BY <2>2 DEF r
<1>7. WorkersOK'
  BY <1>1, <1>2, <1>4, <1>5, <1>6, WorkerSteps DEF Continue
<1> QED BY <1>1, <1>7, LogKeeps, LogNamesNothing

\* A trace that finds the record of its source logs a click that fits.
LEMMA GetSourceKeeps ==
  ASSUME TrailInv, NEW w \in Workers, GetSource(w)
  PROVE  TrailInv'
<1> DEFINE found == IF req[w].source \in DOMAIN sources THEN sources[req[w].source] ELSE None
<1>1. /\ UNCHANGED <<traffic, started, trail, links, landed>> /\ made' = made
      /\ pc[w] = "getSource" /\ Finish(w)
      /\ \E pageView \in BOOLEAN, record \in {found, None} :
           logs' = logs \cup {TraceLog(req[w], record, pageView)}
  BY DEF GetSource, trail
<1>2. WorkersOK /\ WorkerOK(pc[w], req[w], made) /\ started' \in Nat
  BY <1>1 DEF TrailInv, WorkersOK
<1>3. found = None \/ Fits(found, req[w])
  BY <1>1, <1>2, ConstantsAssumption DEF TrailInv, MadeOK, SourcesOK, WorkerOK
<1>4. ASSUME NEW record, NEW pageView, record = None \/ Fits(record, req[w])
      PROVE  LET l == TraceLog(req[w], record, pageView) IN
             l.record = None \/ Fits(l.record, l)
  BY <1>4 DEF TraceLog, Log, Fits
<1>5. WorkersOK'
  BY <1>1, <1>2, IdleOK, WorkerSteps DEF Finish
<1> QED BY <1>1, <1>3, <1>4, <1>5, LogKeeps

\* A new id is none that was drawn before.
LEMMA GenerateSourceIdKeeps ==
  ASSUME TrailInv, NEW w \in Workers, GenerateSourceId(w)
  PROVE  TrailInv'
<1> DEFINE record == SourceRecord(req[w])
<1>1. /\ UNCHANGED <<traffic, started, sources, index, late, links, landed, logs>>
      /\ pc[w] = "generateSourceId" /\ lastId' \in {lastId, lastId + 1}
      /\ \/ made' = made /\ Continue(w, "countClick", req[w])
         \/ /\ lastId # 0 /\ lastId' = lastId + 1
            /\ made' = Put(made, lastId, record)
            /\ Continue(w, "putSource", [req[w] EXCEPT !.source = lastId])
  BY DEF GenerateSourceId
<1>2. WorkersOK /\ WorkerOK(pc[w], req[w], made) /\ started' \in Nat
  BY <1>1 DEF TrailInv, WorkersOK
<1>3. /\ IsRequest(req[w]) /\ req[w].nr # 0 /\ req[w].user \in Users /\ req[w].ad \in Ads
      /\ req[w].owner = Terms[req[w].ad].owner /\ req[w].source = None
  BY <1>1, <1>2 DEF WorkerOK, ClickSteps
<1>4. record.user = req[w].user /\ record.ad = req[w].ad
  BY DEF SourceRecord
<1>5. /\ MadeOK' /\ \A i \in DOMAIN made : i \in DOMAIN made' /\ made'[i] = made[i]
      /\ made' # made => lastId \in DOMAIN made' /\ made'[lastId] = record
  <2> HIDE DEF record
  <2>1. MadeOK /\ lastId \in Nat
    BY DEF TrailInv, MadeOK
  <2>2. CASE made' = made
    BY <1>1, <2>1, <2>2, SMTT(20) DEF MadeOK
  <2>3. CASE made' = Put(made, lastId, record) /\ lastId' = lastId + 1
    BY <1>3, <1>4, <2>1, <2>3, SMTT(20) DEF MadeOK, Put
  <2> QED BY <1>1, <2>2, <2>3
<1>6. WorkerOK("countClick", req[w], made)
  BY <1>3 DEF WorkerOK, Windows, ClickSteps
<1>7. ASSUME made' = Put(made, lastId, record)
      PROVE  WorkerOK("putSource", [req[w] EXCEPT !.source = lastId], made')
  <2> DEFINE r == [req[w] EXCEPT !.source = lastId]
  <2>1. /\ IsRequest(r) /\ r.nr = req[w].nr /\ r.user = req[w].user /\ r.ad = req[w].ad
        /\ r.owner = req[w].owner /\ r.at = req[w].at /\ r.source = lastId
    BY <1>3 DEF IsRequest
  <2>2. /\ lastId \in DOMAIN made' /\ made'[lastId] = record /\ lastId # None
    BY <1>7, ConstantsAssumption DEF Put, TrailInv, MadeOK
  <2> HIDE DEF r
  <2>3. SourceRecord(r) = record
    BY <2>1 DEF SourceRecord
  <2>4. WorkerOK("putSource", r, made')
    BY <1>3, <2>1, <2>2, <2>3 DEF WorkerOK, Windows, ClickSteps
  <2> QED BY <2>4 DEF r
<1>8. WorkersOK'
  BY <1>1, <1>2, <1>5, <1>6, <1>7, WorkerSteps, SMTT(20) DEF Continue
<1>9. SourcesOK' /\ IndexOK' /\ LateOK' /\ PagesOK' /\ TraceOwn'
  <2> HIDE DEF record
  <2> QED BY <1>1, <1>5
          DEF TrailInv, SourcesOK, IndexOK, LateOK, WriteOK, PagesOK, TraceOwn
<1> QED BY <1>5, <1>8, <1>9 DEF TrailInv

\* A write of what was drawn keeps the records and the index in order.
LEMMA StoreKeeps ==
  ASSUME SourcesOK, IndexOK, MadeOK, NEW x, WriteOK(x, made), Store(x), made' = made
  PROVE  SourcesOK' /\ IndexOK'
<1>1. CASE x.at = "source"
  BY <1>1, SMTT(20) DEF Store, WriteOK, SourcesOK, IndexOK, Put
<1>2. CASE x.at # "source"
  <2>1. x.key = <<made[x.id].user, Terms[made[x.id].ad].owner>>
    BY <1>2 DEF WriteOK, IndexKey
  <2>2. made[x.id].user \in Users /\ Terms[made[x.id].ad].owner \in Owners
    BY DEF WriteOK, MadeOK, Owners
  <2>3. x.key \in Users \X Owners
    BY <2>1, <2>2, SMTT(20)
  <2> QED BY <1>2, <2>3 DEF Store, WriteOK, SourcesOK, IndexOK
<1> QED BY <1>1, <1>2

\* SourceFields: a record names the user and the ad of its click (SourceRecord()).
LEMMA SourceFields ==
  ASSUME NEW r
  PROVE  SourceRecord(r).user = r.user /\ SourceRecord(r).ad = r.ad
BY DEF SourceRecord

\* A click writes what was drawn for it, now or later.
LEMMA PutKeeps ==
  ASSUME TrailInv, NEW w \in Workers, PutSource(w) \/ PutIndex(w)
  PROVE  TrailInv'
<1>1. WorkersOK /\ WorkerOK(pc[w], req[w], made)
  BY DEF TrailInv, WorkersOK
<1>2. PICK x : /\ WriteOK(x, made)
               /\ Write(w, x, "putIndex") \/ Write(w, x, "countClick")
  <2> DEFINE xs == [at |-> "source", id |-> req[w].source, record |-> SourceRecord(req[w])]
             xi == [at |-> "index", id |-> req[w].source, key |-> <<req[w].user, req[w].owner>>]
  <2>1. pc[w] \in {"putSource", "putIndex"} => WriteOK(xs, made) /\ WriteOK(xi, made)
    <3> SUFFICES ASSUME pc[w] \in {"putSource", "putIndex"}
                 PROVE  WriteOK(xs, made) /\ WriteOK(xi, made)
      OBVIOUS
    <3>1. /\ req[w].source \in DOMAIN made /\ made[req[w].source] = SourceRecord(req[w])
          /\ req[w].owner = Terms[req[w].ad].owner
      BY <1>1 DEF WorkerOK, ClickSteps
    <3>2. made[req[w].source].user = req[w].user /\ made[req[w].source].ad = req[w].ad
      BY <3>1, SourceFields
    <3>3. IndexKey(made[req[w].source]) = <<req[w].user, req[w].owner>>
      BY <3>1, <3>2 DEF IndexKey
    <3> QED BY <3>1, <3>3 DEF WriteOK
  <2>2. \/ pc[w] = "putSource" /\ Write(w, xs, "putIndex")
        \/ pc[w] = "putIndex" /\ Write(w, xi, "countClick")
    BY DEF PutSource, PutIndex
  <2> HIDE DEF xs, xi
  <2> QED BY <2>1, <2>2
<1>3. /\ UNCHANGED <<traffic, started, lastId, links, landed, logs>> /\ made' = made
      /\ pc[w] \in {"putSource", "putIndex"}
      /\ \E p \in {"putIndex", "countClick"} : Continue(w, p, req[w])
      /\ \/ Store(x) /\ late' = late
         \/ late' \in {late, late \cup {x}} /\ sources' = sources /\ index' = index
  BY <1>2 DEF PutSource, PutIndex, Write
<1>4. WorkerOK("putIndex", req[w], made) /\ WorkerOK("countClick", req[w], made)
  BY <1>1, <1>3 DEF WorkerOK, Windows, ClickSteps
<1>5. WorkersOK'
  BY <1>1, <1>3, <1>4, WorkerSteps DEF Continue, WorkersOK
<1>6. SourcesOK' /\ IndexOK'
  <2>1. CASE Store(x)
    BY <1>2, <1>3, <2>1, StoreKeeps DEF TrailInv
  <2>2. CASE sources' = sources /\ index' = index
    BY <1>3, <2>2 DEF TrailInv, SourcesOK, IndexOK
  <2> QED BY <1>3, <2>1, <2>2
<1>7. MadeOK' /\ LateOK' /\ PagesOK' /\ TraceOwn'
  BY <1>2, <1>3 DEF TrailInv, MadeOK, LateOK, PagesOK, TraceOwn
<1> QED BY <1>5, <1>6, <1>7 DEF TrailInv

\* A late write is one of a drawn id, and expiry only removes.
LEMMA LateOrExpiredKeeps ==
  ASSUME TrailInv, (\E x \in late : LateWrite(x)) \/ TrailExpires
  PROVE  TrailInv'
<1>1. /\ UNCHANGED <<traffic, started, pc, req, lastId, links, landed, logs>> /\ made' = made
      /\ late' \subseteq late
  BY DEF LateWrite, TrailExpires
<1>2. SourcesOK' /\ IndexOK'
  <2>1. CASE \E x \in late : LateWrite(x)
    BY <1>1, <2>1, StoreKeeps DEF TrailInv, LateOK, LateWrite
  <2>2. CASE TrailExpires
    BY <1>1, <2>2 DEF TrailInv, SourcesOK, IndexOK, TrailExpires
  <2> QED BY <2>1, <2>2
<1>3. WorkersOK' /\ MadeOK' /\ LateOK' /\ PagesOK' /\ TraceOwn'
  BY <1>1 DEF TrailInv, WorkersOK, MadeOK, LateOK, PagesOK, TraceOwn
<1> QED BY <1>2, <1>3 DEF TrailInv

\* The other steps change nothing that the invariant speaks of.
LEMMA RestKeeps ==
  ASSUME TrailInv, UNCHANGED <<traffic, started, pc, req, trail, links, landed, logs>>
  PROVE  TrailInv'
BY DEF TrailInv, WorkersOK, MadeOK, SourcesOK, IndexOK, LateOK, PagesOK, TraceOwn, trail

-----------------------------------------------------------------------------
(* The theorems.                                                           *)

Inv == TrailInv /\ FrequencyInv

\* The invariant holds at the start.
LEMMA InitInv == Init => Inv
<1> SUFFICES ASSUME Init PROVE Inv
  OBVIOUS
<1>1. WorkersOK
  BY IdleOK, ConstantsAssumption DEF Init, WorkersOK, Traffic
<1>2. MadeOK /\ SourcesOK /\ IndexOK /\ LateOK /\ PagesOK /\ TraceOwn
  BY ConstantsAssumption, SMTT(20)
     DEF Init, MadeOK, SourcesOK, IndexOK, LateOK, PagesOK, TraceOwn, Traffic
<1>3. FrequencyOK
  BY DEF Init, FrequencyOK
<1>4. ASSUME NEW u \in Users, NEW win \in Windows
      PROVE  KeyOK(u, win)
  BY SMTT(20) DEF Init, KeyOK, Total, Keys, Totals
<1> QED BY <1>1, <1>2, <1>3, <1>4 DEF Inv, TrailInv, FrequencyInv

\* Steps that change no frequency counter keep what holds of them.
LEMMA FrequencyUnchanged ==
  ASSUME FrequencyInv, UNCHANGED frequency
  PROVE  FrequencyInv'
BY SMTT(20) DEF FrequencyInv, FrequencyOK, KeyOK, Total, frequency

\* Every step keeps the invariant.
LEMMA NextInv == Inv /\ [Next]_vars => Inv'
<1> SUFFICES ASSUME Inv, [Next]_vars PROVE Inv'
  OBVIOUS
<1> USE DEF Inv
<1>1. ASSUME NEW w \in Workers,
             \/ ShowForSsp(w) \/ ShowForSspFailed(w) \/ ShowForDsp(w)
             \/ FrequencyFails(w)
             \/ Click(w) \/ GenerateSourceId(w) \/ PutSource(w) \/ PutIndex(w)
             \/ CountClick(w) \/ LogClick(w)
             \/ Trace(w) \/ GetIndex(w) \/ GetSource(w) \/ Dies(w)
      PROVE  Inv'
  <2>1. UNCHANGED frequency
    BY <1>1 DEF ShowForSsp, ShowForSspFailed, ShowForDsp, FrequencyFails, Click,
         GenerateSourceId, PutSource, PutIndex, CountClick, LogClick, Trace, GetIndex, GetSource,
         Dies
  <2>2. TrailInv'
    BY <1>1, ShowKeeps, FrequencyStepKeeps, ClickKeeps, GenerateSourceIdKeeps, PutKeeps,
       CountClickDiesKeep, LogClickKeeps, TraceKeeps, GetIndexKeeps, GetSourceKeeps
  <2> QED BY <2>1, <2>2, FrequencyUnchanged
<1>2. ASSUME NEW w \in Workers, CountFrequency(w)
      PROVE  Inv'
  BY <1>2, FrequencyStepKeeps, CountFrequencyKeeps DEF TrailInv
<1>3. ASSUME NEW t \in Totals, PutLands(t) \/ AddLands(t) \/ FrequencyLost(t)
      PROVE  Inv'
  <2>1. UNCHANGED <<traffic, started, pc, req, trail, links, landed, logs>>
    BY <1>3 DEF PutLands, AddLands, FrequencyLost
  <2> QED BY <1>3, <2>1, RestKeeps, CallLandsKeeps
<1>4. ASSUME NEW k \in Keys, FrequencyExpires(k)
      PROVE  Inv'
  <2>1. UNCHANGED <<traffic, started, pc, req, trail, links, landed, logs>>
    BY <1>4 DEF FrequencyExpires
  <2> QED BY <1>4, <2>1, RestKeeps, FrequencyExpiresKeeps
<1>5. CASE (\E x \in late : LateWrite(x)) \/ TrailExpires
  <2>1. UNCHANGED frequency
    BY <1>5 DEF LateWrite, TrailExpires
  <2> QED BY <1>5, <2>1, LateOrExpiredKeeps, FrequencyUnchanged
<1>6. CASE (\E o \in Orders : ShowCounted(o) \/ ShowLost(o)) \/ Tick \/ UNCHANGED vars
  <2>1. /\ UNCHANGED <<traffic, started, pc, req, trail, links, landed, logs>>
        /\ UNCHANGED frequency
    BY <1>6 DEF ShowCounted, ShowLost, Tick, vars
  <2> QED BY <2>1, RestKeeps, FrequencyUnchanged
<1> QED BY <1>1, <1>2, <1>3, <1>4, <1>5, <1>6 DEF Next

\* The invariant is one of the specification.
LEMMA InvHolds == Spec => []Inv
BY InitInv, NextInv, PTL DEF Spec

\* FrequencyCounted: for any workers, users and ads, a frequency counter
\* never says more than the shows since its record began, and exactly as
\* many if no fresh counter overlapped another call (show_query_task's
\* exists() followed by putAsync() or operateAsync()).
THEOREM FrequencyCounted == Spec => []FrequencyAccount
<1>1. Inv => FrequencyAccount
  BY DEF Inv, FrequencyInv, KeyOK, Total, FrequencyAccount
<1> QED BY <1>1, InvHolds, PTL

\* TracesOwn: whatever calls fail, land late or expire, a trace names only a
\* click that fits its page (click_query_task's recordSource(), trace_task's
\* customLogic()).
THEOREM TracesOwn == Spec => []TraceOwn
<1>1. Inv => TraceOwn
  BY DEF Inv, TrailInv
<1> QED BY <1>1, InvHolds, PTL

\* SourcesKept: the record of a click is never replaced by that of another
\* one (generateSourceId() draws an id in one operation).
THEOREM SourcesKept == Spec => SourcesNeverRewritten
<1>1. Inv /\ Inv' /\ [Next]_vars =>
        [\A i \in DOMAIN sources \cap DOMAIN sources' : sources'[i] = sources[i]]_vars
  <2> SUFFICES ASSUME Inv, Inv', [Next]_vars,
                      NEW i \in DOMAIN sources \cap DOMAIN sources'
               PROVE  sources'[i] = sources[i]
    OBVIOUS
  <2>1. /\ i \in DOMAIN made /\ sources[i] = made[i] /\ sources'[i] = made'[i]
        /\ i \in Nat /\ i < lastId /\ lastId \in Nat
    BY DEF Inv, TrailInv, MadeOK, SourcesOK
  <2>2. made' = made \/ \E w \in Workers : made' = Put(made, lastId, SourceRecord(req[w]))
    BY ZenonT(60) DEF Next, vars, trail, ShowForSsp, ShowForSspFailed, ShowForDsp, CountFrequency,
         FrequencyFails, Click, GenerateSourceId, PutSource, PutIndex, CountClick, LogClick,
         Trace, GetIndex, GetSource, Dies, ShowCounted, ShowLost, PutLands, AddLands,
         FrequencyLost, FrequencyExpires, LateWrite, TrailExpires, Tick
  <2> QED BY <2>1, <2>2, SMTT(20) DEF Put
<1> QED BY <1>1, InvHolds, PTL DEF Spec, SourcesNeverRewritten

-----------------------------------------------------------------------------
(* Orders and logs.  The counters of an order agree with its logs because  *)
(* no two workers serve the same request, and none serves one whose log    *)
(* is written.                                                             *)

\* What Served() and Serving() count.
Counts(l, o, type) ==
  /\ l.type = type /\ l.ad # None /\ Terms[l.ad].order = o
  /\ type = "SHOW" => l.status = 200 /\ Terms[l.ad].counted
  /\ type = "CLICK" => l.landing
Serves(p, r, o, steps, kind) ==
  /\ p \in steps /\ r.kind = kind /\ Terms[r.ad].order = o
  /\ kind = "SHOW" => Terms[r.ad].counted
One(b) == IF b THEN 1 ELSE 0

RequestOK(w) ==
  /\ req[w].nr \in Nat /\ req[w].nr <= started
  /\ \A v \in Workers : pc[v] # "idle" /\ req[v].nr = req[w].nr => v = w
  /\ \A l \in logs : l.nr = req[w].nr => l.type # req[w].kind
  /\ pc[w] \in Windows => req[w].kind \in {"SHOW", "BID"}
  /\ pc[w] \in ClickSteps => req[w].kind = "CLICK" /\ req[w].landing
RequestsInv ==
  /\ IsFiniteSet(logs)
  /\ \A l \in logs : l.nr \in Nat /\ l.nr <= started
  /\ \A w \in Workers : pc[w] # "idle" => RequestOK(w)
CountersOK ==
  /\ shows \in [Orders -> Nat] /\ clicks \in [Orders -> Nat] /\ counting \in [Orders -> Nat]
  /\ faults \in [s : Nat, c : Nat, other : Nat]
OrdersInv == RequestsInv /\ CountersOK /\ OrdersAgree

\* A log that is new counts where its ad and its status say.
LEMMA ServedGrows ==
  ASSUME IsFiniteSet(logs), NEW X, logs' = logs \cup X, X = {} \/ \E x : X = {x},
         NEW o, NEW type, \A x \in X : Counts(x, o, type) => x \notin logs
  PROVE  /\ IsFiniteSet(logs') /\ Served(o, type) \in Nat
         /\ Served(o, type)' = Served(o, type) + One(\E x \in X : Counts(x, o, type))
<1> DEFINE A == {l \in logs : Counts(l, o, type)}
<1>1. Served(o, type) = Cardinality(A)
  BY DEF Served, Counts
<1>2. Served(o, type)' = Cardinality({l \in logs' : Counts(l, o, type)})
  BY DEF Served, Counts
<1>3. IsFiniteSet(A) /\ Cardinality(A) \in Nat
  BY FS_Subset, FS_CardinalityType
<1>4. CASE X = {}
  <2>1. logs' = logs
    BY <1>4
  <2> QED BY <1>1, <1>2, <1>3, <1>4, <2>1, SMTT(20) DEF One
<1>5. ASSUME NEW x, X = {x}
      PROVE  /\ IsFiniteSet(logs')
             /\ Served(o, type)' = Served(o, type) + One(Counts(x, o, type))
  <2>1. IsFiniteSet(logs')
    BY <1>5, FS_AddElement
  <2>2. CASE Counts(x, o, type)
    <3>1. {l \in logs' : Counts(l, o, type)} = A \cup {x} /\ x \notin A
      BY <1>5, <2>2
    <3> HIDE DEF A
    <3>2. Cardinality(A \cup {x}) = Cardinality(A) + 1
      BY <1>3, <3>1, FS_AddElement
    <3> QED BY <1>1, <1>2, <2>1, <2>2, <3>1, <3>2 DEF One
  <2>3. CASE ~Counts(x, o, type)
    <3>1. {l \in logs' : Counts(l, o, type)} = A
      BY <1>5, <2>3
    <3> QED BY <1>1, <1>2, <1>3, <2>1, <2>3, <3>1, SMTT(20) DEF One
  <2> QED BY <2>2, <2>3
<1>6. CASE \E x : X = {x}
  <2> PICK z : X = {z}
    BY <1>6
  <2> HIDE DEF A
  <2>1. /\ IsFiniteSet(logs')
        /\ Served(o, type)' = Served(o, type) + One(Counts(z, o, type))
    BY <1>5
  <2>2. One(\E y \in X : Counts(y, o, type)) = One(Counts(z, o, type))
    BY DEF One
  <2> QED BY <1>1, <1>3, <2>1, <2>2
<1> QED BY <1>4, <1>6

\* A set of workers that changes at most at one worker.
LEMMA WorkersCounted ==
  ASSUME NEW w \in Workers, NEW C \in SUBSET Workers, NEW D \in SUBSET Workers,
         \A v \in Workers \ {w} : v \in C <=> v \in D
  PROVE  /\ Cardinality(C) \in Nat
         /\ Cardinality(D) = Cardinality(C) - One(w \in C) + One(w \in D)
<1> DEFINE B == C \ {w}
<1>1. IsFiniteSet(B) /\ w \notin B /\ Cardinality(B) \in Nat
  BY FS_Subset, FS_CardinalityType, ConstantsAssumption
<1>2. Cardinality(B \cup {w}) = Cardinality(B) + 1
  BY <1>1, FS_AddElement
<1>3. ASSUME NEW E \in SUBSET Workers, \A v \in Workers \ {w} : v \in C <=> v \in E
      PROVE  Cardinality(E) = Cardinality(B) + One(w \in E)
  <2>1. CASE w \in E
    <3>1. E = B \cup {w}
      BY <1>3, <2>1
    <3> HIDE DEF B
    <3> QED BY <1>2, <2>1, <3>1 DEF One
  <2>2. CASE w \notin E
    <3>1. E = B
      BY <1>3, <2>2
    <3> HIDE DEF B
    <3> QED BY <1>1, <2>2, <3>1, SMTT(20) DEF One
  <2> QED BY <2>1, <2>2
<1>4. /\ Cardinality(C) = Cardinality(B) + One(w \in C)
      /\ Cardinality(D) = Cardinality(B) + One(w \in D)
  BY <1>3
<1>5. One(w \in C) \in Nat /\ One(w \in D) \in Nat
  BY DEF One
<1> HIDE DEF B
<1> QED BY <1>1, <1>4, <1>5, SMTT(20)

\* A worker that goes on counts where its step and its request say.
LEMMA ServingMoves ==
  ASSUME WorkersOK, NEW w \in Workers, NEW p, NEW r,
         pc' = [pc EXCEPT ![w] = p], req' = [req EXCEPT ![w] = r], NEW o
  PROVE  /\ Serving(o, Windows, "SHOW") \in Nat
         /\ Serving(o, Windows, "SHOW")' =
              Serving(o, Windows, "SHOW") - One(Serves(pc[w], req[w], o, Windows, "SHOW"))
                                          + One(Serves(p, r, o, Windows, "SHOW"))
         /\ Serving(o, {"logClick"}, "CLICK") \in Nat
         /\ Serving(o, {"logClick"}, "CLICK")' =
              Serving(o, {"logClick"}, "CLICK") - One(Serves(pc[w], req[w], o, {"logClick"}, "CLICK"))
                                                + One(Serves(p, r, o, {"logClick"}, "CLICK"))
<1>1. /\ pc'[w] = p /\ req'[w] = r
      /\ \A v \in Workers \ {w} : pc'[v] = pc[v] /\ req'[v] = req[v]
  BY DEF WorkersOK
<1> DEFINE S(q, s, steps, kind) == {v \in Workers : Serves(q[v], s[v], o, steps, kind)}
<1>2. ASSUME NEW steps, NEW kind
      PROVE  /\ Cardinality(S(pc, req, steps, kind)) \in Nat
             /\ Cardinality(S(pc', req', steps, kind)) =
                  Cardinality(S(pc, req, steps, kind)) - One(Serves(pc[w], req[w], o, steps, kind))
                                                       + One(Serves(p, r, o, steps, kind))
  <2> DEFINE C == S(pc, req, steps, kind)
             D == S(pc', req', steps, kind)
  <2>1. \A v \in Workers \ {w} : v \in C <=> v \in D
    BY <1>1
  <2>2. One(w \in C) = One(Serves(pc[w], req[w], o, steps, kind))
    BY DEF One
  <2>3. One(w \in D) = One(Serves(p, r, o, steps, kind))
    BY <1>1 DEF One
  <2>4. C \in SUBSET Workers /\ D \in SUBSET Workers
    OBVIOUS
  <2> HIDE DEF C, D
  <2>5. /\ Cardinality(C) \in Nat
        /\ Cardinality(D) = Cardinality(C) - One(w \in C) + One(w \in D)
    BY <2>1, <2>4, WorkersCounted
  <2>6. /\ Cardinality(C) \in Nat
        /\ Cardinality(D) = Cardinality(C) - One(Serves(pc[w], req[w], o, steps, kind))
                                           + One(Serves(p, r, o, steps, kind))
    BY <2>2, <2>3, <2>5
  <2> QED BY <2>6 DEF C, D
<1>3. /\ Serving(o, Windows, "SHOW") = Cardinality(S(pc, req, Windows, "SHOW"))
      /\ Serving(o, Windows, "SHOW")' = Cardinality(S(pc', req', Windows, "SHOW"))
  BY DEF Serving, Serves
<1>4. /\ Serving(o, {"logClick"}, "CLICK") = Cardinality(S(pc, req, {"logClick"}, "CLICK"))
      /\ Serving(o, {"logClick"}, "CLICK")' = Cardinality(S(pc', req', {"logClick"}, "CLICK"))
  BY DEF Serving, Serves
<1>5. /\ Serving(o, Windows, "SHOW") \in Nat
      /\ Serving(o, Windows, "SHOW")' =
           Serving(o, Windows, "SHOW") - One(Serves(pc[w], req[w], o, Windows, "SHOW"))
                                       + One(Serves(p, r, o, Windows, "SHOW"))
  BY <1>2, <1>3
<1>6. /\ Serving(o, {"logClick"}, "CLICK") \in Nat
      /\ Serving(o, {"logClick"}, "CLICK")' =
           Serving(o, {"logClick"}, "CLICK") - One(Serves(pc[w], req[w], o, {"logClick"}, "CLICK"))
                                             + One(Serves(p, r, o, {"logClick"}, "CLICK"))
  BY <1>2, <1>4
<1> QED BY <1>5, <1>6

\* A worker w goes on at step p with the request r and writes the logs X, at
\* most one.  A log is the one of a new request, or of the one w is done with.
StepShape(w, p, r, X) ==
  /\ pc' = [pc EXCEPT ![w] = p] /\ req' = [req EXCEPT ![w] = r] /\ logs' = logs \cup X
  /\ started' \in {started, started + 1}
  /\ X = {} \/ \E x : X = {x}
  /\ \A x \in X : \/ x.nr = started + 1 /\ started' = started + 1
                  \/ /\ x.nr = req[w].nr /\ pc[w] # "idle" /\ p = "idle"
                     /\ x.type \in {"SHOW", "CLICK"} => x.type = req[w].kind
  /\ p # "idle" =>
       \/ r.nr = started + 1 /\ started' = started + 1 /\ \A x \in X : x.type # r.kind
       \/ r.nr = req[w].nr /\ r.kind = req[w].kind /\ pc[w] # "idle" /\ X = {}
  /\ p \in Windows => r.kind \in {"SHOW", "BID"}
  /\ p \in ClickSteps => r.kind = "CLICK" /\ r.landing

\* Such a step keeps requests apart, and its log is counted once.
LEMMA WorkerStep ==
  ASSUME WorkersOK, RequestsInv, NEW w \in Workers, NEW p, NEW r, NEW X, StepShape(w, p, r, X)
  PROVE  /\ RequestsInv'
         /\ \A o, type : type \in {"SHOW", "CLICK"} =>
              /\ Served(o, type) \in Nat
              /\ Served(o, type)' = Served(o, type) + One(\E x \in X : Counts(x, o, type))
<1> USE DEF StepShape
<1>1. started \in Nat /\ started <= started' /\ started' \in Nat
  BY SMTT(20) DEF WorkersOK
<1>2. /\ pc'[w] = p /\ req'[w] = r
      /\ \A v \in Workers \ {w} : pc'[v] = pc[v] /\ req'[v] = req[v]
  BY DEF WorkersOK
<1>3. \A l \in logs : l.nr \in Nat /\ l.nr <= started
  BY DEF RequestsInv
<1>4. \A v \in Workers : pc[v] # "idle" => RequestOK(v)
  BY DEF RequestsInv
<1>5. IsFiniteSet(logs')
  <2>1. IsFiniteSet(logs)
    BY DEF RequestsInv
  <2>2. CASE X = {}
    BY <2>1, <2>2
  <2>3. ASSUME NEW x, X = {x} PROVE IsFiniteSet(logs')
    BY <2>1, <2>3, FS_AddElement
  <2> QED BY <2>2, <2>3
<1>6. \A l \in logs' : l.nr \in Nat /\ l.nr <= started'
  BY <1>1, <1>3, <1>4, SMTT(20) DEF RequestOK
<1>7. ASSUME p # "idle" PROVE RequestOK(w)'
  <2>1. CASE /\ r.nr = started + 1 /\ started' = started + 1 /\ \A x \in X : x.type # r.kind
    BY <1>1, <1>2, <1>3, <1>4, <2>1, SMTT(20) DEF RequestOK
  <2>2. CASE r.nr = req[w].nr /\ r.kind = req[w].kind /\ pc[w] # "idle" /\ X = {}
    <3>1. RequestOK(w)
      BY <1>4, <2>2
    <3> QED BY <1>1, <1>2, <2>2, <3>1, SMTT(20) DEF RequestOK
  <2> QED BY <1>7, <2>1, <2>2
<1>8. ASSUME NEW v \in Workers \ {w}, pc'[v] # "idle" PROVE RequestOK(v)'
  <2>1. pc'[v] = pc[v] /\ req'[v] = req[v] /\ RequestOK(v)
    BY <1>2, <1>4, <1>8
  <2>2. p # "idle" => r.nr # req[v].nr
    BY <1>1, <1>4, <2>1, SMTT(20) DEF RequestOK
  <2>3. \A x \in X : x.nr # req[v].nr
    BY <1>1, <1>4, <2>1, SMTT(20) DEF RequestOK
  <2> QED BY <1>1, <1>2, <2>1, <2>2, <2>3, SMTT(20) DEF RequestOK
<1>9. RequestsInv'
  BY <1>2, <1>5, <1>6, <1>7, <1>8 DEF RequestsInv
<1>10. ASSUME NEW o, NEW type \in {"SHOW", "CLICK"}, NEW x \in X, Counts(x, o, type)
       PROVE  x \notin logs
  BY <1>1, <1>3, <1>4, <1>10, SMTT(20) DEF Counts, RequestOK
<1>11. ASSUME NEW o, NEW type \in {"SHOW", "CLICK"}
       PROVE  /\ Served(o, type) \in Nat
              /\ Served(o, type)' = Served(o, type) + One(\E x \in X : Counts(x, o, type))
  BY <1>10, ServedGrows DEF RequestsInv
<1> QED BY <1>9, <1>11

\* By how much a worker's step changes what is served or being served.
ShowDrift(w, p, r, X, o) ==
  One(\E x \in X : Counts(x, o, "SHOW")) - One(Serves(pc[w], req[w], o, Windows, "SHOW"))
                                         + One(Serves(p, r, o, Windows, "SHOW"))
ClickDrift(w, p, r, X, o) ==
  One(\E x \in X : Counts(x, o, "CLICK")) - One(Serves(pc[w], req[w], o, {"logClick"}, "CLICK"))
                                          + One(Serves(p, r, o, {"logClick"}, "CLICK"))

\* A counter goes from s to s2, the served from v to v2 and the being served
\* from g to g2 by the parts of a drift d, and the faults from f to f2: the
\* counter was within f of them and moves within the new faults of the drift.
Moves(s, s2, v, v2, g, g2, n1, n2, n3, d, f, f2) ==
  /\ s \in Nat /\ s2 \in Nat /\ v \in Nat /\ g \in Nat /\ f \in Nat /\ f2 \in Nat
  /\ n1 \in Int /\ n2 \in Int /\ n3 \in Int
  /\ v2 = v + n1 /\ g2 = g - n2 + n3 /\ d = n1 - n2 + n3
  /\ s - v - g \in -f..f /\ s2 - s - d \in -(f2 - f)..(f2 - f)

\* Then it stays within the faults.
LEMMA Within ==
  ASSUME NEW s, NEW s2, NEW v, NEW v2, NEW g, NEW g2, NEW n1, NEW n2, NEW n3, NEW d, NEW f, NEW f2,
         Moves(s, s2, v, v2, g, g2, n1, n2, n3, d, f, f2)
  PROVE  s2 - v2 - g2 \in -f2..f2
<1>1. s2 - v2 - g2 = (s - v - g) + (s2 - s - d)
  BY SMTT(20) DEF Moves
<1> DEFINE a == s - v - g
           b == s2 - s - d
<1>2. a \in -f..f /\ b \in -(f2 - f)..(f2 - f) /\ f \in Nat /\ f2 \in Nat
  BY DEF Moves
<1> HIDE DEF a, b
<1>3. a + b \in -f2..f2
  BY <1>2, SMTT(20)
<1> QED BY <1>1, <1>3 DEF a, b

\* A counter and what is on its way to it are taken together.
LEMMA Together ==
  ASSUME NEW x \in Nat, NEW y \in Nat, NEW v \in Int, NEW g \in Int, NEW f
  PROVE  x + y - v - g \in -f..f <=> (x + y) - v - g \in -f..f
<1>1. x + y - v - g = (x + y) - v - g
  BY SMTT(20)
<1> QED BY <1>1

\* A natural is an integer.
LEMMA NatIsInt ==
  ASSUME NEW x \in Nat
  PROVE  x \in Int
BY SMTT(20)

\* And so is what it becomes by the log of a step.
LEMMA LoggedIsInt ==
  ASSUME NEW x \in Nat, NEW n1 \in Int
  PROVE  x + n1 \in Int
BY SMTT(20)

\* And by the requests it ends and begins.
LEMMA MovedIsInt ==
  ASSUME NEW x \in Nat, NEW n2 \in Int, NEW n3 \in Int
  PROVE  x - n2 + n3 \in Int
BY SMTT(20)

\* A sum of naturals is one.
LEMMA SumIsNat ==
  ASSUME NEW x \in Nat, NEW y \in Nat
  PROVE  x + y \in Nat
BY SMTT(20)

\* What stays moves by nothing.
LEMMA PlusNothing ==
  ASSUME NEW x \in Nat
  PROVE  x + 0 = x
BY SMTT(20)

\* What stays is within no faults.
LEMMA WithinNothing ==
  ASSUME NEW x \in Nat, NEW f \in Nat
  PROVE  x - x - 0 \in -(f - f)..(f - f)
BY SMTT(20)

\* A counter that moves by d is within no faults of it.
LEMMA Exact ==
  ASSUME NEW s \in Nat, NEW d \in Int, NEW f \in Nat
  PROVE  (s + d) - s - d \in -(f - f)..(f - f)
BY SMTT(20)

\* A counter whose call of n is lost is within that fault.
LEMMA LostCall ==
  ASSUME NEW s \in Nat, NEW n \in 0..1, NEW f \in Nat
  PROVE  s - s - n \in -((f + 1) - f)..((f + 1) - f)
BY SMTT(20)

\* And so is one whose call only seems lost.
LEMMA LateCall ==
  ASSUME NEW s \in Nat, NEW n \in 0..1, NEW f \in Nat
  PROVE  (s + n) - s - n \in -((f + 1) - f)..((f + 1) - f)
BY SMTT(20)

\* A counter that stays while at most n is given up, with n faults.
LEMMA GivenUp ==
  ASSUME NEW s \in Nat, NEW n \in 0..1, NEW f \in Nat, NEW d \in {0, -n}
  PROVE  s - s - d \in -((f + n) - f)..((f + n) - f)
BY SMTT(20)

\* What is given up.
LEMMA Negated ==
  ASSUME NEW m \in Int, NEW k \in {0, m}
  PROVE  0 - k \in {0, -m}
BY SMTT(20)

\* A call in flight counts with its counter.
LEMMA InFlight ==
  ASSUME NEW s \in Nat, NEW c \in Nat, NEW n \in Int
  PROVE  s + (c + n) = s + c + n
BY SMTT(20)

\* Drifts of one part or of two that cancel.
LEMMA Cancel ==
  ASSUME NEW n \in Int
  PROVE  /\ 0 - n + n = 0 /\ n - n + 0 = 0
         /\ 0 - 0 + n = n /\ n - 0 + 0 = n /\ 0 - n + 0 = 0 - n
BY SMTT(20)

\* One of a condition.
LEMMA Ones ==
  ASSUME NEW b
  PROVE  /\ b => One(b) = 1
         /\ ~b => One(b) = 0
         /\ One(b) \in Int /\ One(b) \in 0..1
<1>1. (b => One(b) = 1) /\ (~b => One(b) = 0)
  BY DEF One
<1>2. 0 \in Int /\ 1 \in Int /\ 0 \in 0..1 /\ 1 \in 0..1
  BY SMTT(20)
<1> QED BY <1>1, <1>2

\* The log of a step counts what the step ends.
LEMMA Settles ==
  ASSUME NEW a, NEW b, NEW c, a <=> b, ~c
  PROVE  One(a) - One(b) + One(c) = 0
<1> DEFINE n == One(b)
<1>1. One(a) = n /\ One(c) = 0 /\ n \in Int
  BY Ones DEF One
<1> HIDE DEF n
<1>2. n - n + 0 = 0
  BY <1>1, Cancel
<1> QED BY <1>1, <1>2 DEF n

\* What a step ends it begins again.
LEMMA GoesOn ==
  ASSUME NEW a, NEW b, NEW c, ~a, b <=> c
  PROVE  One(a) - One(b) + One(c) = 0
<1> DEFINE n == One(b)
<1>1. One(a) = 0 /\ One(c) = n /\ n \in Int
  BY Ones DEF One
<1> HIDE DEF n
<1>2. 0 - n + n = 0
  BY <1>1, Cancel
<1> QED BY <1>1, <1>2 DEF n

\* A step that only logs something.
LEMMA OnlyLogs ==
  ASSUME NEW a, NEW b, NEW c, ~b, ~c
  PROVE  One(a) - One(b) + One(c) = One(a)
<1> DEFINE n == One(a)
<1>1. One(b) = 0 /\ One(c) = 0 /\ n \in Int
  BY Ones
<1> HIDE DEF n
<1>2. n - 0 + 0 = n
  BY <1>1, Cancel
<1> QED BY <1>1, <1>2 DEF n

\* A step that only ends something.
LEMMA OnlyEnds ==
  ASSUME NEW a, NEW b, NEW c, ~a, ~c
  PROVE  One(a) - One(b) + One(c) = 0 - One(b)
<1> DEFINE n == One(b)
<1>1. One(a) = 0 /\ One(c) = 0 /\ n \in Int
  BY Ones
<1> HIDE DEF n
<1>2. 0 - n + 0 = 0 - n
  BY <1>1, Cancel
<1> QED BY <1>1, <1>2 DEF n

\* A drift is an integer.
LEMMA DriftIsInt ==
  ASSUME NEW a, NEW b, NEW c
  PROVE  One(a) - One(b) + One(c) \in Int
<1> DEFINE n1 == One(a)
           n2 == One(b)
           n3 == One(c)
<1>1. n1 \in Int /\ n2 \in Int /\ n3 \in Int
  BY Ones
<1> HIDE DEF n1, n2, n3
<1>2. n1 - n2 + n3 \in Int
  BY <1>1, SMTT(20)
<1> QED BY <1>2 DEF n1, n2, n3

\* The orders agree with the logs after a worker's step if the counters
\* follow its drift but for the faults.
LEMMA WorkerAgrees ==
  ASSUME WorkersOK, OrdersInv, CountersOK',
         NEW w \in Workers, NEW p, NEW r, NEW X, StepShape(w, p, r, X),
         \A o \in Orders :
           /\ (shows'[o] + counting'[o]) - (shows[o] + counting[o]) - ShowDrift(w, p, r, X, o)
                \in -(faults'.s - faults.s)..(faults'.s - faults.s)
           /\ clicks'[o] - clicks[o] - ClickDrift(w, p, r, X, o)
                \in -(faults'.c - faults.c)..(faults'.c - faults.c)
  PROVE  OrdersInv'
<1>1. RequestsInv /\ CountersOK /\ OrdersAgree
  BY DEF OrdersInv
<1>2. RequestsInv'
  BY <1>1, WorkerStep
<1>3. ASSUME NEW o \in Orders
      PROVE  /\ (shows[o] + counting[o] - Served(o, "SHOW") - Serving(o, Windows, "SHOW")
                  \in -faults.s..faults.s)'
             /\ (clicks[o] - Served(o, "CLICK") - Serving(o, {"logClick"}, "CLICK")
                  \in -faults.c..faults.c)'
  <2> DEFINE n1 == One(\E x \in X : Counts(x, o, "SHOW"))
             n2 == One(Serves(pc[w], req[w], o, Windows, "SHOW"))
             n3 == One(Serves(p, r, o, Windows, "SHOW"))
             m1 == One(\E x \in X : Counts(x, o, "CLICK"))
             m2 == One(Serves(pc[w], req[w], o, {"logClick"}, "CLICK"))
             m3 == One(Serves(p, r, o, {"logClick"}, "CLICK"))
  <2>1. /\ Served(o, "SHOW") \in Nat /\ Served(o, "SHOW")' = Served(o, "SHOW") + n1
        /\ Served(o, "CLICK") \in Nat /\ Served(o, "CLICK")' = Served(o, "CLICK") + m1
    BY <1>1, WorkerStep
  <2>2. /\ Serving(o, Windows, "SHOW") \in Nat
        /\ Serving(o, Windows, "SHOW")' = Serving(o, Windows, "SHOW") - n2 + n3
        /\ Serving(o, {"logClick"}, "CLICK") \in Nat
        /\ Serving(o, {"logClick"}, "CLICK")' = Serving(o, {"logClick"}, "CLICK") - m2 + m3
    <3>1. pc' = [pc EXCEPT ![w] = p] /\ req' = [req EXCEPT ![w] = r]
      BY DEF StepShape
    <3> QED BY <3>1, ServingMoves
  <2>3. /\ faults.s \in Nat /\ faults.c \in Nat /\ faults'.s \in Nat /\ faults'.c \in Nat
        /\ shows[o] \in Nat /\ counting[o] \in Nat /\ clicks[o] \in Nat
        /\ shows'[o] \in Nat /\ counting'[o] \in Nat /\ clicks'[o] \in Nat
    BY <1>1 DEF CountersOK
  <2>4. /\ n1 \in Int /\ n2 \in Int /\ n3 \in Int /\ m1 \in Int /\ m2 \in Int /\ m3 \in Int
        /\ ShowDrift(w, p, r, X, o) = n1 - n2 + n3 /\ ClickDrift(w, p, r, X, o) = m1 - m2 + m3
    BY Ones DEF ShowDrift, ClickDrift
  <2> HIDE DEF n1, n2, n3, m1, m2, m3
  <2>5. /\ shows[o] + counting[o] - Served(o, "SHOW") - Serving(o, Windows, "SHOW")
             \in -faults.s..faults.s
        /\ clicks[o] - Served(o, "CLICK") - Serving(o, {"logClick"}, "CLICK") \in -faults.c..faults.c
    BY <1>1 DEF OrdersAgree
  <2>6. /\ Served(o, "SHOW") \in Int /\ Serving(o, Windows, "SHOW") \in Int
        /\ Served(o, "SHOW")' \in Int /\ Serving(o, Windows, "SHOW")' \in Int
    <3>1. Served(o, "SHOW") \in Int /\ Serving(o, Windows, "SHOW") \in Int
      BY <2>1, <2>2, NatIsInt
    <3>2. Served(o, "SHOW") + n1 \in Int
      BY <2>1, <2>4, LoggedIsInt
    <3>3. Serving(o, Windows, "SHOW") - n2 + n3 \in Int
      BY <2>2, <2>4, MovedIsInt
    <3> QED BY <2>1, <2>2, <3>1, <3>2, <3>3
  <2>7. (shows[o] + counting[o]) - Served(o, "SHOW") - Serving(o, Windows, "SHOW")
          \in -faults.s..faults.s
    BY <2>3, <2>5, <2>6, Together
  <2>8. Moves(shows[o] + counting[o], shows'[o] + counting'[o], Served(o, "SHOW"), Served(o, "SHOW")',
              Serving(o, Windows, "SHOW"), Serving(o, Windows, "SHOW")', n1, n2, n3,
              ShowDrift(w, p, r, X, o), faults.s, faults'.s)
    <3>1. shows[o] + counting[o] \in Nat /\ shows'[o] + counting'[o] \in Nat
      BY <2>3, SumIsNat
    <3> QED BY <2>1, <2>2, <2>3, <2>4, <2>7, <3>1 DEF Moves
  <2>9. Moves(clicks[o], clicks'[o], Served(o, "CLICK"), Served(o, "CLICK")',
              Serving(o, {"logClick"}, "CLICK"), Serving(o, {"logClick"}, "CLICK")', m1, m2, m3,
              ClickDrift(w, p, r, X, o), faults.c, faults'.c)
    BY <2>1, <2>2, <2>3, <2>4, <2>5 DEF Moves
  <2>10. clicks'[o] - Served(o, "CLICK")' - Serving(o, {"logClick"}, "CLICK")'
           \in -(faults'.c)..(faults'.c)
    BY <2>9, Within
  <2>11. (shows'[o] + counting'[o]) - Served(o, "SHOW")' - Serving(o, Windows, "SHOW")'
           \in -(faults'.s)..(faults'.s)
    BY <2>8, Within
  <2>12. shows'[o] + counting'[o] - Served(o, "SHOW")' - Serving(o, Windows, "SHOW")'
           \in -(faults'.s)..(faults'.s)
    BY <2>3, <2>6, <2>11, Together
  <2> QED BY <2>10, <2>12
<1>4. OrdersAgree'
  BY <1>3 DEF OrdersAgree, Orders
<1> QED BY <1>2, <1>4 DEF OrdersInv

\* What of a request and of its log is counted.
LEMMA LogFields ==
  ASSUME NEW r, NEW type, NEW status
  PROVE  /\ Log(r, type, status).nr = r.nr /\ Log(r, type, status).type = type
         /\ \A o, t : Counts(Log(r, type, status), o, t) <=>
              /\ type = t /\ r.ad # None /\ Terms[r.ad].order = o
              /\ t = "SHOW" => status = 200 /\ Terms[r.ad].counted
              /\ t = "CLICK" => r.landing
BY DEF Log, Counts

\* The order of an ad is one of the orders that are counted.
LEMMA OrderOf ==
  ASSUME NEW ad \in Ads
  PROVE  Terms[ad].order \in Orders /\ Terms[ad].counted \in BOOLEAN /\ ad # None
<1>1. Terms[ad] \in AdTerms
  BY ConstantsAssumption
<1>2. Terms[ad].counted \in BOOLEAN
  BY <1>1 DEF AdTerms
<1> QED BY <1>2, ConstantsAssumption DEF Orders

\* A counter g is f after one more call to it for the order k.
IsBumped(g, f, k) ==
  g \in [Orders -> Nat] /\ \A o \in Orders : g[o] = f[o] + One(o = k)

\* That is what Bump makes of it.
LEMMA Bumped ==
  ASSUME NEW f \in [Orders -> Nat], NEW k \in Orders
  PROVE  IsBumped(Bump(f, k), f, k)
BY SMTT(20) DEF Bump, One, IsBumped

\* What CountShow puts in flight.
LEMMA ShowCalls ==
  ASSUME NEW ad, Terms[ad].order \in Orders, counting \in [Orders -> Nat],
         counting' = IF Terms[ad].counted THEN Bump(counting, Terms[ad].order) ELSE counting
  PROVE  /\ counting' \in [Orders -> Nat]
         /\ \A o \in Orders : counting'[o] = counting[o] + One(Terms[ad].order = o /\ Terms[ad].counted)
<1>1. CASE Terms[ad].counted
  <2>1. counting' = Bump(counting, Terms[ad].order)
    BY <1>1
  <2>2. ASSUME NEW o \in Orders
        PROVE  One(Terms[ad].order = o /\ Terms[ad].counted) = One(o = Terms[ad].order)
    BY <1>1 DEF One
  <2>3. IsBumped(Bump(counting, Terms[ad].order), counting, Terms[ad].order)
    BY Bumped
  <2> QED BY <2>1, <2>2, <2>3 DEF IsBumped
<1>2. CASE ~Terms[ad].counted
  <2>1. counting' = counting
    BY <1>2
  <2>2. ASSUME NEW o \in Orders
        PROVE  One(Terms[ad].order = o /\ Terms[ad].counted) = 0
    BY <1>2 DEF One
  <2>3. ASSUME NEW o \in Orders PROVE counting[o] + 0 = counting[o]
    BY PlusNothing
  <2> QED BY <2>1, <2>2, <2>3
<1> QED BY <1>1, <1>2

\* The faults after one more fault.
LEMMA Faulted ==
  ASSUME CountersOK, NEW what \in {"s", "c", "other"}, Fault(what)
  PROVE  /\ faults' \in [s : Nat, c : Nat, other : Nat]
         /\ faults'.s = faults.s + One(what = "s") /\ faults'.c = faults.c + One(what = "c")
<1>1. faults \in [s : Nat, c : Nat, other : Nat]
  BY DEF CountersOK
<1>2. faults' = [faults EXCEPT ![what] = @ + 1]
  BY DEF Fault
<1> QED BY <1>1, <1>2, SMTT(20) DEF One

\* A step that leaves all workers where they are is one of any of them.
LEMMA StaysPut ==
  ASSUME WorkersOK, NEW w \in Workers, UNCHANGED <<pc, req>>
  PROVE  pc' = [pc EXCEPT ![w] = pc[w]] /\ req' = [req EXCEPT ![w] = req[w]]
<1>1. pc = [v \in Workers |-> pc[v]] /\ req = [v \in Workers |-> req[v]]
  BY DEF WorkersOK
<1>2. ASSUME NEW f, f = [v \in Workers |-> f[v]] PROVE [f EXCEPT ![w] = f[w]] = f
  <2> DEFINE g == [f EXCEPT ![w] = f[w]]
  <2>1. DOMAIN f = Workers
    BY <1>2
  <2>2. g = [v \in Workers |-> g[v]]
    BY <2>1
  <2>3. \A v \in Workers : g[v] = f[v]
    BY <2>1
  <2> QED BY <1>2, <2>2, <2>3
<1>3. [pc EXCEPT ![w] = pc[w]] = pc /\ [req EXCEPT ![w] = req[w]] = req
  BY <1>1, <1>2
<1> QED BY <1>3

\* The counters of every order move by the drift of the step.
FollowsDrift(w, p, r, X) ==
  \A o \in Orders :
    /\ shows'[o] + counting'[o] = shows[o] + counting[o] + ShowDrift(w, p, r, X, o)
    /\ clicks'[o] = clicks[o] + ClickDrift(w, p, r, X, o)

\* Counters that follow the drift exactly, whatever other fault happens.
LEMMA ExactAgrees ==
  ASSUME WorkersOK, OrdersInv, CountersOK', faults' = faults \/ Fault("other"),
         NEW w \in Workers, NEW p, NEW r, NEW X, StepShape(w, p, r, X),
         FollowsDrift(w, p, r, X)
  PROVE  OrdersInv'
<1>1. CountersOK
  BY DEF OrdersInv
<1>2. faults'.s = faults.s /\ faults'.c = faults.c /\ faults.s \in Nat /\ faults.c \in Nat
  <2>1. faults.s \in Nat /\ faults.c \in Nat
    BY <1>1 DEF CountersOK
  <2>2. CASE Fault("other")
    <3>1. /\ faults'.s = faults.s + One("other" = "s")
          /\ faults'.c = faults.c + One("other" = "c")
      BY <1>1, <2>2, Faulted
    <3>2. One("other" = "s") = 0 /\ One("other" = "c") = 0
      BY DEF One
    <3>3. faults.s + 0 = faults.s /\ faults.c + 0 = faults.c
      BY <2>1, PlusNothing
    <3> QED BY <2>1, <3>1, <3>2, <3>3
  <2> QED BY <2>1, <2>2
<1>3. ASSUME NEW o \in Orders
      PROVE  /\ shows[o] \in Nat /\ counting[o] \in Nat /\ clicks[o] \in Nat
             /\ ShowDrift(w, p, r, X, o) \in Int /\ ClickDrift(w, p, r, X, o) \in Int
  <2>1. shows[o] \in Nat /\ counting[o] \in Nat /\ clicks[o] \in Nat
    BY <1>1 DEF CountersOK
  <2> QED BY <2>1, DriftIsInt DEF ShowDrift, ClickDrift
<1>4. \A o \in Orders :
        /\ (shows'[o] + counting'[o]) - (shows[o] + counting[o]) - ShowDrift(w, p, r, X, o)
             \in -(faults'.s - faults.s)..(faults'.s - faults.s)
        /\ clicks'[o] - clicks[o] - ClickDrift(w, p, r, X, o)
             \in -(faults'.c - faults.c)..(faults'.c - faults.c)
  <2> TAKE o \in Orders
  <2> DEFINE s == shows[o] + counting[o]
             d == ShowDrift(w, p, r, X, o)
             e == ClickDrift(w, p, r, X, o)
  <2>1. s \in Nat /\ clicks[o] \in Nat /\ d \in Int /\ e \in Int
    BY <1>3, SumIsNat
  <2>2. shows'[o] + counting'[o] = s + d /\ clicks'[o] = clicks[o] + e
    BY DEF FollowsDrift
  <2> HIDE DEF s, d, e
  <2>3. /\ (s + d) - s - d \in -(faults.s - faults.s)..(faults.s - faults.s)
        /\ (clicks[o] + e) - clicks[o] - e \in -(faults.c - faults.c)..(faults.c - faults.c)
    BY <1>2, <2>1, Exact
  <2>4. /\ (shows'[o] + counting'[o]) - s - d \in -(faults'.s - faults.s)..(faults'.s - faults.s)
        /\ clicks'[o] - clicks[o] - e \in -(faults'.c - faults.c)..(faults'.c - faults.c)
    BY <1>2, <2>2, <2>3
  <2> QED BY <2>4 DEF s, d, e
<1> QED BY <1>4, WorkerAgrees

\* A step that writes no log that counts, and is neither at a step that counts
\* nor gets to one.
LEMMA QuietStep ==
  ASSUME WorkersOK, OrdersInv, UNCHANGED counters, faults' = faults \/ Fault("other"),
         NEW w \in Workers, NEW p, NEW r, NEW X, StepShape(w, p, r, X),
         pc[w] \notin Windows \cup {"logClick"}, p \notin Windows \cup {"logClick"},
         \A x \in X, o \in Orders : ~Counts(x, o, "SHOW") /\ ~Counts(x, o, "CLICK")
  PROVE  OrdersInv'
<1>1. CountersOK
  BY DEF OrdersInv
<1>2. faults' \in [s : Nat, c : Nat, other : Nat]
  BY <1>1, Faulted DEF CountersOK
<1>3. shows' = shows /\ clicks' = clicks /\ counting' = counting
  BY DEF counters
<1>4. CountersOK'
  BY <1>1, <1>2, <1>3 DEF CountersOK
<1>5. ASSUME NEW o \in Orders
      PROVE  ShowDrift(w, p, r, X, o) = 0 /\ ClickDrift(w, p, r, X, o) = 0
  <2>1. /\ ~\E x \in X : Counts(x, o, "SHOW")
        /\ ~Serves(pc[w], req[w], o, Windows, "SHOW") /\ ~Serves(p, r, o, Windows, "SHOW")
    BY DEF Serves
  <2>2. /\ ~\E x \in X : Counts(x, o, "CLICK")
        /\ ~Serves(pc[w], req[w], o, {"logClick"}, "CLICK") /\ ~Serves(p, r, o, {"logClick"}, "CLICK")
    BY DEF Serves
  <2>3. ShowDrift(w, p, r, X, o) = 0
    BY <2>1, GoesOn DEF ShowDrift
  <2>4. ClickDrift(w, p, r, X, o) = 0
    BY <2>2, GoesOn DEF ClickDrift
  <2> QED BY <2>3, <2>4
<1>6. FollowsDrift(w, p, r, X)
  <2>1. ASSUME NEW o \in Orders
        PROVE  /\ shows[o] + counting[o] \in Nat /\ clicks[o] \in Nat
               /\ shows[o] + counting[o] + 0 = shows[o] + counting[o] /\ clicks[o] + 0 = clicks[o]
    BY <1>1, SumIsNat, PlusNothing DEF CountersOK
  <2> QED BY <1>3, <1>5, <2>1 DEF FollowsDrift
<1> QED BY <1>4, <1>6, ExactAgrees

\* A show counts in its order when it is answered (an exchange's) or logged
\* (one of an SSP placement).
LEMMA ShowForSspAgrees ==
  ASSUME WorkersOK, OrdersInv, NEW w \in Workers, ShowForSsp(w)
  PROVE  OrdersInv'
<1>1. PICK u \in Users, ad \in {a \in traffic.ads : Terms[a].adx = "ssp"} :
        LET r == Request("BID", u, ad, SspShowPrice(Terms[ad])) IN
        /\ logs' = logs \cup {Log(r, "SHOW", 200)}
        /\ CountShow(ad)
        /\ Continue(w, "daily", r)
  BY DEF ShowForSsp
<1> DEFINE r == Request("BID", u, ad, SspShowPrice(Terms[ad]))
           x == Log(r, "SHOW", 200)
<1>2. /\ logs' = logs \cup {x} /\ pc' = [pc EXCEPT ![w] = "daily"] /\ req' = [req EXCEPT ![w] = r]
      /\ counting' = IF Terms[ad].counted THEN Bump(counting, Terms[ad].order) ELSE counting
  BY <1>1 DEF CountShow, Continue
<1>3. /\ pc[w] = "idle" /\ started' = started + 1
      /\ shows' = shows /\ clicks' = clicks /\ faults' = faults
  BY DEF ShowForSsp, Begin
<1>4. ad \in Ads /\ Terms[ad].order \in Orders /\ Terms[ad].counted \in BOOLEAN /\ ad # None
  BY OrderOf DEF WorkersOK
<1>5. r.nr = started + 1 /\ r.kind = "BID" /\ r.ad = ad
  BY RequestFields, SMTT(20)
<1>6. /\ x.nr = started + 1 /\ x.type = "SHOW"
      /\ \A o : /\ ~Counts(x, o, "CLICK")
                /\ Counts(x, o, "SHOW") <=> Terms[ad].order = o /\ Terms[ad].counted
  <2> HIDE DEF r
  <2> QED BY <1>4, <1>5, LogFields, SMTT(20)
<1> HIDE DEF r, x
<1>7. StepShape(w, "daily", r, {x})
  BY <1>2, <1>3, <1>5, <1>6 DEF StepShape, Windows, ClickSteps
<1>8. CountersOK
  BY DEF OrdersInv
<1>9. /\ counting' \in [Orders -> Nat]
      /\ \A o \in Orders : counting'[o] = counting[o] + One(Terms[ad].order = o /\ Terms[ad].counted)
  <2>1. counting \in [Orders -> Nat]
    BY <1>8 DEF CountersOK
  <2> QED BY <1>2, <1>4, <2>1, ShowCalls
<1>10. CountersOK'
  BY <1>3, <1>8, <1>9 DEF CountersOK
<1>11. ASSUME NEW o \in Orders
       PROVE  /\ ShowDrift(w, "daily", r, {x}, o) = One(Terms[ad].order = o /\ Terms[ad].counted)
              /\ ClickDrift(w, "daily", r, {x}, o) = 0
  <2>1. /\ ~Serves(pc[w], req[w], o, Windows, "SHOW") /\ ~Serves("daily", r, o, Windows, "SHOW")
        /\ ~Serves(pc[w], req[w], o, {"logClick"}, "CLICK") /\ ~Serves("daily", r, o, {"logClick"}, "CLICK")
    BY <1>3, <1>5 DEF Serves, Windows
  <2>2. /\ (\E y \in {x} : Counts(y, o, "SHOW")) <=> Terms[ad].order = o /\ Terms[ad].counted
        /\ ~\E y \in {x} : Counts(y, o, "CLICK")
    BY <1>6
  <2>3. ShowDrift(w, "daily", r, {x}, o) = One(\E y \in {x} : Counts(y, o, "SHOW"))
    BY <2>1, OnlyLogs DEF ShowDrift
  <2>4. ClickDrift(w, "daily", r, {x}, o) = 0
    BY <2>1, <2>2, GoesOn DEF ClickDrift
  <2> QED BY <2>2, <2>3, <2>4 DEF One
<1>12. ASSUME NEW o \in Orders
       PROVE  /\ shows'[o] + counting'[o] = shows[o] + counting[o] + ShowDrift(w, "daily", r, {x}, o)
              /\ clicks'[o] = clicks[o] + ClickDrift(w, "daily", r, {x}, o)
  <2> DEFINE n == One(Terms[ad].order = o /\ Terms[ad].counted)
  <2>1. n \in Int
    BY Ones
  <2>2. counting'[o] = counting[o] + n /\ ShowDrift(w, "daily", r, {x}, o) = n
    BY <1>9, <1>11
  <2> HIDE DEF n
  <2>3. /\ shows[o] \in Nat /\ counting[o] \in Nat /\ clicks[o] \in Nat
        /\ shows' = shows /\ clicks' = clicks
    BY <1>3, <1>8 DEF CountersOK
  <2>4. ClickDrift(w, "daily", r, {x}, o) = 0
    BY <1>11
  <2>5. shows[o] + (counting[o] + n) = shows[o] + counting[o] + n
    BY <2>1, <2>3, InFlight
  <2>6. clicks[o] + 0 = clicks[o]
    BY <2>3, PlusNothing
  <2> QED BY <2>2, <2>3, <2>4, <2>5, <2>6
<1>13. FollowsDrift(w, "daily", r, {x})
  BY <1>12 DEF FollowsDrift
<1>14. faults' = faults
  BY <1>3
<1> QED BY <1>7, <1>10, <1>13, <1>14, ExactAgrees

\* A request of the SSP that finds no ad writes a log that counts nowhere.
LEMMA ShowForSspFailedAgrees ==
  ASSUME WorkersOK, OrdersInv, NEW w \in Workers, ShowForSspFailed(w)
  PROVE  OrdersInv'
<1>1. PICK u \in Users, outcome \in {<<"SHOW", 200>>, <<"BID", 500>>} :
        logs' = logs \cup {Log(Request("BID", u, None, NoBooking), outcome[1], outcome[2])}
  BY DEF ShowForSspFailed
<1> DEFINE r == Request("BID", u, None, NoBooking)
           x == Log(r, outcome[1], outcome[2])
<1>2. /\ pc[w] = "idle" /\ started' = started + 1 /\ UNCHANGED <<pc, req>>
      /\ UNCHANGED counters /\ faults' = faults
  BY DEF ShowForSspFailed, Begin
<1>3. r.nr = started + 1 /\ r.ad = None
  BY RequestFields, SMTT(20)
<1> HIDE DEF r
<1>4. x.nr = started + 1 /\ \A o, t : ~Counts(x, o, t)
  BY <1>3, LogFields, SMTT(20)
<1> HIDE DEF x
<1>5. logs' = logs \cup {x}
  BY <1>1 DEF r, x
<1>6. StepShape(w, pc[w], req[w], {x})
  BY <1>2, <1>4, <1>5, StaysPut DEF StepShape, Windows, ClickSteps
<1> QED BY <1>2, <1>4, <1>6, QuietStep, SMTT(20) DEF Windows

\* A show url of an exchange: nothing is counted, or the order is counted and the
\* log follows the frequency records.
LEMMA ShowForDspAgrees ==
  ASSUME WorkersOK, OrdersInv, NEW w \in Workers, ShowForDsp(w)
  PROVE  OrdersInv'
<1>1. PICK u \in Users, ad \in {a \in traffic.ads : Terms[a].adx # "ssp"},
           of \in {"both", "creative", "log"}, found \in BOOLEAN :
        LET url == ShowRequest(Terms[ad])
            r == Request("SHOW", u, ad, ParseObjectToLogItem(Terms[ad].adx, url, "SHOW"))
        IN IF of # "log" /\ ~found
             THEN /\ logs' = IF of = "both" THEN logs \cup {Log(r, "SHOW", 500)} ELSE logs
                  /\ UNCHANGED <<pc, req, links, counting>>
             ELSE /\ links' = IF of = "log" THEN links ELSE links \cup
                       {[ad |-> ad, user |-> u, url |-> Cipher(BuildResponseForDsp(url))]}
                  /\ IF of = "creative" THEN UNCHANGED <<pc, req, counting>>
                     ELSE CountShow(ad) /\ Continue(w, "daily", r)
                  /\ UNCHANGED logs
  BY DEF ShowForDsp
<1> DEFINE r == Request("SHOW", u, ad, ParseObjectToLogItem(Terms[ad].adx, ShowRequest(Terms[ad]), "SHOW"))
           x == Log(r, "SHOW", 500)
<1>2. \/ UNCHANGED <<pc, req, counting>> /\ logs' = logs
      \/ UNCHANGED <<pc, req, counting>> /\ logs' = logs \cup {x}
      \/ /\ pc' = [pc EXCEPT ![w] = "daily"] /\ req' = [req EXCEPT ![w] = r] /\ logs' = logs
         /\ counting' = IF Terms[ad].counted THEN Bump(counting, Terms[ad].order) ELSE counting
  BY <1>1 DEF CountShow, Continue
<1>3. /\ pc[w] = "idle" /\ started' = started + 1
      /\ shows' = shows /\ clicks' = clicks /\ faults' = faults
  BY DEF ShowForDsp, Begin
<1>4. ad \in Ads /\ Terms[ad].order \in Orders /\ Terms[ad].counted \in BOOLEAN /\ ad # None
  BY OrderOf DEF WorkersOK
<1>5. r.nr = started + 1 /\ r.kind = "SHOW" /\ r.ad = ad
  BY RequestFields, SMTT(20)
<1>6. x.nr = started + 1 /\ \A o : ~Counts(x, o, "SHOW") /\ ~Counts(x, o, "CLICK")
  <2> HIDE DEF r
  <2> QED BY <1>5, LogFields, SMTT(20)
<1> HIDE DEF r, x
<1>7. CASE UNCHANGED <<pc, req, counting>> /\ logs' = logs
  <2>1. StepShape(w, pc[w], req[w], {})
    BY <1>3, <1>7, StaysPut DEF StepShape, Windows, ClickSteps
  <2> QED BY <1>3, <1>7, <2>1, QuietStep, SMTT(20) DEF Windows, counters
<1>8. CASE UNCHANGED <<pc, req, counting>> /\ logs' = logs \cup {x}
  <2>1. StepShape(w, pc[w], req[w], {x})
    BY <1>3, <1>6, <1>8, StaysPut DEF StepShape, Windows, ClickSteps
  <2> QED BY <1>3, <1>6, <1>8, <2>1, QuietStep, SMTT(20) DEF Windows, counters
<1>9. CASE /\ pc' = [pc EXCEPT ![w] = "daily"] /\ req' = [req EXCEPT ![w] = r] /\ logs' = logs
           /\ counting' = IF Terms[ad].counted THEN Bump(counting, Terms[ad].order) ELSE counting
  <2>1. StepShape(w, "daily", r, {})
    BY <1>3, <1>5, <1>9 DEF StepShape, Windows, ClickSteps
  <2>2. CountersOK
    BY DEF OrdersInv
  <2>3. /\ counting' \in [Orders -> Nat]
        /\ \A o \in Orders : counting'[o] = counting[o] + One(Terms[ad].order = o /\ Terms[ad].counted)
    <3>1. counting \in [Orders -> Nat]
      BY <2>2 DEF CountersOK
    <3> QED BY <1>4, <1>9, <3>1, ShowCalls
  <2>4. CountersOK'
    BY <1>3, <2>2, <2>3 DEF CountersOK
  <2>5. ASSUME NEW o \in Orders
        PROVE  /\ ShowDrift(w, "daily", r, {}, o) = One(Terms[ad].order = o /\ Terms[ad].counted)
               /\ ClickDrift(w, "daily", r, {}, o) = 0
    <3>1. /\ ~Serves(pc[w], req[w], o, Windows, "SHOW")
          /\ ~Serves(pc[w], req[w], o, {"logClick"}, "CLICK") /\ ~Serves("daily", r, o, {"logClick"}, "CLICK")
          /\ Serves("daily", r, o, Windows, "SHOW") <=> Terms[ad].order = o /\ Terms[ad].counted
      BY <1>3, <1>5 DEF Serves, Windows
    <3>2. ShowDrift(w, "daily", r, {}, o) = One(Serves("daily", r, o, Windows, "SHOW"))
      <4> DEFINE n == One(Serves("daily", r, o, Windows, "SHOW"))
      <4>1. /\ One(\E y \in {} : Counts(y, o, "SHOW")) = 0
            /\ One(Serves(pc[w], req[w], o, Windows, "SHOW")) = 0
        BY <3>1 DEF One
      <4>2. n \in Int
        BY Ones
      <4>3. ShowDrift(w, "daily", r, {}, o) = 0 - 0 + n
        BY <4>1 DEF ShowDrift
      <4> HIDE DEF n
      <4>4. 0 - 0 + n = n
        BY <4>2, Cancel
      <4> QED BY <4>3, <4>4 DEF n
    <3>3. ClickDrift(w, "daily", r, {}, o) = 0
      BY <3>1, GoesOn DEF ClickDrift
    <3> QED BY <3>1, <3>2, <3>3 DEF One
  <2>6. ASSUME NEW o \in Orders
        PROVE  /\ shows'[o] + counting'[o] = shows[o] + counting[o] + ShowDrift(w, "daily", r, {}, o)
               /\ clicks'[o] = clicks[o] + ClickDrift(w, "daily", r, {}, o)
    <3> DEFINE n == One(Terms[ad].order = o /\ Terms[ad].counted)
    <3>1. n \in Int
      BY Ones
    <3>2. counting'[o] = counting[o] + n /\ ShowDrift(w, "daily", r, {}, o) = n
      BY <2>3, <2>5
    <3> HIDE DEF n
    <3>3. /\ shows[o] \in Nat /\ counting[o] \in Nat /\ clicks[o] \in Nat
          /\ shows' = shows /\ clicks' = clicks
      BY <1>3, <2>2 DEF CountersOK
    <3>4. ClickDrift(w, "daily", r, {}, o) = 0
      BY <2>5
    <3>5. shows[o] + (counting[o] + n) = shows[o] + counting[o] + n
      BY <3>1, <3>3, InFlight
    <3>6. clicks[o] + 0 = clicks[o]
      BY <3>3, PlusNothing
    <3> QED BY <3>2, <3>3, <3>4, <3>5, <3>6
  <2>7. FollowsDrift(w, "daily", r, {})
    BY <2>6 DEF FollowsDrift
  <2>8. faults' = faults
    BY <1>3
  <2> QED BY <2>1, <2>4, <2>7, <2>8, ExactAgrees
<1> QED BY <1>2, <1>7, <1>8, <1>9

\* The step after a frequency record goes on with the request, or logs it and
\* is done with it.
LEMMA FrequencyStepAgrees ==
  ASSUME WorkersOK, OrdersInv, NEW w \in Workers, CountFrequency(w) \/ FrequencyFails(w)
  PROVE  OrdersInv'
<1>1. /\ started' = started /\ UNCHANGED counters /\ pc[w] \in Windows
      /\ faults' = faults \/ Fault("other")
      /\ \/ Continue(w, "hourly", req[w]) /\ logs' = logs
         \/ Finish(w) /\ logs' = logs \cup {Log(req[w], req[w].kind, 200)}
  BY DEF CountFrequency, FrequencyFails, AfterFrequency
<1>2. /\ CountersOK /\ req[w].ad \in Ads /\ req[w].ad # None
      /\ req[w].kind \in {"SHOW", "BID"} /\ pc[w] # "idle" /\ pc[w] # "logClick"
  BY <1>1, OrderOf DEF OrdersInv, RequestsInv, RequestOK, WorkersOK, WorkerOK, Windows
<1>3. CountersOK'
  BY <1>1, <1>2, Faulted DEF CountersOK, counters
<1>4. ASSUME NEW o \in Orders
      PROVE  shows'[o] + counting'[o] = shows[o] + counting[o] + 0 /\ clicks'[o] = clicks[o] + 0
  <2>1. /\ shows' = shows /\ counting' = counting /\ clicks' = clicks
        /\ shows[o] \in Nat /\ counting[o] \in Nat /\ clicks[o] \in Nat
    BY <1>1, <1>2 DEF CountersOK, counters
  <2> QED BY <2>1, SumIsNat, PlusNothing
<1>5. faults' = faults \/ Fault("other")
  BY <1>1
<1>6. CASE Continue(w, "hourly", req[w]) /\ logs' = logs
  <2> DEFINE X == {}
  <2>1. StepShape(w, "hourly", req[w], X)
    BY <1>1, <1>2, <1>6 DEF StepShape, Continue, Windows, ClickSteps
  <2>2. ASSUME NEW o \in Orders
        PROVE  /\ ShowDrift(w, "hourly", req[w], X, o) = 0
               /\ ClickDrift(w, "hourly", req[w], X, o) = 0
    <3>1. Serves("hourly", req[w], o, Windows, "SHOW") <=> Serves(pc[w], req[w], o, Windows, "SHOW")
      BY <1>1 DEF Serves, Windows
    <3>2. /\ ~Serves("hourly", req[w], o, {"logClick"}, "CLICK")
          /\ ~Serves(pc[w], req[w], o, {"logClick"}, "CLICK")
      BY <1>2 DEF Serves
    <3>3. ShowDrift(w, "hourly", req[w], X, o) = 0
      BY <3>1, GoesOn DEF ShowDrift
    <3>4. ClickDrift(w, "hourly", req[w], X, o) = 0
      BY <3>2, GoesOn DEF ClickDrift
    <3> QED BY <3>3, <3>4
  <2> HIDE DEF X
  <2>3. FollowsDrift(w, "hourly", req[w], X)
    BY <1>4, <2>2 DEF FollowsDrift
  <2> QED BY <1>3, <1>5, <2>1, <2>3, ExactAgrees
<1>7. CASE Finish(w) /\ logs' = logs \cup {Log(req[w], req[w].kind, 200)}
  <2> DEFINE x == Log(req[w], req[w].kind, 200)
  <2>1. /\ x.nr = req[w].nr /\ x.type = req[w].kind
        /\ \A o : /\ ~Counts(x, o, "CLICK")
                  /\ Counts(x, o, "SHOW") <=> Serves(pc[w], req[w], o, Windows, "SHOW")
    <3>1. /\ x.nr = req[w].nr /\ x.type = req[w].kind
          /\ \A o, t : Counts(x, o, t) <=>
               /\ req[w].kind = t /\ req[w].ad # None /\ Terms[req[w].ad].order = o
               /\ t = "SHOW" => Terms[req[w].ad].counted
               /\ t = "CLICK" => req[w].landing
      BY LogFields, SMTT(20)
    <3> HIDE DEF x
    <3>2. ASSUME NEW o PROVE ~Counts(x, o, "CLICK")
      BY <1>2, <3>1, SMTT(20)
    <3>3. ASSUME NEW o
          PROVE  Counts(x, o, "SHOW") <=> Serves(pc[w], req[w], o, Windows, "SHOW")
      BY <1>1, <1>2, <3>1 DEF Serves
    <3> QED BY <3>1, <3>2, <3>3
  <2>2. logs' = logs \cup {x}
    BY <1>7
  <2> HIDE DEF x
  <2>3. StepShape(w, "idle", Idle, {x})
    BY <1>1, <1>2, <1>7, <2>1, <2>2 DEF StepShape, Finish, Windows, ClickSteps
  <2>4. \A o \in Orders : /\ ShowDrift(w, "idle", Idle, {x}, o) = 0
                          /\ ClickDrift(w, "idle", Idle, {x}, o) = 0
    <3>1. ASSUME NEW o \in Orders
          PROVE  /\ ~Serves("idle", Idle, o, Windows, "SHOW")
                 /\ ~Serves("idle", Idle, o, {"logClick"}, "CLICK")
                 /\ ~Serves(pc[w], req[w], o, {"logClick"}, "CLICK")
      BY <1>2 DEF Serves, Windows
    <3> TAKE o \in Orders
    <3>2. /\ (\E y \in {x} : Counts(y, o, "SHOW")) <=> Serves(pc[w], req[w], o, Windows, "SHOW")
          /\ ~\E y \in {x} : Counts(y, o, "CLICK")
      BY <2>1
    <3>3. ShowDrift(w, "idle", Idle, {x}, o) = 0
      BY <3>1, <3>2, Settles DEF ShowDrift
    <3>4. ClickDrift(w, "idle", Idle, {x}, o) = 0
      BY <3>1, <3>2, GoesOn DEF ClickDrift
    <3> QED BY <3>3, <3>4
  <2>5. FollowsDrift(w, "idle", Idle, {x})
    BY <1>4, <2>4 DEF FollowsDrift
  <2> QED BY <1>3, <1>5, <2>3, <2>5, ExactAgrees
<1> QED BY <1>1, <1>6, <1>7

\* Clicks without a landing page do not count; the others go on.
LEMMA ClickAgrees ==
  ASSUME WorkersOK, OrdersInv, NEW w \in Workers, Click(w)
  PROVE  OrdersInv'
<1>1. PICK link \in links, u \in Users, landing \in BOOLEAN :
        LET r == ClickRequest(link, u, landing) IN
        /\ link.user \in {None, u}
        /\ IF landing THEN Continue(w, "generateSourceId", r) /\ UNCHANGED logs
           ELSE logs' = logs \cup {Log(r, "CLICK", 302)} /\ UNCHANGED <<pc, req>>
  BY DEF Click
<1> DEFINE q == Request("CLICK", u, link.ad, ParseObjectToLogItem(Terms[link.ad].adx, link.url, "CLICK"))
           r == ClickRequest(link, u, landing)
           x == Log(r, "CLICK", 302)
<1>2. /\ pc[w] = "idle" /\ started' = started + 1
      /\ UNCHANGED counters /\ faults' = faults
  BY DEF Click, Begin
<1>3. IsRequest(q) /\ q.nr = started + 1 /\ q.kind = "CLICK"
  BY RequestFields, SMTT(20)
<1>4. r.nr = started + 1 /\ r.kind = "CLICK" /\ r.landing = landing
  <2>1. r = [q EXCEPT !.owner = Terms[link.ad].owner, !.landing = landing]
    BY DEF ClickRequest
  <2> HIDE DEF q, r
  <2> QED BY <1>3, <2>1 DEF IsRequest
<1>5. \/ landing /\ Continue(w, "generateSourceId", r) /\ logs' = logs
      \/ ~landing /\ logs' = logs \cup {x} /\ UNCHANGED <<pc, req>>
  BY <1>1
<1> HIDE DEF r
<1>6. x.nr = started + 1 /\ (~landing => \A o : ~Counts(x, o, "SHOW") /\ ~Counts(x, o, "CLICK"))
  BY <1>4, LogFields, SMTT(20)
<1> HIDE DEF x, q
<1>7. CASE landing /\ Continue(w, "generateSourceId", r) /\ logs' = logs
  <2>1. StepShape(w, "generateSourceId", r, {})
    BY <1>2, <1>4, <1>7 DEF StepShape, Continue, Windows, ClickSteps
  <2> QED BY <1>2, <2>1, QuietStep, SMTT(20) DEF Windows
<1>8. CASE ~landing /\ logs' = logs \cup {x} /\ UNCHANGED <<pc, req>>
  <2>1. StepShape(w, pc[w], req[w], {x})
    BY <1>2, <1>6, <1>8, StaysPut DEF StepShape, Windows, ClickSteps
  <2> QED BY <1>2, <1>6, <1>8, <2>1, QuietStep DEF Windows
<1> QED BY <1>5, <1>7, <1>8

\* The calls between the click and its counter, and those of a trace, count
\* nothing.
LEMMA CallAgrees ==
  ASSUME WorkersOK, OrdersInv, NEW w \in Workers,
         GenerateSourceId(w) \/ PutSource(w) \/ PutIndex(w) \/ GetIndex(w)
  PROVE  OrdersInv'
<1>1. /\ started' = started /\ UNCHANGED counters /\ logs' = logs
      /\ faults' = faults \/ Fault("other")
      /\ pc[w] \in {"generateSourceId", "putSource", "putIndex", "getIndex"}
      /\ \E p \in {"countClick", "putSource", "putIndex", "getSource"} : \E s :
           /\ Continue(w, p, req[w]) \/ Continue(w, p, [req[w] EXCEPT !.source = s])
           /\ p \in ClickSteps => pc[w] \in ClickSteps
  BY DEF GenerateSourceId, PutSource, PutIndex, GetIndex, Write, ClickSteps
<1>2. PICK p \in {"countClick", "putSource", "putIndex", "getSource"} : \E s :
        /\ Continue(w, p, req[w]) \/ Continue(w, p, [req[w] EXCEPT !.source = s])
        /\ p \in ClickSteps => pc[w] \in ClickSteps
  BY <1>1
<1>3. IsRequest(req[w]) /\ RequestOK(w)
  BY <1>1 DEF WorkersOK, WorkerOK, OrdersInv, RequestsInv
<1>4. PICK r : /\ Continue(w, p, r) /\ r.nr = req[w].nr /\ r.kind = req[w].kind
               /\ r.landing = req[w].landing
  BY <1>2, <1>3, SMTT(20) DEF IsRequest
<1>5. StepShape(w, p, r, {})
  BY <1>1, <1>2, <1>3, <1>4 DEF StepShape, Continue, Windows, ClickSteps, RequestOK
<1>6. pc[w] \notin Windows \cup {"logClick"} /\ p \notin Windows \cup {"logClick"}
  BY <1>1, <1>2 DEF Windows
<1> QED BY <1>1, <1>5, <1>6, QuietStep, SMTT(20)

\* Neither does a trace; its log is no show and no click.
LEMMA TraceAgrees ==
  ASSUME WorkersOK, OrdersInv, NEW w \in Workers, Trace(w) \/ GetSource(w)
  PROVE  OrdersInv'
<1>1. CASE Trace(w)
  <2>1. /\ pc[w] = "idle" /\ started' = started + 1
        /\ UNCHANGED counters /\ logs' = logs /\ faults' = faults
    BY <1>1 DEF Trace, Begin
  <2>2. PICK p \in {"getSource", "getIndex"} : \E u, owner, source, from :
          Continue(w, p, TraceRequest(u, owner, source, from))
    BY <1>1 DEF Trace
  <2>3. PICK u, owner, source, from : Continue(w, p, TraceRequest(u, owner, source, from))
    BY <2>2
  <2> DEFINE q == Request("TRACK", u, None, NoBooking)
             r == TraceRequest(u, owner, source, from)
  <2>4. IsRequest(q) /\ q.nr = started + 1
    BY RequestFields, SMTT(20)
  <2>5. r.nr = started + 1
    <3>1. r = [q EXCEPT !.owner = owner, !.source = source, !.from = from]
      BY DEF TraceRequest
    <3> HIDE DEF q, r
    <3> QED BY <2>4, <3>1 DEF IsRequest
  <2>6. Continue(w, p, r)
    BY <2>3
  <2> HIDE DEF q, r
  <2>7. StepShape(w, p, r, {})
    BY <2>1, <2>5, <2>6 DEF StepShape, Continue, Windows, ClickSteps
  <2>8. pc[w] \notin Windows \cup {"logClick"} /\ p \notin Windows \cup {"logClick"}
    BY <2>1, <2>2 DEF Windows
  <2> QED BY <2>1, <2>7, <2>8, QuietStep, SMTT(20)
<1>2. CASE GetSource(w)
  <2>1. /\ pc[w] = "getSource" /\ started' = started /\ Finish(w)
        /\ UNCHANGED counters
        /\ faults' = faults \/ Fault("other")
    BY <1>2 DEF GetSource
  <2>2. PICK record, pageView : logs' = logs \cup {TraceLog(req[w], record, pageView)}
    BY <1>2 DEF GetSource
  <2> DEFINE x == TraceLog(req[w], record, pageView)
  <2>3. x.nr = req[w].nr /\ x.type \in {"ARRIVE", "TRACK"}
    BY DEF TraceLog, Log
  <2>4. logs' = logs \cup {x}
    BY <2>2
  <2> HIDE DEF x
  <2>5. StepShape(w, "idle", Idle, {x})
    BY <2>1, <2>3, <2>4 DEF StepShape, Finish, Windows, ClickSteps
  <2>6. \A o \in Orders : ~Counts(x, o, "SHOW") /\ ~Counts(x, o, "CLICK")
    BY <2>3 DEF Counts
  <2> QED BY <2>1, <2>5, <2>6, QuietStep DEF Windows
<1> QED BY <1>1, <1>2

\* The counter "c" counts a click that will be logged.
LEMMA CountClickAgrees ==
  ASSUME WorkersOK, OrdersInv, NEW w \in Workers, CountClick(w)
  PROVE  OrdersInv'
<1> DEFINE ad == req[w].ad
           X == {}
<1>1. /\ pc[w] = "countClick" /\ Continue(w, "logClick", req[w])
      /\ started' = started /\ logs' = logs /\ shows' = shows /\ counting' = counting
      /\ \/ clicks' = Bump(clicks, Terms[ad].order) /\ faults' = faults
         \/ Fault("c") /\ clicks' \in {clicks, Bump(clicks, Terms[ad].order)}
  BY DEF CountClick
<1>2. /\ CountersOK /\ ad \in Ads /\ Terms[ad].order \in Orders
      /\ req[w].kind = "CLICK" /\ req[w].landing
  BY <1>1, OrderOf DEF OrdersInv, RequestsInv, RequestOK, WorkersOK, WorkerOK, ClickSteps
<1>3. StepShape(w, "logClick", req[w], X)
  BY <1>1, <1>2 DEF StepShape, Continue, Windows, ClickSteps
<1>4. ASSUME NEW o \in Orders
      PROVE  /\ ShowDrift(w, "logClick", req[w], X, o) = 0
             /\ ClickDrift(w, "logClick", req[w], X, o) = One(o = Terms[ad].order)
  <2>1. /\ ~Serves(pc[w], req[w], o, Windows, "SHOW") /\ ~Serves("logClick", req[w], o, Windows, "SHOW")
        /\ ~Serves(pc[w], req[w], o, {"logClick"}, "CLICK")
        /\ Serves("logClick", req[w], o, {"logClick"}, "CLICK") <=> o = Terms[ad].order
    BY <1>1, <1>2 DEF Serves, Windows
  <2>2. ShowDrift(w, "logClick", req[w], X, o) = 0
    BY <2>1, GoesOn DEF ShowDrift
  <2>3. ClickDrift(w, "logClick", req[w], X, o) = One(Serves("logClick", req[w], o, {"logClick"}, "CLICK"))
    <3> DEFINE n == One(Serves("logClick", req[w], o, {"logClick"}, "CLICK"))
    <3>1. /\ One(\E x \in X : Counts(x, o, "CLICK")) = 0
          /\ One(Serves(pc[w], req[w], o, {"logClick"}, "CLICK")) = 0
      BY <2>1 DEF One
    <3>2. n \in Int
      BY Ones
    <3>3. ClickDrift(w, "logClick", req[w], X, o) = 0 - 0 + n
      BY <3>1 DEF ClickDrift
    <3> HIDE DEF n
    <3>4. 0 - 0 + n = n
      BY <3>2, Cancel
    <3> QED BY <3>3, <3>4 DEF n
  <2> QED BY <2>1, <2>2, <2>3 DEF One
<1>5. /\ Bump(clicks, Terms[ad].order) \in [Orders -> Nat]
      /\ \A o \in Orders : Bump(clicks, Terms[ad].order)[o] = clicks[o] + One(o = Terms[ad].order)
  <2>1. clicks \in [Orders -> Nat] /\ Terms[ad].order \in Orders
    BY <1>2 DEF CountersOK
  <2>2. IsBumped(Bump(clicks, Terms[ad].order), clicks, Terms[ad].order)
    BY <2>1, Bumped
  <2> QED BY <2>2 DEF IsBumped
<1> HIDE DEF ad, X
<1>6. /\ faults' \in [s : Nat, c : Nat, other : Nat] /\ faults'.s = faults.s
      /\ \/ clicks' = Bump(clicks, Terms[ad].order) /\ faults'.c = faults.c
         \/ clicks' \in {clicks, Bump(clicks, Terms[ad].order)} /\ faults'.c = faults.c + 1
  <2>1. faults \in [s : Nat, c : Nat, other : Nat] /\ faults.s \in Nat
    BY <1>2 DEF CountersOK
  <2>2. CASE Fault("c")
    <3>1. /\ faults' \in [s : Nat, c : Nat, other : Nat]
          /\ faults'.s = faults.s + One("c" = "s") /\ faults'.c = faults.c + One("c" = "c")
      BY <1>2, <2>2, Faulted
    <3>2. One("c" = "s") = 0 /\ One("c" = "c") = 1
      BY DEF One
    <3>3. faults.s + 0 = faults.s
      BY <2>1, PlusNothing
    <3>4. faults'.s = faults.s /\ faults'.c = faults.c + 1
      BY <3>1, <3>2, <3>3
    <3> QED BY <1>1, <3>1, <3>4
  <2>3. CASE faults' = faults /\ clicks' = Bump(clicks, Terms[ad].order)
    BY <2>1, <2>3
  <2> QED BY <1>1, <2>2, <2>3
<1>7. CountersOK'
  BY <1>1, <1>2, <1>5, <1>6 DEF CountersOK
<1>8. \A o \in Orders :
        /\ (shows'[o] + counting'[o]) - (shows[o] + counting[o]) - ShowDrift(w, "logClick", req[w], X, o)
             \in -(faults'.s - faults.s)..(faults'.s - faults.s)
        /\ clicks'[o] - clicks[o] - ClickDrift(w, "logClick", req[w], X, o)
             \in -(faults'.c - faults.c)..(faults'.c - faults.c)
  <2> TAKE o \in Orders
  <2> DEFINE n == One(o = Terms[ad].order)
  <2>1. n \in Int /\ n \in 0..1
    BY Ones
  <2>2. /\ ShowDrift(w, "logClick", req[w], X, o) = 0 /\ ClickDrift(w, "logClick", req[w], X, o) = n
        /\ Bump(clicks, Terms[ad].order)[o] = clicks[o] + n
    BY <1>4, <1>5
  <2> HIDE DEF n
  <2>3. /\ shows[o] \in Nat /\ counting[o] \in Nat /\ clicks[o] \in Nat
        /\ faults.s \in Nat /\ faults.c \in Nat
    BY <1>2 DEF CountersOK
  <2>4. \/ clicks'[o] = clicks[o] + n /\ faults'.c = faults.c
        \/ clicks'[o] \in {clicks[o], clicks[o] + n} /\ faults'.c = faults.c + 1
    BY <1>6, <2>2
  <2>5. (shows'[o] + counting'[o]) - (shows[o] + counting[o]) - 0
          \in -(faults'.s - faults.s)..(faults'.s - faults.s)
    <3>1. shows'[o] = shows[o] /\ counting'[o] = counting[o] /\ faults'.s = faults.s
      BY <1>1, <1>6
    <3>2. shows[o] + counting[o] \in Nat
      BY <2>3, SumIsNat
    <3>3. (shows[o] + counting[o]) - (shows[o] + counting[o]) - 0
            \in -(faults.s - faults.s)..(faults.s - faults.s)
      BY <2>3, <3>2, WithinNothing
    <3> QED BY <3>1, <3>3
  <2>6. clicks'[o] - clicks[o] - n \in -(faults'.c - faults.c)..(faults'.c - faults.c)
    <3>1. CASE clicks'[o] = clicks[o] + n /\ faults'.c = faults.c
      <4>1. (clicks[o] + n) - clicks[o] - n \in -(faults.c - faults.c)..(faults.c - faults.c)
        BY <2>1, <2>3, Exact
      <4> QED BY <3>1, <4>1
    <3>2. CASE clicks'[o] = clicks[o] + n /\ faults'.c = faults.c + 1
      <4>1. (clicks[o] + n) - clicks[o] - n \in -((faults.c + 1) - faults.c)..((faults.c + 1) - faults.c)
        BY <2>1, <2>3, LateCall
      <4> QED BY <3>2, <4>1
    <3>3. CASE clicks'[o] = clicks[o] /\ faults'.c = faults.c + 1
      <4>1. clicks[o] - clicks[o] - n \in -((faults.c + 1) - faults.c)..((faults.c + 1) - faults.c)
        BY <2>1, <2>3, LostCall
      <4> QED BY <3>3, <4>1
    <3> QED BY <2>4, <3>1, <3>2, <3>3
  <2> QED BY <2>2, <2>5, <2>6
<1> QED BY <1>3, <1>7, <1>8, WorkerAgrees

\* Its log follows.
LEMMA LogClickAgrees ==
  ASSUME WorkersOK, OrdersInv, NEW w \in Workers, LogClick(w)
  PROVE  OrdersInv'
<1> DEFINE x == Log(req[w], "CLICK", 302)
<1>1. /\ pc[w] = "logClick" /\ Finish(w) /\ logs' = logs \cup {x}
      /\ started' = started /\ UNCHANGED counters /\ faults' = faults
  BY DEF LogClick
<1>2. /\ CountersOK /\ req[w].ad \in Ads /\ req[w].ad # None
      /\ req[w].kind = "CLICK" /\ req[w].landing
  BY <1>1, OrderOf DEF OrdersInv, RequestsInv, RequestOK, WorkersOK, WorkerOK, ClickSteps
<1>3. /\ x.nr = req[w].nr /\ x.type = "CLICK"
      /\ \A o : /\ ~Counts(x, o, "SHOW")
                /\ Counts(x, o, "CLICK") <=> Serves(pc[w], req[w], o, {"logClick"}, "CLICK")
  <2>1. /\ x.nr = req[w].nr /\ x.type = "CLICK"
        /\ \A o, t : Counts(x, o, t) <=>
             t = "CLICK" /\ req[w].ad # None /\ Terms[req[w].ad].order = o /\ req[w].landing
    BY LogFields, SMTT(20)
  <2> HIDE DEF x
  <2>2. ASSUME NEW o PROVE ~Counts(x, o, "SHOW")
    BY <2>1, SMTT(20)
  <2>3. ASSUME NEW o
        PROVE  Counts(x, o, "CLICK") <=> Serves(pc[w], req[w], o, {"logClick"}, "CLICK")
    BY <1>1, <1>2, <2>1 DEF Serves
  <2> QED BY <2>1, <2>2, <2>3
<1> HIDE DEF x
<1>4. StepShape(w, "idle", Idle, {x})
  BY <1>1, <1>2, <1>3 DEF StepShape, Finish, Windows, ClickSteps
<1>5. \A o \in Orders : /\ ShowDrift(w, "idle", Idle, {x}, o) = 0
                        /\ ClickDrift(w, "idle", Idle, {x}, o) = 0
  <2>1. ASSUME NEW o \in Orders
        PROVE  /\ ~Serves("idle", Idle, o, Windows, "SHOW")
               /\ ~Serves("idle", Idle, o, {"logClick"}, "CLICK")
               /\ ~Serves(pc[w], req[w], o, Windows, "SHOW")
    BY <1>1 DEF Serves, Windows
  <2> TAKE o \in Orders
  <2>2. /\ (\E y \in {x} : Counts(y, o, "CLICK")) <=> Serves(pc[w], req[w], o, {"logClick"}, "CLICK")
        /\ ~\E y \in {x} : Counts(y, o, "SHOW")
    BY <1>3
  <2>3. ShowDrift(w, "idle", Idle, {x}, o) = 0
    BY <2>1, <2>2, GoesOn DEF ShowDrift
  <2>4. ClickDrift(w, "idle", Idle, {x}, o) = 0
    BY <2>1, <2>2, Settles DEF ClickDrift
  <2> QED BY <2>3, <2>4
<1>6. CountersOK'
  BY <1>1, <1>2 DEF CountersOK, counters
<1>7. ASSUME NEW o \in Orders
      PROVE  shows'[o] + counting'[o] = shows[o] + counting[o] + 0 /\ clicks'[o] = clicks[o] + 0
  <2>1. /\ shows' = shows /\ counting' = counting /\ clicks' = clicks
        /\ shows[o] \in Nat /\ counting[o] \in Nat /\ clicks[o] \in Nat
    BY <1>1, <1>2 DEF CountersOK, counters
  <2> QED BY <2>1, SumIsNat, PlusNothing
<1>8. FollowsDrift(w, "idle", Idle, {x})
  BY <1>5, <1>7 DEF FollowsDrift
<1>9. faults' = faults
  BY <1>1
<1> QED BY <1>4, <1>6, <1>8, <1>9, ExactAgrees

\* The death of a worker is a fault that hits what it would have logged.
LEMMA DiesAgrees ==
  ASSUME WorkersOK, OrdersInv, NEW w \in Workers, Dies(w)
  PROVE  OrdersInv'
<1> DEFINE what == IF pc[w] \in Windows /\ req[w].kind = "SHOW" THEN "s"
                   ELSE IF pc[w] = "logClick" THEN "c" ELSE "other"
           X == {}
<1>1. /\ pc[w] # "idle" /\ Fault(what) /\ Finish(w)
      /\ started' = started /\ UNCHANGED counters /\ logs' = logs
  BY DEF Dies
<1>2. CountersOK /\ what \in {"s", "c", "other"}
  BY DEF OrdersInv
<1>3. StepShape(w, "idle", Idle, X)
  BY <1>1 DEF StepShape, Finish, Windows, ClickSteps
<1>4. ASSUME NEW o \in Orders
      PROVE  /\ ShowDrift(w, "idle", Idle, X, o) \in {0, -One(what = "s")}
             /\ ClickDrift(w, "idle", Idle, X, o) \in {0, -One(what = "c")}
  <2>1. /\ ~Serves("idle", Idle, o, Windows, "SHOW")
        /\ ~Serves("idle", Idle, o, {"logClick"}, "CLICK")
        /\ Serves(pc[w], req[w], o, Windows, "SHOW") => what = "s"
        /\ Serves(pc[w], req[w], o, {"logClick"}, "CLICK") => what = "c"
    BY DEF Serves, Windows
  <2> HIDE DEF what
  <2>2. ShowDrift(w, "idle", Idle, X, o) = 0 - One(Serves(pc[w], req[w], o, Windows, "SHOW"))
    BY <2>1, OnlyEnds DEF ShowDrift
  <2>3. ClickDrift(w, "idle", Idle, X, o) = 0 - One(Serves(pc[w], req[w], o, {"logClick"}, "CLICK"))
    BY <2>1, OnlyEnds DEF ClickDrift
  <2>4. One(Serves(pc[w], req[w], o, Windows, "SHOW")) \in {0, One(what = "s")}
    BY <2>1 DEF One
  <2>5. One(Serves(pc[w], req[w], o, {"logClick"}, "CLICK")) \in {0, One(what = "c")}
    BY <2>1 DEF One
  <2>6. One(what = "s") \in Int /\ One(what = "c") \in Int
    BY Ones
  <2>7. ShowDrift(w, "idle", Idle, X, o) \in {0, -One(what = "s")}
    BY <2>2, <2>4, <2>6, Negated
  <2>8. ClickDrift(w, "idle", Idle, X, o) \in {0, -One(what = "c")}
    BY <2>3, <2>5, <2>6, Negated
  <2> QED BY <2>7, <2>8
<1> HIDE DEF what, X
<1>5. /\ faults' \in [s : Nat, c : Nat, other : Nat]
      /\ faults'.s = faults.s + One(what = "s") /\ faults'.c = faults.c + One(what = "c")
  BY <1>1, <1>2, Faulted
<1>6. CountersOK'
  BY <1>1, <1>2, <1>5 DEF CountersOK, counters
<1>7. \A o \in Orders :
        /\ (shows'[o] + counting'[o]) - (shows[o] + counting[o]) - ShowDrift(w, "idle", Idle, X, o)
             \in -(faults'.s - faults.s)..(faults'.s - faults.s)
        /\ clicks'[o] - clicks[o] - ClickDrift(w, "idle", Idle, X, o)
             \in -(faults'.c - faults.c)..(faults'.c - faults.c)
  <2> DEFINE n == One(what = "s")
             m == One(what = "c")
  <2>1. n \in 0..1 /\ m \in 0..1
    BY Ones
  <2>2. faults'.s = faults.s + n /\ faults'.c = faults.c + m
    BY <1>5
  <2> TAKE o \in Orders
  <2>3. ShowDrift(w, "idle", Idle, X, o) \in {0, -n} /\ ClickDrift(w, "idle", Idle, X, o) \in {0, -m}
    BY <1>4
  <2> HIDE DEF n, m
  <2>4. /\ shows[o] \in Nat /\ counting[o] \in Nat /\ clicks[o] \in Nat
        /\ shows' = shows /\ counting' = counting /\ clicks' = clicks
        /\ faults.s \in Nat /\ faults.c \in Nat
    BY <1>1, <1>2 DEF CountersOK, counters
  <2>5. (shows'[o] + counting'[o]) - (shows[o] + counting[o]) - ShowDrift(w, "idle", Idle, X, o)
          \in -(faults'.s - faults.s)..(faults'.s - faults.s)
    <3>1. shows[o] + counting[o] \in Nat
      BY <2>4, SumIsNat
    <3>2. (shows[o] + counting[o]) - (shows[o] + counting[o]) - ShowDrift(w, "idle", Idle, X, o)
            \in -((faults.s + n) - faults.s)..((faults.s + n) - faults.s)
      BY <2>1, <2>3, <2>4, <3>1, GivenUp
    <3> QED BY <2>2, <2>4, <3>2
  <2>6. clicks'[o] - clicks[o] - ClickDrift(w, "idle", Idle, X, o)
          \in -(faults'.c - faults.c)..(faults'.c - faults.c)
    <3>1. clicks[o] - clicks[o] - ClickDrift(w, "idle", Idle, X, o)
            \in -((faults.c + m) - faults.c)..((faults.c + m) - faults.c)
      BY <2>1, <2>3, <2>4, GivenUp
    <3> QED BY <2>2, <2>4, <3>1
  <2> QED BY <2>5, <2>6
<1> QED BY <1>3, <1>6, <1>7, WorkerAgrees

\* What is served and being served is finite.
LEMMA CountsAreNat ==
  ASSUME RequestsInv, NEW o
  PROVE  /\ Served(o, "SHOW") \in Nat /\ Served(o, "CLICK") \in Nat
         /\ Serving(o, Windows, "SHOW") \in Nat /\ Serving(o, {"logClick"}, "CLICK") \in Nat
<1>1. IsFiniteSet(logs) /\ IsFiniteSet(Workers)
  BY ConstantsAssumption DEF RequestsInv
<1>2. ASSUME NEW S, IsFiniteSet(S), NEW T \in SUBSET S PROVE Cardinality(T) \in Nat
  BY <1>2, FS_Subset, FS_CardinalityType
<1>3. ASSUME NEW type PROVE Served(o, type) \in Nat
  <2> DEFINE T == {l \in logs : Counts(l, o, type)}
  <2>1. T \in SUBSET logs
    OBVIOUS
  <2>2. Served(o, type) = Cardinality(T)
    BY DEF Served, Counts
  <2> HIDE DEF T
  <2> QED BY <1>1, <1>2, <2>1, <2>2
<1>4. ASSUME NEW steps, NEW kind PROVE Serving(o, steps, kind) \in Nat
  <2> DEFINE T == {w \in Workers : Serves(pc[w], req[w], o, steps, kind)}
  <2>1. T \in SUBSET Workers
    OBVIOUS
  <2>2. Serving(o, steps, kind) = Cardinality(T)
    BY DEF Serving, Serves
  <2> HIDE DEF T
  <2> QED BY <1>1, <1>2, <2>1, <2>2
<1> QED BY <1>3, <1>4

\* Steps that leave the requests and the logs alone.
LEMMA RestAgrees ==
  ASSUME OrdersInv, UNCHANGED <<started, pc, req, logs>>, CountersOK',
         \A o \in Orders :
           /\ (shows'[o] + counting'[o]) - (shows[o] + counting[o])
                \in -(faults'.s - faults.s)..(faults'.s - faults.s)
           /\ clicks' = clicks /\ faults'.c = faults.c
  PROVE  OrdersInv'
<1>1. RequestsInv /\ CountersOK /\ OrdersAgree
  BY DEF OrdersInv
<1>2. RequestsInv'
  BY <1>1 DEF RequestsInv, RequestOK
<1>3. ASSUME NEW o \in Orders
      PROVE  /\ (shows[o] + counting[o] - Served(o, "SHOW") - Serving(o, Windows, "SHOW")
                  \in -faults.s..faults.s)'
             /\ (clicks[o] - Served(o, "CLICK") - Serving(o, {"logClick"}, "CLICK")
                  \in -faults.c..faults.c)'
  <2>1. /\ Served(o, "SHOW")' = Served(o, "SHOW") /\ Served(o, "CLICK")' = Served(o, "CLICK")
        /\ Serving(o, Windows, "SHOW")' = Serving(o, Windows, "SHOW")
        /\ Serving(o, {"logClick"}, "CLICK")' = Serving(o, {"logClick"}, "CLICK")
    BY DEF Served, Serving
  <2>2. /\ Served(o, "SHOW") \in Nat /\ Served(o, "CLICK") \in Nat
        /\ Serving(o, Windows, "SHOW") \in Nat /\ Serving(o, {"logClick"}, "CLICK") \in Nat
    BY <1>1, CountsAreNat
  <2>3. /\ faults.s \in Nat /\ faults'.s \in Nat
        /\ shows[o] \in Nat /\ counting[o] \in Nat /\ shows'[o] \in Nat /\ counting'[o] \in Nat
    BY <1>1 DEF CountersOK
  <2>4. /\ shows[o] + counting[o] - Served(o, "SHOW") - Serving(o, Windows, "SHOW")
             \in -faults.s..faults.s
        /\ clicks[o] - Served(o, "CLICK") - Serving(o, {"logClick"}, "CLICK")
             \in -faults.c..faults.c
    BY <1>1 DEF OrdersAgree
  <2> DEFINE v == Served(o, "SHOW")
             g == Serving(o, Windows, "SHOW")
             s == shows[o] + counting[o]
             s2 == shows'[o] + counting'[o]
  <2>5. s \in Nat /\ s2 \in Nat /\ v \in Int /\ g \in Int
    <3>1. s \in Nat /\ s2 \in Nat
      BY <2>3, SumIsNat
    <3>2. v \in Int /\ g \in Int
      BY <2>2, NatIsInt
    <3> QED BY <3>1, <3>2
  <2>6. s - v - g \in -faults.s..faults.s
    BY <2>3, <2>4, <2>5, Together
  <2>7. Moves(s, s2, v, v, g, g, 0, 0, 0, 0, faults.s, faults'.s)
    <3>1. /\ v \in Nat /\ g \in Nat
          /\ s2 - s \in -(faults'.s - faults.s)..(faults'.s - faults.s)
      BY <2>2
    <3> HIDE DEF s, s2, v, g
    <3>2. s2 - s - 0 = s2 - s /\ v = v + 0 /\ g = g - 0 + 0 /\ 0 = 0 - 0 + 0 /\ 0 \in Int
      BY <2>5, SMTT(20)
    <3> QED BY <2>3, <2>5, <2>6, <3>1, <3>2 DEF Moves
  <2>8. s2 - v - g \in -(faults'.s)..(faults'.s)
    <3> HIDE DEF s, s2, v, g
    <3> QED BY <2>7, Within
  <2>9. shows'[o] + counting'[o] - v - g \in -(faults'.s)..(faults'.s)
    BY <2>3, <2>5, <2>8, Together
  <2> QED BY <2>1, <2>4, <2>9
<1>4. OrdersAgree'
  BY <1>3 DEF OrdersAgree, Orders
<1> QED BY <1>2, <1>4 DEF OrdersInv

\* An increment in flight lands or is lost; the lost one is a fault.
LEMMA ShowLandsAgrees ==
  ASSUME OrdersInv, NEW k \in Orders, ShowCounted(k) \/ ShowLost(k)
  PROVE  OrdersInv'
<1>1. /\ CountersOK /\ UNCHANGED <<started, pc, req, logs>> /\ clicks' = clicks
      /\ counting[k] > 0 /\ counting' = [counting EXCEPT ![k] = @ - 1]
  BY DEF OrdersInv, ShowCounted, ShowLost, Drop
<1>2. /\ counting' \in [Orders -> Nat] /\ counting \in [Orders -> Nat] /\ shows \in [Orders -> Nat]
      /\ faults.s \in Nat
      /\ \A o \in Orders : counting'[o] = IF o = k THEN counting[o] - 1 ELSE counting[o]
  BY <1>1, SMTT(20) DEF CountersOK
<1>3. CASE ShowCounted(k)
  <2>1. shows' = Bump(shows, k) /\ faults' = faults
    BY <1>3 DEF ShowCounted
  <2>2. /\ shows' \in [Orders -> Nat]
        /\ \A o \in Orders : shows'[o] = IF o = k THEN shows[o] + 1 ELSE shows[o]
    BY <1>2, <2>1, SMTT(20) DEF Bump
  <2>3. CountersOK'
    BY <1>1, <1>2, <2>1, <2>2 DEF CountersOK
  <2>4. \A o \in Orders : (shows'[o] + counting'[o]) - (shows[o] + counting[o])
                             \in -(faults'.s - faults.s)..(faults'.s - faults.s)
    BY <1>2, <2>1, <2>2, SMTT(20)
  <2> QED BY <1>1, <2>1, <2>3, <2>4, RestAgrees
<1>4. CASE ShowLost(k)
  <2>1. shows' = shows /\ Fault("s")
    BY <1>4 DEF ShowLost
  <2>2. /\ faults' \in [s : Nat, c : Nat, other : Nat]
        /\ faults'.s = faults.s + 1 /\ faults'.c = faults.c
    BY <1>1, <1>2, <2>1, Faulted, SMTT(20) DEF One, CountersOK
  <2>3. CountersOK'
    BY <1>1, <1>2, <2>1, <2>2 DEF CountersOK
  <2>4. \A o \in Orders : (shows'[o] + counting'[o]) - (shows[o] + counting[o])
                             \in -(faults'.s - faults.s)..(faults'.s - faults.s)
    BY <1>2, <2>1, <2>2, SMTT(20)
  <2> QED BY <1>1, <2>2, <2>3, <2>4, RestAgrees
<1> QED BY <1>3, <1>4

\* Nothing is counted and nothing is logged at first.
LEMMA OrdersInit == Init => OrdersInv
<1> SUFFICES ASSUME Init PROVE OrdersInv
  OBVIOUS
<1>1. RequestsInv
  BY FS_EmptySet DEF Init, RequestsInv
<1>2. CountersOK
  BY DEF Init, CountersOK
<1>3. ASSUME NEW o \in Orders
      PROVE  /\ Served(o, "SHOW") = 0 /\ Served(o, "CLICK") = 0
             /\ Serving(o, Windows, "SHOW") = 0 /\ Serving(o, {"logClick"}, "CLICK") = 0
  <2>1. logs = {} /\ \A w \in Workers : pc[w] = "idle"
    BY DEF Init
  <2>2. Served(o, "SHOW") = Cardinality({}) /\ Served(o, "CLICK") = Cardinality({})
    BY <2>1 DEF Served
  <2>3. {w \in Workers : Serves(pc[w], req[w], o, Windows, "SHOW")} = {}
    BY <2>1 DEF Serves, Windows
  <2>4. {w \in Workers : Serves(pc[w], req[w], o, {"logClick"}, "CLICK")} = {}
    BY <2>1 DEF Serves
  <2>5. /\ Serving(o, Windows, "SHOW") = Cardinality({})
        /\ Serving(o, {"logClick"}, "CLICK") = Cardinality({})
    BY <2>3, <2>4 DEF Serving, Serves
  <2> QED BY <2>2, <2>5, FS_EmptySet
<1>4. ASSUME NEW o \in Orders
      PROVE  /\ shows[o] = 0 /\ counting[o] = 0 /\ clicks[o] = 0
             /\ faults.s = 0 /\ faults.c = 0
  BY DEF Init
<1>5. ASSUME NEW o \in Orders
      PROVE  /\ shows[o] + counting[o] - Served(o, "SHOW") - Serving(o, Windows, "SHOW")
                  \in -faults.s..faults.s
             /\ clicks[o] - Served(o, "CLICK") - Serving(o, {"logClick"}, "CLICK")
                  \in -faults.c..faults.c
  <2>1. /\ 0 + 0 - 0 - 0 \in -0..0
        /\ 0 - 0 - 0 \in -0..0
    BY SMTT(20)
  <2> QED BY <1>3, <1>4, <2>1
<1>6. OrdersAgree
  BY <1>5 DEF OrdersAgree
<1> QED BY <1>1, <1>2, <1>6 DEF OrdersInv

\* Every step keeps the orders in line with the logs.
LEMMA OrdersNext == WorkersOK /\ OrdersInv /\ [Next]_vars => OrdersInv'
<1> SUFFICES ASSUME WorkersOK, OrdersInv, [Next]_vars PROVE OrdersInv'
  OBVIOUS
<1>1. ASSUME NEW w \in Workers,
             \/ ShowForSsp(w) \/ ShowForSspFailed(w) \/ ShowForDsp(w)
             \/ CountFrequency(w) \/ FrequencyFails(w)
             \/ Click(w) \/ GenerateSourceId(w) \/ PutSource(w) \/ PutIndex(w)
             \/ CountClick(w) \/ LogClick(w)
             \/ Trace(w) \/ GetIndex(w) \/ GetSource(w)
             \/ Dies(w)
      PROVE  OrdersInv'
  BY <1>1, ShowForSspAgrees, ShowForSspFailedAgrees, ShowForDspAgrees, FrequencyStepAgrees,
     ClickAgrees, CallAgrees, CountClickAgrees, LogClickAgrees, TraceAgrees, DiesAgrees
<1>2. ASSUME NEW o \in Orders, ShowCounted(o) \/ ShowLost(o)
      PROVE  OrdersInv'
  BY <1>2, ShowLandsAgrees
<1>3. CASE \/ \E t \in Totals : PutLands(t) \/ AddLands(t) \/ FrequencyLost(t)
           \/ \E k \in Keys : FrequencyExpires(k)
           \/ \E write \in late : LateWrite(write)
           \/ TrailExpires \/ Tick \/ UNCHANGED vars
  <2>1. /\ UNCHANGED <<started, pc, req, logs>> /\ UNCHANGED counters
        /\ faults' = faults \/ Fault("other")
    BY <1>3 DEF PutLands, AddLands, FrequencyLost, FrequencyExpires, LateWrite, TrailExpires, Tick, vars
  <2>2. CountersOK
    BY DEF OrdersInv
  <2>3. /\ shows' = shows /\ clicks' = clicks /\ counting' = counting
        /\ faults' \in [s : Nat, c : Nat, other : Nat]
        /\ faults'.s = faults.s /\ faults'.c = faults.c /\ faults.s \in Nat
    BY <2>1, <2>2, Faulted, SMTT(20) DEF CountersOK, One, counters
  <2>4. CountersOK'
    BY <2>2, <2>3 DEF CountersOK
  <2>5. \A o \in Orders : (shows'[o] + counting'[o]) - (shows[o] + counting[o])
                             \in -(faults'.s - faults.s)..(faults'.s - faults.s)
    BY <2>2, <2>3, SMTT(20) DEF CountersOK
  <2> QED BY <2>1, <2>3, <2>4, <2>5, RestAgrees
<1> QED BY <1>1, <1>2, <1>3 DEF Next

\* OrdersInv is an invariant of the specification.
LEMMA OrdersHold == Spec => []OrdersInv
<1>1. Inv => WorkersOK
  BY DEF Inv, TrailInv
<1> QED BY <1>1, InvHolds, OrdersInit, OrdersNext, PTL DEF Spec

\* OrdersMatchLogs: for any number of workers that interleave and die, the
\* order counters that show_query_task and click_query_task keep differ from
\* the logs that are billed by no more than the requests under way and one for
\* every lost increment or death.
THEOREM OrdersMatchLogs == Spec => []OrdersAgree
<1>1. OrdersInv => OrdersAgree
  BY DEF OrdersInv
<1> QED BY <1>1, OrdersHold, PTL

=============================================================================
