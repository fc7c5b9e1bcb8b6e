---------------------------- MODULE AdSelectClient ----------------------------
(***************************************************************************)
(* The client of the ad-selection service                                  *)
(* (service/core/adselectv2/ad_select_client.cpp): one ZeroMQ REQ socket   *)
(* shared by all requests of an nginx worker.  A REQ socket must send and  *)
(* receive in turn; search() gives up after 5 s and then replaces the      *)
(* socket, getBannerById() waits without a limit.  The network may lose    *)
(* and delay requests and replies.                                         *)
(***************************************************************************)
EXTENDS Naturals

CONSTANTS MaxCalls,  \* bound on the calls of search() and getBannerById()
          Faults     \* "loss": a message is lost; "recv": recv throws;
                     \* "notsock": send throws with error 88

ASSUME AdSelectAssumption ==
  /\ MaxCalls \in Nat
  /\ Faults \subseteq {"loss", "recv", "notsock"}

VARIABLES pc,        \* where the nginx worker is in the client
          call,      \* number of the call in progress, or of the last one
          session,   \* which socket socket_ is: closing starts a new session
          awaiting,  \* the REQ socket sent and has not received
          requests,  \* requests on their way: call and session
          replies,   \* replies on their way: call and session
          answer,    \* the call whose reply the last successful call got
          thrown     \* history: the session in which recv threw, or 0

vars == <<pc, call, session, awaiting, requests, replies, answer, thrown>>

Init ==
  /\ pc = "idle"
  /\ call = 0
  /\ session = 1
  /\ awaiting = FALSE
  /\ requests = {} /\ replies = {}
  /\ answer = 0
  /\ thrown = 0

\* Mutant: the old connection goes on, only the turn is reset.
ReopenSameConnection ==
  /\ session' = session
  /\ awaiting' = FALSE

\* close(), a new REQ socket, connect(): replies to the old one are dropped
Reopen ==
  /\ session' = session + 1
  /\ awaiting' = FALSE

-------------------------------------------------------------------------------
Call(kind) ==
  /\ pc = "idle"
  /\ call < MaxCalls
  /\ call' = call + 1
  /\ pc' = kind
  /\ UNCHANGED <<session, awaiting, requests, replies, answer, thrown>>

\* socket_.send() when the REQ socket may send
Send(kind, wait) ==
  /\ pc = kind
  /\ ~awaiting
  /\ requests' = requests \cup {[call |-> call, session |-> session]}
  /\ awaiting' = TRUE
  /\ pc' = wait
  /\ UNCHANGED <<call, session, replies, answer, thrown>>

SearchSend == Send("search", "searchWait")
BannerSend == Send("banner", "bannerWait")

\* Mutant: the send is tried again until it succeeds.
SendOutOfTurnRetried ==
  /\ pc \in {"search", "banner"}
  /\ awaiting
  /\ UNCHANGED vars

\* EFSM: the error is logged, the call returns false, the socket stays
SendOutOfTurn ==
  /\ pc \in {"search", "banner"}
  /\ awaiting
  /\ pc' = "idle"
  /\ UNCHANGED <<call, session, awaiting, requests, replies, answer, thrown>>

\* error 88: search() replaces the socket, getBannerById() does not
SearchSendNotSock ==
  /\ "notsock" \in Faults
  /\ pc = "search"
  /\ Reopen
  /\ pc' = "idle"
  /\ UNCHANGED <<call, requests, replies, answer, thrown>>

Receive ==
  /\ pc \in {"searchWait", "bannerWait"}
  /\ \E r \in replies :
       /\ r.session = session
       /\ replies' = replies \ {r}
       /\ answer' = r.call
  /\ awaiting' = FALSE
  /\ pc' = "idle"
  /\ UNCHANGED <<call, session, requests, thrown>>

\* Mutant: a timeout returns without replacing the socket.
SearchTimeoutKeepsSocket ==
  /\ pc = "searchWait"
  /\ pc' = "idle"
  /\ UNCHANGED <<call, session, awaiting, requests, replies, answer, thrown>>

\* Mutant: the timeout is only noticed once a reply is there.
SearchTimeoutLate ==
  /\ pc = "searchWait"
  /\ \E r \in replies : r.session = session
  /\ Reopen
  /\ pc' = "idle"
  /\ UNCHANGED <<call, requests, replies, answer, thrown>>

\* pollAndRecv() gave nothing for 5 s
SearchTimeout ==
  /\ pc = "searchWait"
  /\ Reopen
  /\ pc' = "idle"
  /\ UNCHANGED <<call, requests, replies, answer, thrown>>

\* recv throws: the call returns false and leaves the socket as it is
ReceiveThrows ==
  /\ "recv" \in Faults
  /\ pc \in {"searchWait", "bannerWait"}
  /\ thrown' = session
  /\ pc' = "idle"
  /\ UNCHANGED <<call, session, awaiting, requests, replies, answer>>

-------------------------------------------------------------------------------
(* The ad-selection service and the network.                               *)

Serve(r) ==
  /\ r \in requests
  /\ requests' = requests \ {r}
  /\ replies' = replies \cup {r}
  /\ UNCHANGED <<pc, call, session, awaiting, answer, thrown>>

Lose(r) ==
  /\ "loss" \in Faults
  /\ r \in requests \cup replies
  /\ requests' = requests \ {r}
  /\ replies' = replies \ {r}
  /\ UNCHANGED <<pc, call, session, awaiting, answer, thrown>>

-------------------------------------------------------------------------------
ClientStep == SearchSend \/ BannerSend \/ SendOutOfTurn \/ SearchSendNotSock
              \/ SearchTimeout \/ ReceiveThrows

Next ==
  \/ \E kind \in {"search", "banner"} : Call(kind)
  \/ ClientStep
  \/ Receive
  \/ \E r \in requests \cup replies : Serve(r) \/ Lose(r)

Spec == Init /\ [][Next]_vars

\* The worker runs until it blocks; poll returns after 5 s at the latest;
\* the service answers what reaches it.
Fairness ==
  /\ WF_vars(SearchSend \/ BannerSend \/ SendOutOfTurn)
  /\ WF_vars(SearchTimeout) /\ WF_vars(Receive)
  /\ WF_vars(\E r \in requests : Serve(r))

FairSpec == Spec /\ Fairness

-------------------------------------------------------------------------------
(* Properties.                                                             *)

Messages == [call : 1 .. MaxCalls, session : 1 .. MaxCalls + 1]

\* Types of the client's state and of what is on the network.
TypeOK ==
  /\ pc \in {"idle", "search", "searchWait", "banner", "bannerWait"}
  /\ call \in 0 .. MaxCalls
  /\ session \in 1 .. MaxCalls + 1
  /\ awaiting \in BOOLEAN
  /\ requests \subseteq Messages /\ replies \subseteq Messages
  /\ answer \in 0 .. MaxCalls
  /\ thrown \in 0 .. MaxCalls + 1

\* A reply that comes after search() gave up never answers a later call: the
\* ad shown is the one selected for this request.
AnswersOwnCall == [][answer' # answer => answer' = call]_vars

\* Between calls the shared socket can send, unless recv threw on this very
\* socket; no timeout, lost message or failed send leaves it out of turn.
ReadyBetweenCalls == pc = "idle" /\ awaiting => thrown = session

\* At most one request of the current socket is unanswered, although the
\* socket serves every request of the worker.
OneOutstanding ==
  \A r, s \in requests \cup replies :
    r.session = session /\ s.session = session => r = s

\* search() comes back whatever the network loses.
SearchReturns == pc = "search" ~> pc = "idle"

\* The messages of the current socket that are on the network.
OnTheWay == {r \in requests \cup replies : r.session = session}

\* A call that is waiting comes back, unless the network lost its request or
\* its reply: then getBannerById(), which has no timeout, waits for ever.
CallsReturn == pc # "idle" ~> (pc = "idle" \/ (pc = "bannerWait" /\ OnTheWay = {}))
==============================================================================
