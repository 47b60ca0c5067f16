---------------------------- MODULE MainLoopProofs ---------------------------
(***************************************************************************)
(* Theorems about what the main loop serves besides requests.              *)
(*                                                                         *)
(* Onboarding, for every set of joiners, every limit of the queue and      *)
(* every timeout: what the answers in one shared InfoItem can do to a      *)
(* joiner.                                                                 *)
(*                                                                         *)
(* Peripherals, for every board: no edge that an interrupt handler caught  *)
(* is lost or counted twice, whenever it comes while the flags are drained,*)
(* and no value goes out twice over the bus.                               *)
(***************************************************************************)
EXTENDS Onboarding, Peripherals, FiniteSetTheorems, WellFoundedInduction, TLAPS

-----------------------------------------------------------------------------
(* Onboarding.                                                             *)

Joiner == [sm : Machine, action : Actions, retry : Nat,
           at : {"onboarding", "provisioned", "portal"}]

Types == joiner \in [Device -> Joiner]

\* The newest decision and the newest answer are backed by what owner and
\* gateway have done: an approval by the owner's consent, a denial by the
\* gateway's having denied that attempt.
AnswersBacked ==
  /\ approval.approve => approval.mac \in consented
  /\ response.approved => response.to[1] \in consented
  /\ ~response.approved => response.to = <<>> \/ response.to \in denied

\* Credentials are decrypted, and used, by approved devices only.
UseBacked ==
  \A d \in Device :
    joiner[d].action = "Decrypt" \/ joiner[d].at = "provisioned" => d \in consented

Inv == Types /\ AnswersBacked /\ UseBacked /\ FailuresAreOwn
-----------------------------------------------------------------------------
(* The machine: what an event may do to it.                                *)

Bad == {"Denied", "NonceMismatch", "DecryptionError"}

LEMMA FailOutcome ==
  ASSUME NEW m \in Machine, NEW reason \in Reasons
  PROVE  /\ Fail(m, reason).sm \in Machine /\ Fail(m, reason).sm.reason = reason
         /\ Fail(m, reason).action = "Idle"
BY DEF Fail, Machine, States

LEMMA GotoOutcome ==
  ASSUME NEW m \in Machine, NEW state \in States, NEW action \in Actions
  PROVE  /\ Goto(m, state, action).sm \in Machine
         /\ Goto(m, state, action).sm.reason = m.reason
         /\ Goto(m, state, action).action = action
BY DEF Goto, Machine

LEMMA ScanMissedOutcome ==
  ASSUME NEW m \in Machine
  PROVE  LET o == ScanMissed(m)
         IN /\ o.sm \in Machine /\ o.action \in {"Idle", "StartScan"}
            /\ o.sm.reason \in {m.reason, "Timeout"}
<1>. DEFINE next == [m EXCEPT !.scans = @ + 1]
<1>1. next \in Machine /\ next.reason = m.reason
  BY DEF Machine
<1>2. "Timeout" \in Reasons
  BY DEF Reasons
<1>3. ScanMissed(m) = IF next.scans >= MaxScanRetries THEN Fail(next, "Timeout")
                      ELSE [sm |-> next, action |-> "StartScan"]
  BY DEF ScanMissed
<1>. HIDE DEF next
<1>. QED
  BY <1>1, <1>2, <1>3, FailOutcome

LEMMA PollMissedOutcome ==
  ASSUME NEW m \in Machine
  PROVE  LET o == PollMissed(m)
         IN /\ o.sm \in Machine /\ o.action \in {"Idle", "WaitPoll"}
            /\ o.sm.reason \in {m.reason, "Timeout"}
<1>. DEFINE next == [m EXCEPT !.polls = @ + 1]
<1>1. next \in Machine /\ next.reason = m.reason
  BY DEF Machine
<1>2. "Timeout" \in Reasons
  BY DEF Reasons
<1>3. PollMissed(m) = IF next.polls >= MaxPollAttempts THEN Fail(next, "Timeout")
                      ELSE [sm |-> next, action |-> "WaitPoll"]
  BY DEF PollMissed
<1>. HIDE DEF next
<1>. QED
  BY <1>1, <1>2, <1>3, FailOutcome

\* Only an approval starts the decryption, and only a denial makes a reason that
\* conclude_onboarding takes for an answer's fault.
LEMMA HandleOutcome ==
  ASSUME NEW m \in Machine, NEW event, event \notin {"NonceMismatch", "DecryptFailed"}
  PROVE  LET o == Handle(m, event)
         IN /\ o.sm \in Machine /\ o.action \in Actions
            /\ o.action = "Decrypt" => event = "ResponseApproved"
            /\ o.sm.reason \in Bad =>
                 \/ o.sm.reason = m.reason
                 \/ event = "ResponseDenied" /\ o.sm.reason = "Denied"
<1>. DEFINE o == Handle(m, event)
<1>. DEFINE Claim == /\ o.sm \in Machine /\ o.action \in Actions
                     /\ o.action = "Decrypt" => event = "ResponseApproved"
                     /\ o.sm.reason \in Bad =>
                          \/ o.sm.reason = m.reason
                          \/ event = "ResponseDenied" /\ o.sm.reason = "Denied"
<1>. SUFFICES Claim
  OBVIOUS
<1>1. /\ {"Connecting", "Requesting", "Polling", "Decrypting"} \subseteq States
      /\ {"Timeout", "ConnectionFailed", "Denied"} \subseteq Reasons
      /\ Actions = {"StartScan", "Connect", "SendRequest", "WaitPoll", "Decrypt", "Idle"}
      /\ \A r : r \in Bad <=> r \in {"Denied", "NonceMismatch", "DecryptionError"}
  BY DEF States, Reasons, Actions, Bad
<1>2. CASE m.state = "Scanning" /\ event = "ApFound"
  <2>1. o = Goto(m, "Connecting", "Connect")
    BY <1>2 DEF Handle
  <2>. HIDE DEF o
  <2>. QED
    BY <1>1, <2>1, GotoOutcome
<1>3. CASE m.state = "Scanning" /\ event = "ApNotFound"
  <2>1. o = ScanMissed(m)
    BY <1>3 DEF Handle
  <2>2. o.sm \in Machine /\ o.action \in {"Idle", "StartScan"} /\ o.sm.reason \in {m.reason, "Timeout"}
    BY <2>1, ScanMissedOutcome
  <2>. HIDE DEF o
  <2>. QED
    BY <1>1, <2>2
<1>4. CASE m.state = "Connecting" /\ event = "Connected"
  <2>1. o = Goto(m, "Requesting", "SendRequest")
    BY <1>4 DEF Handle
  <2>. HIDE DEF o
  <2>. QED
    BY <1>1, <2>1, GotoOutcome
<1>5. CASE m.state = "Connecting" /\ event = "ConnectFailed"
  <2>1. o = Fail(m, "ConnectionFailed")
    BY <1>5 DEF Handle
  <2>. HIDE DEF o
  <2>. QED
    BY <1>1, <2>1, FailOutcome
<1>6. CASE m.state = "Requesting" /\ event = "RequestSent"
  <2>1. o = Goto(m, "Polling", "WaitPoll")
    BY <1>6 DEF Handle
  <2>. HIDE DEF o
  <2>. QED
    BY <1>1, <2>1, GotoOutcome
<1>7. CASE m.state = "Polling" /\ event = "NoResponse"
  <2>1. o = PollMissed(m)
    BY <1>7 DEF Handle
  <2>2. o.sm \in Machine /\ o.action \in {"Idle", "WaitPoll"} /\ o.sm.reason \in {m.reason, "Timeout"}
    BY <2>1, PollMissedOutcome
  <2>. HIDE DEF o
  <2>. QED
    BY <1>1, <2>2
<1>8. CASE m.state = "Polling" /\ event = "ResponseApproved"
  <2>1. o = Goto(m, "Decrypting", "Decrypt")
    BY <1>8 DEF Handle
  <2>. HIDE DEF o
  <2>. QED
    BY <1>1, <1>8, <2>1, GotoOutcome
<1>9. CASE m.state = "Polling" /\ event = "ResponseDenied"
  <2>1. o = Fail(m, "Denied")
    BY <1>9 DEF Handle
  <2>. HIDE DEF o
  <2>. QED
    BY <1>1, <1>9, <2>1, FailOutcome
<1>10. CASE ~ \/ m.state = "Scanning" /\ event \in {"ApFound", "ApNotFound"}
              \/ m.state = "Connecting" /\ event \in {"Connected", "ConnectFailed"}
              \/ m.state = "Requesting" /\ event = "RequestSent"
              \/ m.state = "Polling" /\ event \in {"NoResponse", "ResponseApproved", "ResponseDenied"}
  <2>1. o = [sm |-> m, action |-> "Idle"]
    BY <1>10 DEF Handle
  <2>. HIDE DEF o
  <2>. QED
    BY <1>1, <2>1
<1>. QED
  BY <1>2, <1>3, <1>4, <1>5, <1>6, <1>7, <1>8, <1>9, <1>10
-----------------------------------------------------------------------------
(* The joiners' steps.                                                     *)

LEMMA FreshJoiner ==
  ASSUME NEW retry \in Nat
  PROVE  /\ Fresh(retry) \in Joiner /\ Fresh(retry).sm.reason = "none"
         /\ Fresh(retry).action = "StartScan" /\ Fresh(retry).at = "onboarding"
BY DEF Fresh, New, Joiner, Machine, States, Reasons, Actions

LEMMA InvInit == Init => Inv
<1>. SUFFICES ASSUME Init PROVE Inv
  OBVIOUS
<1>1. Fresh(0) \in Joiner /\ Fresh(0).sm.reason = "none"
      /\ Fresh(0).action = "StartScan" /\ Fresh(0).at = "onboarding"
  BY FreshJoiner
<1>2. \A d \in Device : joiner[d] = Fresh(0)
  BY DEF Init
<1>3. Types /\ UseBacked /\ FailuresAreOwn
  BY <1>1, <1>2 DEF Init, Types, UseBacked, FailuresAreOwn
<1>4. AnswersBacked
  BY DEF Init, AnswersBacked, NoApproval, NoResponse
<1>. QED
  BY <1>3, <1>4 DEF Inv

\* A step of one joiner that leaves answers alone: what is to be shown of it.
LEMMA OneJoiner ==
  ASSUME Inv, NEW d \in Device, NEW next \in Joiner,
         joiner' = [joiner EXCEPT ![d] = next],
         UNCHANGED <<approval, consented, response, denied>>,
         next.action = "Decrypt" \/ next.at = "provisioned" => d \in consented,
         next.sm.reason \in Bad =>
           next.sm.reason = "Denied" /\ <<d, next.retry>> \in denied
  PROVE  Inv'
<1>1. Types'
  BY DEF Inv, Types
<1>2. AnswersBacked'
  BY DEF Inv, AnswersBacked
<1>3. \A e \in Device : joiner'[e] = IF e = d THEN next ELSE joiner[e]
  BY DEF Inv, Types
<1>4. UseBacked'
  BY <1>3 DEF Inv, UseBacked
<1>5. FailuresAreOwn'
  BY <1>3 DEF Inv, FailuresAreOwn, Attempted, Bad
<1>. QED
  BY <1>1, <1>2, <1>4, <1>5 DEF Inv

LEMMA FeedKeepsInv ==
  ASSUME Inv, NEW d \in Device, joiner[d].at = "onboarding",
         NEW event, event \notin {"NonceMismatch", "DecryptFailed"}, Feed(d, event),
         UNCHANGED <<approval, consented, response, denied>>,
         event = "ResponseApproved" => d \in consented,
         event = "ResponseDenied" => Attempted(d) \in denied
  PROVE  Inv'
<1>. DEFINE o == Handle(joiner[d].sm, event)
            next == [joiner[d] EXCEPT !.sm = o.sm, !.action = o.action]
<1>1. joiner[d] \in Joiner
  BY DEF Inv, Types
<1>2. joiner[d].sm \in Machine
  BY <1>1 DEF Joiner
<1>3. /\ o.sm \in Machine /\ o.action \in Actions
      /\ o.action = "Decrypt" => event = "ResponseApproved"
      /\ o.sm.reason \in Bad =>
           \/ o.sm.reason = joiner[d].sm.reason
           \/ event = "ResponseDenied" /\ o.sm.reason = "Denied"
  BY <1>2, HandleOutcome
<1>4. joiner' = [joiner EXCEPT ![d] = next]
  BY <1>1 DEF Feed, Inv, Types
<1>. HIDE DEF o
<1>5. /\ next \in Joiner /\ next.sm = o.sm /\ next.action = o.action
      /\ next.retry = joiner[d].retry /\ next.at = "onboarding"
  BY <1>1, <1>3 DEF Joiner
<1>. HIDE DEF next
<1>6. next.action = "Decrypt" \/ next.at = "provisioned" => d \in consented
  BY <1>3, <1>5
<1>7. next.sm.reason \in Bad => next.sm.reason = "Denied" /\ <<d, next.retry>> \in denied
  <2>1. joiner[d].sm.reason \in Bad =>
          joiner[d].sm.reason = "Denied" /\ Attempted(d) \in denied
    BY DEF Inv, FailuresAreOwn, Bad
  <2>. QED
    BY <1>3, <1>5, <2>1 DEF Attempted
<1>. QED
  BY <1>4, <1>5, <1>6, <1>7, OneJoiner

LEMMA WaitPollKeepsInv ==
  ASSUME Inv, NEW d \in Device, WaitPoll(d)
  PROVE  Inv'
<1>1. /\ joiner[d].at = "onboarding"
      /\ UNCHANGED <<approval, consented, response, denied>>
  BY DEF WaitPoll, Performs, gatewayVars, ownerVars
<1>2. PICK event \in {EventOf(d), "NoResponse"} : Feed(d, event)
  BY DEF WaitPoll
<1>3. /\ EventOf(d) \in {"NoResponse", "ResponseApproved", "ResponseDenied"}
      /\ EventOf(d) = "ResponseApproved" => response.to = Attempted(d) /\ response.approved
      /\ EventOf(d) = "ResponseDenied" => response.to = Attempted(d) /\ ~response.approved
  BY DEF EventOf
<1>4. Attempted(d) # <<>> /\ Attempted(d)[1] = d
  BY DEF Attempted
<1>5. event = "ResponseApproved" => d \in consented
  BY <1>2, <1>3, <1>4 DEF Inv, AnswersBacked
<1>6. event = "ResponseDenied" => Attempted(d) \in denied
  BY <1>2, <1>3, <1>4 DEF Inv, AnswersBacked
<1>7. event \notin {"NonceMismatch", "DecryptFailed"}
  BY <1>2, <1>3
<1>. QED
  BY <1>1, <1>2, <1>5, <1>6, <1>7, FeedKeepsInv

LEMMA ReachingKeepsInv ==
  ASSUME Inv, NEW d \in Device, StartScan(d) \/ Connect(d) \/ SendRequest(d)
  PROVE  Inv'
<1>1. /\ joiner[d].at = "onboarding"
      /\ UNCHANGED <<approval, consented, response, denied>>
  BY DEF StartScan, Connect, SendRequest, Performs, gatewayVars, ownerVars
<1>2. PICK event \in {"ApFound", "ApNotFound", "Connected", "ConnectFailed", "RequestSent"} :
        Feed(d, event)
  BY DEF StartScan, Connect, SendRequest
<1>. QED
  BY <1>1, <1>2, FeedKeepsInv

LEMMA DecryptKeepsInv ==
  ASSUME Inv, NEW d \in Device, Decrypt(d)
  PROVE  Inv'
<1>. DEFINE next == [joiner[d] EXCEPT !.at = "provisioned"]
<1>1. joiner[d] \in Joiner /\ joiner[d].action = "Decrypt"
  BY DEF Decrypt, Performs, Inv, Types
<1>2. /\ joiner' = [joiner EXCEPT ![d] = next]
      /\ UNCHANGED <<approval, consented, response, denied>>
  BY DEF Decrypt, gatewayVars, ownerVars
<1>3. next \in Joiner /\ next.sm = joiner[d].sm /\ next.retry = joiner[d].retry
  BY <1>1 DEF Joiner
<1>. HIDE DEF next
<1>4. d \in consented
  BY <1>1 DEF Inv, UseBacked
<1>5. next.sm.reason \in Bad => next.sm.reason = "Denied" /\ <<d, next.retry>> \in denied
  BY <1>3 DEF Inv, FailuresAreOwn, Attempted, Bad
<1>. QED
  BY <1>2, <1>3, <1>4, <1>5, OneJoiner

\* A device that tries again has a fresh machine and no reason to have failed.
LEMMA ConcludeKeepsInv ==
  ASSUME Inv, NEW d \in Device, Conclude(d)
  PROVE  Inv'
<1>. DEFINE gone == [joiner[d] EXCEPT !.at = "portal"]
            next == joiner'[d]
<1>1. joiner[d] \in Joiner /\ joiner[d].action = "Idle"
  BY DEF Conclude, Performs, Inv, Types
<1>2. UNCHANGED <<approval, consented, response, denied>>
  BY DEF Conclude, gatewayVars, ownerVars
<1>3. /\ gone \in Joiner /\ gone.sm = joiner[d].sm /\ gone.retry = joiner[d].retry
      /\ gone.action = "Idle" /\ gone.at = "portal"
  BY <1>1 DEF Joiner
<1>4. joiner[d].retry + 1 \in Nat
  BY <1>1 DEF Joiner
<1>5. next \in {gone, Fresh(joiner[d].retry + 1)}
  BY DEF Conclude, Retry, Inv, Types
<1>6. joiner' = [joiner EXCEPT ![d] = next]
  BY DEF Conclude, Inv, Types
<1>7. joiner[d].sm.reason \in Bad =>
        joiner[d].sm.reason = "Denied" /\ <<d, joiner[d].retry>> \in denied
  BY DEF Inv, FailuresAreOwn, Attempted, Bad
<1>. HIDE DEF gone, next
<1>8. CASE next = gone
  BY <1>2, <1>3, <1>6, <1>7, <1>8, OneJoiner
<1>9. CASE next = Fresh(joiner[d].retry + 1)
  <2>1. /\ next \in Joiner /\ next.sm.reason = "none"
        /\ next.action = "StartScan" /\ next.at = "onboarding"
    BY <1>4, <1>9, FreshJoiner
  <2>. QED
    BY <1>2, <1>6, <2>1, OneJoiner DEF Bad
<1>. QED
  BY <1>5, <1>8, <1>9
-----------------------------------------------------------------------------
(* The owner's and the gateway's.                                          *)

LEMMA DecideKeepsInv ==
  ASSUME Inv, Decide
  PROVE  Inv'
<1>1. PICK i \in DOMAIN board, approve \in BOOLEAN :
        /\ approval' = [mac |-> board[i].mac, approve |-> approve]
        /\ consented' = IF approve THEN consented \cup {board[i].mac} ELSE consented
  BY DEF Decide
<1>2. UNCHANGED <<joiner, response, denied>> /\ consented \subseteq consented'
  BY <1>1 DEF Decide, joinerVars, gatewayVars
<1>3. AnswersBacked'
  BY <1>1, <1>2 DEF Inv, AnswersBacked
<1>. QED
  BY <1>2, <1>3 DEF Inv, Types, UseBacked, FailuresAreOwn, Attempted

\* Steps of the gateway: its answers are backed, its denials only grow.
LEMMA AnsweredKeepsInv ==
  ASSUME Inv, UNCHANGED <<joiner, approval, consented>>, denied \subseteq denied',
         \/ response' = response
         \/ response'.approved /\ response'.to[1] \in consented
         \/ ~response'.approved /\ response'.to \in denied'
  PROVE  Inv'
<1>1. AnswersBacked'
  BY DEF Inv, AnswersBacked
<1>. QED
  BY <1>1 DEF Inv, Types, UseBacked, FailuresAreOwn, Attempted

LEMMA GatewayApproveKeepsInv ==
  ASSUME Inv, GatewayApprove
  PROVE  Inv'
<1>1. UNCHANGED <<joiner, approval, consented>>
  BY DEF GatewayApprove, joinerVars, ownerVars
<1>2. CASE UNCHANGED <<pending, response, denied>>
  BY <1>1, <1>2, AnsweredKeepsInv
<1>3. CASE \E i \in ApprovalOf :
             /\ response' = Answer(pending[i])
             /\ denied' = IF response'.approved THEN denied ELSE denied \cup {response'.to}
  <2>1. PICK i \in ApprovalOf :
          /\ response' = Answer(pending[i])
          /\ denied' = IF response'.approved THEN denied ELSE denied \cup {response'.to}
    BY <1>3
  <2>2. pending[i].mac = approval.mac
    BY DEF ApprovalOf
  <2>3. response'.to[1] = approval.mac /\ response'.approved = approval.approve
    BY <2>1, <2>2 DEF Answer, Addressee
  <2>4. response'.approved => response'.to[1] \in consented
    BY <2>3 DEF Inv, AnswersBacked
  <2>5. denied \subseteq denied' /\ (~response'.approved => response'.to \in denied')
    BY <2>1
  <2>. QED
    BY <1>1, <2>4, <2>5, AnsweredKeepsInv
<1>. QED
  BY <1>2, <1>3 DEF GatewayApprove

LEMMA GatewayExpireKeepsInv ==
  ASSUME Inv, GatewayExpire
  PROVE  Inv'
<1>1. /\ UNCHANGED <<joiner, approval, consented>>
      /\ denied' = denied \cup {Addressee(pending[i]) : i \in Overdue}
  BY DEF GatewayExpire, joinerVars, ownerVars
<1>2. \/ response' = response
      \/ ~response'.approved /\ response'.to \in denied'
  <2>1. CASE response' = response
    BY <2>1
  <2>2. CASE \E i \in Overdue : response' = [to |-> Addressee(pending[i]), approved |-> FALSE]
    BY <1>1, <2>2
  <2>. QED
    BY <2>1, <2>2 DEF GatewayExpire
<1>. QED
  BY <1>1, <1>2, AnsweredKeepsInv

LEMMA InvStep == Inv /\ [Next]_vars => Inv'
<1>. SUFFICES ASSUME Inv, [Next]_vars PROVE Inv'
  OBVIOUS
<1>1. CASE \E d \in Device : Joins(d)
  <2>1. PICK d \in Device : Joins(d)
    BY <1>1
  <2>. QED
    BY <2>1, ReachingKeepsInv, WaitPollKeepsInv, DecryptKeepsInv, ConcludeKeepsInv DEF Joins
<1>2. CASE Decide
  BY <1>2, DecideKeepsInv
<1>3. CASE GatewayApprove
  BY <1>3, GatewayApproveKeepsInv
<1>4. CASE GatewayExpire
  BY <1>4, GatewayExpireKeepsInv
<1>5. CASE GatewayJoin \/ GatewayList \/ Rest \/ UNCHANGED vars
  <2>1. UNCHANGED <<joiner, approval, consented, response, denied>>
    BY <1>5 DEF GatewayJoin, GatewayList, Rest, vars, joinerVars, ownerVars, gatewayVars
  <2>. QED
    BY <2>1, AnsweredKeepsInv
<1>. QED
  BY <1>1, <1>2, <1>3, <1>4, <1>5 DEF Next, Gateway

\* Every answer and every use of one goes back to a decision of owner or gateway,
\* for any devices and limits (gateway.rs, joiner.rs).
THEOREM Invariance == Spec => []Inv
<1>. QED
  BY InvInit, InvStep, PTL DEF Spec

-----------------------------------------------------------------------------
\* However requests are queued again, replaced and answered late, a device is
\* provisioned only if the owner has approved it (gateway.rs, process_approval;
\* joiner.rs, poll_join_response).
THEOREM NoneGetsInUnapproved == Spec => []OnlyApprovedGetIn
<1>1. Inv => OnlyApprovedGetIn
  BY DEF Inv, UseBacked, OnlyApprovedGetIn
<1>. QED
  BY <1>1, Invariance, PTL

\* JoinResponse is shared by all joiners: an answer to another device, or to an
\* earlier attempt of the same one, never makes a joiner fail (FR-114).
THEOREM NoneFailsForAnother == Spec => []FailuresAreOwn
<1>1. Inv => FailuresAreOwn
  BY DEF Inv
<1>. QED
  BY <1>1, Invariance, PTL

-----------------------------------------------------------------------------
(* Pins that catch edges.                                                  *)

IsSeq(s) == \E S : s \in Seq(S)

\* Which pin is served, and that an interrupt which is enabled has set no flag.
EdgesInv ==
  /\ fired \in [Edges -> BOOLEAN] /\ armed \in [Edges -> BOOLEAN]
  /\ captured \in [Edges -> Nat] /\ recorded \in [Edges -> Nat]
  /\ IsSeq(events) /\ queue \subseteq EdgePins
  /\ \A i \in DOMAIN events : events[i] \in Edges
  /\ at # "drain" => serving = <<>>
  /\ serving # <<>> => /\ serving = <<"enable">> /\ queue # {}
                       /\ ~fired[Looked] /\ ~armed[Looked]
  /\ \A e \in Edges : armed[e] => ~fired[e]
  /\ EdgesAreKept

\* A non-empty set of naturals has a least element, which Min returns.
LEMMA MinOfNaturals ==
  ASSUME NEW S \in SUBSET Nat, S # {}
  PROVE  /\ Min(S) \in S
         /\ \A x \in S : Min(S) <= x
<1>. DEFINE below(x) == 1 .. x
            T == {below(x) : x \in S}
<1>1. T \subseteq FiniteSubsetsOf(Nat)
  BY FS_Interval DEF FiniteSubsetsOf
<1>2. PICK t \in T : \A u \in T : ~(<<u, t>> \in StrictSubsetOrdering(Nat))
  <2>1. IsWellFoundedOn(StrictSubsetOrdering(Nat), FiniteSubsetsOf(Nat))
    BY FS_StrictSubsetOrderingWellFounded
  <2>2. T # {}
    OBVIOUS
  <2>. HIDE DEF T
  <2>. QED
    BY <1>1, <2>1, <2>2, WFMin, Zenon
<1>3. PICK m \in S : t = below(m)
  OBVIOUS
<1>4. \A x \in S : m <= x
  <2>. SUFFICES ASSUME NEW x \in S, x < m
                PROVE  FALSE
    OBVIOUS
  <2>1. below(x) \subseteq below(m) /\ m \in below(m) /\ m \notin below(x)
    OBVIOUS
  <2>2. <<below(x), below(m)>> \in StrictSubsetOrdering(Nat)
    BY <2>1 DEF StrictSubsetOrdering
  <2>. QED
    BY <1>2, <1>3, <2>2
<1>. QED
  BY <1>4 DEF Min

\* The first of the places that remain.
LEMMA LookedIsEdge ==
  ASSUME queue \subseteq EdgePins, queue # {}
  PROVE  Min(queue) \in queue /\ Looked \in Edges
<1>1. queue \subseteq Nat
  <2>1. DOMAIN Board = 1 .. Len(Board) /\ Len(Board) \in Nat
    BY PeripheralsAssumption
  <2>. QED
    BY <2>1 DEF EdgePins
<1>2. Min(queue) \in queue
  BY <1>1, MinOfNaturals
<1>. QED
  BY <1>2 DEF Looked, Edges

\* Where e is in a sequence.
Occurs(s, e) == {i \in DOMAIN s : s[i] = e}

\* g is s with e behind it.
Longer(g, s, e) == IsSeq(s) /\ g = Append(s, e)

\* The parts of a sequence with an element more.
LEMMA LongerParts ==
  ASSUME NEW s, NEW e, NEW g, Longer(g, s, e)
  PROVE  /\ IsSeq(g) /\ Len(s) \in Nat /\ DOMAIN s = 1 .. Len(s) /\ DOMAIN g = 1 .. Len(s) + 1
         /\ g[Len(s) + 1] = e /\ \A i \in 1 .. Len(s) : g[i] = s[i]
<1>1. g = Append(s, e) /\ \E S : s \in Seq(S)
  BY DEF Longer, IsSeq
<1>. PICK S : s \in Seq(S)
  BY <1>1
<1>2. PICK T : T = S \cup {e}
  OBVIOUS
<1>3. s \in Seq(T) /\ e \in T
  BY <1>2
<1>4. PICK n : n = Len(s)
  OBVIOUS
<1>5. /\ g \in Seq(T) /\ n \in Nat /\ Len(g) = n + 1
      /\ g[n + 1] = e /\ \A i \in 1 .. n : g[i] = s[i]
  BY <1>1, <1>3, <1>4
<1>6. DOMAIN s = 1 .. n /\ DOMAIN g = 1 .. n + 1
  BY <1>3, <1>4, <1>5
<1>. QED
  BY <1>4, <1>5, <1>6 DEF IsSeq

\* One more event found.
LEMMA FoundMore ==
  ASSUME NEW s, NEW e, NEW g, Longer(g, s, e), NEW f
  PROVE  /\ IsSeq(g)
         /\ Cardinality(Occurs(s, f)) \in Nat
         /\ Cardinality(Occurs(g, f))
              = Cardinality(Occurs(s, f)) + (IF f = e THEN 1 ELSE 0)
<1>1. PICK n : n = Len(s)
  OBVIOUS
<1>2. /\ n \in Nat /\ IsSeq(g) /\ g[n + 1] = e /\ \A i \in 1 .. n : g[i] = s[i]
      /\ DOMAIN s = 1 .. n /\ DOMAIN g = 1 .. n + 1
  BY <1>1, LongerParts
<1>3. PICK A, B : A = {i \in 1 .. n : s[i] = f} /\ B = {i \in 1 .. n + 1 : g[i] = f}
  OBVIOUS
<1>4. IsFiniteSet(A) /\ Cardinality(A) \in Nat /\ n + 1 \notin A
  <2>1. A \in SUBSET (1 .. n) /\ 1 \in Int /\ n \in Int /\ n + 1 \notin 1 .. n
    BY <1>2, <1>3
  <2>2. IsFiniteSet(1 .. n)
    BY <2>1, FS_Interval
  <2>3. IsFiniteSet(A)
    BY <2>1, <2>2, FS_Subset
  <2>. QED
    BY <2>1, <2>3, FS_CardinalityType
<1>5. B = IF f = e THEN A \cup {n + 1} ELSE A
  <2>1. 1 .. n + 1 = (1 .. n) \cup {n + 1}
    BY <1>2
  <2>. QED
    BY <1>2, <1>3, <2>1
<1>6. Cardinality(A \cup {n + 1}) = Cardinality(A) + 1
  BY <1>4, FS_AddElement
<1>7. Cardinality(B) = Cardinality(A) + (IF f = e THEN 1 ELSE 0)
  BY <1>4, <1>5, <1>6
<1>. QED
  BY <1>2, <1>3, <1>4, <1>7 DEF Occurs

LEMMA FoundFinite ==
  ASSUME IsSeq(events)
  PROVE  \A e : Found(e) = Occurs(events, e) /\ Cardinality(Found(e)) \in Nat
<1>1. PICK g : Longer(g, events, "none")
  BY DEF Longer
<1>2. \A e : Cardinality(Occurs(events, e)) \in Nat
  BY <1>1, FoundMore
<1>3. \A e : Found(e) = Occurs(events, e)
  BY DEF Found, Occurs
<1>. QED
  BY <1>2, <1>3

\* A step that leaves edges alone and is no part of drain_edge_events.
LEMMA EdgesLeftAlone ==
  ASSUME EdgesInv, UNCHANGED edgeVars, at' = at \/ (at # "drain" /\ at' # "drain")
  PROVE  EdgesInv'
BY DEF EdgesInv, edgeVars, EdgesAreKept, Found, Looked

\* An interrupt sets a flag that was clear.
LEMMA EdgeKeepsEdges ==
  ASSUME EdgesInv, NEW e \in Edges, Edge(e)
  PROVE  EdgesInv'
<1>1. /\ armed[e] /\ ~fired[e] /\ fired' = [fired EXCEPT ![e] = TRUE]
      /\ armed' = [armed EXCEPT ![e] = FALSE]
      /\ captured' = [captured EXCEPT ![e] = @ + 1]
      /\ UNCHANGED <<at, deaf, queue, serving, events, recorded>>
  BY DEF Edge, EdgesInv
<1>2. /\ fired' \in [Edges -> BOOLEAN] /\ armed' \in [Edges -> BOOLEAN]
      /\ captured' \in [Edges -> Nat] /\ recorded' \in [Edges -> Nat]
  BY <1>1 DEF EdgesInv
<1>3. serving # <<>> => Looked # e /\ Looked' = Looked
  BY <1>1 DEF EdgesInv, Looked
<1>4. \A f \in Edges : Found(f)' = Found(f) /\ Cardinality(Found(f)) \in Nat
  <2>1. \A f \in Edges : Found(f)' = Found(f)
    BY <1>1 DEF Found
  <2>. QED
    BY <2>1, FoundFinite DEF EdgesInv
<1>5. EdgesAreKept'
  <2>. SUFFICES ASSUME NEW f \in Edges
       PROVE  /\ captured'[f] = recorded'[f] + Cardinality(Found(f)') + (IF fired'[f] THEN 1 ELSE 0)
              /\ armed'[f] \/ fired'[f] \/ f \in deaf' \/ (serving' # <<>> /\ Looked' = f)
    BY DEF EdgesAreKept
  <2>1. /\ captured[f] = recorded[f] + Cardinality(Found(f)) + (IF fired[f] THEN 1 ELSE 0)
        /\ armed[f] \/ fired[f] \/ f \in deaf \/ (serving # <<>> /\ Looked = f)
    BY DEF EdgesInv, EdgesAreKept
  <2>2. Cardinality(Found(f)) \in Nat /\ recorded[f] \in Nat /\ captured[f] \in Nat
    BY <1>4 DEF EdgesInv
  <2>. QED
    BY <1>1, <1>3, <1>4, <2>1, <2>2 DEF EdgesInv
<1>6. \A f \in Edges : armed'[f] => ~fired'[f]
  BY <1>1 DEF EdgesInv
<1>7. serving' # <<>> => ~fired'[Looked'] /\ ~armed'[Looked']
  BY <1>1, <1>3, LookedIsEdge DEF EdgesInv
<1>. QED
  BY <1>1, <1>2, <1>5, <1>6, <1>7 DEF EdgesInv

\* A pin that has fired: its flag becomes an event, and it is to be enabled again.
LEMMA DrainPinKeepsEdges ==
  ASSUME EdgesInv, DrainPin
  PROVE  EdgesInv'
<1>1. /\ at = "drain" /\ at' = at /\ queue # {} /\ serving = <<>>
      /\ captured' = captured /\ recorded' = recorded
  BY DEF DrainPin
<1>2. Looked \in Edges /\ Min(queue) \in queue
  BY <1>1, LookedIsEdge DEF EdgesInv
<1>3. CASE fired[Looked]
  <2>1. Head(Service) = "swap" /\ Tail(Service) = <<"enable">> /\ <<"enable">> # <<>>
    BY DEF Service
  <2>2. /\ fired' = [fired EXCEPT ![Looked] = FALSE] /\ UNCHANGED <<armed, deaf, queue>>
        /\ serving' = <<"enable">> /\ events' = Append(events, Looked)
    BY <1>3, <2>1 DEF DrainPin, Serve
  <2>3. Looked' = Looked
    BY <2>2 DEF Looked
  <2>4. ~armed[Looked]
    BY <1>2, <1>3 DEF EdgesInv
  <2>5. /\ IsSeq(events')
        /\ \A f \in Edges : /\ Cardinality(Found(f)) \in Nat
                            /\ Cardinality(Found(f)') = Cardinality(Found(f)) + (IF f = Looked THEN 1 ELSE 0)
    <3>1. PICK s, e, g : s = events /\ e = Looked /\ g = Append(s, e)
      OBVIOUS
    <3>2. Longer(g, s, e) /\ events' = g
      BY <2>2, <3>1 DEF EdgesInv, Longer
    <3>3. ASSUME NEW f
          PROVE  /\ IsSeq(g) /\ Cardinality(Occurs(s, f)) \in Nat
                 /\ Cardinality(Occurs(g, f)) = Cardinality(Occurs(s, f)) + (IF f = e THEN 1 ELSE 0)
      BY <3>2, FoundMore
    <3>4. \A f : Found(f)' = Occurs(g, f) /\ Found(f) = Occurs(s, f)
      BY <3>1, <3>2 DEF Found, Occurs
    <3>. QED
      BY <3>1, <3>2, <3>3, <3>4
  <2>6. fired' \in [Edges -> BOOLEAN]
    BY <2>2 DEF EdgesInv
  <2>7. EdgesAreKept'
    <3>. SUFFICES ASSUME NEW f \in Edges
         PROVE  /\ captured'[f] = recorded'[f] + Cardinality(Found(f)') + (IF fired'[f] THEN 1 ELSE 0)
                /\ armed'[f] \/ fired'[f] \/ f \in deaf' \/ (serving' # <<>> /\ Looked' = f)
      BY DEF EdgesAreKept
    <3>1. /\ captured[f] = recorded[f] + Cardinality(Found(f)) + (IF fired[f] THEN 1 ELSE 0)
          /\ armed[f] \/ fired[f] \/ f \in deaf
      BY <1>1 DEF EdgesInv, EdgesAreKept
    <3>2. Cardinality(Found(f)) \in Nat /\ recorded[f] \in Nat /\ captured[f] \in Nat
      BY <2>5 DEF EdgesInv
    <3>3. CASE f = Looked
      BY <1>1, <1>2, <1>3, <2>1, <2>2, <2>3, <2>5, <3>1, <3>2, <3>3 DEF EdgesInv
    <3>4. CASE f # Looked
      BY <1>1, <1>2, <2>2, <2>5, <3>1, <3>2, <3>4 DEF EdgesInv
    <3>. QED
      BY <3>3, <3>4
  <2>8. \A f \in Edges : armed'[f] => ~fired'[f]
    BY <1>2, <2>2, <2>4 DEF EdgesInv
  <2>9. ~fired'[Looked'] /\ ~armed'[Looked']
    BY <1>2, <2>2, <2>3, <2>4 DEF EdgesInv
  <2>10. \A i \in DOMAIN events' : events'[i] \in Edges
    <3>1. PICK s, e, g : s = events /\ e = Looked /\ g = Append(s, e)
      OBVIOUS
    <3>2. Longer(g, s, e) /\ events' = g
      BY <2>2, <3>1 DEF EdgesInv, Longer
    <3>3. PICK n : n = Len(s)
      OBVIOUS
    <3>4. /\ n \in Nat /\ DOMAIN s = 1 .. n /\ DOMAIN g = 1 .. n + 1
          /\ g[n + 1] = e /\ \A i \in 1 .. n : g[i] = s[i]
      BY <3>2, <3>3, LongerParts
    <3>5. \A i \in 1 .. n + 1 : i \in 1 .. n \/ i = n + 1
      BY <3>4
    <3>6. e \in Edges /\ \A i \in 1 .. n : s[i] \in Edges
      BY <1>2, <3>1, <3>4 DEF EdgesInv
    <3>. QED
      BY <3>2, <3>4, <3>5, <3>6
  <2>. QED
    BY <1>1, <2>1, <2>2, <2>5, <2>6, <2>7, <2>8, <2>9, <2>10 DEF EdgesInv
<1>4. CASE ~fired[Looked]
  <2>1. queue' = queue \ {Min(queue)} /\ UNCHANGED <<serving, events, fired, armed, deaf>>
    BY <1>4 DEF DrainPin
  <2>. QED
    BY <1>1, <2>1 DEF EdgesInv, EdgesAreKept, Found
<1>. QED
  BY <1>3, <1>4

\* Its interrupt is enabled again, or it stays deaf.
LEMMA DrainOnKeepsEdges ==
  ASSUME EdgesInv, DrainOn
  PROVE  EdgesInv'
<1>1. /\ serving = <<"enable">> /\ queue # {} /\ ~fired[Looked] /\ ~armed[Looked]
      /\ at' = at /\ UNCHANGED <<events, captured, recorded>>
  BY DEF DrainOn, EdgesInv
<1>2. Looked \in Edges /\ Min(queue) \in queue
  BY <1>1, LookedIsEdge DEF EdgesInv
<1>3. /\ Head(serving) = "enable" /\ serving' = <<>> /\ Len(serving) = 1
      /\ queue' = queue \ {Min(queue)}
  BY <1>1 DEF DrainOn
<1>4. /\ fired' = fired
      /\ \/ armed' = [armed EXCEPT ![Looked] = TRUE] /\ deaf' = deaf
         \/ deaf' = deaf \cup {Looked} /\ armed' = armed
  BY <1>3 DEF DrainOn, Serve
<1>5. armed' \in [Edges -> BOOLEAN] /\ \A f \in Edges : armed'[f] => ~fired'[f]
  BY <1>1, <1>2, <1>4 DEF EdgesInv
<1>6. EdgesAreKept'
  <2>1. \A f \in Edges : Found(f)' = Found(f)
    BY <1>1 DEF Found
  <2>2. \A f \in Edges : armed'[f] \/ fired'[f] \/ f \in deaf'
    BY <1>1, <1>2, <1>4 DEF EdgesInv, EdgesAreKept
  <2>. QED
    BY <1>1, <1>4, <2>1, <2>2 DEF EdgesInv, EdgesAreKept
<1>. QED
  BY <1>1, <1>3, <1>4, <1>5, <1>6 DEF EdgesInv

\* What was found is written to the items.
LEMMA RecordKeepsEdges ==
  ASSUME EdgesInv, RecordEdges
  PROVE  EdgesInv'
<1>1. /\ at = "drain" /\ at' = "pwm" /\ queue = {} /\ events' = <<>>
      /\ recorded' = [e \in Edges |-> recorded[e] + Cardinality(Found(e))]
      /\ UNCHANGED <<fired, armed, deaf, queue, serving, captured>>
  BY DEF RecordEdges
<1>2. serving = <<>>
  BY <1>1 DEF EdgesInv
<1>3. \A e \in Edges : Cardinality(Found(e)) \in Nat
  BY FoundFinite DEF EdgesInv
<1>4. \A e \in Edges : Cardinality(Found(e)') = 0
  <2>1. \A e \in Edges : Found(e)' = {}
    BY <1>1 DEF Found
  <2>. QED
    BY <2>1, FS_EmptySet
<1>5. recorded' \in [Edges -> Nat]
  BY <1>1, <1>3 DEF EdgesInv
<1>6. EdgesAreKept'
  <2>. SUFFICES ASSUME NEW f \in Edges
       PROVE  /\ captured'[f] = recorded'[f] + Cardinality(Found(f)') + (IF fired'[f] THEN 1 ELSE 0)
              /\ armed'[f] \/ fired'[f] \/ f \in deaf' \/ (serving' # <<>> /\ Looked' = f)
    BY DEF EdgesAreKept
  <2>1. /\ captured[f] = recorded[f] + Cardinality(Found(f)) + (IF fired[f] THEN 1 ELSE 0)
        /\ armed[f] \/ fired[f] \/ f \in deaf
    BY <1>2 DEF EdgesInv, EdgesAreKept
  <2>2. recorded'[f] = recorded[f] + Cardinality(Found(f)) /\ recorded[f] \in Nat
    BY <1>1 DEF EdgesInv
  <2>. QED
    BY <1>1, <1>3, <1>4, <2>1, <2>2
<1>7. IsSeq(events')
  <2>1. <<>> \in Seq({})
    OBVIOUS
  <2>. QED
    BY <1>1, <2>1 DEF IsSeq
<1>. QED
  BY <1>1, <1>2, <1>5, <1>6, <1>7 DEF EdgesInv

LEMMA EdgesInvStep == EdgesInv /\ [PinsNext]_pinVars => EdgesInv'
<1>. SUFFICES ASSUME EdgesInv, [PinsNext]_pinVars PROVE EdgesInv'
  OBVIOUS
<1>1. CASE UNCHANGED pinVars
  BY <1>1, EdgesLeftAlone DEF pinVars
<1>2. CASE PollInputs
  <2>1. /\ serving = <<>> /\ queue' = EdgePins /\ at' = "drain"
        /\ UNCHANGED <<fired, armed, deaf, serving, events, captured, recorded>>
    BY <1>2 DEF PollInputs, EdgesInv
  <2>. QED
    BY <2>1 DEF EdgesInv, EdgesAreKept, Found
<1>3. CASE sync_from_tree \/ sync_digital_outputs \/ PollBus \/ sample_adc
  <2>1. UNCHANGED edgeVars /\ at # "drain" /\ at' # "drain"
    BY <1>3 DEF sync_from_tree, sync_digital_outputs, PollBus, sample_adc
  <2>. QED
    BY <2>1, EdgesLeftAlone
<1>4. ASSUME NEW p, Level(p) \/ Delete(p) PROVE EdgesInv'
  BY <1>4, EdgesLeftAlone DEF Level, Delete, edgeVars
<1>5. ASSUME NEW w, Write(w) PROVE EdgesInv'
  <2>1. UNCHANGED edgeVars /\ at' = at
    BY <1>5 DEF Write, edgeVars
  <2>. QED
    BY <2>1, EdgesLeftAlone
<1>. QED
  BY <1>1, <1>2, <1>3, <1>4, <1>5, EdgeKeepsEdges, DrainPinKeepsEdges, DrainOnKeepsEdges,
     RecordKeepsEdges DEF PinsNext, Loop, Outside

LEMMA EdgesInvInit == PinsInit => EdgesInv
<1>. SUFFICES ASSUME PinsInit PROVE EdgesInv
  OBVIOUS
<1>1. IsSeq(events) /\ events = <<>>
  <2>1. <<>> \in Seq({})
    OBVIOUS
  <2>. QED
    BY <2>1 DEF PinsInit, IsSeq
<1>2. \A e \in Edges : Found(e) = {}
  BY <1>1 DEF Found
<1>3. \A e \in Edges : Cardinality(Found(e)) = 0
  BY <1>2, FS_EmptySet
<1>. QED
  BY <1>1, <1>3 DEF PinsInit, EdgesInv, EdgesAreKept

\* An edge that set its pin's flag is written to its item exactly once, and a pin
\* that hears nothing is about to be served, or its interrupt could not be enabled
\* again (drain_edge_events, the interrupt handler).
THEOREM NoEdgeIsLost == PinsSpec => []EdgesAreKept
<1>1. EdgesInv => EdgesAreKept
  BY DEF EdgesInv
<1>. QED
  BY <1>1, EdgesInvInit, EdgesInvStep, PTL DEF PinsSpec

-----------------------------------------------------------------------------
(* The bus.                                                                *)

Written == MaxWrites - left.writes

\* What is sent was written before, in this order.
InOrder(w) == \A i, j \in DOMAIN w : i < j => w[i].id < w[j].id
UpTo(w, n) == \A i \in DOMAIN w : w[i].id \in Nat /\ w[i].id <= n
Before(w, n) == \A i \in DOMAIN w : w[i].id < n

Count == {"writes", "edges", "faults", "levels"}

\* The newest value has not been sent yet, or is remembered.
NewestOnce(value) ==
  value # Absent =>
    /\ value.id \in 0 .. Written
    /\ Before(wire, value.id) \/ lastTx = <<value.v, value.t>>

WireInv ==
  /\ left.writes \in 0 .. MaxWrites /\ DOMAIN left = Count
  /\ DOMAIN item = Path
  /\ IsSeq(wire) /\ InOrder(wire) /\ UpTo(wire, Written)
  /\ \A b \in Bus : NewestOnce(item[Tx(b)])

\* Something newer than all that was sent is sent.
LEMMA OrderKept ==
  ASSUME NEW s, NEW x, NEW g, Longer(g, s, x), NEW n \in Nat,
         InOrder(s), UpTo(s, n), Before(s, x.id), x.id \in 0 .. n
  PROVE  IsSeq(g) /\ InOrder(g) /\ UpTo(g, n)
<1>1. PICK m : m = Len(s)
  OBVIOUS
<1>2. /\ m \in Nat /\ IsSeq(g) /\ g[m + 1] = x /\ \A i \in 1 .. m : g[i] = s[i]
      /\ DOMAIN s = 1 .. m /\ DOMAIN g = 1 .. m + 1
  BY <1>1, LongerParts
<1>3. \A i \in DOMAIN g : i \in 1 .. m \/ i = m + 1
  BY <1>2
<1>4. UpTo(g, n)
  BY <1>2, <1>3 DEF UpTo
<1>5. InOrder(g)
  BY <1>2, <1>3 DEF InOrder, Before
<1>. QED
  BY <1>2, <1>4, <1>5

LEMMA Spending ==
  ASSUME NEW event \in Count, Spend(event), WireInv
  PROVE  /\ DOMAIN left' = Count /\ left'.writes \in 0 .. MaxWrites
         /\ event # "writes" => left'.writes = left.writes
         /\ event = "writes" => left.writes > 0 /\ left'.writes = left.writes - 1
<1>1. /\ left[event] > 0 /\ left' = [left EXCEPT ![event] = @ - 1] /\ DOMAIN left = Count
      /\ left.writes \in 0 .. MaxWrites
  BY DEF Spend, WireInv
<1>2. DOMAIN left' = Count /\ \A f \in Count : left'[f] = IF f = event THEN left[f] - 1 ELSE left[f]
  BY <1>1
<1>3. "writes" \in Count
  BY DEF Count
<1>4. left'.writes = IF "writes" = event THEN left.writes - 1 ELSE left.writes
  BY <1>2, <1>3
<1>5. MaxWrites \in Nat
  BY PeripheralsAssumption
<1>. QED
  BY <1>1, <1>2, <1>4, <1>5

\* A step that writes to no item of a bus and spends no write.
LEMMA WireLeftAlone ==
  ASSUME WireInv, UNCHANGED busVars, left'.writes = left.writes, DOMAIN left' = Count,
         DOMAIN item' = Path, \A b \in Bus : item'[Tx(b)] = item[Tx(b)]
  PROVE  WireInv'
BY DEF WireInv, busVars, NewestOnce, Written

LEMMA TxItems ==
  \A b \in Bus : /\ Tx(b) \in Path /\ Tx(b) # Rx(b)
                 /\ Tx(b) \notin Inputs /\ Tx(b) \notin Edges /\ Tx(b) \notin AdcIns
BY NamesAssumption DEF Path

\* What a client or a script writes is newer than all that was sent.
LEMMA WriteKeepsWire ==
  ASSUME WireInv, NEW w, Write(w)
  PROVE  WireInv'
<1>1. /\ left.writes > 0 /\ left'.writes = left.writes - 1 /\ DOMAIN left' = Count
      /\ left'.writes \in 0 .. MaxWrites
  BY Spending DEF Write, Count
<1>2. PICK v, t, enc, meant :
        item' = [item EXCEPT ![w.path] = Stored(v, t, enc, Written + 1, meant)]
  BY DEF Write, Written
<1>3. w.path \in Path /\ UNCHANGED busVars
  BY DEF Write
<1>4. MaxWrites \in Nat /\ left.writes \in 0 .. MaxWrites
  BY PeripheralsAssumption DEF WireInv
<1>5. Written \in Nat /\ Written' = Written + 1
  BY <1>1, <1>4 DEF Written
<1>6. PICK x : x = Stored(v, t, enc, Written + 1, meant)
  OBVIOUS
<1>7. x.id = Written + 1
  BY <1>6 DEF Stored
<1>8. UpTo(wire, Written') /\ Before(wire, x.id)
  BY <1>5, <1>7 DEF WireInv, UpTo, Before
<1>9. ASSUME NEW b \in Bus
      PROVE  NewestOnce(item[Tx(b)])'
  <2>1. NewestOnce(item[Tx(b)])
    BY DEF WireInv
  <2>2. CASE w.path = Tx(b)
    <3>1. item'[Tx(b)] = x
      BY <1>2, <1>3, <1>6, <2>2 DEF WireInv
    <3>. QED
      BY <1>3, <1>5, <1>7, <1>8, <3>1 DEF NewestOnce, busVars
  <2>3. CASE w.path # Tx(b)
    <3>1. item'[Tx(b)] = item[Tx(b)]
      BY <1>2, <1>3, <2>3, TxItems DEF WireInv
    <3>. QED
      BY <1>3, <1>5, <2>1, <3>1 DEF NewestOnce, busVars
  <2>. QED
    BY <2>2, <2>3
<1>10. DOMAIN item' = Path
  BY <1>2 DEF WireInv
<1>. QED
  BY <1>1, <1>3, <1>8, <1>9, <1>10 DEF WireInv, busVars

LEMMA DeleteKeepsWire ==
  ASSUME WireInv, NEW p, Delete(p)
  PROVE  WireInv'
<1>1. /\ left.writes > 0 /\ left'.writes = left.writes - 1 /\ DOMAIN left' = Count
      /\ left'.writes \in 0 .. MaxWrites
  BY Spending DEF Delete, Count
<1>2. p \in Path /\ item' = [item EXCEPT ![p] = Absent] /\ UNCHANGED busVars
  BY DEF Delete
<1>3. MaxWrites \in Nat /\ left.writes \in 0 .. MaxWrites
  BY PeripheralsAssumption DEF WireInv
<1>4. Written \in Nat /\ Written' = Written + 1
  BY <1>1, <1>3 DEF Written
<1>5. UpTo(wire, Written')
  BY <1>4 DEF WireInv, UpTo
<1>6. ASSUME NEW b \in Bus
      PROVE  NewestOnce(item[Tx(b)])'
  <2>1. NewestOnce(item[Tx(b)])
    BY DEF WireInv
  <2>2. item'[Tx(b)] = Absent \/ item'[Tx(b)] = item[Tx(b)]
    BY <1>2, TxItems DEF WireInv
  <2>. QED
    BY <1>2, <1>4, <2>1, <2>2 DEF NewestOnce, busVars
<1>7. DOMAIN item' = Path
  BY <1>2 DEF WireInv
<1>. QED
  BY <1>1, <1>2, <1>5, <1>6, <1>7 DEF WireInv, busVars

\* What is sent had not been sent, and what was not sent is remembered all the same.
LEMMA PollBusKeepsWire ==
  ASSUME WireInv, PollBus
  PROVE  WireInv'
<1>1. CASE Bus = {} /\ UNCHANGED <<item, busVars, left>>
  BY <1>1, WireLeftAlone DEF WireInv
<1>2. ASSUME NEW b \in Bus, NEW heard \in BOOLEAN, item' = Receive(b, heard),
             \/ Transmit(b) /\ UNCHANGED left
             \/ TransmitFails(b)
      PROVE  WireInv'
  <2>1. DOMAIN item' = Path /\ \A c \in Bus : item'[Tx(c)] = item[Tx(c)]
    <3>1. item' = item \/ \E x : item' = [item EXCEPT ![Rx(b)] = x]
      BY <1>2 DEF Receive
    <3>2. \A c \in Bus : c = b
      BY DEF Bus
    <3>. QED
      BY <3>1, <3>2, TxItems DEF WireInv
  <2>2. DOMAIN left' = Count /\ left'.writes = left.writes
    <3>1. CASE UNCHANGED left
      BY <3>1 DEF WireInv
    <3>2. CASE TransmitFails(b)
      BY <3>2, Spending DEF TransmitFails, Count
    <3>. QED
      BY <1>2, <3>1, <3>2
  <2>3. CASE UNCHANGED busVars
    BY <2>1, <2>2, <2>3, WireLeftAlone
  <2>4. CASE /\ item[Tx(b)] # Absent /\ lastTx # <<item[Tx(b)].v, item[Tx(b)].t>>
             /\ lastTx' = <<item[Tx(b)].v, item[Tx(b)].t>>
             /\ wire' = wire \/ \E x : Longer(wire', wire, x) /\ x.id = item[Tx(b)].id
    <3>1. item[Tx(b)].id \in 0 .. Written /\ Before(wire, item[Tx(b)].id)
      BY <2>4 DEF WireInv, NewestOnce
    <3>2. Written \in Nat /\ Written' = Written
      BY <2>2, PeripheralsAssumption DEF WireInv, Written
    <3>3. IsSeq(wire') /\ InOrder(wire') /\ UpTo(wire', Written)
      <4>1. CASE wire' = wire
        BY <4>1 DEF WireInv
      <4>2. ASSUME NEW x, Longer(wire', wire, x), x.id = item[Tx(b)].id
            PROVE  IsSeq(wire') /\ InOrder(wire') /\ UpTo(wire', Written)
        <5>1. PICK g, n : g = wire' /\ n = Written
          OBVIOUS
        <5>. QED
          BY <3>1, <3>2, <4>2, <5>1, OrderKept DEF WireInv
      <4>. QED
        BY <2>4, <4>1, <4>2
    <3>4. ASSUME NEW c \in Bus PROVE NewestOnce(item[Tx(c)])'
      <4>1. c = b
        BY DEF Bus
      <4>. QED
        BY <2>1, <2>4, <3>1, <3>2, <4>1 DEF NewestOnce
    <3>. QED
      BY <2>1, <2>2, <3>2, <3>3, <3>4 DEF WireInv
  <2>5. CASE Transmit(b)
    <3>1. PICK value : value = item[Tx(b)]
      OBVIOUS
    <3>2. CASE value = Absent \/ lastTx = <<value.v, value.t>>
      BY <2>3, <2>5, <3>1, <3>2 DEF Transmit
    <3>3. CASE ~(value = Absent \/ lastTx = <<value.v, value.t>>)
      <4>1. lastTx' = <<value.v, value.t>> /\ wire' = wire \o Sent(b, value)
        BY <2>5, <3>1, <3>3 DEF Transmit, Remembered
      <4>2. Sent(b, value) = <<>> \/ \E x : Sent(b, value) = <<x>> /\ x.id = value.id
        <5>1. PICK x : x = [id |-> value.id, bytes |-> TxBytes(value), meant |-> value.meant.s]
          OBVIOUS
        <5>2. x.id = value.id
          BY <5>1
        <5>3. Sent(b, value) = <<>> \/ Sent(b, value) = <<x>>
          BY <5>1 DEF Sent
        <5>. QED
          BY <5>2, <5>3
      <4>3. IsSeq(wire)
        BY DEF WireInv
      <4>4. CASE Sent(b, value) = <<>>
        <5>1. wire' = wire
          BY <4>1, <4>3, <4>4 DEF IsSeq
        <5>. QED
          BY <2>4, <3>1, <3>3, <4>1, <5>1
      <4>5. ASSUME NEW x, Sent(b, value) = <<x>>, x.id = value.id PROVE WireInv'
        <5>1. Longer(wire', wire, x)
          BY <4>1, <4>3, <4>5 DEF IsSeq, Longer
        <5>. QED
          BY <2>4, <3>1, <3>3, <4>1, <4>5, <5>1
      <4>. QED
        BY <4>2, <4>4, <4>5
    <3>. QED
      BY <3>2, <3>3
  <2>6. CASE TransmitFails(b)
    BY <2>4, <2>6 DEF TransmitFails, Remembered
  <2>. QED
    BY <1>2, <2>5, <2>6
<1>. QED
  BY <1>1, <1>2 DEF PollBus

LEMMA WireInvStep == EdgesInv /\ WireInv /\ [PinsNext]_pinVars => WireInv'
<1>. SUFFICES ASSUME EdgesInv, WireInv, [PinsNext]_pinVars PROVE WireInv'
  OBVIOUS
<1>1. CASE UNCHANGED pinVars
  BY <1>1, WireLeftAlone DEF pinVars, WireInv
<1>2. CASE PollInputs
  <2>1. /\ item' = [p \in Path |-> IF Changed(p) THEN Plain(Number(line[p]), 1, 0) ELSE item[p]]
        /\ UNCHANGED <<busVars, left>>
    BY <1>2 DEF PollInputs
  <2>2. \A b \in Bus : item'[Tx(b)] = item[Tx(b)]
    BY <2>1, TxItems DEF Changed
  <2>. QED
    BY <2>1, <2>2, WireLeftAlone DEF WireInv
<1>3. CASE RecordEdges
  <2>1. /\ item' = [p \in Path |-> IF p \in ToSet(events) THEN Plain(EdgeValue(p), 1, 0) ELSE item[p]]
        /\ UNCHANGED <<busVars, left>>
    BY <1>3 DEF RecordEdges
  <2>2. ToSet(events) \subseteq Edges
    BY DEF EdgesInv, ToSet
  <2>3. \A b \in Bus : item'[Tx(b)] = item[Tx(b)]
    BY <2>1, <2>2, TxItems
  <2>. QED
    BY <2>1, <2>3, WireLeftAlone DEF WireInv
<1>4. CASE sample_adc
  <2>1. UNCHANGED <<busVars, left>>
    BY <1>4 DEF sample_adc
  <2>2. PICK read \in SUBSET AdcIns :
          item' = [p \in Path |-> IF p \in read THEN Plain(Number(ADC_MAX_RAW), 1, 0) ELSE item[p]]
    BY <1>4 DEF sample_adc
  <2>3. \A b \in Bus : item'[Tx(b)] = item[Tx(b)]
    BY <2>2, TxItems
  <2>. QED
    BY <2>1, <2>2, <2>3, WireLeftAlone DEF WireInv
<1>5. ASSUME UNCHANGED <<item, busVars>>,
             \/ left' = left \/ Spend("faults")
             \/ Spend("edges") \/ Spend("levels")
      PROVE  WireInv'
  <2>1. left'.writes = left.writes /\ DOMAIN left' = Count
    BY <1>5, Spending DEF Count, WireInv
  <2>. QED
    BY <1>5, <2>1, WireLeftAlone DEF WireInv
<1>6. CASE DrainPin \/ DrainOn
  BY <1>5, <1>6 DEF DrainPin, DrainOn, Serve
<1>7. CASE sync_from_tree \/ sync_digital_outputs
  BY <1>5, <1>7 DEF sync_from_tree, sync_digital_outputs, Sync
<1>8. ASSUME NEW e, Edge(e) \/ Level(e) PROVE WireInv'
  BY <1>5, <1>8 DEF Edge, Level
<1>. QED
  BY <1>1, <1>2, <1>3, <1>4, <1>6, <1>7, <1>8, WriteKeepsWire, DeleteKeepsWire, PollBusKeepsWire
     DEF PinsNext, Loop, Outside

\* A value is sent at most once for each time it was written, and in the order of
\* the writes, however often the loop sees it, and whatever else is written, deleted,
\* or refused by the bus in between (sync_tx).
THEOREM NoValueIsSentTwice == PinsSpec => []SentOnce
<1>1. PinsInit => EdgesInv /\ WireInv
  <2>. SUFFICES ASSUME PinsInit PROVE WireInv
    BY EdgesInvInit
  <2>1. wire = <<>> /\ DOMAIN item = Path
    BY DEF PinsInit
  <2>2. DOMAIN left = Count /\ left.writes = MaxWrites /\ MaxWrites \in Nat
    BY PeripheralsAssumption DEF PinsInit, Count
  <2>3. IsSeq(wire) /\ DOMAIN wire = {}
    <3>1. <<>> \in Seq({})
      OBVIOUS
    <3>. QED
      BY <2>1, <3>1 DEF IsSeq
  <2>4. InOrder(wire) /\ UpTo(wire, Written) /\ \A n : Before(wire, n)
    BY <2>3 DEF InOrder, UpTo, Before
  <2>5. \A b \in Bus : item[Tx(b)].id = 0
    <3>1. \A v, t : Plain(v, t, 0).id = 0
      BY DEF Plain, Stored
    <3>2. \A p : Registered(p).id = 0
      BY <3>1 DEF Registered
    <3>3. PICK saved \in SUBSET Restored :
            item = [p \in Path |-> IF \E s \in saved : s.path = p
                                   THEN Plain((CHOOSE s \in saved : s.path = p).v, 1, 0) ELSE Registered(p)]
      BY DEF PinsInit
    <3>4. \A p \in Path : item[p].id = 0
      BY <3>1, <3>2, <3>3
    <3>. QED
      BY <3>4, TxItems
  <2>. QED
    BY <2>1, <2>2, <2>3, <2>4, <2>5 DEF WireInv, NewestOnce, Written
<1>2. WireInv => SentOnce
  BY DEF WireInv, InOrder, SentOnce
<1>. QED
  BY <1>1, <1>2, EdgesInvStep, WireInvStep, PTL DEF PinsSpec
=============================================================================
