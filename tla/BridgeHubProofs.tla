-------------------------- MODULE BridgeHubProofs --------------------------
(***************************************************************************)
(* Proofs about the replies of BridgeHub and the health of the bridges,    *)
(* for every number of workers, replies, retries and attempts.             *)
(***************************************************************************)
EXTENDS BridgeHub, TLAPS, FiniteSetTheorems

\* Where a worker has a reply in its hands.
Outgoing == {"claimed", "sending", "sent", "failed"}

\* What the proofs need of the types.
Shape ==
    /\ life \in [Replies -> Queue!Life]
    /\ message \in [Replies -> Messages \cup {None}]
    /\ failures \in [Bridges -> 0..U32Max]
    /\ streak \in [Names -> Nat]
    /\ delivered \in [Replies -> Nat]
    /\ unanswered \in [Replies -> Nat]
    /\ pc \in [Workers -> {"idle", "inbound"} \cup Outgoing]
    /\ job \in [Workers -> Replies \cup InboundId \cup {None}]
    /\ \A w \in Workers : pc[w] \in Outgoing => job[w] \in Replies

\* A reply in the queue has a message; one in a worker's hands is running, and
\* in no other worker's.
Carried ==
    /\ \A r \in Replies : life[r].stage # "absent" => message[r] # None
    /\ \A w \in Workers : pc[w] \in Outgoing => life[job[w]].stage = "running"
    /\ \A v, w \in Workers :
          pc[v] \in Outgoing /\ pc[w] \in Outgoing /\ job[v] = job[w] => v = w

\* The hub's counters are the failures in a row, up to their width; WhatsApp's
\* may be higher, for the bridges that do not exist.
Cap(n) == IF n > U32Max THEN U32Max ELSE n

Counted ==
    /\ failures["telegram"] = Cap(streak["telegram"])
    /\ failures["whatsapp"] >= Cap(streak["whatsapp"])

\* Every delivery but the last was taken for a failure.
Arrived(r) == Completed(r) \/ \E w \in Workers : pc[w] = "sent" /\ job[w] = r

Deliveries ==
    \A r \in Replies :
        delivered[r] = IF Arrived(r) THEN unanswered[r] + 1 ELSE unanswered[r]

IInv == Shape /\ Carried /\ Counted /\ Deliveries

-----------------------------------------------------------------------------
LEMMA InvInit == Init => IInv
<1> SUFFICES ASSUME Init PROVE IInv
  OBVIOUS
<1>1. /\ life = [r \in Replies |-> Queue!Absent]
      /\ Queue!Absent = [stage |-> "absent", attempts |-> 0, max |-> 0]
  BY DEF Init, Queue!Init, Queue!Absent
<1>2. Shape
  BY <1>1, BridgeAssumption DEF Init, Shape, Queue!Life, Outgoing
<1>3. Carried
  BY <1>1 DEF Init, Carried, Outgoing
<1>4. Counted
  BY BridgeAssumption DEF Init, Counted, Cap, Bridges, Names
<1>5. Deliveries
  BY DEF Init, Deliveries, Arrived, Completed
<1> QED
  BY <1>2, <1>3, <1>4, <1>5 DEF IInv

\* A step that sends nothing and changes no reply leaves the invariant alone.
LEMMA Bystander ==
    ASSUME IInv, Shape', UNCHANGED <<failures, replies, outbound>>,
           \A w \in Workers :
               /\ pc'[w] = "sent" <=> pc[w] = "sent"
               /\ pc'[w] \in Outgoing <=> pc[w] \in Outgoing
               /\ pc[w] \in Outgoing => job'[w] = job[w]
    PROVE  IInv'
<1>1. Carried'
  BY DEF IInv, Carried, replies
<1>2. Counted'
  BY DEF IInv, Counted, Cap, outbound
<1>3. \A r \in Replies : Arrived(r)' <=> Arrived(r)
  BY DEF Arrived, Completed, replies, Outgoing
<1>4. Deliveries'
  BY <1>3 DEF IInv, Deliveries, outbound
<1> QED
  BY <1>1, <1>2, <1>4 DEF IInv

\* Whatever concerns inbound events only.
LEMMA InboundInv ==
    ASSUME IInv, NEW w \in Workers,
           UNCHANGED <<failures, replies, outbound>>,
           \/ UNCHANGED workers
           \/ \E id \in InboundId : ClaimEvent(w, id)
           \/ CompleteEvent(w) \/ RetryEvent(w)
    PROVE  IInv'
<1>1. CASE UNCHANGED workers
  <2>1. Shape'
    BY <1>1 DEF IInv, Shape, replies, outbound, workers
  <2> QED
    BY <1>1, <2>1, Bystander DEF workers
<1>2. CASE \E id \in InboundId : ClaimEvent(w, id)
  <2>1. PICK id \in InboundId :
          /\ pc[w] = "idle"
          /\ pc' = [pc EXCEPT ![w] = "inbound"]
          /\ job' = [job EXCEPT ![w] = id]
    BY <1>2 DEF ClaimEvent
  <2>2. Shape'
    BY <2>1 DEF IInv, Shape, replies, outbound, Outgoing
  <2> QED
    BY <2>1, <2>2, Bystander DEF IInv, Shape, Outgoing
<1>3. CASE CompleteEvent(w) \/ RetryEvent(w)
  <2>1. /\ pc[w] = "inbound"
        /\ pc' = [pc EXCEPT ![w] = "idle"]
        /\ job' = [job EXCEPT ![w] = None]
    BY <1>3 DEF CompleteEvent, RetryEvent, LetGo
  <2>2. Shape'
    BY <2>1 DEF IInv, Shape, replies, outbound, Outgoing
  <2> QED
    BY <2>1, <2>2, Bystander DEF IInv, Shape, Outgoing
<1> QED
  BY <1>1, <1>2, <1>3

LEMMA SubmitInv ==
    ASSUME IInv, NEW r \in Replies, SubmitReply(r)
    PROVE  IInv'
<1>1. PICK m \in Messages : message' = [message EXCEPT ![r] = m]
  BY DEF SubmitReply
<1>2. PICK max \in MaxAttempts \ {0} :
        life' = [id \in Replies |->
                    IF id \in {r}
                    THEN [stage |-> "waiting", attempts |-> 0, max |-> max]
                    ELSE life[id]]
  BY DEF SubmitReply, Queue!Accept
<1>3. /\ message[r] = None /\ life[r].stage = "absent"
      /\ UNCHANGED <<failures, workers, outbound>>
  BY DEF SubmitReply, Queue!Accept, hub
<1>4. m # None /\ max \in Nat
  BY NoneAssumption, BridgeAssumption
<1>5. Shape'
  BY <1>1, <1>2, <1>3, <1>4 DEF IInv, Shape, Queue!Life, workers, outbound
<1>6. Carried'
  BY <1>1, <1>2, <1>3, <1>4 DEF IInv, Shape, Carried, workers
<1>7. Counted'
  BY <1>3 DEF IInv, Counted, Cap, outbound
<1>8. \A q \in Replies : Completed(q)' <=> Completed(q)
  BY <1>1, <1>2, <1>3, <1>4 DEF IInv, Shape, Completed
<1>9. Deliveries'
  BY <1>3, <1>8 DEF IInv, Deliveries, Arrived, workers, outbound
<1> QED
  BY <1>5, <1>6, <1>7, <1>9 DEF IInv

LEMMA ClaimInv ==
    ASSUME IInv, NEW w \in Workers, NEW r \in Replies, ClaimReply(w, r)
    PROVE  IInv'
<1>1. /\ pc[w] = "idle" /\ life[r].stage = "waiting"
      /\ life' = [life EXCEPT ![r].stage = "running"]
      /\ pc' = [pc EXCEPT ![w] = "claimed"]
      /\ job' = [job EXCEPT ![w] = r]
      /\ UNCHANGED <<failures, message, outbound>>
  BY DEF ClaimReply, Queue!Start, hub
<1>2. Shape'
  BY <1>1 DEF IInv, Shape, Queue!Life, outbound, Outgoing
<1>3. Carried'
  BY <1>1 DEF IInv, Shape, Carried, Queue!Life, Outgoing
<1>4. Counted'
  BY <1>1 DEF IInv, Counted, Cap, outbound
<1>5. \A q \in Replies : Completed(q)' <=> Completed(q)
  BY <1>1 DEF IInv, Shape, Completed, Queue!Life
<1>6. \A q \in Replies : Arrived(q)' <=> Arrived(q)
  BY <1>1, <1>5 DEF IInv, Shape, Arrived, Outgoing
<1>7. Deliveries'
  BY <1>1, <1>6 DEF IInv, Deliveries, outbound
<1> QED
  BY <1>2, <1>3, <1>4, <1>7 DEF IInv

-----------------------------------------------------------------------------
\* What every turn of the retry loop has in common.
Turn(w, outcome) ==
    /\ pc[w] \in {"claimed", "sending"}
    /\ outcome = "ok" => message[job[w]].to \in Configured
    /\ \E p \in IF outcome = "ok" THEN {"sent"} ELSE {"failed", "sending"} :
          pc' = [pc EXCEPT ![w] = p]
    /\ RecordSend(w, outcome)
    /\ failures' = [failures EXCEPT ![MetricsOf(message[job[w]].to)] =
                        IF outcome = "ok" THEN 0 ELSE Increment(@)]
    /\ UNCHANGED <<replies, job>>

LEMMA TurnInv ==
    ASSUME IInv, NEW w \in Workers, NEW outcome \in {"ok", "refused", "unanswered"},
           Turn(w, outcome)
    PROVE  IInv'
<1>0. PICK r \in Replies, to \in Names : r = job[w] /\ to = message[r].to
  BY BridgeAssumption DEF Turn, IInv, Shape, Carried, Outgoing
<1>1. life[r].stage = "running"
  BY <1>0 DEF Turn, IInv, Carried, Outgoing
<1>2. /\ delivered' = [delivered EXCEPT ![r] = IF outcome = "refused" THEN @ ELSE @ + 1]
      /\ unanswered' = [unanswered EXCEPT ![r] = IF outcome = "unanswered" THEN @ + 1 ELSE @]
      /\ streak' = [streak EXCEPT ![to] = IF outcome = "ok" THEN 0 ELSE @ + 1]
      /\ failures' = [failures EXCEPT ![MetricsOf(to)] =
                          IF outcome = "ok" THEN 0 ELSE Increment(@)]
      /\ UNCHANGED <<life, message, job>>
  BY <1>0 DEF Turn, RecordSend, replies
<1>3. \A n \in 0..U32Max : Increment(n) \in 0..U32Max
  BY BridgeAssumption DEF Increment
<1>4. MetricsOf(to) \in Bridges
  BY DEF MetricsOf, Bridges
<1>5. /\ pc[w] \in Outgoing /\ pc[w] # "sent"
      /\ pc'[w] \in Outgoing /\ (pc'[w] = "sent" <=> outcome = "ok")
      /\ \A v \in Workers \ {w} : pc'[v] = pc[v]
      /\ pc' \in [Workers -> {"idle", "inbound"} \cup Outgoing]
  BY DEF Turn, IInv, Shape, Outgoing
<1>6. Shape'
  <2>1. failures' \in [Bridges -> 0..U32Max]
    BY <1>2, <1>3, <1>4, BridgeAssumption DEF IInv, Shape
  <2>2. streak' \in [Names -> Nat]
    BY <1>1, <1>2 DEF IInv, Shape
  <2>3. /\ delivered' \in [Replies -> Nat]
        /\ unanswered' \in [Replies -> Nat]
    BY <1>1, <1>2 DEF IInv, Shape
  <2> QED
    BY <1>1, <1>2, <1>5, <2>1, <2>2, <2>3 DEF IInv, Shape
<1>7. Carried'
  BY <1>2, <1>5 DEF IInv, Shape, Carried
<1>8. Counted'
  <2>1. /\ streak["telegram"] \in Nat /\ streak["whatsapp"] \in Nat
        /\ failures["telegram"] \in 0..U32Max
        /\ failures["whatsapp"] \in 0..U32Max
        /\ U32Max \in Nat
    BY BridgeAssumption DEF IInv, Shape, Bridges, Names
  <2>2. CASE to = "telegram"
    <3>1. /\ failures'["whatsapp"] = failures["whatsapp"]
          /\ streak'["whatsapp"] = streak["whatsapp"]
          /\ failures'["telegram"] =
                IF outcome = "ok" THEN 0 ELSE Increment(failures["telegram"])
          /\ streak'["telegram"] =
                IF outcome = "ok" THEN 0 ELSE streak["telegram"] + 1
      BY <1>2, <2>2 DEF MetricsOf, Bridges, Names, IInv, Shape
    <3> QED
      BY <2>1, <3>1 DEF IInv, Counted, Cap, Increment
  <2>3. CASE to = "whatsapp"
    <3>1. /\ failures'["telegram"] = failures["telegram"]
          /\ streak'["telegram"] = streak["telegram"]
          /\ failures'["whatsapp"] =
                IF outcome = "ok" THEN 0 ELSE Increment(failures["whatsapp"])
          /\ streak'["whatsapp"] =
                IF outcome = "ok" THEN 0 ELSE streak["whatsapp"] + 1
      BY <1>2, <2>3 DEF MetricsOf, Bridges, Names, IInv, Shape
    <3> QED
      BY <2>1, <3>1 DEF IInv, Counted, Cap, Increment
  <2>4. CASE to = "other"
    <3>1. outcome # "ok"
      BY <1>0, <2>4, BridgeAssumption DEF Turn, Bridges
    <3>2. /\ failures'["telegram"] = failures["telegram"]
          /\ streak'["telegram"] = streak["telegram"]
          /\ failures'["whatsapp"] = Increment(failures["whatsapp"])
          /\ streak'["whatsapp"] = streak["whatsapp"]
      BY <1>2, <2>4, <3>1 DEF MetricsOf, Bridges, Names, IInv, Shape
    <3> QED
      BY <2>1, <3>2 DEF IInv, Counted, Cap, Increment
  <2> QED
    BY <1>1, <2>2, <2>3, <2>4 DEF Names, Bridges
<1>9. Deliveries'
  <2>1. /\ ~Arrived(r)
        /\ Arrived(r)' <=> outcome = "ok"
    BY <1>0, <1>1, <1>2, <1>5, <1>7 DEF IInv, Shape, Carried, Arrived, Completed, Outgoing
  <2>2. ASSUME NEW q \in Replies, q # r PROVE Arrived(q)' <=> Arrived(q)
    BY <1>0, <1>2, <1>5, <2>2 DEF Arrived, Completed
  <2>3. ASSUME NEW q \in Replies, q # r
        PROVE  delivered'[q] = delivered[q] /\ unanswered'[q] = unanswered[q]
    BY <1>1, <1>2, <2>3 DEF IInv, Shape
  <2>4. delivered[r] = unanswered[r] /\ unanswered[r] \in Nat
    BY <1>1, <2>1 DEF IInv, Shape, Deliveries
  <2>5. /\ delivered'[r] = IF outcome = "refused" THEN delivered[r] ELSE delivered[r] + 1
        /\ unanswered'[r] = IF outcome = "unanswered" THEN unanswered[r] + 1 ELSE unanswered[r]
    BY <1>1, <1>2 DEF IInv, Shape
  <2>6. delivered'[r] = IF Arrived(r)' THEN unanswered'[r] + 1 ELSE unanswered'[r]
    BY <2>1, <2>4, <2>5
  <2> QED
    BY <2>2, <2>3, <2>6 DEF IInv, Deliveries
<1> QED
  BY <1>6, <1>7, <1>8, <1>9 DEF IInv

\* SendOk and SendFails are such turns.
LEMMA SendInv ==
    ASSUME IInv, NEW w \in Workers, SendOk(w) \/ SendFails(w)
    PROVE  IInv'
<1>1. CanSend(w) => pc[w] \in {"claimed", "sending"}
  BY DEF CanSend
<1>2. CASE SendOk(w)
  <2>1. "ok" \in Outcomes(message[job[w]].to) => message[job[w]].to \in Configured
    BY DEF Outcomes
  <2>2. failures' = [failures EXCEPT ![MetricsOf(message[job[w]].to)] = 0]
    BY <1>2 DEF SendOk
  <2>3. Turn(w, "ok")
    BY <1>1, <1>2, <2>1, <2>2 DEF SendOk, Turn, replies
  <2> QED
    BY <2>3, TurnInv
<1>3. CASE SendFails(w)
  <2>1. PICK outcome \in Outcomes(message[job[w]].to) \ {"ok"} : RecordSend(w, outcome)
    BY <1>3 DEF SendFails
  <2>2. outcome \in {"refused", "unanswered"}
    BY DEF Outcomes
  <2>3. Turn(w, outcome)
    BY <1>1, <1>3, <2>1, <2>2 DEF SendFails, Turn, replies
  <2> QED
    BY <2>2, <2>3, TurnInv
<1> QED
  BY <1>2, <1>3

LEMMA RefuseInv ==
    ASSUME IInv, NEW w \in Workers, RefuseBlank(w)
    PROVE  IInv'
<1>1. /\ pc[w] = "claimed"
      /\ pc' = [pc EXCEPT ![w] = "failed"]
      /\ UNCHANGED <<failures, replies, job, outbound>>
  BY DEF RefuseBlank, hub
<1>2. Shape'
  BY <1>1 DEF IInv, Shape, replies, outbound, Outgoing
<1> QED
  BY <1>1, <1>2, Bystander DEF IInv, Shape, Outgoing

\* complete_task or fail_task, and the worker's hands are empty.
LEMMA SettleInv ==
    ASSUME IInv, NEW w \in Workers, SettleReply(w)
    PROVE  IInv'
<1>0. PICK r \in Replies : r = job[w]
  BY DEF SettleReply, IInv, Shape, Outgoing
<1>1. /\ pc[w] \in {"sent", "failed"}
      /\ pc' = [pc EXCEPT ![w] = "idle"]
      /\ job' = [job EXCEPT ![w] = None]
      /\ UNCHANGED <<failures, message, outbound>>
  BY DEF SettleReply, LetGo, hub
<1>2. life[r] \in Queue!Life /\ life[r].stage = "running" /\ message[r] # None
  BY <1>0, <1>1 DEF IInv, Shape, Carried, Outgoing, Queue!Life
<1>3. \E l \in Queue!Life :
         /\ life' = [life EXCEPT ![r] = l]
         /\ l.stage = "absent" <=> pc[w] = "sent"
  <2>1. CASE pc[w] = "sent" /\ Queue!Succeed(r)
    <3>1. Queue!Absent \in Queue!Life /\ Queue!Absent.stage = "absent"
      BY DEF Queue!Absent, Queue!Life
    <3> QED
      BY <2>1, <3>1 DEF Queue!Succeed
  <2>2. CASE pc[w] = "failed" /\ (Queue!FailAgain(r) \/ Queue!GiveUp(r))
    <3>1. PICK s \in {"waiting", "dead"} :
            life' = [life EXCEPT ![r].stage = s, ![r].attempts = @ + 1]
      BY <2>2 DEF Queue!FailAgain, Queue!GiveUp
    <3> DEFINE l == [stage |-> s, attempts |-> life[r].attempts + 1, max |-> life[r].max]
    <3>2. l \in Queue!Life /\ l.stage = s
      BY <1>2 DEF Queue!Life
    <3>3. life' = [life EXCEPT ![r] = l]
      BY <1>2, <3>1 DEF Queue!Life, IInv, Shape
    <3> QED
      BY <2>2, <3>1, <3>2, <3>3
  <2> QED
    BY <1>0, <2>1, <2>2 DEF SettleReply
<1>4. Shape'
  BY <1>0, <1>1, <1>2, <1>3 DEF IInv, Shape, outbound, Outgoing
<1>5. Carried'
  BY <1>0, <1>1, <1>2, <1>3 DEF IInv, Shape, Carried, Outgoing
<1>6. Counted'
  BY <1>1 DEF IInv, Counted, Cap, outbound
<1>7. \A q \in Replies : Arrived(q)' <=> Arrived(q)
  <2>1. Arrived(r)' <=> pc[w] = "sent"
    BY <1>0, <1>1, <1>2, <1>3 DEF IInv, Shape, Carried, Arrived, Completed, Outgoing
  <2>2. Arrived(r) <=> pc[w] = "sent"
    BY <1>0, <1>1, <1>2 DEF IInv, Shape, Carried, Arrived, Completed, Outgoing
  <2>3. ASSUME NEW q \in Replies, q # r PROVE Arrived(q)' <=> Arrived(q)
    BY <1>0, <1>1, <1>3, <2>3 DEF IInv, Shape, Arrived, Completed
  <2> QED
    BY <2>1, <2>2, <2>3
<1>8. Deliveries'
  BY <1>1, <1>7 DEF IInv, Deliveries, outbound
<1> QED
  BY <1>4, <1>5, <1>6, <1>8 DEF IInv

-----------------------------------------------------------------------------
LEMMA InvStep == IInv /\ [Next]_vars => IInv'
<1> SUFFICES ASSUME IInv, [Next]_vars PROVE IInv'
  OBVIOUS
<1>1. CASE Tick \/ UNCHANGED vars \/ \E h \in Webhooks : Webhook(h)
  <2>1. UNCHANGED <<failures, replies, outbound, workers>>
    BY <1>1 DEF Tick, Webhook, Ingest, NameTask, EnqueueEvent, EnqueueError, vars, hub
  <2>2. Shape'
    BY <2>1 DEF IInv, Shape, replies, outbound, workers
  <2> QED
    BY <2>1, <2>2, Bystander DEF workers
<1>2. ASSUME NEW r \in Replies, SubmitReply(r) PROVE IInv'
  BY <1>2, SubmitInv
<1>3. ASSUME NEW w \in Workers, Work(w) PROVE IInv'
  <2>1. CASE \E id \in InboundId : ClaimEvent(w, id)
    <3>1. UNCHANGED <<failures, replies, outbound>>
      BY <2>1 DEF ClaimEvent, hub
    <3> QED
      BY <2>1, <3>1, InboundInv
  <2>2. CASE CompleteEvent(w) \/ RetryEvent(w)
    <3>1. UNCHANGED <<failures, replies, outbound>>
      BY <2>2 DEF CompleteEvent, RetryEvent, hub
    <3> QED
      BY <2>2, <3>1, InboundInv
  <2>3. ASSUME NEW r \in Replies, ClaimReply(w, r) PROVE IInv'
    BY <2>3, ClaimInv
  <2> QED
    BY <1>3, <2>1, <2>2, <2>3, RefuseInv, SendInv, SettleInv DEF Work
<1> QED
  BY <1>1, <1>2, <1>3 DEF Next

LEMMA Invariant == Spec => []IInv
  BY InvInit, InvStep, PTL DEF Spec

\* At least once, and a second time only if an answer was lost: the bookkeeping
\* of send_outbound_with_retry inside that of the queue, for any number of
\* workers, retries and attempts.
THEOREM DeliveredHolds == Spec => []DeliveredAtLeastOnce
<1>1. IInv => DeliveredAtLeastOnce
  BY DEF IInv, Shape, Deliveries, Arrived, DeliveredAtLeastOnce
<1> QED
  BY Invariant, <1>1, PTL

\* The health page: what record_failure and record_success count is the number
\* of failures in a row, up to the width of the counter.
THEOREM HealthHolds == Spec => []HealthIsTrue
<1>1. IInv => HealthIsTrue
  <2> SUFFICES ASSUME IInv PROVE HealthIsTrue
    OBVIOUS
  <2>1. /\ streak["telegram"] \in Nat /\ streak["whatsapp"] \in Nat
        /\ failures["telegram"] \in 0..U32Max /\ failures["whatsapp"] \in 0..U32Max
        /\ U32Max \in Nat /\ DegradedAt \in 1..U32Max
    BY BridgeAssumption DEF IInv, Shape, Bridges, Names
  <2> QED
    BY <2>1 DEF IInv, Counted, Cap, HealthIsTrue, Degraded
<1> QED
  BY Invariant, <1>1, PTL

-----------------------------------------------------------------------------
(* The retry loops and the inbound events: the invariants.                 *)

\* Every running reply is in some worker's hands; a worker's try is the number
\* of turns its loop has made.
Tries ==
    /\ try \in [Workers -> Nat]
    /\ sends \in [Replies -> Nat]
    /\ \A r \in Replies : life[r].stage = "running" =>
          \E w \in Workers : pc[w] \in Outgoing /\ job[w] = r
    /\ \A w \in Workers :
          /\ pc[w] \in {"idle", "inbound", "claimed"} => try[w] = 0
          /\ pc[w] = "sending" => try[w] < Retries
          /\ pc[w] = "sent" => try[w] < Retries
          /\ pc[w] \in {"sending", "sent"} => ~message[job[w]].blank
          /\ pc[w] = "failed" => try[w] = IF message[job[w]].blank THEN 0 ELSE Retries

\* The attempts of a reply, the ones of the loop under way included.
Sent(r, tries) == IF message[r].blank THEN 0 ELSE Retries * life[r].attempts + tries

Sends ==
    /\ \A r \in Replies :
          /\ life[r].stage = "absent" /\ message[r] = None => sends[r] = 0
          /\ life[r].stage \in {"waiting", "dead"} => sends[r] = Sent(r, 0)
    /\ \A w \in Workers : pc[w] \in Outgoing =>
          sends[job[w]] = Sent(job[w], IF pc[w] = "sent" THEN try[w] + 1 ELSE try[w])

SendInvariant == IInv /\ Tries /\ Sends

\* The types of what the webhooks and the inbound tasks touch.
InboundShape ==
    /\ now \in Second
    /\ calls \in 0..MaxCalls
    /\ window \in [Bridges -> [minute : Nat, count : 0..U32Max]]
    /\ inbox \in [InboundId -> InboundRow \cup {None}]
    /\ hook \in [Webhooks -> {Idle} \cup [stage : {"accepted", "named"}, event : Event]]
    /\ copy \in [Workers -> 0..MaxCalls]
    /\ \A w \in Workers :
          /\ pc[w] = "idle" <=> job[w] = None
          /\ pc[w] = "inbound" => job[w] \in InboundId /\ copy[w] \in 1..MaxCalls
    /\ events \subseteq Event

\* The events of a bridge in a minute of the clock.
LetInAt(b, minute) == {e \in events : e.bridge = b /\ e.at \div Minute = minute}

\* The count of a minute is that of its events, up to the limit.
Windows ==
    /\ IsFiniteSet(events)
    /\ \A e \in events : e.n <= calls /\ e.at <= now
    /\ \A b \in Bridges :
          /\ window[b].minute <= now \div Minute
          /\ \A minute \in Nat :
                /\ minute < window[b].minute => Cardinality(LetInAt(b, minute)) <= Limit
                /\ minute = window[b].minute =>
                      Cardinality(LetInAt(b, minute)) =
                          IF window[b].count <= Limit THEN window[b].count ELSE Limit
                /\ minute > window[b].minute => LetInAt(b, minute) = {}

\* A row of the inbox, and a worker's copy of it, is of an event that was
\* queued under that id.
QueuedUnder(id, n) ==
    \E q \in queued : q.bridge = id[1] /\ q.at = id[2] /\ q.n = n

Followed ==
    /\ \A q \in queued : q.id = <<q.bridge, q.at>>
    /\ \A id \in InboundId : inbox[id] # None => QueuedUnder(id, inbox[id].event)
    /\ \A w \in Workers : pc[w] = "inbound" => QueuedUnder(job[w], copy[w])

-----------------------------------------------------------------------------
(* The retry loops.                                                        *)

LEMMA RetriesPositive == Retries \in Nat /\ Retries > 0
BY BridgeAssumption DEF Retries

LEMMA SendInit == Init => Tries /\ Sends
<1> SUFFICES ASSUME Init PROVE Tries /\ Sends
  OBVIOUS
<1>1. \A r \in Replies : life[r].stage = "absent"
  BY DEF Init, Queue!Init, Queue!Absent
<1>2. Tries
  BY <1>1 DEF Init, Tries
<1>3. Sends
  BY <1>1 DEF Init, Sends, Outgoing
<1> QED
  BY <1>2, <1>3

\* A step that leaves the replies and the loops under way alone.
LEMMA SendBystander ==
    ASSUME SendInvariant, UNCHANGED <<replies, sends>>, try' \in [Workers -> Nat],
           \A w \in Workers :
               /\ pc'[w] \in Outgoing <=> pc[w] \in Outgoing
               /\ pc[w] \in Outgoing => UNCHANGED <<pc[w], job[w], try[w]>>
               /\ pc'[w] \in {"idle", "inbound"} => try'[w] = 0
    PROVE  (Tries /\ Sends)'
<1>1. \A r \in Replies : Sent(r, 0)' = Sent(r, 0)
  BY DEF Sent, replies
<1>2. Tries'
  <2>1. try' \in [Workers -> Nat] /\ sends' \in [Replies -> Nat]
    BY DEF SendInvariant, Tries
  <2>2. ASSUME NEW r \in Replies, life'[r].stage = "running"
        PROVE  \E w \in Workers : pc'[w] \in Outgoing /\ job'[w] = r
    BY <2>2 DEF SendInvariant, Tries, replies
  <2>3. ASSUME NEW w \in Workers
        PROVE  /\ pc'[w] \in {"idle", "inbound", "claimed"} => try'[w] = 0
               /\ pc'[w] = "sending" => try'[w] < Retries
               /\ pc'[w] = "sent" => try'[w] < Retries
               /\ pc'[w] \in {"sending", "sent"} => ~message'[job'[w]].blank
               /\ pc'[w] = "failed" =>
                     try'[w] = IF message'[job'[w]].blank THEN 0 ELSE Retries
    BY <2>3 DEF SendInvariant, Tries, replies, Outgoing
  <2> QED
    BY <2>1, <2>2, <2>3 DEF Tries, Retries
<1>3. Sends'
  <2>1. ASSUME NEW r \in Replies
        PROVE  /\ life'[r].stage = "absent" /\ message'[r] = None => sends'[r] = 0
               /\ life'[r].stage \in {"waiting", "dead"} => sends'[r] = Sent(r, 0)'
    BY <1>1, <2>1 DEF SendInvariant, Sends, replies
  <2>2. ASSUME NEW w \in Workers, pc'[w] \in Outgoing
        PROVE  sends'[job'[w]] = Sent(job[w], IF pc[w] = "sent" THEN try[w] + 1 ELSE try[w])'
    <3>1. PICK r : r = job[w]
      OBVIOUS
    <3>2. pc[w] \in Outgoing /\ pc'[w] = pc[w] /\ job'[w] = r /\ try'[w] = try[w]
      BY <2>2, <3>1
    <3>3. sends[r] = Sent(r, IF pc[w] = "sent" THEN try[w] + 1 ELSE try[w])
      BY <3>1, <3>2 DEF SendInvariant, Sends
    <3> QED
      BY <3>2, <3>3 DEF Sent, replies
  <2> QED
    BY <2>1, <2>2 DEF Sends
<1> QED
  BY <1>2, <1>3

LEMMA SubmitSends ==
    ASSUME SendInvariant, NEW r \in Replies, SubmitReply(r)
    PROVE  (Tries /\ Sends)'
<1>1. PICK m \in Messages : message' = [message EXCEPT ![r] = m]
  BY DEF SubmitReply
<1>2. PICK max \in MaxAttempts \ {0} :
        life' = [id \in Replies |->
                    IF id \in {r}
                    THEN [stage |-> "waiting", attempts |-> 0, max |-> max]
                    ELSE life[id]]
  BY DEF SubmitReply, Queue!Accept
<1>3. /\ message[r] = None /\ life[r].stage = "absent"
      /\ UNCHANGED <<workers, sends>>
  BY DEF SubmitReply, Queue!Accept, outbound
<1>4. m # None
  BY NoneAssumption
<1>5. life'[r] = [stage |-> "waiting", attempts |-> 0, max |-> max] /\ message'[r] = m
  BY <1>1, <1>2 DEF SendInvariant, IInv, Shape
<1>6. ASSUME NEW q \in Replies, q # r PROVE life'[q] = life[q] /\ message'[q] = message[q]
  BY <1>1, <1>2, <1>6 DEF SendInvariant, IInv, Shape
<1>7. \A w \in Workers : pc[w] \in Outgoing => job[w] \in Replies /\ job[w] # r
  BY <1>3 DEF SendInvariant, IInv, Shape, Carried
<1>8. Tries'
  <2>1. try' \in [Workers -> Nat] /\ sends' \in [Replies -> Nat]
    BY <1>3 DEF SendInvariant, Tries, workers
  <2>2. ASSUME NEW q \in Replies, life'[q].stage = "running"
        PROVE  \E w \in Workers : pc'[w] \in Outgoing /\ job'[w] = q
    BY <1>3, <1>5, <1>6, <2>2 DEF SendInvariant, Tries, workers
  <2>3. ASSUME NEW w \in Workers
        PROVE  /\ pc'[w] \in {"idle", "inbound", "claimed"} => try'[w] = 0
               /\ pc'[w] = "sending" => try'[w] < Retries
               /\ pc'[w] = "sent" => try'[w] < Retries
               /\ pc'[w] \in {"sending", "sent"} => ~message'[job'[w]].blank
               /\ pc'[w] = "failed" =>
                     try'[w] = IF message'[job'[w]].blank THEN 0 ELSE Retries
    BY <1>3, <1>6, <1>7, <2>3 DEF SendInvariant, Tries, workers, Outgoing
  <2> QED
    BY <2>1, <2>2, <2>3 DEF Tries, Retries
<1>9. Sends'
  <2>1. sends'[r] = 0 /\ Sent(r, 0)' = 0
    <3>1. sends[r] = 0
      BY <1>3 DEF SendInvariant, Sends
    <3>2. Retries * 0 + 0 = 0
      BY RetriesPositive
    <3> QED
      BY <1>3, <1>5, <3>1, <3>2 DEF Sent, Retries
  <2>2. ASSUME NEW q \in Replies
        PROVE  /\ life'[q].stage = "absent" /\ message'[q] = None => sends'[q] = 0
               /\ life'[q].stage \in {"waiting", "dead"} => sends'[q] = Sent(q, 0)'
    BY <1>3, <1>4, <1>5, <1>6, <2>1 DEF SendInvariant, Sends, Sent
  <2>3. ASSUME NEW w \in Workers, pc'[w] \in Outgoing
        PROVE  sends'[job'[w]] = Sent(job[w], IF pc[w] = "sent" THEN try[w] + 1 ELSE try[w])'
    <3>1. PICK q : q = job[w]
      OBVIOUS
    <3>2. pc[w] \in Outgoing /\ job'[w] = q /\ UNCHANGED <<pc, job, try, sends>>
      BY <1>3, <2>3, <3>1 DEF workers
    <3>3. sends[q] = Sent(q, IF pc[w] = "sent" THEN try[w] + 1 ELSE try[w])
      BY <3>1, <3>2 DEF SendInvariant, Sends
    <3> QED
      BY <1>6, <1>7, <3>1, <3>2, <3>3 DEF Sent
  <2> QED
    BY <2>2, <2>3 DEF Sends
<1> QED
  BY <1>8, <1>9

LEMMA ClaimSends ==
    ASSUME SendInvariant, NEW w \in Workers, NEW r \in Replies, ClaimReply(w, r)
    PROVE  (Tries /\ Sends)'
<1>1. /\ pc[w] = "idle" /\ life[r].stage = "waiting"
      /\ life' = [life EXCEPT ![r].stage = "running"]
      /\ pc' = [pc EXCEPT ![w] = "claimed"]
      /\ job' = [job EXCEPT ![w] = r]
      /\ UNCHANGED <<message, sends, try>>
  BY DEF ClaimReply, Queue!Start, outbound
<1>2. /\ life'[r].stage = "running" /\ life'[r].attempts = life[r].attempts
      /\ \A q \in Replies : q # r => life'[q] = life[q]
  BY <1>1 DEF SendInvariant, IInv, Shape, Queue!Life
<1>3. /\ pc'[w] = "claimed" /\ job'[w] = r /\ try[w] = 0
      /\ \A v \in Workers : v # w => pc'[v] = pc[v] /\ job'[v] = job[v]
  BY <1>1 DEF SendInvariant, IInv, Shape, Tries
<1>4. \A v \in Workers : pc[v] \in Outgoing => job[v] \in Replies /\ job[v] # r
  BY <1>1 DEF SendInvariant, IInv, Shape, Carried
<1>5. Tries'
  <2>1. try' \in [Workers -> Nat] /\ sends' \in [Replies -> Nat]
    BY <1>1 DEF SendInvariant, Tries
  <2>2. ASSUME NEW q \in Replies, life'[q].stage = "running"
        PROVE  \E v \in Workers : pc'[v] \in Outgoing /\ job'[v] = q
    <3>1. CASE q = r
      BY <1>3, <3>1 DEF Outgoing
    <3>2. CASE q # r
      <4>1. PICK v \in Workers : pc[v] \in Outgoing /\ job[v] = q
        BY <1>2, <2>2, <3>2 DEF SendInvariant, Tries
      <4>2. v # w
        BY <1>1, <4>1 DEF Outgoing
      <4> QED
        BY <1>3, <4>1, <4>2
    <3> QED
      BY <3>1, <3>2
  <2>3. ASSUME NEW v \in Workers
        PROVE  /\ pc'[v] \in {"idle", "inbound", "claimed"} => try'[v] = 0
               /\ pc'[v] = "sending" => try'[v] < Retries
               /\ pc'[v] = "sent" => try'[v] < Retries
               /\ pc'[v] \in {"sending", "sent"} => ~message'[job'[v]].blank
               /\ pc'[v] = "failed" =>
                     try'[v] = IF message'[job'[v]].blank THEN 0 ELSE Retries
    BY <1>1, <1>3, <2>3 DEF SendInvariant, Tries
  <2> QED
    BY <2>1, <2>2, <2>3 DEF Tries, Retries
<1>6. Sends'
  <2>1. ASSUME NEW q \in Replies
        PROVE  /\ life'[q].stage = "absent" /\ message'[q] = None => sends'[q] = 0
               /\ life'[q].stage \in {"waiting", "dead"} => sends'[q] = Sent(q, 0)'
    BY <1>1, <1>2, <2>1 DEF SendInvariant, Sends, Sent
  <2>2. ASSUME NEW v \in Workers, pc'[v] \in Outgoing
        PROVE  sends'[job'[v]] = Sent(job[v], IF pc[v] = "sent" THEN try[v] + 1 ELSE try[v])'
    <3>1. CASE v = w
      <4>1. sends[r] = Sent(r, 0)
        BY <1>1 DEF SendInvariant, Sends
      <4> QED
        BY <1>1, <1>2, <1>3, <3>1, <4>1 DEF Sent
    <3>2. CASE v # w
      <4>1. PICK q : q = job[v]
        OBVIOUS
      <4>2. pc[v] \in Outgoing /\ pc'[v] = pc[v] /\ job'[v] = q /\ q \in Replies /\ q # r
        BY <1>3, <1>4, <2>2, <3>2, <4>1
      <4>3. sends[q] = Sent(q, IF pc[v] = "sent" THEN try[v] + 1 ELSE try[v])
        BY <4>1, <4>2 DEF SendInvariant, Sends
      <4> QED
        BY <1>1, <1>2, <4>2, <4>3 DEF Sent
    <3> QED
      BY <3>1, <3>2
  <2> QED
    BY <2>1, <2>2 DEF Sends
<1> QED
  BY <1>5, <1>6

\* A worker goes on with its reply, to p with n tries and k attempts in all.
Moves(w, p, n, k) ==
    /\ pc[w] \in Outgoing
    /\ pc' = [pc EXCEPT ![w] = p]
    /\ try' = [try EXCEPT ![w] = n]
    /\ sends' = [sends EXCEPT ![job[w]] = k]
    /\ UNCHANGED <<replies, job>>
    /\ p = "claimed" => n = 0
    /\ p \in {"sending", "sent"} => n < Retries /\ ~message[job[w]].blank
    /\ p = "failed" => n = IF message[job[w]].blank THEN 0 ELSE Retries
    /\ k = Sent(job[w], IF p = "sent" THEN n + 1 ELSE n)

LEMMA MoveSends ==
    ASSUME SendInvariant, NEW w \in Workers, NEW p \in Outgoing,
           NEW n \in Nat, NEW k \in Nat, Moves(w, p, n, k)
    PROVE  (Tries /\ Sends)'
<1> USE DEF Moves
<1>1. PICK r : r = job[w]
  OBVIOUS
<1>2. r \in Replies /\ life[r].stage = "running"
  BY <1>1 DEF SendInvariant, IInv, Shape, Carried
<1>3. /\ pc'[w] = p /\ try'[w] = n
      /\ \A v \in Workers : v # w => pc'[v] = pc[v] /\ try'[v] = try[v]
      /\ sends'[r] = k
      /\ \A q \in Replies : q # r => sends'[q] = sends[q]
      /\ try' \in [Workers -> Nat] /\ sends' \in [Replies -> Nat]
  BY <1>1, <1>2 DEF SendInvariant, IInv, Shape, Tries
<1>4. \A v \in Workers : v # w /\ pc[v] \in Outgoing => job[v] \in Replies /\ job[v] # r
  BY <1>1 DEF SendInvariant, IInv, Shape, Carried
<1>5. Tries'
  <2>1. ASSUME NEW q \in Replies, life'[q].stage = "running"
        PROVE  \E v \in Workers : pc'[v] \in Outgoing /\ job'[v] = q
    <3>1. PICK v \in Workers : pc[v] \in Outgoing /\ job[v] = q
      BY <2>1 DEF SendInvariant, Tries, replies
    <3> QED
      BY <1>3, <3>1
  <2>2. ASSUME NEW v \in Workers
        PROVE  /\ pc'[v] \in {"idle", "inbound", "claimed"} => try'[v] = 0
               /\ pc'[v] = "sending" => try'[v] < Retries
               /\ pc'[v] = "sent" => try'[v] < Retries
               /\ pc'[v] \in {"sending", "sent"} => ~message'[job'[v]].blank
               /\ pc'[v] = "failed" =>
                     try'[v] = IF message'[job'[v]].blank THEN 0 ELSE Retries
    <3>1. CASE v = w
      BY <1>3, <3>1 DEF replies, Outgoing
    <3>2. CASE v # w
      BY <1>3, <2>2, <3>2 DEF SendInvariant, Tries, replies
    <3> QED
      BY <3>1, <3>2
  <2> QED
    BY <1>3, <2>1, <2>2 DEF Tries, Retries
<1>6. Sends'
  <2>1. ASSUME NEW q \in Replies
        PROVE  /\ life'[q].stage = "absent" /\ message'[q] = None => sends'[q] = 0
               /\ life'[q].stage \in {"waiting", "dead"} => sends'[q] = Sent(q, 0)'
    BY <1>2, <1>3, <2>1 DEF SendInvariant, Sends, Sent, replies
  <2>2. ASSUME NEW v \in Workers, pc'[v] \in Outgoing
        PROVE  sends'[job'[v]] = Sent(job[v], IF pc[v] = "sent" THEN try[v] + 1 ELSE try[v])'
    <3>1. CASE v = w
      BY <1>1, <1>3, <3>1 DEF Sent, replies
    <3>2. CASE v # w
      <4>1. PICK q : q = job[v]
        OBVIOUS
      <4>2. /\ pc[v] \in Outgoing /\ pc'[v] = pc[v] /\ try'[v] = try[v]
            /\ job'[v] = q /\ q \in Replies /\ q # r
        BY <1>3, <1>4, <2>2, <3>2, <4>1
      <4>3. sends[q] = Sent(q, IF pc[v] = "sent" THEN try[v] + 1 ELSE try[v])
        BY <4>1, <4>2 DEF SendInvariant, Sends
      <4> QED
        BY <1>3, <4>2, <4>3 DEF Sent, replies
    <3> QED
      BY <3>1, <3>2
  <2> QED
    BY <2>1, <2>2 DEF Sends
<1> QED
  BY <1>5, <1>6

LEMMA RefuseSends ==
    ASSUME SendInvariant, NEW w \in Workers, RefuseBlank(w)
    PROVE  (Tries /\ Sends)'
<1>1. /\ pc[w] = "claimed" /\ message[job[w]].blank
      /\ pc' = [pc EXCEPT ![w] = "failed"]
      /\ UNCHANGED <<replies, job, try, sends>>
  BY DEF RefuseBlank, outbound
<1>2. job[w] \in Replies /\ try[w] = 0 /\ sends[job[w]] = Sent(job[w], 0)
  BY <1>1 DEF SendInvariant, IInv, Shape, Tries, Sends, Outgoing
<1>3. try' = [try EXCEPT ![w] = 0] /\ sends' = [sends EXCEPT ![job[w]] = sends[job[w]]]
  BY <1>1, <1>2 DEF SendInvariant, Tries
<1>4. sends[job[w]] \in Nat
  BY <1>2 DEF SendInvariant, Tries
<1>5. Moves(w, "failed", 0, sends[job[w]])
  BY <1>1, <1>2, <1>3 DEF Moves, Outgoing
<1> QED
  BY <1>4, <1>5, MoveSends DEF Outgoing

LEMMA SentNext ==
    ASSUME SendInvariant, NEW r \in Replies, NEW n \in Nat, ~message[r].blank
    PROVE  Sent(r, n) + 1 = Sent(r, n + 1)
<1>1. PICK a : a = Retries * life[r].attempts
  OBVIOUS
<1>2. a \in Int
  BY <1>1, RetriesPositive DEF SendInvariant, IInv, Shape, Queue!Life
<1> QED
  BY <1>1, <1>2 DEF Sent

LEMMA TurnSends ==
    ASSUME SendInvariant, NEW w \in Workers, SendOk(w) \/ SendFails(w)
    PROVE  (Tries /\ Sends)'
<1>1. PICK r : r = job[w]
  OBVIOUS
<1>2. CanSend(w) /\ UNCHANGED <<replies, job>>
  BY DEF SendOk, SendFails, replies
<1>3. /\ pc[w] \in {"claimed", "sending"} /\ pc[w] \in Outgoing /\ r \in Replies
      /\ ~message[r].blank
  BY <1>1, <1>2 DEF CanSend, SendInvariant, IInv, Shape, Tries, Outgoing
<1>4. try[w] \in Nat /\ try[w] < Retries /\ sends[r] = Sent(r, try[w]) /\ sends[r] \in Nat
  BY <1>1, <1>3, RetriesPositive DEF SendInvariant, Tries, Sends
<1>5. sends' = [sends EXCEPT ![r] = sends[r] + 1]
  BY <1>1 DEF SendOk, SendFails, RecordSend
<1>6. sends[r] + 1 = Sent(r, try[w] + 1)
  BY <1>3, <1>4, SentNext
<1>7. CASE SendOk(w)
  <2>1. pc' = [pc EXCEPT ![w] = "sent"] /\ try' = [try EXCEPT ![w] = try[w]]
    BY <1>7 DEF SendOk, SendInvariant, Tries
  <2>2. Moves(w, "sent", try[w], sends[r] + 1)
    BY <1>1, <1>2, <1>3, <1>4, <1>5, <1>6, <2>1 DEF Moves
  <2> QED
    BY <1>4, <2>2, MoveSends DEF Outgoing
<1>8. CASE SendFails(w)
  <2>1. PICK n : n = try[w] + 1
    OBVIOUS
  <2>2. try' = [try EXCEPT ![w] = n] /\ n \in Nat /\ n <= Retries
    BY <1>4, <1>8, <2>1, RetriesPositive DEF SendFails
  <2>3. CASE n = Retries
    <3>1. pc' = [pc EXCEPT ![w] = "failed"]
      BY <1>8, <2>1, <2>3 DEF SendFails, LastTry
    <3>2. Moves(w, "failed", n, sends[r] + 1)
      BY <1>1, <1>2, <1>3, <1>5, <1>6, <2>1, <2>2, <2>3, <3>1 DEF Moves
    <3> QED
      BY <1>4, <2>2, <3>2, MoveSends DEF Outgoing
  <2>4. CASE n # Retries
    <3>1. pc' = [pc EXCEPT ![w] = "sending"] /\ n < Retries
      BY <1>8, <2>1, <2>2, <2>4, RetriesPositive DEF SendFails, LastTry
    <3>2. Moves(w, "sending", n, sends[r] + 1)
      BY <1>1, <1>2, <1>3, <1>5, <1>6, <2>1, <2>2, <3>1 DEF Moves
    <3> QED
      BY <1>4, <2>2, <3>2, MoveSends DEF Outgoing
  <2> QED
    BY <2>3, <2>4
<1> QED
  BY <1>7, <1>8

LEMMA SettleSends ==
    ASSUME SendInvariant, NEW w \in Workers, SettleReply(w)
    PROVE  (Tries /\ Sends)'
<1>1. PICK r : r = job[w]
  OBVIOUS
<1>2. /\ pc[w] \in {"sent", "failed"}
      /\ pc' = [pc EXCEPT ![w] = "idle"]
      /\ job' = [job EXCEPT ![w] = None]
      /\ try' = [try EXCEPT ![w] = 0]
      /\ UNCHANGED <<message, sends>>
  BY DEF SettleReply, LetGo, outbound
<1>3. /\ r \in Replies /\ life[r] \in Queue!Life /\ life[r].stage = "running"
      /\ message[r] # None
  BY <1>1, <1>2 DEF SendInvariant, IInv, Shape, Carried, Outgoing
<1>4. /\ pc'[w] = "idle" /\ try'[w] = 0
      /\ \A v \in Workers : v # w => pc'[v] = pc[v] /\ job'[v] = job[v] /\ try'[v] = try[v]
      /\ try' \in [Workers -> Nat]
  BY <1>2 DEF SendInvariant, IInv, Shape, Tries
<1>5. \A q \in Replies : q # r => life'[q] = life[q]
  BY <1>1 DEF SettleReply, Queue!Succeed, Queue!FailAgain, Queue!GiveUp,
              SendInvariant, IInv, Shape
<1>6. \/ pc[w] = "sent" /\ life'[r].stage = "absent"
      \/ /\ pc[w] = "failed" /\ life'[r].stage \in {"waiting", "dead"}
         /\ life'[r].attempts = life[r].attempts + 1
  <2>1. CASE pc[w] = "sent" /\ Queue!Succeed(r)
    BY <1>3, <2>1 DEF Queue!Succeed, Queue!Absent, SendInvariant, IInv, Shape
  <2>2. CASE pc[w] = "failed" /\ (Queue!FailAgain(r) \/ Queue!GiveUp(r))
    <3>1. PICK s \in {"waiting", "dead"} :
            life' = [life EXCEPT ![r].stage = s, ![r].attempts = @ + 1]
      BY <2>2 DEF Queue!FailAgain, Queue!GiveUp
    <3>2. life'[r].stage = s /\ life'[r].attempts = life[r].attempts + 1
      BY <1>3, <3>1 DEF Queue!Life, SendInvariant, IInv, Shape
    <3> QED
      BY <2>2, <3>2
  <2> QED
    BY <1>1, <2>1, <2>2 DEF SettleReply
<1>7. \A v \in Workers : v # w /\ pc[v] \in Outgoing => job[v] \in Replies /\ job[v] # r
  BY <1>1, <1>2 DEF SendInvariant, IInv, Shape, Carried, Outgoing
<1>8. Tries'
  <2>1. ASSUME NEW q \in Replies, life'[q].stage = "running"
        PROVE  \E v \in Workers : pc'[v] \in Outgoing /\ job'[v] = q
    <3>1. q # r
      BY <1>6, <2>1
    <3>2. PICK v \in Workers : pc[v] \in Outgoing /\ job[v] = q
      BY <1>5, <2>1, <3>1 DEF SendInvariant, Tries
    <3> QED
      BY <1>1, <1>4, <3>1, <3>2
  <2>2. ASSUME NEW v \in Workers
        PROVE  /\ pc'[v] \in {"idle", "inbound", "claimed"} => try'[v] = 0
               /\ pc'[v] = "sending" => try'[v] < Retries
               /\ pc'[v] = "sent" => try'[v] < Retries
               /\ pc'[v] \in {"sending", "sent"} => ~message'[job'[v]].blank
               /\ pc'[v] = "failed" =>
                     try'[v] = IF message'[job'[v]].blank THEN 0 ELSE Retries
    <3>1. CASE v = w
      BY <1>4, <3>1
    <3>2. CASE v # w
      BY <1>2, <1>4, <2>2, <3>2 DEF SendInvariant, Tries
    <3> QED
      BY <3>1, <3>2
  <2> QED
    BY <1>2, <1>4, <2>1, <2>2 DEF SendInvariant, Tries, Retries
<1>9. Sends'
  <2>1. life'[r].stage \in {"waiting", "dead"} => sends'[r] = Sent(r, 0)'
    <3> SUFFICES ASSUME life'[r].stage \in {"waiting", "dead"}
                 PROVE  sends'[r] = Sent(r, 0)'
      OBVIOUS
    <3>1. pc[w] = "failed" /\ life'[r].attempts = life[r].attempts + 1
      BY <1>6
    <3>2. PICK a \in Nat : a = life[r].attempts
      BY <1>3 DEF Queue!Life
    <3>3. sends[r] = Sent(r, try[w])
      BY <1>1, <3>1 DEF SendInvariant, Sends, Outgoing
    <3>4. try[w] = IF message[r].blank THEN 0 ELSE Retries
      BY <1>1, <3>1 DEF SendInvariant, Tries
    <3>5. Retries * a + Retries = Retries * (a + 1) + 0
      BY RetriesPositive, <3>2
    <3>6. Retries' = Retries
      BY DEF Retries
    <3> QED
      BY <1>2, <3>1, <3>2, <3>3, <3>4, <3>5, <3>6 DEF Sent
  <2>2. ASSUME NEW q \in Replies
        PROVE  /\ life'[q].stage = "absent" /\ message'[q] = None => sends'[q] = 0
               /\ life'[q].stage \in {"waiting", "dead"} => sends'[q] = Sent(q, 0)'
    <3>1. CASE q = r
      BY <1>2, <1>3, <2>1, <3>1
    <3>2. CASE q # r
      BY <1>2, <1>5, <2>2, <3>2 DEF SendInvariant, Sends, Sent
    <3> QED
      BY <3>1, <3>2
  <2>3. ASSUME NEW v \in Workers, pc'[v] \in Outgoing
        PROVE  sends'[job'[v]] = Sent(job[v], IF pc[v] = "sent" THEN try[v] + 1 ELSE try[v])'
    <3>1. v # w
      BY <1>4, <2>3 DEF Outgoing
    <3>2. PICK q : q = job[v]
      OBVIOUS
    <3>3. /\ pc[v] \in Outgoing /\ pc'[v] = pc[v] /\ try'[v] = try[v]
          /\ job'[v] = q /\ q \in Replies /\ q # r
      BY <1>4, <1>7, <2>3, <3>1, <3>2
    <3>4. sends[q] = Sent(q, IF pc[v] = "sent" THEN try[v] + 1 ELSE try[v])
      BY <3>2, <3>3 DEF SendInvariant, Sends
    <3> QED
      BY <1>2, <1>5, <3>3, <3>4 DEF Sent
  <2> QED
    BY <2>2, <2>3 DEF Sends
<1> QED
  BY <1>8, <1>9

LEMMA SendStep == SendInvariant /\ [Next]_vars => SendInvariant'
<1> SUFFICES ASSUME SendInvariant, [Next]_vars PROVE (Tries /\ Sends)'
  BY InvStep DEF SendInvariant
<1>1. CASE Tick \/ UNCHANGED vars \/ \E h \in Webhooks : Webhook(h)
  <2>1. UNCHANGED <<replies, sends, pc, job, try>>
    BY <1>1 DEF Tick, Webhook, Ingest, NameTask, EnqueueEvent, EnqueueError, vars,
                workers, outbound
  <2> QED
    BY <2>1, SendBystander DEF SendInvariant, Tries
<1>2. ASSUME NEW r \in Replies, SubmitReply(r) PROVE (Tries /\ Sends)'
  BY <1>2, SubmitSends
<1>3. ASSUME NEW w \in Workers, NEW id \in InboundId, ClaimEvent(w, id)
      PROVE  (Tries /\ Sends)'
  <2>1. /\ pc[w] = "idle" /\ pc' = [pc EXCEPT ![w] = "inbound"]
        /\ job' = [job EXCEPT ![w] = id]
        /\ UNCHANGED <<replies, sends, try>>
    BY <1>3 DEF ClaimEvent, outbound
  <2> QED
    BY <2>1, SendBystander DEF SendInvariant, IInv, Shape, Tries, Outgoing
<1>4. ASSUME NEW w \in Workers, CompleteEvent(w) \/ RetryEvent(w)
      PROVE  (Tries /\ Sends)'
  <2>1. /\ pc[w] = "inbound" /\ pc' = [pc EXCEPT ![w] = "idle"]
        /\ job' = [job EXCEPT ![w] = None]
        /\ try' = [try EXCEPT ![w] = 0]
        /\ UNCHANGED <<replies, sends>>
    BY <1>4 DEF CompleteEvent, RetryEvent, LetGo, outbound
  <2> QED
    BY <2>1, SendBystander DEF SendInvariant, IInv, Shape, Tries, Outgoing
<1>5. ASSUME NEW w \in Workers, NEW r \in Replies, ClaimReply(w, r)
      PROVE  (Tries /\ Sends)'
  BY <1>5, ClaimSends
<1>6. ASSUME NEW w \in Workers, RefuseBlank(w) \/ SendOk(w) \/ SendFails(w) \/ SettleReply(w)
      PROVE  (Tries /\ Sends)'
  BY <1>6, RefuseSends, TurnSends, SettleSends
<1> QED
  BY <1>1, <1>2, <1>3, <1>4, <1>5, <1>6 DEF Next, Work

LEMMA SendInvariantHolds == Spec => []SendInvariant
<1>1. Init => SendInvariant
  BY InvInit, SendInit DEF SendInvariant
<1> QED
  BY <1>1, SendStep, PTL DEF Spec

\* The two retry loops multiply and no more: for any outbound_max_retries and
\* max_attempts, a reply that waits or is dead was attempted exactly Retries
\* times per failed claim, a blank one never, and a running one is within the
\* loop of its current claim.
THEOREM SendsBoundedHolds == Spec => []SendsBounded
<1>1. SendInvariant => SendsBounded
  <2> SUFFICES ASSUME SendInvariant, NEW r \in Replies
               PROVE  /\ life[r].stage \in {"waiting", "dead"} =>
                            sends[r] = IF message[r].blank THEN 0
                                       ELSE Retries * life[r].attempts
                      /\ life[r].stage = "running" =>
                            sends[r] <= Retries * (life[r].attempts + 1)
    BY DEF SendsBounded
  <2>1. PICK a \in Nat : a = life[r].attempts
    BY DEF SendInvariant, IInv, Shape, Queue!Life
  <2>2. PICK m : m = Retries
    OBVIOUS
  <2>3. m \in Nat /\ m > 0
    BY <2>2, RetriesPositive
  <2>4. m * a \in Nat /\ m * (a + 1) = m * a + m
    BY <2>1, <2>3
  <2>5. life[r].stage \in {"waiting", "dead"} =>
            sends[r] = IF message[r].blank THEN 0 ELSE m * a
    BY <2>1, <2>2, <2>4 DEF SendInvariant, Sends, Sent
  <2>6. ASSUME life[r].stage = "running" PROVE sends[r] <= m * (a + 1)
    <3>1. PICK w \in Workers : pc[w] \in Outgoing /\ job[w] = r
      BY <2>6 DEF SendInvariant, Tries
    <3>2. PICK n : n = IF pc[w] = "sent" THEN try[w] + 1 ELSE try[w]
      OBVIOUS
    <3>3. sends[r] = IF message[r].blank THEN 0 ELSE m * a + n
      BY <2>1, <2>2, <3>1, <3>2 DEF SendInvariant, Sends, Sent
    <3>4. try[w] \in Nat
      BY DEF SendInvariant, Tries
    <3>5. /\ pc[w] = "claimed" => try[w] = 0
          /\ pc[w] \in {"sending", "sent"} => try[w] < m
          /\ pc[w] = "failed" => try[w] = IF message[r].blank THEN 0 ELSE m
      BY <2>2, <3>1 DEF SendInvariant, Tries
    <3>6. n \in Nat /\ n <= m
      BY <2>3, <3>1, <3>2, <3>4, <3>5 DEF Outgoing
    <3> QED
      BY <2>3, <2>4, <3>3, <3>6
  <2> QED
    BY <2>1, <2>2, <2>5, <2>6
<1> QED
  BY <1>1, SendInvariantHolds, PTL

-----------------------------------------------------------------------------
(* Minutes of the clock.                                                   *)

LEMMA DivBounds ==
    ASSUME NEW m \in Nat \ {0}, NEW s \in Nat
    PROVE  /\ s \div m \in Nat
           /\ m * (s \div m) <= s
           /\ s < m * (s \div m) + m
BY Z3

LEMMA FactorsOrdered ==
    ASSUME NEW m \in Nat \ {0}, NEW p \in Nat, NEW q \in Nat, m * p < m * q
    PROVE  p < q
<1>1. CASE p >= q
  <2>1. PICK d \in Nat : p = q + d
    <3>1. p - q \in Nat /\ p = q + (p - q)
      BY <1>1
    <3> QED
      BY <3>1
  <2>2. m * (q + d) = m * q + m * d /\ m * d \in Nat /\ m * q \in Nat
    OBVIOUS
  <2> QED
    BY <2>1, <2>2
<1> QED
  BY <1>1

LEMMA DivMonotone ==
    ASSUME NEW m \in Nat \ {0}, NEW s \in Nat, NEW t \in Nat, s <= t
    PROVE  s \div m <= t \div m
<1>1. PICK p : p = s \div m
  OBVIOUS
<1>2. PICK q : q = t \div m
  OBVIOUS
<1>3. p \in Nat /\ q \in Nat /\ m * p <= s /\ t < m * q + m
  BY <1>1, <1>2, DivBounds
<1>4. m * (q + 1) = m * q + m /\ m * p \in Nat /\ m * q \in Nat
  BY <1>3
<1>5. p < q + 1
  BY <1>3, <1>4, FactorsOrdered
<1> QED
  BY <1>1, <1>2, <1>3, <1>5

\* A span of m seconds touches two minutes of m seconds at most.
LEMMA DivSpan ==
    ASSUME NEW m \in Nat \ {0}, NEW s \in Nat, NEW t \in s..(s + m - 1)
    PROVE  t \div m \in {s \div m, (s \div m) + 1}
<1>1. PICK p : p = s \div m
  OBVIOUS
<1>2. PICK q : q = t \div m
  OBVIOUS
<1>3. p \in Nat /\ q \in Nat /\ s < m * p + m /\ m * q <= t /\ t \in Nat
  BY <1>1, <1>2, DivBounds
<1>4. m * (p + 2) = m * p + m + m /\ m * p \in Nat /\ m * q \in Nat
  BY <1>3
<1>5. m * q < m * (p + 2)
  BY <1>3, <1>4
<1>6. q < p + 2
  BY <1>3, <1>5, FactorsOrdered
<1>7. p <= q
  BY <1>1, <1>2, <1>3, DivMonotone
<1> QED
  BY <1>1, <1>2, <1>3, <1>6, <1>7

-----------------------------------------------------------------------------
(* The inbound events: types.                                              *)

LEMMA InboundShapeInit == Init => InboundShape
<1> SUFFICES ASSUME Init PROVE InboundShape
  OBVIOUS
<1>1. now \in Second /\ calls \in 0..MaxCalls
  BY BridgeAssumption DEF Init, Second
<1>2. window \in [Bridges -> [minute : Nat, count : 0..U32Max]]
  BY BridgeAssumption DEF Init
<1>3. /\ inbox \in [InboundId -> InboundRow \cup {None}]
      /\ hook \in [Webhooks -> {Idle} \cup [stage : {"accepted", "named"}, event : Event]]
      /\ copy \in [Workers -> 0..MaxCalls]
  BY BridgeAssumption DEF Init
<1>4. \A w \in Workers : pc[w] = "idle" /\ job[w] = None
  BY DEF Init
<1>5. events \subseteq Event
  BY DEF Init
<1> QED
  BY <1>1, <1>2, <1>3, <1>4, <1>5 DEF InboundShape

LEMMA MinuteType ==
    ASSUME InboundShape
    PROVE  now \in Nat /\ now \div Minute \in Nat
<1>1. now \in Nat /\ Minute \in Nat \ {0}
  BY BridgeAssumption DEF InboundShape, Second
<1> QED
  BY <1>1, DivBounds

LEMMA CountNowType ==
    ASSUME InboundShape, NEW b \in Bridges
    PROVE  /\ CountNow(b) \in 0..U32Max
           /\ Increment(CountNow(b)) \in 0..U32Max
<1>1. CountNow(b) \in 0..U32Max
  BY BridgeAssumption DEF CountNow, InboundShape
<1> QED
  BY <1>1, BridgeAssumption DEF Increment

\* The workers' part of InboundShape, for a step that moves only worker w.
Goes(w, p, j, n) ==
    /\ pc' = [pc EXCEPT ![w] = p]
    /\ job' = [job EXCEPT ![w] = j]
    /\ copy' = [copy EXCEPT ![w] = n]
    /\ n \in 0..MaxCalls
    /\ p = "idle" <=> j = None
    /\ p = "inbound" => j \in InboundId /\ n \in 1..MaxCalls

LEMMA InboundWorkers ==
    ASSUME IInv, InboundShape, NEW w \in Workers, NEW p, NEW j, NEW n, Goes(w, p, j, n)
    PROVE  /\ copy' \in [Workers -> 0..MaxCalls]
           /\ \A v \in Workers :
                 /\ pc'[v] = "idle" <=> job'[v] = None
                 /\ pc'[v] = "inbound" => job'[v] \in InboundId /\ copy'[v] \in 1..MaxCalls
<1> USE DEF Goes
<1>1. copy' \in [Workers -> 0..MaxCalls]
  BY DEF InboundShape
<1>2. /\ pc'[w] = p /\ job'[w] = j /\ copy'[w] = n
      /\ \A v \in Workers : v # w => pc'[v] = pc[v] /\ job'[v] = job[v] /\ copy'[v] = copy[v]
  BY DEF InboundShape, IInv, Shape
<1> QED
  BY <1>1, <1>2 DEF InboundShape

LEMMA InboxWritten ==
    ASSUME InboundShape, NEW id \in InboundId, NEW row \in InboundRow \cup {None},
           inbox' = [inbox EXCEPT ![id] = row]
    PROVE  inbox' \in [InboundId -> InboundRow \cup {None}]
BY DEF InboundShape

LEMMA RowRunning ==
    ASSUME NEW row \in InboundRow, NEW running \in BOOLEAN
    PROVE  /\ [row EXCEPT !.running = running] \in InboundRow
           /\ [row EXCEPT !.running = running].event = row.event
BY DEF InboundRow

LEMMA InboundShapeStep ==
    ASSUME IInv, InboundShape, [Next]_vars
    PROVE  InboundShape'
<1> USE DEF hub, workers, inbound
<1>0. MaxCalls \in Nat /\ MaxNow \in Nat
  BY BridgeAssumption
<1>1. CASE Tick
  <2>1. now' \in Second /\ UNCHANGED <<calls, window, inbox, hook, copy, pc, job, events>>
    BY <1>0, <1>1 DEF Tick, InboundShape, Second
  <2> QED
    BY <2>1 DEF InboundShape
<1>2. ASSUME NEW h \in Webhooks, NEW b \in Bridges, Ingest(h, b) PROVE InboundShape'
  <2>1. PICK event : event = [n |-> calls + 1, bridge |-> b, at |-> now]
    OBVIOUS
  <2>2. /\ calls < MaxCalls /\ calls' = calls + 1
        /\ window' = [window EXCEPT ![b] = [minute |-> now \div Minute,
                                            count  |-> Increment(CountNow(b))]]
        /\ UNCHANGED <<now, inbox, copy, pc, job>>
    BY <1>2 DEF Ingest
  <2>3. calls + 1 \in 1..MaxCalls /\ calls' \in 0..MaxCalls
    BY <1>0, <2>2 DEF InboundShape
  <2>4. event \in Event
    BY <2>1, <2>3 DEF Event, InboundShape
  <2>5. /\ hook' = hook \/ hook' = [hook EXCEPT ![h] = [stage |-> "accepted", event |-> event]]
        /\ events' = events \/ events' = events \cup {event}
    BY <1>2, <2>1 DEF Ingest
  <2>6. hook' \in [Webhooks -> {Idle} \cup [stage : {"accepted", "named"}, event : Event]]
    BY <2>4, <2>5 DEF InboundShape
  <2>7. events' \subseteq Event
    BY <2>4, <2>5 DEF InboundShape
  <2>8. window' \in [Bridges -> [minute : Nat, count : 0..U32Max]]
    BY <2>2, MinuteType, CountNowType DEF InboundShape
  <2> QED
    BY <2>2, <2>3, <2>6, <2>7, <2>8 DEF InboundShape
<1>3. ASSUME NEW h \in Webhooks, NameTask(h) PROVE InboundShape'
  <2>1. /\ hook[h].stage = "accepted"
        /\ hook' = [hook EXCEPT ![h] =
                      [stage |-> "named", event |-> [hook[h].event EXCEPT !.at = now]]]
        /\ UNCHANGED <<now, calls, window, inbox, copy, pc, job, events>>
    BY <1>3 DEF NameTask
  <2>2. hook[h].event \in Event
    BY <2>1 DEF InboundShape, Idle
  <2>3. [hook[h].event EXCEPT !.at = now] \in Event
    BY <2>2 DEF Event, InboundShape
  <2>4. hook' \in [Webhooks -> {Idle} \cup [stage : {"accepted", "named"}, event : Event]]
    BY <2>1, <2>3 DEF InboundShape
  <2> QED
    BY <2>1, <2>4 DEF InboundShape
<1>4. ASSUME NEW h \in Webhooks, EnqueueEvent(h) \/ EnqueueError(h) PROVE InboundShape'
  <2>1. /\ hook[h].stage = "named"
        /\ hook' = [hook EXCEPT ![h] = Idle]
        /\ UNCHANGED <<now, calls, window, copy, pc, job, events>>
    BY <1>4 DEF EnqueueEvent, EnqueueError
  <2>2. PICK event : event = hook[h].event
    OBVIOUS
  <2>3. event \in Event
    BY <2>1, <2>2 DEF InboundShape, Idle
  <2>4. <<event.bridge, event.at>> \in InboundId /\ event.n \in 1..MaxCalls
    BY <2>3 DEF Event, InboundId
  <2>5. inbox' = inbox \/ inbox' = [inbox EXCEPT ![<<event.bridge, event.at>>] =
                                        [event |-> event.n, running |-> FALSE]]
    BY <1>4, <2>2 DEF EnqueueEvent, EnqueueError, TaskIdOf
  <2>6. inbox' \in [InboundId -> InboundRow \cup {None}]
    <3>1. [event |-> event.n, running |-> FALSE] \in InboundRow
      BY <2>4 DEF InboundRow
    <3> QED
      BY <2>4, <2>5, <3>1, InboxWritten DEF InboundShape
  <2>7. hook' \in [Webhooks -> {Idle} \cup [stage : {"accepted", "named"}, event : Event]]
    BY <2>1 DEF InboundShape
  <2> QED
    BY <2>1, <2>6, <2>7 DEF InboundShape
<1>5. ASSUME NEW w \in Workers, NEW id \in InboundId, ClaimEvent(w, id) PROVE InboundShape'
  <2>1. /\ inbox[id] # None
        /\ inbox' = [inbox EXCEPT ![id].running = TRUE]
        /\ pc' = [pc EXCEPT ![w] = "inbound"]
        /\ job' = [job EXCEPT ![w] = id]
        /\ copy' = [copy EXCEPT ![w] = inbox[id].event]
        /\ UNCHANGED <<now, calls, window, hook, events>>
    BY <1>5 DEF ClaimEvent
  <2>2. inbox[id] \in InboundRow /\ inbox[id].event \in 1..MaxCalls
    BY <2>1 DEF InboundShape, InboundRow
  <2>3. inbox' \in [InboundId -> InboundRow \cup {None}]
    BY <2>1, <2>2, RowRunning, InboxWritten
  <2>4. /\ copy' \in [Workers -> 0..MaxCalls]
        /\ \A v \in Workers :
              /\ pc'[v] = "idle" <=> job'[v] = None
              /\ pc'[v] = "inbound" => job'[v] \in InboundId /\ copy'[v] \in 1..MaxCalls
    <3>1. id # None /\ inbox[id].event \in 0..MaxCalls
      BY <2>2, NoneAssumption, BridgeAssumption
    <3>2. Goes(w, "inbound", id, inbox[id].event)
      BY <2>1, <2>2, <3>1 DEF Goes
    <3> QED
      BY <3>2, InboundWorkers
  <2> QED
    BY <2>1, <2>3, <2>4 DEF InboundShape
<1>6. ASSUME NEW w \in Workers, CompleteEvent(w) \/ RetryEvent(w) PROVE InboundShape'
  <2>1. /\ pc[w] = "inbound"
        /\ pc' = [pc EXCEPT ![w] = "idle"]
        /\ job' = [job EXCEPT ![w] = None]
        /\ copy' = [copy EXCEPT ![w] = 0]
        /\ UNCHANGED <<now, calls, window, hook, events>>
    BY <1>6 DEF CompleteEvent, RetryEvent, LetGo
  <2>2. PICK id \in InboundId : id = job[w]
    BY <2>1 DEF InboundShape
  <2>3. \/ inbox' = [inbox EXCEPT ![id] = None]
        \/ inbox' = inbox
        \/ inbox[id] # None /\ inbox' = [inbox EXCEPT ![id].running = FALSE]
    BY <1>6, <2>2 DEF CompleteEvent, RetryEvent
  <2>4. inbox' \in [InboundId -> InboundRow \cup {None}]
    <3>1. CASE inbox' = [inbox EXCEPT ![id] = None] \/ inbox' = inbox
      BY <3>1 DEF InboundShape
    <3>2. CASE inbox[id] # None /\ inbox' = [inbox EXCEPT ![id].running = FALSE]
      <4>1. inbox[id] \in InboundRow
        BY <3>2 DEF InboundShape
      <4> QED
        BY <3>2, <4>1, RowRunning, InboxWritten
    <3> QED
      BY <2>3, <3>1, <3>2
  <2>5. /\ copy' \in [Workers -> 0..MaxCalls]
        /\ \A v \in Workers :
              /\ pc'[v] = "idle" <=> job'[v] = None
              /\ pc'[v] = "inbound" => job'[v] \in InboundId /\ copy'[v] \in 1..MaxCalls
    <3>1. Goes(w, "idle", None, 0)
      BY <1>0, <2>1 DEF Goes
    <3> QED
      BY <3>1, InboundWorkers
  <2> QED
    BY <2>1, <2>4, <2>5 DEF InboundShape
<1>7. ASSUME NEW w \in Workers, NEW r \in Replies, ClaimReply(w, r) PROVE InboundShape'
  <2>1. /\ pc' = [pc EXCEPT ![w] = "claimed"]
        /\ job' = [job EXCEPT ![w] = r]
        /\ UNCHANGED <<now, calls, window, inbox, hook, copy, events>>
    BY <1>7 DEF ClaimReply
  <2>2. copy' = [copy EXCEPT ![w] = copy[w]] /\ copy[w] \in 0..MaxCalls
    BY <2>1 DEF InboundShape
  <2>3. \A v \in Workers :
           /\ pc'[v] = "idle" <=> job'[v] = None
           /\ pc'[v] = "inbound" => job'[v] \in InboundId /\ copy'[v] \in 1..MaxCalls
    <3>1. Goes(w, "claimed", r, copy[w])
      BY <2>1, <2>2, NoneAssumption DEF Goes
    <3> QED
      BY <3>1, InboundWorkers
  <2> QED
    BY <2>1, <2>3 DEF InboundShape
<1>8. ASSUME NEW w \in Workers, RefuseBlank(w) \/ SendOk(w) \/ SendFails(w)
      PROVE  InboundShape'
  <2>1. /\ pc[w] \in Outgoing
        /\ \E p \in Outgoing : pc' = [pc EXCEPT ![w] = p]
        /\ UNCHANGED <<now, calls, window, inbox, hook, job, copy, events>>
    BY <1>8 DEF RefuseBlank, SendOk, SendFails, CanSend, Outgoing
  <2>2. \A v \in Workers :
           /\ pc'[v] = "idle" <=> pc[v] = "idle"
           /\ pc'[v] = "inbound" <=> pc[v] = "inbound"
    BY <2>1 DEF IInv, Shape, Outgoing
  <2> QED
    BY <2>1, <2>2 DEF InboundShape
<1>9. ASSUME NEW w \in Workers, SettleReply(w) PROVE InboundShape'
  <2>1. /\ pc' = [pc EXCEPT ![w] = "idle"]
        /\ job' = [job EXCEPT ![w] = None]
        /\ copy' = [copy EXCEPT ![w] = 0]
        /\ UNCHANGED <<now, calls, window, inbox, hook, events>>
    BY <1>9 DEF SettleReply, LetGo
  <2>2. /\ copy' \in [Workers -> 0..MaxCalls]
        /\ \A v \in Workers :
              /\ pc'[v] = "idle" <=> job'[v] = None
              /\ pc'[v] = "inbound" => job'[v] \in InboundId /\ copy'[v] \in 1..MaxCalls
    <3>1. Goes(w, "idle", None, 0)
      BY <1>0, <2>1 DEF Goes
    <3> QED
      BY <3>1, InboundWorkers
  <2> QED
    BY <2>1, <2>2 DEF InboundShape
<1>10. CASE UNCHANGED vars \/ \E r \in Replies : SubmitReply(r)
  <2>1. UNCHANGED <<now, calls, window, inbox, hook, copy, pc, job, events>>
    BY <1>10 DEF vars, SubmitReply
  <2> QED
    BY <2>1 DEF InboundShape
<1> QED
  BY <1>1, <1>2, <1>3, <1>4, <1>5, <1>6, <1>7, <1>8, <1>9, <1>10 DEF Next, Webhook, Work

-----------------------------------------------------------------------------
(* The rate limit.                                                         *)

LEMMA NobodyCounted == IsFiniteSet({}) /\ Cardinality({}) = 0
BY FS_EmptySet

LEMMA WindowsInit == Init => Windows
<1> SUFFICES ASSUME Init PROVE Windows
  OBVIOUS
<1>1. events = {} /\ IsFiniteSet(events)
  BY NobodyCounted DEF Init
<1>2. \A b \in Bridges : window[b].minute = 0 /\ window[b].count = 0
  BY DEF Init
<1>3. now \div Minute \in Nat
  BY BridgeAssumption, DivBounds DEF Init
<1>4. \A b, minute : LetInAt(b, minute) = {}
  BY <1>1 DEF LetInAt
<1>5. Limit \in Nat
  BY BridgeAssumption
<1>6. ASSUME NEW b \in Bridges, NEW minute \in Nat
      PROVE  /\ minute < window[b].minute => Cardinality(LetInAt(b, minute)) <= Limit
             /\ minute = window[b].minute =>
                   Cardinality(LetInAt(b, minute)) =
                       IF window[b].count <= Limit THEN window[b].count ELSE Limit
             /\ minute > window[b].minute => LetInAt(b, minute) = {}
  <2>1. LetInAt(b, minute) = {} /\ Cardinality(LetInAt(b, minute)) = 0
    BY <1>4, NobodyCounted
  <2>2. Cardinality(LetInAt(b, minute)) <= Limit
    BY <1>5, <2>1
  <2>3. window[b].count = 0 /\ 0 <= Limit
    BY <1>2, <1>5
  <2> QED
    BY <2>1, <2>2, <2>3
<1>7. \A b \in Bridges : window[b].minute <= now \div Minute
  BY <1>2, <1>3
<1> QED
  BY <1>1, <1>6, <1>7 DEF Windows

\* The count the hub reads is that of the events of this minute.
LEMMA CountIs ==
    ASSUME InboundShape, Windows, NEW b \in Bridges
    PROVE  Cardinality(LetInAt(b, now \div Minute)) =
               IF CountNow(b) <= Limit THEN CountNow(b) ELSE Limit
<1>1. PICK m \in Nat : m = now \div Minute
  BY MinuteType
<1>2. window[b].minute \in Nat /\ window[b].minute <= m /\ Limit \in Nat
  BY <1>1, BridgeAssumption DEF InboundShape, Windows
<1>3. CASE window[b].minute = m
  BY <1>1, <1>3 DEF CountNow, Windows
<1>4. CASE window[b].minute # m
  <2>1. LetInAt(b, m) = {}
    BY <1>2, <1>4 DEF Windows
  <2> QED
    BY <1>1, <1>2, <1>4, <2>1, NobodyCounted DEF CountNow
<1> QED
  BY <1>3, <1>4

\* No minute before this one, nor this one, is over the limit.
LEMMA LimitKept ==
    ASSUME InboundShape, Windows, NEW b \in Bridges, NEW minute \in Nat
    PROVE  Cardinality(LetInAt(b, minute)) <= Limit
<1>1. window[b].minute \in Nat /\ window[b].count \in Nat /\ Limit \in Nat
  BY BridgeAssumption DEF InboundShape
<1>2. CASE minute < window[b].minute
  BY <1>2 DEF Windows
<1>3. CASE minute = window[b].minute
  BY <1>1, <1>3 DEF Windows
<1>4. CASE minute > window[b].minute
  <2>1. LetInAt(b, minute) = {}
    BY <1>4 DEF Windows
  <2> QED
    BY <1>1, <2>1, NobodyCounted
<1> QED
  BY <1>1, <1>2, <1>3, <1>4

LEMMA IngestWindows ==
    ASSUME InboundShape, Windows, NEW h \in Webhooks, NEW b \in Bridges, Ingest(h, b)
    PROVE  Windows'
<1>1. PICK m \in Nat : m = now \div Minute
  BY MinuteType
<1>2. PICK event : event = [n |-> calls + 1, bridge |-> b, at |-> now]
  OBVIOUS
<1>3. PICK old : old = CountNow(b)
  OBVIOUS
<1>4. PICK count : count = Increment(old)
  OBVIOUS
<1>5. /\ calls' = calls + 1 /\ now' = now
      /\ window' = [window EXCEPT ![b] = [minute |-> m, count |-> count]]
      /\ IF count > Limit THEN events' = events ELSE events' = events \cup {event}
  BY <1>1, <1>2, <1>3, <1>4 DEF Ingest
<1>6. /\ now \in Nat /\ calls \in Nat /\ old \in 0..U32Max /\ count \in 0..U32Max
      /\ U32Max \in Nat /\ Limit \in 0..(U32Max - 1)
  BY <1>3, <1>4, MinuteType, CountNowType, BridgeAssumption DEF InboundShape
<1>7. /\ \A e \in events : e.n <= calls /\ e.at <= now /\ e.n \in Nat /\ e.at \in Nat
      /\ IsFiniteSet(events) /\ event \notin events
  BY <1>2, <1>6 DEF Windows, InboundShape, Event, Second
<1>8. IsFiniteSet(events') /\ \A e \in events' : e.n <= calls' /\ e.at <= now'
  <2>1. IsFiniteSet(events')
    BY <1>5, <1>7, FS_AddElement
  <2>2. ASSUME NEW e \in events' PROVE e.n <= calls' /\ e.at <= now'
    BY <1>2, <1>5, <1>6, <1>7, <2>2
  <2> QED
    BY <2>1, <2>2
<1>9. ASSUME NEW c \in Bridges
      PROVE  /\ window'[c].minute <= m
             /\ \A minute \in Nat :
                   /\ minute < window'[c].minute =>
                         Cardinality(LetInAt(c, minute)') <= Limit
                   /\ minute = window'[c].minute =>
                         Cardinality(LetInAt(c, minute)') =
                             IF window'[c].count <= Limit THEN window'[c].count ELSE Limit
                   /\ minute > window'[c].minute => LetInAt(c, minute)' = {}
  <2>1. CASE c # b
    <3>1. window'[c] = window[c]
      BY <1>5, <2>1 DEF InboundShape
    <3>2. \A minute \in Nat : LetInAt(c, minute)' = LetInAt(c, minute)
      BY <1>2, <1>5, <2>1 DEF LetInAt
    <3>3. window[c].minute <= m
      BY <1>1 DEF Windows
    <3> QED
      BY <3>1, <3>2, <3>3 DEF Windows
  <2>2. CASE c = b
    <3>1. window'[b].minute = m /\ window'[b].count = count
      BY <1>5 DEF InboundShape
    <3>2. ASSUME NEW minute \in Nat, minute # m
          PROVE  LetInAt(b, minute)' = LetInAt(b, minute)
      BY <1>1, <1>2, <1>5, <3>2 DEF LetInAt
    <3>3. ASSUME NEW minute \in Nat, minute < m
          PROVE  Cardinality(LetInAt(b, minute)') <= Limit
      BY <3>2, <3>3, LimitKept
    <3>4. Cardinality(LetInAt(b, m)') = IF count <= Limit THEN count ELSE Limit
      <4>1. Cardinality(LetInAt(b, m)) = IF old <= Limit THEN old ELSE Limit
        BY <1>1, <1>3, CountIs
      <4>2. CASE count > Limit
        <5>1. LetInAt(b, m)' = LetInAt(b, m)
          BY <1>5, <4>2 DEF LetInAt
        <5>2. old >= Limit
          BY <1>4, <1>6, <4>2 DEF Increment
        <5> QED
          BY <1>6, <4>1, <4>2, <5>1, <5>2
      <4>3. CASE count <= Limit
        <5>1. count = old + 1 /\ old <= Limit
          BY <1>4, <1>6, <4>3 DEF Increment
        <5>2. LetInAt(b, m)' = LetInAt(b, m) \cup {event}
          <6>1. events' = events \cup {event}
            BY <1>5, <1>6, <4>3
          <6>2. event.bridge = b /\ event.at \div Minute = m
            BY <1>1, <1>2
          <6> QED
            BY <6>1, <6>2 DEF LetInAt
        <5>3. event \notin LetInAt(b, m) /\ IsFiniteSet(LetInAt(b, m))
          BY <1>7, FS_Subset DEF LetInAt
        <5> QED
          BY <4>1, <4>3, <5>1, <5>2, <5>3, FS_AddElement
      <4> QED
        BY <1>6, <4>2, <4>3
    <3>5. ASSUME NEW minute \in Nat, minute > m PROVE LetInAt(b, minute)' = {}
      <4>1. window[b].minute \in Nat /\ window[b].minute <= m
        BY <1>1 DEF InboundShape, Windows
      <4> QED
        BY <3>2, <3>5, <4>1 DEF Windows
    <3> QED
      BY <1>1, <2>2, <3>1, <3>3, <3>4, <3>5
  <2> QED
    BY <2>1, <2>2
<1>10. Limit' = Limit /\ Minute' = Minute
  OBVIOUS
<1> QED
  BY <1>1, <1>5, <1>8, <1>9, <1>10 DEF Windows

LEMMA WindowsStep ==
    ASSUME IInv, InboundShape, Windows, [Next]_vars
    PROVE  Windows'
<1>1. CASE Tick
  <2>1. now \in Nat /\ now' = now + 1 /\ UNCHANGED <<calls, window, events>>
    BY <1>1, MinuteType DEF Tick, hub, inbound
  <2>2. now \div Minute <= now' \div Minute
    BY <2>1, BridgeAssumption, DivMonotone
  <2>3. now \div Minute \in Nat /\ now' \div Minute \in Nat
    BY <2>1, BridgeAssumption, DivBounds
  <2>4. \A e \in events' : e.n <= calls' /\ e.at <= now'
    BY <2>1 DEF Windows, InboundShape, Event, Second
  <2>5. \A b \in Bridges : window'[b].minute <= now' \div Minute
    BY <2>1, <2>2, <2>3 DEF Windows, InboundShape
  <2>6. \A b, minute : LetInAt(b, minute)' = LetInAt(b, minute)
    BY <2>1 DEF LetInAt
  <2> QED
    BY <2>1, <2>4, <2>5, <2>6 DEF Windows
<1>2. ASSUME NEW h \in Webhooks, NEW b \in Bridges, Ingest(h, b) PROVE Windows'
  BY <1>2, IngestWindows
<1>3. ASSUME UNCHANGED <<now, calls, window, events>> PROVE Windows'
  <2>1. \A b, minute : LetInAt(b, minute)' = LetInAt(b, minute)
    BY <1>3 DEF LetInAt
  <2> QED
    BY <1>3, <2>1 DEF Windows
<1>4. ASSUME NEW h \in Webhooks, NameTask(h) \/ EnqueueEvent(h) \/ EnqueueError(h)
      PROVE  Windows'
  BY <1>3, <1>4 DEF NameTask, EnqueueEvent, EnqueueError, hub, inbound
<1>5. ASSUME NEW w \in Workers, Work(w) PROVE Windows'
  BY <1>3, <1>5 DEF Work, ClaimEvent, CompleteEvent, RetryEvent, ClaimReply, RefuseBlank,
                    SendOk, SendFails, SettleReply, hub, inbound
<1>6. ASSUME NEW r \in Replies, SubmitReply(r) PROVE Windows'
  BY <1>3, <1>6 DEF SubmitReply, hub, inbound
<1>7. CASE UNCHANGED vars
  BY <1>3, <1>7 DEF vars, hub, inbound
<1> QED
  BY <1>1, <1>2, <1>4, <1>5, <1>6, <1>7 DEF Next, Webhook

-----------------------------------------------------------------------------
(* What becomes of the events that were queued.                            *)

\* EventsKept, of one task id.
Kept(b, s) ==
    (\E q \in queued : q.bridge = b /\ q.at = s) =>
        \E q \in queued : /\ q.bridge = b /\ q.at = s
                          /\ \/ q.n \in handled
                             \/ inbox[q.id] # None /\ inbox[q.id].event = q.n

LEMMA KeptIsEventsKept == EventsKept <=> \A b \in Bridges, s \in Second : Kept(b, s)
BY DEF EventsKept, Kept

LEMMA FollowedInit == Init => Followed /\ EventsKept
<1> SUFFICES ASSUME Init PROVE Followed /\ EventsKept
  OBVIOUS
<1>1. queued = {} /\ \A id \in InboundId : inbox[id] = None
  BY DEF Init
<1>2. \A w \in Workers : pc[w] = "idle"
  BY DEF Init
<1>3. Followed
  BY <1>1, <1>2 DEF Followed
<1>4. \A b \in Bridges, s \in Second : Kept(b, s)
  BY <1>1 DEF Kept
<1> QED
  BY <1>3, <1>4, KeptIsEventsKept

\* Nothing happens to the inbox.
LEMMA FollowedBystander ==
    ASSUME Followed, EventsKept, UNCHANGED <<inbox, queued, handled>>,
           \A w \in Workers : pc'[w] = "inbound" =>
               pc[w] = "inbound" /\ UNCHANGED <<job[w], copy[w]>>
    PROVE  (Followed /\ EventsKept)'
<1>1. Followed'
  BY DEF Followed, QueuedUnder
<1>2. \A b \in Bridges, s \in Second : Kept(b, s)'
  BY KeptIsEventsKept DEF Kept
<1> QED
  BY <1>1, <1>2, KeptIsEventsKept DEF EventsKept, Kept

LEMMA EnqueueFollowed ==
    ASSUME IInv, InboundShape, Followed, EventsKept, NEW h \in Webhooks, EnqueueEvent(h)
    PROVE  (Followed /\ EventsKept)'
<1>1. PICK event : event = hook[h].event
  OBVIOUS
<1>2. PICK id : id = <<event.bridge, event.at>>
  OBVIOUS
<1>3. PICK new : new = [n |-> event.n, bridge |-> event.bridge, at |-> event.at, id |-> id]
  OBVIOUS
<1>4. PICK row : row = [event |-> event.n, running |-> FALSE]
  OBVIOUS
<1>5. /\ hook[h].stage = "named"
      /\ inbox' = [inbox EXCEPT ![id] = row]
      /\ queued' = queued \cup {new}
      /\ UNCHANGED <<pc, job, copy, handled>>
  BY <1>1, <1>2, <1>3, <1>4 DEF EnqueueEvent, TaskIdOf, workers
<1>6. event \in Event
  BY <1>1, <1>5 DEF InboundShape, Idle
<1>7. id \in InboundId /\ row \in InboundRow /\ row # None
  <2>1. event.bridge \in Bridges /\ event.at \in Second /\ event.n \in 1..MaxCalls
    BY <1>6 DEF Event
  <2>2. id \in InboundId
    BY <1>2, <2>1 DEF InboundId
  <2>3. row \in InboundRow
    BY <1>4, <2>1 DEF InboundRow
  <2> QED
    BY <2>2, <2>3, NoneAssumption
<1>8. /\ inbox'[id] = row
      /\ \A other \in InboundId : other # id => inbox'[other] = inbox[other]
  BY <1>5, <1>7 DEF InboundShape
<1>9. Followed'
  <2>1. \A q \in queued' : q.id = <<q.bridge, q.at>>
    BY <1>2, <1>3, <1>5 DEF Followed
  <2>2. QueuedUnder(id, row.event)'
    BY <1>2, <1>3, <1>4, <1>5 DEF QueuedUnder
  <2>3. ASSUME NEW other \in InboundId, inbox'[other] # None
        PROVE  QueuedUnder(other, inbox[other].event)'
    <3>1. CASE other = id
      BY <1>8, <2>2, <3>1 DEF QueuedUnder
    <3>2. CASE other # id
      BY <1>5, <1>8, <2>3, <3>2 DEF Followed, QueuedUnder
    <3> QED
      BY <3>1, <3>2
  <2>4. ASSUME NEW w \in Workers, pc'[w] = "inbound" PROVE QueuedUnder(job[w], copy[w])'
    BY <1>5, <2>4 DEF Followed, QueuedUnder
  <2> QED
    BY <2>1, <2>3, <2>4 DEF Followed
<1>10. ASSUME NEW b \in Bridges, NEW s \in Second PROVE Kept(b, s)'
  <2>1. CASE <<b, s>> = id
    <3>1. new \in queued' /\ new.bridge = b /\ new.at = s /\ new.id = id /\ new.n = row.event
      BY <1>2, <1>3, <1>4, <1>5, <2>1
    <3> QED
      BY <1>7, <1>8, <3>1 DEF Kept
  <2>2. CASE <<b, s>> # id
    <3>1. \A q \in queued' : q.bridge = b /\ q.at = s => q \in queued /\ q.id = <<b, s>>
      BY <1>2, <1>3, <1>5, <2>2 DEF Followed
    <3>2. <<b, s>> \in InboundId /\ inbox'[<<b, s>>] = inbox[<<b, s>>]
      BY <1>8, <2>2 DEF InboundId
    <3>3. Kept(b, s)
      BY KeptIsEventsKept
    <3> QED
      BY <1>5, <3>1, <3>2, <3>3 DEF Kept
  <2> QED
    BY <2>1, <2>2
<1> QED
  BY <1>9, <1>10, KeptIsEventsKept DEF EventsKept, Kept

\* A row keeps its event whatever its status becomes.
LEMMA StatusFollowed ==
    ASSUME InboundShape, InboundShape', Followed, EventsKept, NEW id \in InboundId,
           NEW running \in BOOLEAN, inbox[id] # None,
           inbox' = [inbox EXCEPT ![id].running = running],
           UNCHANGED <<queued, handled>>,
           \A w \in Workers : pc'[w] = "inbound" => QueuedUnder(job'[w], copy'[w])
    PROVE  (Followed /\ EventsKept)'
<1>1. inbox[id] \in InboundRow
  BY DEF InboundShape
<1>2. /\ inbox'[id] # None /\ inbox'[id].event = inbox[id].event
      /\ \A other \in InboundId : other # id => inbox'[other] = inbox[other]
  <2>1. PICK row : row = [inbox[id] EXCEPT !.running = running]
    OBVIOUS
  <2>2. row \in InboundRow /\ row.event = inbox[id].event /\ row # None
    BY <1>1, <2>1, RowRunning, NoneAssumption
  <2>3. inbox' = [inbox EXCEPT ![id] = row]
    BY <2>1
  <2> QED
    BY <2>2, <2>3 DEF InboundShape
<1>3. \A other \in InboundId :
         /\ inbox'[other] # None <=> inbox[other] # None
         /\ inbox[other] # None => inbox'[other].event = inbox[other].event
  BY <1>2
<1>4. Followed'
  BY <1>3 DEF Followed, QueuedUnder
<1>5. ASSUME NEW b \in Bridges, NEW s \in Second PROVE Kept(b, s)'
  <2>1. Kept(b, s)
    BY KeptIsEventsKept
  <2>2. \A q \in queued : q.bridge = b /\ q.at = s => q.id = <<b, s>>
    BY DEF Followed
  <2>3. <<b, s>> \in InboundId
    BY DEF InboundId
  <2> QED
    BY <1>3, <2>1, <2>2, <2>3 DEF Kept
<1> QED
  BY <1>4, <1>5, KeptIsEventsKept DEF EventsKept, Kept

LEMMA CompleteFollowed ==
    ASSUME IInv, InboundShape, Followed, EventsKept, NEW w \in Workers, CompleteEvent(w)
    PROVE  (Followed /\ EventsKept)'
<1>1. PICK id \in InboundId : id = job[w]
  BY DEF CompleteEvent, InboundShape
<1>2. /\ pc[w] = "inbound"
      /\ inbox' = [inbox EXCEPT ![id] = None]
      /\ handled' = handled \cup {copy[w]}
      /\ pc' = [pc EXCEPT ![w] = "idle"]
      /\ job' = [job EXCEPT ![w] = None]
      /\ copy' = [copy EXCEPT ![w] = 0]
      /\ queued' = queued
  BY <1>1 DEF CompleteEvent, LetGo
<1>3. PICK q \in queued : q.bridge = id[1] /\ q.at = id[2] /\ q.n = copy[w]
  BY <1>1, <1>2 DEF Followed, QueuedUnder
<1>4. /\ inbox'[id] = None
      /\ \A other \in InboundId : other # id => inbox'[other] = inbox[other]
  BY <1>2 DEF InboundShape
<1>5. \A v \in Workers : pc'[v] = "inbound" =>
         pc[v] = "inbound" /\ job'[v] = job[v] /\ copy'[v] = copy[v]
  BY <1>2 DEF IInv, Shape, InboundShape
<1>6. Followed'
  BY <1>2, <1>4, <1>5 DEF Followed, QueuedUnder
<1>7. ASSUME NEW b \in Bridges, NEW s \in Second PROVE Kept(b, s)'
  <2>1. CASE <<b, s>> = id
    BY <1>2, <1>3, <2>1 DEF Kept
  <2>2. CASE <<b, s>> # id
    <3>1. \A p \in queued : p.bridge = b /\ p.at = s => p.id = <<b, s>>
      BY DEF Followed
    <3>2. <<b, s>> \in InboundId /\ inbox'[<<b, s>>] = inbox[<<b, s>>]
      BY <1>4, <2>2 DEF InboundId
    <3>3. Kept(b, s)
      BY KeptIsEventsKept
    <3> QED
      BY <1>2, <3>1, <3>2, <3>3 DEF Kept
  <2> QED
    BY <2>1, <2>2
<1> QED
  BY <1>6, <1>7, KeptIsEventsKept DEF EventsKept, Kept

LEMMA FollowedStep ==
    ASSUME IInv, InboundShape, InboundShape', Followed, EventsKept, [Next]_vars
    PROVE  (Followed /\ EventsKept)'
<1> USE DEF workers, inbound
<1>1. ASSUME NEW h \in Webhooks, EnqueueEvent(h) PROVE (Followed /\ EventsKept)'
  BY <1>1, EnqueueFollowed
<1>2. ASSUME NEW w \in Workers, NEW id \in InboundId, ClaimEvent(w, id)
      PROVE  (Followed /\ EventsKept)'
  <2>1. /\ inbox[id] # None
        /\ inbox' = [inbox EXCEPT ![id].running = TRUE]
        /\ pc' = [pc EXCEPT ![w] = "inbound"]
        /\ job' = [job EXCEPT ![w] = id]
        /\ copy' = [copy EXCEPT ![w] = inbox[id].event]
        /\ UNCHANGED <<queued, handled>>
    BY <1>2 DEF ClaimEvent
  <2>2. QueuedUnder(id, inbox[id].event)
    BY <2>1 DEF Followed
  <2>3. ASSUME NEW v \in Workers, pc'[v] = "inbound" PROVE QueuedUnder(job'[v], copy'[v])
    <3>1. CASE v = w
      BY <2>1, <2>2, <3>1 DEF IInv, Shape, InboundShape
    <3>2. CASE v # w
      BY <2>1, <2>3, <3>2 DEF IInv, Shape, InboundShape, Followed
    <3> QED
      BY <3>1, <3>2
  <2> QED
    BY <2>1, <2>3, StatusFollowed
<1>3. ASSUME NEW w \in Workers, CompleteEvent(w) PROVE (Followed /\ EventsKept)'
  BY <1>3, CompleteFollowed
<1>4. ASSUME NEW w \in Workers, RetryEvent(w) PROVE (Followed /\ EventsKept)'
  <2>1. PICK id \in InboundId : id = job[w]
    BY <1>4 DEF RetryEvent, InboundShape
  <2>2. /\ inbox' = IF inbox[id] = None THEN inbox
                    ELSE [inbox EXCEPT ![id].running = FALSE]
        /\ pc' = [pc EXCEPT ![w] = "idle"]
        /\ job' = [job EXCEPT ![w] = None]
        /\ copy' = [copy EXCEPT ![w] = 0]
        /\ UNCHANGED <<queued, handled>>
    BY <1>4, <2>1 DEF RetryEvent, LetGo
  <2>3. \A v \in Workers : pc'[v] = "inbound" =>
           pc[v] = "inbound" /\ job'[v] = job[v] /\ copy'[v] = copy[v]
    BY <2>2 DEF IInv, Shape, InboundShape
  <2>4. CASE inbox[id] = None
    BY <2>2, <2>3, <2>4, FollowedBystander
  <2>5. CASE inbox[id] # None
    <3>1. \A v \in Workers : pc'[v] = "inbound" => QueuedUnder(job'[v], copy'[v])
      BY <2>3 DEF Followed
    <3> QED
      BY <2>2, <2>5, <3>1, StatusFollowed
  <2> QED
    BY <2>4, <2>5
<1>5. ASSUME NEW w \in Workers, NEW r \in Replies, ClaimReply(w, r)
      PROVE  (Followed /\ EventsKept)'
  <2>1. /\ pc' = [pc EXCEPT ![w] = "claimed"] /\ job' = [job EXCEPT ![w] = r]
        /\ UNCHANGED <<inbox, queued, handled, copy>>
    BY <1>5 DEF ClaimReply
  <2>2. \A v \in Workers : pc'[v] = "inbound" =>
           pc[v] = "inbound" /\ job'[v] = job[v] /\ copy'[v] = copy[v]
    BY <2>1 DEF IInv, Shape
  <2> QED
    BY <2>1, <2>2, FollowedBystander
<1>6. ASSUME NEW w \in Workers, RefuseBlank(w) \/ SendOk(w) \/ SendFails(w)
      PROVE  (Followed /\ EventsKept)'
  <2>1. /\ \E p \in Outgoing : pc' = [pc EXCEPT ![w] = p]
        /\ UNCHANGED <<inbox, queued, handled, job, copy>>
    BY <1>6 DEF RefuseBlank, SendOk, SendFails, Outgoing
  <2>2. \A v \in Workers : pc'[v] = "inbound" =>
           pc[v] = "inbound" /\ job'[v] = job[v] /\ copy'[v] = copy[v]
    BY <2>1 DEF IInv, Shape, Outgoing
  <2> QED
    BY <2>1, <2>2, FollowedBystander
<1>7. ASSUME NEW w \in Workers, SettleReply(w) PROVE (Followed /\ EventsKept)'
  <2>1. /\ pc' = [pc EXCEPT ![w] = "idle"]
        /\ job' = [job EXCEPT ![w] = None]
        /\ copy' = [copy EXCEPT ![w] = 0]
        /\ UNCHANGED <<inbox, queued, handled>>
    BY <1>7 DEF SettleReply, LetGo
  <2>2. \A v \in Workers : pc'[v] = "inbound" =>
           pc[v] = "inbound" /\ job'[v] = job[v] /\ copy'[v] = copy[v]
    BY <2>1 DEF IInv, Shape, InboundShape
  <2> QED
    BY <2>1, <2>2, FollowedBystander
<1>8. ASSUME UNCHANGED <<inbox, queued, handled, pc, job, copy>>
      PROVE  (Followed /\ EventsKept)'
  BY <1>8, FollowedBystander
<1>9. CASE Tick \/ UNCHANGED vars \/ \E r \in Replies : SubmitReply(r)
  BY <1>8, <1>9 DEF Tick, vars, SubmitReply
<1>10. ASSUME NEW h \in Webhooks,
              NameTask(h) \/ EnqueueError(h) \/ \E b \in Bridges : Ingest(h, b)
       PROVE  (Followed /\ EventsKept)'
  BY <1>8, <1>10 DEF NameTask, EnqueueError, Ingest
<1> QED
  BY <1>1, <1>2, <1>3, <1>4, <1>5, <1>6, <1>7, <1>9, <1>10 DEF Next, Webhook, Work

-----------------------------------------------------------------------------
(* What the invariants say.                                                *)

HubInvariant == SendInvariant /\ InboundShape /\ Windows /\ Followed /\ EventsKept

LEMMA HubInvariantHolds == Spec => []HubInvariant
<1>1. Init => HubInvariant
  BY InvInit, SendInit, InboundShapeInit, WindowsInit, FollowedInit
  DEF HubInvariant, SendInvariant
<1>2. HubInvariant /\ [Next]_vars => HubInvariant'
  <2> SUFFICES ASSUME HubInvariant, [Next]_vars PROVE HubInvariant'
    OBVIOUS
  <2>1. SendInvariant'
    BY SendStep DEF HubInvariant
  <2>2. IInv /\ InboundShape'
    BY InboundShapeStep DEF HubInvariant, SendInvariant
  <2>3. Windows'
    BY <2>2, WindowsStep DEF HubInvariant
  <2>4. (Followed /\ EventsKept)'
    BY <2>2, FollowedStep DEF HubInvariant
  <2> QED
    BY <2>1, <2>2, <2>3, <2>4 DEF HubInvariant
<1> QED
  BY <1>1, <1>2, PTL DEF Spec

\* Type correctness: the hub's counters within their widths, the rows of the
\* queue, what each webhook and each worker holds, for any of the constants.
THEOREM TypeCorrect == Spec => []TypeOK
<1>1. HubInvariant => TypeOK
  <2> SUFFICES ASSUME HubInvariant PROVE TypeOK
    OBVIOUS
  <2>1. ASSUME NEW w \in Workers, pc[w] \in {"claimed", "sending", "sent", "failed"}
        PROVE  job[w] \in Replies /\ try[w] <= Retries
    <3>1. job[w] \in Replies
      BY <2>1 DEF HubInvariant, SendInvariant, IInv, Shape, Outgoing
    <3>2. /\ try[w] \in Nat
          /\ pc[w] = "claimed" => try[w] = 0
          /\ pc[w] = "sending" => try[w] < Retries
          /\ pc[w] = "sent" => try[w] < Retries
          /\ pc[w] = "failed" => try[w] = IF message[job[w]].blank THEN 0 ELSE Retries
      BY DEF HubInvariant, SendInvariant, Tries
    <3>3. try[w] <= Retries
      BY <2>1, <3>2, RetriesPositive
    <3> QED
      BY <3>1, <3>3
  <2>2. /\ life \in [Replies -> Queue!Life]
        /\ message \in [Replies -> Messages \cup {None}]
        /\ failures \in [Bridges -> 0..U32Max]
    BY DEF HubInvariant, SendInvariant, IInv, Shape
  <2> QED
    BY <2>1, <2>2 DEF HubInvariant, InboundShape, TypeOK
<1> QED
  BY <1>1, HubInvariantHolds, PTL

\* The events that RateBounded counts over a minute of the clock.
LEMMA LetInMinute ==
    ASSUME InboundShape, NEW b \in Bridges, NEW minute
    PROVE  LetIn(b, {t \in Second : t \div Minute = minute})
               = Cardinality(LetInAt(b, minute))
<1>1. \A e \in events : e.at \in Second
  BY DEF InboundShape, Event
<1>2. {e \in events : e.bridge = b /\ e.at \in {t \in Second : t \div Minute = minute}}
          = LetInAt(b, minute)
  BY <1>1 DEF LetInAt
<1> QED
  BY <1>2 DEF LetIn

\* The rate limit, for any limit, width of the count, length of the minute and
\* number of webhooks: at most Limit events of a bridge in a minute of the
\* clock, and since any span of that length touches two of them, at most twice
\* that in any minute.
THEOREM RateBoundedHolds == Spec => []RateBounded
<1>1. HubInvariant => RateBounded
  <2> SUFFICES ASSUME HubInvariant, NEW b \in Bridges, NEW s \in Second
               PROVE  /\ LetIn(b, {t \in Second : t \div Minute = s \div Minute}) <= Limit
                      /\ LetIn(b, s..(s + Minute - 1)) <= 2 * Limit
    BY DEF RateBounded
  <2> InboundShape /\ Windows
    BY DEF HubInvariant
  <2>1. s \in Nat /\ Minute \in Nat \ {0} /\ Limit \in Nat
    BY BridgeAssumption DEF Second
  <2>2. PICK m \in Nat : m = s \div Minute
    BY <2>1, DivBounds
  <2>3. Cardinality(LetInAt(b, m)) <= Limit /\ Cardinality(LetInAt(b, m + 1)) <= Limit
    BY LimitKept
  <2>4. LetIn(b, {t \in Second : t \div Minute = s \div Minute}) <= Limit
    BY <2>2, <2>3, LetInMinute
  <2>5. PICK span : span = {e \in events : e.bridge = b /\ e.at \in s..(s + Minute - 1)}
    OBVIOUS
  <2>6. span \subseteq LetInAt(b, m) \cup LetInAt(b, m + 1)
    <3> SUFFICES ASSUME NEW e \in span PROVE e \in LetInAt(b, m) \cup LetInAt(b, m + 1)
      OBVIOUS
    <3>1. e \in events /\ e.bridge = b /\ e.at \in s..(s + Minute - 1)
      BY <2>5
    <3>2. e.at \div Minute \in {m, m + 1}
      BY <2>1, <2>2, <3>1, DivSpan
    <3> QED
      BY <3>1, <3>2 DEF LetInAt
  <2>7. /\ IsFiniteSet(LetInAt(b, m)) /\ IsFiniteSet(LetInAt(b, m + 1))
        /\ IsFiniteSet(LetInAt(b, m) \cap LetInAt(b, m + 1))
    BY FS_Subset DEF Windows, LetInAt
  <2>8. PICK both : both = LetInAt(b, m) \cup LetInAt(b, m + 1)
    OBVIOUS
  <2>9. /\ IsFiniteSet(both)
        /\ Cardinality(both) = Cardinality(LetInAt(b, m)) + Cardinality(LetInAt(b, m + 1))
                                 - Cardinality(LetInAt(b, m) \cap LetInAt(b, m + 1))
    BY <2>7, <2>8, FS_Union
  <2>10. /\ Cardinality(LetInAt(b, m)) \in Nat
         /\ Cardinality(LetInAt(b, m + 1)) \in Nat
         /\ Cardinality(LetInAt(b, m) \cap LetInAt(b, m + 1)) \in Nat
    BY <2>7, FS_CardinalityType
  <2>11. Cardinality(span) <= Cardinality(both) /\ IsFiniteSet(span)
    BY <2>6, <2>8, <2>9, FS_Subset
  <2>12. Cardinality(span) \in Nat
    BY <2>11, FS_CardinalityType
  <2>13. Cardinality(span) <= 2 * Limit
    BY <2>1, <2>3, <2>9, <2>10, <2>11, <2>12
  <2> QED
    BY <2>4, <2>5, <2>13 DEF LetIn
<1> QED
  BY <1>1, HubInvariantHolds, PTL

\* Nobody is shut out: check_rate_limit refuses a call only if the limit is
\* reached by events let in for the same bridge in the same minute, whatever
\* was refused, and whatever the saturated count says.
THEOREM OnlyExcessRefusedHolds == Spec => OnlyExcessRefused
<1>1. ASSUME HubInvariant
      PROVE  [\A h \in Webhooks, b \in Bridges :
                 /\ Ingest(h, b) /\ events' = events
                 => LetIn(b, {t \in Second : t \div Minute = now \div Minute}) = Limit]_vars
  <2> SUFFICES ASSUME NEW h \in Webhooks, NEW b \in Bridges,
                      Ingest(h, b), events' = events
               PROVE  LetIn(b, {t \in Second : t \div Minute = now \div Minute}) = Limit
    OBVIOUS
  <2> InboundShape /\ Windows
    BY <1>1 DEF HubInvariant
  <2>1. PICK old : old = CountNow(b)
    OBVIOUS
  <2>2. Cardinality(LetInAt(b, now \div Minute)) = IF old <= Limit THEN old ELSE Limit
    BY <2>1, CountIs
  <2>3. [n |-> calls + 1, bridge |-> b, at |-> now] \notin events
    BY DEF Windows, InboundShape, Event
  <2>4. Increment(old) > Limit
    <3>1. ~(Increment(old) > Limit) =>
              events' = events \cup {[n |-> calls + 1, bridge |-> b, at |-> now]}
      BY <2>1 DEF Ingest
    <3> QED
      BY <2>3, <3>1
  <2>5. old \in 0..U32Max /\ U32Max \in Nat /\ Limit \in 0..(U32Max - 1)
    BY <2>1, CountNowType, BridgeAssumption
  <2>6. old >= Limit
    BY <2>4, <2>5 DEF Increment
  <2> QED
    BY <2>2, <2>5, <2>6, LetInMinute
<1> QED
  BY <1>1, HubInvariantHolds, PTL DEF Spec, OnlyExcessRefused

\* Of the events a bridge delivered within one second one at least is kept, for
\* any number of webhooks and workers, colliding ids, and rows deleted by id
\* under a worker that is still running an earlier event.
THEOREM EventsKeptHolds == Spec => []EventsKept
<1>1. HubInvariant => EventsKept
  BY DEF HubInvariant
<1> QED
  BY <1>1, HubInvariantHolds, PTL
=============================================================================
