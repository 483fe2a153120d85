------------------------ MODULE ProviderBrokerProofs ------------------------
(***************************************************************************)
(* What the broker guarantees for any clients, budgets and usages: calls   *)
(* are accounted for, spending is bounded, and the receipt is honest.      *)
(***************************************************************************)
EXTENDS ProviderBroker, TLAPS

(* Nothing has failed while a connection is served; an unknown effect is   *)
(* the last one.                                                           *)
Unfailed ==
    /\ broker.pc \in {"accept", "receive", "calling"} => ~session.failed
    /\ At("reply") => \A p \in Planes : session.unknown[p] = 0
    /\ Total(session.unknown) \in {0, 1}
    /\ Total(session.unknown) # 0 => session.failed /\ session.index = Total(session.calls) + 1

(* What is metered is what was used, unless an effect is unknown.          *)
Metered ==
    /\ \A m \in Meters : session.spent[m] <= provider.used[m]
    /\ Total(session.unknown) = 0 => \A m \in Meters : session.spent[m] = provider.used[m]
    /\ ~session.failed => \A m \in Meters : session.spent[m] <= Limit[m]
    /\ At("calling") => \A m \in Meters : provider.used[m] < Limit[m]

(* Responses of a session that has not failed were handed over.            *)
Handed ==
    ~session.failed /\ ~At("crashed") =>
        Total(session.calls) = handed + (IF At("reply") THEN 1 ELSE 0)

Closed == receipt # NoReceipt => At("closed")

BrokerInv ==
    /\ BrokerTypeOK /\ CallsAccounted /\ SpendBounded
    /\ Unfailed /\ Metered /\ Handed /\ Closed /\ ReceiptHonest

(* Nothing has been called or spent when the broker starts.                *)
LEMMA InitInv == BrokerInit => BrokerInv
<1> SUFFICES ASSUME BrokerInit PROVE BrokerInv
  OBVIOUS
<1> USE BrokerConstants DEF BrokerInit
<1>0. (CHOOSE c \in Clients : TRUE) \in Clients
  OBVIOUS
<1>1. BrokerTypeOK
  BY <1>0 DEF BrokerTypeOK, Looping, IdleClient, NoReceipt, Zero, Planes, Counts, Sums, BrokerPcs, Requests
<1>2. CallsAccounted /\ SpendBounded
  BY DEF CallsAccounted, SpendBounded, InFlight, Looping, Zero, At, Planes
<1>3. Unfailed /\ Metered /\ Handed
  BY DEF Unfailed, Metered, Handed, Looping, Zero, At, Planes, Total
<1>4. Closed /\ ReceiptHonest
  BY DEF Closed, ReceiptHonest
<1> QED
  BY <1>1, <1>2, <1>3, <1>4 DEF BrokerInv

(* A step that leaves the broker, its session and the provider alone keeps *)
(* all but the types.                                                      *)
LEMMA Untouched ==
    ASSUME BrokerInv, BrokerTypeOK', UNCHANGED <<broker, session, receipt, provider, handed>>
    PROVE  BrokerInv'
  BY DEF BrokerInv, CallsAccounted, SpendBounded, Unfailed, Metered, Handed, Closed, ReceiptHonest,
         InFlight, At

(* Time, and the clients, leave the account alone.                         *)
LEMMA PeerSteps ==
    ASSUME BrokerInv,
           \/ Tick \/ PeerDies
           \/ \E c \in Clients : Send(c) \/ Reset(c) \/ \E r \in Requests : Connect(c, r)
    PROVE  BrokerInv'
<1> USE BrokerConstants DEF BrokerInv, BrokerTypeOK
<1>1. CASE Tick
  BY <1>1, Untouched DEF Tick
<1>2. CASE PeerDies
  BY <1>2, Untouched DEF PeerDies
<1>3. CASE \E c \in Clients : Send(c)
  BY <1>3, Untouched DEF Send
<1>4. CASE \E c \in Clients : Reset(c)
  BY <1>4, Untouched DEF Reset, Answered, IdleClient, Requests
<1>5. CASE \E c \in Clients, r \in Requests : Connect(c, r)
  BY <1>5, Untouched DEF Connect
<1> QED
  BY <1>1, <1>2, <1>3, <1>4, <1>5

(* The head of the loop: end it, or wait for the next connection.          *)
LEMMA CheckStep == ASSUME BrokerInv, Check PROVE BrokerInv'
<1> USE BrokerConstants DEF BrokerInv, Check, Goto, At
<1>1. BrokerTypeOK'
  <2>1. clock \in Nat /\ Timeout \in Nat /\ (~(clock >= Timeout) => clock \in 0 .. Timeout - 1)
    BY DEF BrokerTypeOK
  <2> QED
    BY <2>1 DEF BrokerTypeOK, Ends, BrokerPcs
<1>2. CallsAccounted' /\ SpendBounded'
  BY DEF CallsAccounted, SpendBounded, InFlight, BrokerTypeOK, BrokerPcs
<1>3. Unfailed'
  BY DEF Unfailed, Ends, BrokerTypeOK, BrokerPcs
<1>4. Metered' /\ Handed'
  BY DEF Metered, Handed, Ends, BrokerTypeOK, BrokerPcs
<1>5. Closed' /\ ReceiptHonest'
  BY DEF Closed, ReceiptHonest, BrokerTypeOK, BrokerPcs
<1> QED
  BY <1>1, <1>2, <1>3, <1>4, <1>5

(* Steps that only move the broker.                                        *)
LEMMA MoveSteps ==
    ASSUME BrokerInv, AcceptTimesOut \/ Crash \/ \E c \in Clients : Accept(c)
    PROVE  BrokerInv'
<1> USE BrokerConstants DEF BrokerInv, At
<1>0. (CHOOSE c \in Clients : TRUE) \in Clients
  OBVIOUS
<1>1. UNCHANGED <<clock, session, receipt, client, asked, peer, provider, handed>>
  BY DEF AcceptTimesOut, Crash, Accept
<1> DEFINE Brokers == [pc : BrokerPcs, elapsed : 0 .. Timeout - 1, serves : Clients,
                       plane : Planes, started : Nat]
<1> DEFINE Moved == /\ broker' \in Brokers
                    /\ \/ broker'.pc = "crashed" /\ broker.pc # "closed"
                       \/ broker.pc = "accept" /\ broker'.pc \in {"loop", "receive"}
<1>2. broker \in Brokers
  BY DEF BrokerTypeOK
<1>3. Moved
  <2>1. CASE AcceptTimesOut
    BY <1>0, <2>1 DEF AcceptTimesOut, Loop, Looping, BrokerPcs, Planes
  <2>2. CASE Crash
    BY <1>2, <2>2 DEF Crash, Goto, Running, BrokerPcs
  <2>3. ASSUME NEW c \in Clients, Accept(c) PROVE Moved
    BY <1>2, <2>3 DEF Accept, BrokerPcs
  <2> QED
    BY <2>1, <2>2, <2>3
<1>4. BrokerTypeOK'
  BY <1>1, <1>3 DEF BrokerTypeOK
<1>5. CallsAccounted' /\ SpendBounded'
  BY <1>1, <1>3 DEF CallsAccounted, SpendBounded, InFlight
<1>6. Unfailed' /\ Metered'
  BY <1>1, <1>3 DEF Unfailed, Metered
<1>7. Handed'
  BY <1>1, <1>3 DEF Handed
<1>8. Closed' /\ ReceiptHonest'
  BY <1>1, <1>3 DEF Closed, ReceiptHonest
<1> QED
  BY <1>4, <1>5, <1>6, <1>7, <1>8

(* A denied request changes the count of denials; it fails the session     *)
(* only when the time is over, which it is not for an accepted connection. *)
LEMMA DenySteps ==
    ASSUME BrokerInv, NEW c \in Clients,
           ReceiveRefused(c) \/ \E p \in Planes : Reject(c, p)
    PROVE  BrokerInv'
<1> USE BrokerConstants DEF BrokerInv, At, Loop, Looping
<1>0. (CHOOSE x \in Clients : TRUE) \in Clients
  OBVIOUS
<1>a. ~TimeOver /\ session.failed \in BOOLEAN
  BY DEF TimeOver, BrokerTypeOK
<1>b. session' = [session EXCEPT !.denied = @ + 1, !.failed = @ \/ FALSE]
  BY <1>a DEF ReceiveRefused, Reject, Deny
<1>1. /\ broker.pc = "receive" /\ broker' = Looping
      /\ session' = [session EXCEPT !.denied = @ + 1]
      /\ Answered(c) /\ UNCHANGED <<clock, receipt, asked, peer, provider, handed>>
  BY <1>a, <1>b DEF ReceiveRefused, Reject, Serves, BrokerTypeOK
<1>2. BrokerTypeOK'
  BY <1>0, <1>1 DEF BrokerTypeOK, BrokerPcs, Planes, Answered, IdleClient, Requests
<1>3. CallsAccounted' /\ SpendBounded'
  BY <1>1 DEF CallsAccounted, SpendBounded, InFlight, BrokerTypeOK
<1>4. Unfailed' /\ Metered' /\ Handed'
  BY <1>1 DEF Unfailed, Metered, Handed, BrokerTypeOK
<1>5. Closed' /\ ReceiptHonest'
  BY <1>1 DEF Closed, ReceiptHonest
<1> QED
  BY <1>2, <1>3, <1>4, <1>5

(* The receipt, built while the session is idle.                           *)
LEMMA ReceiptSteps ==
    ASSUME BrokerInv, Finish \/ \E c \in Clients : Finalize(c)
    PROVE  BrokerInv'
<1> USE BrokerConstants DEF BrokerInv, At, Goto
<1>1. /\ broker.pc \in {"finish", "receive"} /\ broker' = [broker EXCEPT !.pc = "closed"]
      /\ receipt' = Receipt /\ UNCHANGED <<clock, session, asked, peer, provider, handed>>
  BY DEF Finish, Finalize, Serves
<1>2. Receipt \in [status : {"completed", "failed", "effect_unknown"}, calls : Counts,
                   spent : Sums, unknown : Counts, index : Nat, failed : BOOLEAN]
  BY DEF Receipt, Status, BrokerTypeOK
<1>3. client' \in [Clients -> [pc : {"idle", "connected", "sent"}, request : Requests]]
  BY DEF Finish, Finalize, Answered, IdleClient, BrokerTypeOK, Requests
<1>4. BrokerTypeOK'
  BY <1>1, <1>2, <1>3 DEF BrokerTypeOK, BrokerPcs
<1>5. CallsAccounted' /\ SpendBounded'
  BY <1>1 DEF CallsAccounted, SpendBounded, InFlight, BrokerTypeOK
<1>6. Unfailed' /\ Metered' /\ Handed'
  BY <1>1 DEF Unfailed, Metered, Handed, BrokerTypeOK
<1>7. Closed'
  BY <1>1 DEF Closed, BrokerTypeOK
<1>8. ReceiptHonest'
  <2>1. CASE Total(session.unknown) # 0
    BY <1>1, <2>1 DEF ReceiptHonest, Receipt, Status, Unfailed, Metered
  <2>2. CASE Total(session.unknown) = 0
    <3>1. \A p \in Planes : session.unknown[p] = 0
      BY <2>2 DEF Total, BrokerTypeOK, Counts, Planes
    <3>2. session.calls = provider.invoked
      BY <1>1, <3>1 DEF CallsAccounted, InFlight, BrokerTypeOK, Counts
    <3>3. session.spent = provider.used
      BY <2>2 DEF Metered, BrokerTypeOK, Sums
    <3>4. ~session.failed => handed = Total(session.calls)
      BY <1>1 DEF Handed, BrokerTypeOK
    <3>5. ~session.failed => \A m \in Meters : provider.used[m] <= Limit[m]
      BY <3>3 DEF Metered
    <3>6. /\ receipt'.status = (IF session.failed THEN "failed" ELSE "completed")
          /\ receipt'.calls = session.calls /\ receipt'.spent = session.spent
          /\ receipt'.failed = session.failed
      BY <1>1, <2>2 DEF Receipt, Status
    <3> QED
      BY <1>1, <3>2, <3>3, <3>4, <3>5, <3>6 DEF ReceiptHonest
  <2> QED
    BY <2>1, <2>2
<1> QED
  BY <1>4, <1>5, <1>6, <1>7, <1>8

(* An admitted call: nothing has failed, so that all usage is metered and  *)
(* below the limits.                                                       *)
LEMMA InvokeStep ==
    ASSUME BrokerInv, NEW c \in Clients, NEW p \in Planes, Invoke(c, p)
    PROVE  BrokerInv'
<1> USE BrokerConstants DEF BrokerInv, At
<1>1. /\ broker.pc = "receive" /\ ~session.failed /\ Total(session.unknown) = 0
      /\ broker' = [broker EXCEPT !.pc = "calling", !.plane = p, !.started = clock]
      /\ provider' = [provider EXCEPT !.invoked = Tally(@, p), !.last = Zero(Meters)]
      /\ UNCHANGED <<clock, session, receipt, client, asked, peer, handed>>
  BY DEF Invoke, Serves, Unfailed
<1>2. broker'.pc = "calling" /\ broker'.plane = p
  BY <1>1 DEF BrokerTypeOK
<1>3. /\ provider.invoked \in Counts /\ provider.used \in Sums
      /\ session.calls \in Counts /\ session.spent \in Sums /\ session.unknown \in Counts
  BY DEF BrokerTypeOK
<1>4. /\ provider'.invoked = [provider.invoked EXCEPT ![p] = @ + 1]
      /\ provider'.used = provider.used /\ provider'.last = Zero(Meters)
  BY <1>1 DEF Tally, BrokerTypeOK
<1>5. provider'.invoked \in Counts /\ provider'.last \in Sums
  BY <1>3, <1>4 DEF Counts, Sums, Zero
<1>6. BrokerTypeOK'
  <2>1. broker' \in [pc : BrokerPcs, elapsed : 0 .. Timeout - 1, serves : Clients,
                     plane : Planes, started : Nat]
    BY <1>1 DEF BrokerTypeOK, BrokerPcs
  <2>2. provider' \in [invoked : Counts, used : Sums, last : Sums]
    BY <1>1, <1>5 DEF BrokerTypeOK, Tally, Zero
  <2> QED
    BY <1>1, <2>1, <2>2 DEF BrokerTypeOK
<1>7. \A q \in Planes : session.unknown[q] = 0
  BY <1>1, <1>3 DEF Total, Counts, Planes
<1>8. \A q \in Planes : provider.invoked[q] = session.calls[q]
  BY <1>1, <1>3, <1>7 DEF CallsAccounted, InFlight, Counts
<1>9. session.calls[p] < MaxCalls[p] /\ \A m \in Meters : session.spent[m] < Limit[m]
  BY <1>3 DEF Invoke, Rejected, Counts, Sums
<1>10. CallsAccounted'
  BY <1>1, <1>2, <1>3, <1>4, <1>7, <1>8 DEF CallsAccounted, InFlight, Counts
<1>11. \A m \in Meters : provider.used[m] < Limit[m]
  BY <1>1, <1>9 DEF Metered
<1>12. SpendBounded'
  <2>1. \A q \in Planes : provider'.invoked[q] <= MaxCalls[q]
    BY <1>3, <1>4, <1>8, <1>9 DEF SpendBounded, Counts
  <2>2. \A m \in Meters : provider'.used[m] < Limit[m] + provider'.last[m]
    BY <1>3, <1>4, <1>11 DEF Zero, Sums
  <2> QED
    BY <2>1, <2>2 DEF SpendBounded
<1>13. Unfailed' /\ Metered' /\ Handed'
  BY <1>1, <1>2, <1>4, <1>11 DEF Unfailed, Metered, Handed
<1>14. Closed' /\ ReceiptHonest'
  BY <1>1 DEF Closed, ReceiptHonest
<1> QED
  BY <1>6, <1>10, <1>12, <1>13, <1>14

(* What the provider uses is bounded by one response above the limits.     *)
LEMMA UsesBounded ==
    ASSUME BrokerInv, At("calling"), NEW u \in Usages, Uses(u)
    PROVE  /\ provider' \in [invoked : Counts, used : Sums, last : Sums]
           /\ provider'.invoked = provider.invoked
           /\ \A m \in Meters : provider'.used[m] = provider.used[m] + u[m]
           /\ SpendBounded'
<1> USE BrokerConstants DEF BrokerInv
<1>1. u \in Sums /\ provider.used \in Sums /\ provider.invoked \in Counts
  BY DEF Sums, BrokerTypeOK
<1>2. /\ provider'.used = Plus(provider.used, u) /\ provider'.last = u
      /\ provider'.invoked = provider.invoked
      /\ provider' = [invoked |-> provider.invoked, used |-> Plus(provider.used, u), last |-> u]
  BY DEF Uses, BrokerTypeOK
<1>3. Plus(provider.used, u) \in Sums
  BY <1>1 DEF Plus, Sums
<1>4. \A m \in Meters : provider'.used[m] = provider.used[m] + u[m]
  BY <1>1, <1>2 DEF Plus, Sums
<1>5. \A m \in Meters : provider'.used[m] < Limit[m] + provider'.last[m]
  BY <1>1, <1>2, <1>4 DEF Metered, Sums
<1> QED
  BY <1>1, <1>2, <1>3, <1>4, <1>5 DEF SpendBounded

(* The provider answers: the call and its usage enter the account.         *)
LEMMA AnswerStep ==
    ASSUME BrokerInv, NEW u \in Usages, Answer(u)
    PROVE  BrokerInv'
<1> USE BrokerConstants DEF BrokerInv, At
<1> DEFINE q == broker.plane
<1>1. /\ broker.pc = "calling" /\ ~session.failed /\ Total(session.unknown) = 0
      /\ broker' = [broker EXCEPT !.pc = "reply"]
      /\ UNCHANGED <<clock, receipt, client, asked, peer, handed>>
  BY DEF Answer, Goto, Unfailed
<1>2. /\ provider' \in [invoked : Counts, used : Sums, last : Sums]
      /\ provider'.invoked = provider.invoked
      /\ \A m \in Meters : provider'.used[m] = provider.used[m] + u[m]
      /\ SpendBounded'
  BY UsesBounded DEF Answer
<1>3. /\ u \in Sums /\ session.spent \in Sums /\ session.calls \in Counts
      /\ session.unknown \in Counts /\ provider.invoked \in Counts /\ q \in Planes
      /\ session.denied \in Nat /\ session.failed \in BOOLEAN /\ session.index \in Nat
      /\ handed \in Nat /\ provider.used \in Sums
  BY DEF BrokerTypeOK, Sums
<1>4. Over(u) \in BOOLEAN
  BY DEF Over
<1>5. /\ session'.calls = [session.calls EXCEPT ![q] = @ + 1]
      /\ session'.spent = Plus(session.spent, u)
      /\ session'.unknown = session.unknown /\ session'.index = session.index
      /\ session'.failed = (session.failed \/ Over(u))
      /\ session' \in [calls : {[session.calls EXCEPT ![q] = @ + 1]},
                       spent : {Plus(session.spent, u)}, unknown : {session.unknown},
                       index : {session.index}, denied : {session.denied, session.denied + 1},
                       failed : BOOLEAN]
  BY <1>3, <1>4 DEF Answer, Tally, BrokerTypeOK
<1>6. \A m \in Meters : session'.spent[m] = session.spent[m] + u[m]
  BY <1>3, <1>5 DEF Plus, Sums
<1>7. session'.calls \in Counts /\ session'.spent \in Sums
  BY <1>3, <1>5 DEF Counts, Sums, Plus
<1>8. broker'.pc = "reply" /\ broker'.plane = q
  BY <1>1 DEF BrokerTypeOK
<1>9. BrokerTypeOK'
  <2>1. broker' \in [pc : BrokerPcs, elapsed : 0 .. Timeout - 1, serves : Clients,
                     plane : Planes, started : Nat]
    BY <1>1 DEF BrokerTypeOK, BrokerPcs
  <2>2. session' \in [calls : Counts, spent : Sums, unknown : Counts, index : Nat,
                      denied : Nat, failed : BOOLEAN]
    BY <1>3, <1>5, <1>7
  <2> QED
    BY <1>1, <1>2, <2>1, <2>2 DEF BrokerTypeOK
<1>10. CallsAccounted'
  BY <1>1, <1>2, <1>3, <1>5, <1>8 DEF CallsAccounted, InFlight, Counts
<1>11. \A r \in Planes : session.unknown[r] = 0
  BY <1>1, <1>3 DEF Total, Counts, Planes
<1>12. Unfailed'
  BY <1>1, <1>5, <1>8, <1>11 DEF Unfailed, Total
<1>13. Total(session'.calls) = Total(session.calls) + 1
  BY <1>3, <1>5 DEF Total, Counts, Planes
<1>14. Handed'
  BY <1>1, <1>3, <1>5, <1>8, <1>13 DEF Handed
<1>15. ~Over(u) => \A m \in Meters : session'.spent[m] <= Limit[m]
  BY <1>3, <1>6 DEF Over, Sums
<1>16. \A m \in Meters : session'.spent[m] = provider'.used[m]
  BY <1>1, <1>2, <1>6 DEF Metered
<1>17. Metered'
  BY <1>1, <1>5, <1>7, <1>8, <1>15, <1>16 DEF Metered, Sums
<1>18. Closed' /\ ReceiptHonest'
  BY <1>1 DEF Closed, ReceiptHonest
<1> QED
  BY <1>2, <1>9, <1>10, <1>12, <1>14, <1>17, <1>18

(* The provider raises: the call enters it as an unknown effect.           *)
LEMMA RaiseStep ==
    ASSUME BrokerInv, NEW u \in Usages, Raise(u)
    PROVE  BrokerInv'
<1> USE BrokerConstants DEF BrokerInv, At
<1> DEFINE q == broker.plane
<1>0. (CHOOSE c \in Clients : TRUE) \in Clients
  OBVIOUS
<1>1. /\ broker.pc = "calling" /\ ~session.failed /\ Total(session.unknown) = 0
      /\ broker' = Looping /\ Answered(broker.serves)
      /\ UNCHANGED <<clock, receipt, asked, peer, handed>>
  BY DEF Raise, Loop, Unfailed
<1>2. /\ provider' \in [invoked : Counts, used : Sums, last : Sums]
      /\ provider'.invoked = provider.invoked
      /\ \A m \in Meters : provider'.used[m] = provider.used[m] + u[m]
      /\ SpendBounded'
  BY UsesBounded DEF Raise
<1>3. /\ u \in Sums /\ session.spent \in Sums /\ session.calls \in Counts
      /\ session.unknown \in Counts /\ provider.invoked \in Counts /\ q \in Planes
      /\ provider.used \in Sums /\ broker.serves \in Clients
  BY DEF BrokerTypeOK, Sums
<1>4. /\ session'.unknown = [session.unknown EXCEPT ![q] = @ + 1]
      /\ session'.calls = session.calls /\ session'.spent = session.spent
      /\ session'.index = Total(session.calls) + 1 /\ session'.failed = TRUE
      /\ session' \in [calls : {session.calls}, spent : {session.spent},
                       unknown : {[session.unknown EXCEPT ![q] = @ + 1]},
                       index : {Total(session.calls) + 1}, denied : {session.denied},
                       failed : BOOLEAN]
  BY <1>3 DEF Raise, Tally, BrokerTypeOK
<1>5. /\ session'.unknown \in Counts /\ Total(session.calls) + 1 \in Nat
      /\ session.denied \in Nat
  BY <1>3, <1>4 DEF Counts, Total, Planes, BrokerTypeOK
<1>6. broker'.pc = "loop"
  BY <1>1 DEF Looping
<1>7. BrokerTypeOK'
  <2>1. broker' \in [pc : BrokerPcs, elapsed : 0 .. Timeout - 1, serves : Clients,
                     plane : Planes, started : Nat]
    BY <1>0, <1>1 DEF Looping, BrokerPcs, Planes
  <2>2. session' \in [calls : Counts, spent : Sums, unknown : Counts, index : Nat,
                      denied : Nat, failed : BOOLEAN]
    BY <1>3, <1>4, <1>5
  <2>3. client' \in [Clients -> [pc : {"idle", "connected", "sent"}, request : Requests]]
    BY <1>1, <1>3 DEF Answered, IdleClient, Requests, BrokerTypeOK
  <2> QED
    BY <1>1, <1>2, <2>1, <2>2, <2>3 DEF BrokerTypeOK
<1>8. CallsAccounted'
  <2> SUFFICES ASSUME NEW p \in Planes
               PROVE  provider'.invoked[p] = session'.calls[p] + session'.unknown[p] + 0
    BY <1>6 DEF CallsAccounted, InFlight
  <2>1. provider.invoked[p] = session.calls[p] + session.unknown[p] + (IF q = p THEN 1 ELSE 0)
    BY <1>1 DEF CallsAccounted, InFlight
  <2>2. session'.unknown[p] = session.unknown[p] + (IF q = p THEN 1 ELSE 0)
    BY <1>3, <1>4 DEF Counts
  <2>3. session.calls[p] \in Nat /\ session.unknown[p] \in Nat
    BY <1>3 DEF Counts
  <2> QED
    BY <1>2, <1>4, <2>1, <2>2, <2>3
<1>9. Total(session'.unknown) = 1
  BY <1>1, <1>3, <1>4 DEF Total, Counts, Planes
<1>10. Unfailed'
  BY <1>4, <1>6, <1>9 DEF Unfailed, Total
<1>11. Metered' /\ Handed'
  BY <1>1, <1>2, <1>3, <1>4, <1>6, <1>9 DEF Metered, Handed, Sums
<1>12. Closed' /\ ReceiptHonest'
  BY <1>1 DEF Closed, ReceiptHonest
<1> QED
  BY <1>2, <1>7, <1>8, <1>10, <1>11, <1>12

(* The response is written to the client, or that fails.                   *)
LEMMA ReplyHandsOver ==
    ASSUME BrokerInv, NEW ok \in BOOLEAN, Reply(ok)
    PROVE  BrokerInv'
<1> USE BrokerConstants DEF BrokerInv, At
<1>0. (CHOOSE c \in Clients : TRUE) \in Clients
  OBVIOUS
<1>1. /\ broker.pc = "reply" /\ broker' = Looping /\ Answered(broker.serves)
      /\ UNCHANGED <<clock, receipt, asked, peer, provider>>
  BY DEF Reply, Loop
<1>2. session.failed \in BOOLEAN /\ handed \in Nat /\ broker.serves \in Clients
  BY DEF BrokerTypeOK
<1>3. /\ session'.calls = session.calls /\ session'.spent = session.spent
      /\ session'.unknown = session.unknown /\ session'.index = session.index
      /\ session'.denied = session.denied /\ session'.failed = (session.failed \/ ~ok)
      /\ session' = [session EXCEPT !.failed = @ \/ ~ok]
  BY <1>2 DEF Reply, BrokerTypeOK
<1>4. handed' = (IF ok THEN handed + 1 ELSE handed) /\ handed' \in Nat
  BY <1>2 DEF Reply
<1>5. broker'.pc = "loop"
  BY <1>1 DEF Looping
<1>6. BrokerTypeOK'
  <2>1. broker' \in [pc : BrokerPcs, elapsed : 0 .. Timeout - 1, serves : Clients,
                     plane : Planes, started : Nat]
    BY <1>0, <1>1 DEF Looping, BrokerPcs, Planes
  <2>2. session' \in [calls : Counts, spent : Sums, unknown : Counts, index : Nat,
                      denied : Nat, failed : BOOLEAN]
    BY <1>2, <1>3 DEF BrokerTypeOK
  <2>3. client' \in [Clients -> [pc : {"idle", "connected", "sent"}, request : Requests]]
    BY <1>1, <1>2 DEF Answered, IdleClient, Requests, BrokerTypeOK
  <2> QED
    BY <1>1, <1>4, <2>1, <2>2, <2>3 DEF BrokerTypeOK
<1>7. CallsAccounted' /\ SpendBounded'
  BY <1>1, <1>3, <1>5 DEF CallsAccounted, SpendBounded, InFlight
<1>8. Unfailed' /\ Metered'
  BY <1>1, <1>3, <1>5 DEF Unfailed, Metered, Total
<1>9. Handed'
  <2>1. CASE ok
    BY <1>1, <1>2, <1>3, <1>4, <1>5, <2>1 DEF Handed, Total
  <2>2. CASE ~ok
    BY <1>3, <2>2 DEF Handed
  <2> QED
    BY <2>1, <2>2
<1>10. Closed' /\ ReceiptHonest'
  BY <1>1 DEF Closed, ReceiptHonest
<1> QED
  BY <1>6, <1>7, <1>8, <1>9, <1>10

-----------------------------------------------------------------------------
(* Every step of the broker keeps the invariant ...                        *)
LEMMA StepInv == BrokerInv /\ [BrokerNext]_brokerVars => BrokerInv'
<1> SUFFICES ASSUME BrokerInv, [BrokerNext]_brokerVars PROVE BrokerInv'
  OBVIOUS
<1>1. CASE BrokerStep
  BY <1>1, CheckStep, MoveSteps, ReceiptSteps, ReplyHandsOver, DenySteps, InvokeStep
     DEF BrokerStep, ReplyStep, Serve
<1>2. CASE ProviderStep
  BY <1>2, AnswerStep, RaiseStep DEF ProviderStep
<1>3. CASE Crash
  BY <1>3, MoveSteps
<1>4. CASE \/ Tick \/ PeerDies
           \/ \E c \in Clients : Send(c) \/ Reset(c) \/ \E r \in Requests : Connect(c, r)
  BY <1>4, PeerSteps
<1>5. CASE UNCHANGED brokerVars
  <2>1. BrokerTypeOK'
    BY <1>5 DEF brokerVars, BrokerInv, BrokerTypeOK
  <2> QED
    BY <1>5, <2>1, Untouched DEF brokerVars
<1> QED
  BY <1>1, <1>2, <1>3, <1>4, <1>5 DEF BrokerNext

(* ... so it holds in every reachable state.                               *)
LEMMA AlwaysInv == BrokerSpec => []BrokerInv
  BY InitInv, StepInv, PTL DEF BrokerSpec

(* The variables keep their types, and a connection is accepted before the *)
(* time cap.                                                               *)
THEOREM BrokerTypeCorrect == BrokerSpec => []BrokerTypeOK
<1>1. BrokerInv => BrokerTypeOK
  BY DEF BrokerInv
<1> QED
  BY <1>1, AlwaysInv, PTL

(* No provider call is ever lost: _serve_broker_connection has it in the   *)
(* session as metered or unknown before it serves another one.             *)
THEOREM CallsAreAccounted == BrokerSpec => []CallsAccounted
<1>1. BrokerInv => CallsAccounted
  BY DEF BrokerInv
<1> QED
  BY <1>1, AlwaysInv, PTL

(* _call_budget_rejection bounds the calls of a plane by its reservation   *)
(* and the usage by its limit and one response.                            *)
THEOREM SpendingIsBounded == BrokerSpec => []SpendBounded
<1>1. BrokerInv => SpendBounded
  BY DEF BrokerInv
<1> QED
  BY <1>1, AlwaysInv, PTL

(* The receipt of _build_receipt passes its validators and tells what the  *)
(* provider has seen, for any budgets, usages and number of clients.       *)
THEOREM ReceiptsAreHonest == BrokerSpec => []ReceiptHonest
<1>1. BrokerInv => ReceiptHonest
  BY DEF BrokerInv
<1> QED
  BY <1>1, AlwaysInv, PTL
=============================================================================
