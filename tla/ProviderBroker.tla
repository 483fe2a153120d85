--------------------------- MODULE ProviderBroker ---------------------------
(***************************************************************************)
(* The provider broker (aec_bench/harness/provider_broker_runtime.py): one *)
(* process that holds the credentials, serves one connection after another *)
(* of its peer process, admits a call against call, token and cost budgets *)
(* and a time cap, invokes the provider, meters the response, and ends     *)
(* with one receipt.                                                       *)
(*                                                                         *)
(* Calls and usage are kept as the counts and sums that the code takes of  *)
(* its lists.  A meter stands for tokens or cost; one without a limit is   *)
(* left out.  A request is a call on a plane, a finalization, or "refused" *)
(* for one that is malformed or not authorized in whatever way.            *)
(***************************************************************************)
EXTENDS Integers

CONSTANTS
    Clients,            \* BrokeredRlmClients of the peer process
    MaxCalls,           \* [Planes -> Nat]: max_main_calls, max_auxiliary_calls
    Meters, Limit,      \* [Meters -> Nat]: max_total_tokens, max_cost_usd
    Usages,             \* what one response may use
    Timeout,            \* timeout_seconds
    MaxClock, MaxRequests   \* bounds

Planes == {"main", "auxiliary"}
Requests == Planes \cup {"finalize", "refused"}

ASSUME BrokerConstants ==
    /\ Clients # {} /\ MaxCalls \in [Planes -> Nat] /\ Limit \in [Meters -> Nat \ {0}]
    /\ Usages \subseteq [Meters -> Nat]
    /\ Timeout \in Nat \ {0} /\ MaxClock \in Nat /\ MaxRequests \in Nat

VARIABLES
    clock,
    broker,     \* the serving thread
    session,    \* _BrokerSession
    receipt,    \* the persisted receipt
    client,     \* [Clients -> the request it waits for]
    asked,      \* how many requests there were
    peer,       \* the peer process is alive
    provider,   \* calls and usage that the provider has seen
    handed      \* metered responses that were handed over

brokerVars == <<clock, broker, session, receipt, client, asked, peer, provider, handed>>

Zero(S) == [s \in S |-> 0]
Plus(f, g) == [s \in DOMAIN f |-> f[s] + g[s]]
Tally(f, p) == [f EXCEPT ![p] = @ + 1]
Total(f) == f["main"] + f["auxiliary"]

NoReceipt == [status |-> "none"]
IdleClient == [pc |-> "idle", request |-> "refused"]
Looping == [pc |-> "loop", elapsed |-> 0, serves |-> CHOOSE c \in Clients : TRUE,
            plane |-> "main", started |-> 0]

BrokerInit ==
    /\ clock = 0 /\ asked = 0 /\ handed = 0 /\ peer = TRUE
    /\ broker = Looping
    /\ session = [calls |-> Zero(Planes), spent |-> Zero(Meters), unknown |-> Zero(Planes),
                  index |-> 0, denied |-> 0, failed |-> FALSE]
    /\ receipt = NoReceipt
    /\ client = [c \in Clients |-> IdleClient]
    /\ provider = [invoked |-> Zero(Planes), used |-> Zero(Meters), last |-> Zero(Meters)]

At(pc) == broker.pc = pc
Running == ~At("closed") /\ ~At("crashed")
Goto(pc) == broker' = [broker EXCEPT !.pc = pc]
Loop == broker' = Looping
Answered(c) == client' = [client EXCEPT ![c] = IdleClient]

-----------------------------------------------------------------------------
(* The peer's clients, its death, and time.                                *)
Connect(c, r) ==
    /\ Running /\ peer /\ client[c].pc = "idle" /\ asked < MaxRequests
    /\ client' = [client EXCEPT ![c] = [pc |-> "connected", request |-> r]]
    /\ asked' = asked + 1
    /\ UNCHANGED <<clock, broker, session, receipt, peer, provider, handed>>

Send(c) ==
    /\ peer /\ client[c].pc = "connected"
    /\ client' = [client EXCEPT ![c].pc = "sent"]
    /\ UNCHANGED <<clock, broker, session, receipt, asked, peer, provider, handed>>

PeerDies ==
    /\ peer /\ peer' = FALSE
    /\ UNCHANGED <<clock, broker, session, receipt, client, asked, provider, handed>>

Tick ==
    /\ clock < MaxClock /\ clock' = clock + 1
    /\ UNCHANGED <<broker, session, receipt, client, asked, peer, provider, handed>>

(* Variant: the socket is not closed with the server.                      *)
ResetForgotten(c) ==
    /\ At("crashed") /\ client[c].pc # "idle"
    /\ Answered(c)
    /\ UNCHANGED <<clock, broker, session, receipt, asked, peer, provider, handed>>

(* The server's socket is closed: a client that is not served gets an      *)
(* error.                                                                  *)
Reset(c) ==
    /\ ~Running /\ client[c].pc # "idle"
    /\ Answered(c)
    /\ UNCHANGED <<clock, broker, session, receipt, asked, peer, provider, handed>>

-----------------------------------------------------------------------------
(* The loop of _serve_broker_session.                                      *)
(* Variant: the cap itself is still in time.                               *)
EndsLate == session.failed \/ clock > Timeout \/ ~peer

Ends == session.failed \/ clock >= Timeout \/ ~peer

Check ==
    /\ At("loop")
    /\ \/ /\ Ends
          /\ session' = [session EXCEPT !.failed = TRUE] /\ Goto("finish")
       \/ /\ ~Ends
          /\ broker' = [broker EXCEPT !.pc = "accept", !.elapsed = clock] /\ UNCHANGED session
    /\ UNCHANGED <<clock, receipt, client, asked, peer, provider, handed>>

(* Variant: the socket has no timeout.                                     *)
AcceptBlocks == FALSE

AcceptTimesOut ==
    /\ At("accept") /\ \A c \in Clients : client[c].pc = "idle"
    /\ Loop
    /\ UNCHANGED <<clock, session, receipt, client, asked, peer, provider, handed>>

Accept(c) ==
    /\ At("accept") /\ client[c].pc # "idle"
    /\ broker' = [broker EXCEPT !.pc = "receive", !.serves = c]
    /\ UNCHANGED <<clock, session, receipt, client, asked, peer, provider, handed>>

(* _build_receipt and _persist_receipt.                                    *)
Status ==
    IF Total(session.unknown) # 0 THEN "effect_unknown"
    ELSE IF session.failed THEN "failed" ELSE "completed"

Receipt == [status |-> Status, calls |-> session.calls, spent |-> session.spent,
            unknown |-> session.unknown, index |-> session.index, failed |-> session.failed]

Finish ==
    /\ At("finish")
    /\ receipt' = Receipt /\ Goto("closed")
    /\ UNCHANGED <<clock, session, client, asked, peer, provider, handed>>

-----------------------------------------------------------------------------
(* _serve_broker_connection.                                               *)
Serves(c) == At("receive") /\ broker.serves = c
Received(c, r) == client[c].pc = "sent" /\ client[c].request = r

Deny(terminal) ==
    session' = [session EXCEPT !.denied = @ + 1, !.failed = @ \/ terminal]

(* A peer that dies before it has sent leaves an empty payload.            *)
ReceiveRefused(c) ==
    /\ Serves(c)
    /\ Received(c, "refused") \/ (client[c].pc = "connected" /\ ~peer)
    /\ Deny(FALSE) /\ Answered(c) /\ Loop
    /\ UNCHANGED <<clock, receipt, asked, peer, provider, handed>>

Finalize(c) ==
    /\ Serves(c) /\ Received(c, "finalize")
    /\ receipt' = Receipt /\ Answered(c) /\ Goto("closed")
    /\ UNCHANGED <<clock, session, asked, peer, provider, handed>>

TimeOver == broker.elapsed >= Timeout

(* Variant: a budget is exhausted only when it is exceeded.                *)
RejectedAfter(p) ==
    \/ TimeOver
    \/ Total(session.calls) > Total(MaxCalls) \/ session.calls[p] > MaxCalls[p]
    \/ \E m \in Meters : session.spent[m] > Limit[m]

(* _call_budget_rejection.                                                 *)
Rejected(p) ==
    \/ TimeOver
    \/ Total(session.calls) >= Total(MaxCalls) \/ session.calls[p] >= MaxCalls[p]
    \/ \E m \in Meters : session.spent[m] >= Limit[m]

Reject(c, p) ==
    /\ Serves(c) /\ Received(c, p) /\ Rejected(p)
    /\ Deny(TimeOver) /\ Answered(c) /\ Loop
    /\ UNCHANGED <<clock, receipt, asked, peer, provider, handed>>

(* An admitted call is made at once.                                       *)
Invoke(c, p) ==
    /\ Serves(c) /\ Received(c, p) /\ ~Rejected(p)
    /\ broker' = [broker EXCEPT !.pc = "calling", !.plane = p, !.started = clock]
    /\ provider' = [provider EXCEPT !.invoked = Tally(@, p), !.last = Zero(Meters)]
    /\ UNCHANGED <<clock, session, receipt, client, asked, peer, handed>>

Uses(u) == provider' = [provider EXCEPT !.used = Plus(@, u), !.last = u]

(* _metered_call_outcome: the call is recorded, and over is terminal.      *)
Over(u) ==
    \/ \E m \in Meters : session.spent[m] + u[m] > Limit[m]
    \/ (clock - broker.started) + broker.elapsed > Timeout

Answer(u) ==
    /\ At("calling")
    /\ Uses(u)
    /\ session' = [session EXCEPT !.calls = Tally(@, broker.plane), !.spent = Plus(@, u),
                                  !.denied = IF Over(u) THEN @ + 1 ELSE @,
                                  !.failed = @ \/ Over(u)]
    /\ Goto("reply")
    /\ UNCHANGED <<clock, receipt, client, asked, peer, handed>>

(* Variant: the exception is answered like a denial.                       *)
RaiseForgotten(u) ==
    /\ At("calling")
    /\ Uses(u)
    /\ Deny(FALSE) /\ Answered(broker.serves) /\ Loop
    /\ UNCHANGED <<clock, receipt, asked, peer, handed>>

(* The provider, or the metering of its response, raises, whatever the     *)
(* provider has used: _effect_unknown_outcome.                             *)
Raise(u) ==
    /\ At("calling")
    /\ Uses(u)
    /\ session' = [session EXCEPT !.unknown = Tally(@, broker.plane),
                                  !.index = Total(session.calls) + 1, !.failed = TRUE]
    /\ Answered(broker.serves) /\ Loop
    /\ UNCHANGED <<clock, receipt, asked, peer, handed>>

(* Variant: a response that cannot be sent is of no concern.               *)
ReplyUnchecked(ok) ==
    /\ At("reply") /\ (ok => peer)
    /\ handed' = IF ok THEN handed + 1 ELSE handed
    /\ Answered(broker.serves) /\ Loop
    /\ UNCHANGED <<clock, session, receipt, asked, peer, provider>>

(* A response may be too large to send, or its reader gone.                *)
Reply(ok) ==
    /\ At("reply") /\ (ok => peer)
    /\ handed' = IF ok THEN handed + 1 ELSE handed
    /\ session' = [session EXCEPT !.failed = @ \/ ~ok]
    /\ Answered(broker.serves) /\ Loop
    /\ UNCHANGED <<clock, receipt, asked, peer, provider>>

Crash ==
    /\ Running /\ Goto("crashed")
    /\ UNCHANGED <<clock, session, receipt, client, asked, peer, provider, handed>>

-----------------------------------------------------------------------------
Serve(c) ==
    \/ ReceiveRefused(c) \/ Finalize(c)
    \/ \E p \in Planes : Reject(c, p) \/ Invoke(c, p)

ProviderStep == \E u \in Usages : Answer(u) \/ Raise(u)
ReplyStep == \E ok \in BOOLEAN : Reply(ok)
BrokerStep ==
    \/ Check \/ AcceptTimesOut \/ Finish \/ ReplyStep
    \/ \E c \in Clients : Accept(c) \/ Serve(c)

BrokerNext ==
    \/ BrokerStep \/ ProviderStep \/ Tick \/ PeerDies \/ Crash
    \/ \E c \in Clients : Send(c) \/ Reset(c) \/ \E r \in Requests : Connect(c, r)

(* The broker waits for a live peer: for the request of a connection, or   *)
(* for the reader of a large response.  An accepted socket has no timeout. *)
Held == peer /\ \/ At("receive") /\ client[broker.serves].pc = "connected"
                \/ At("reply")

(* The broker runs unless it is held, a provider call comes to an end (its *)
(* client has a timeout), time passes, and a closed socket resets its      *)
(* connections.  Nobody makes a peer send, or read what it is sent.        *)
BrokerFairness ==
    /\ WF_brokerVars(BrokerStep /\ ~Held)
    /\ WF_brokerVars(ProviderStep) /\ WF_brokerVars(Tick)
    /\ \A c \in Clients : WF_brokerVars(Reset(c))

BrokerSpec == BrokerInit /\ [][BrokerNext]_brokerVars
FairBrokerSpec == BrokerSpec /\ BrokerFairness

-----------------------------------------------------------------------------
BrokerPcs == {"loop", "accept", "receive", "calling", "reply", "finish", "closed", "crashed"}
Counts == [Planes -> Nat]
Sums == [Meters -> Nat]

(* The variables have their types, and a connection is accepted in time.   *)
BrokerTypeOK ==
    /\ clock \in Nat /\ asked \in Nat /\ handed \in Nat /\ peer \in BOOLEAN
    /\ broker \in [pc : BrokerPcs, elapsed : 0 .. Timeout - 1, serves : Clients,
                   plane : Planes, started : Nat]
    /\ session \in [calls : Counts, spent : Sums, unknown : Counts, index : Nat,
                    denied : Nat, failed : BOOLEAN]
    /\ receipt \in {NoReceipt} \cup
          [status : {"completed", "failed", "effect_unknown"}, calls : Counts, spent : Sums,
           unknown : Counts, index : Nat, failed : BOOLEAN]
    /\ client \in [Clients -> [pc : {"idle", "connected", "sent"}, request : Requests]]
    /\ provider \in [invoked : Counts, used : Sums, last : Sums]

(* Every call that reached the provider is metered or recorded as unknown, *)
(* or is being made.                                                       *)
InFlight(p) == IF At("calling") /\ broker.plane = p THEN 1 ELSE 0
CallsAccounted ==
    ~At("crashed") => \A p \in Planes :
        provider.invoked[p] = session.calls[p] + session.unknown[p] + InFlight(p)

(* No plane makes more calls than its reservation, crashed brokers         *)
(* included, and a limit is passed by the usage of one response at most.   *)
SpendBounded ==
    /\ \A p \in Planes : provider.invoked[p] <= MaxCalls[p]
    /\ \A m \in Meters : provider.used[m] < Limit[m] + provider.last[m]

(* The persisted receipt is one that the contract's validators accept, and *)
(* tells what happened.  Unless it says that an effect is unknown, it has  *)
(* every call and all of the usage; if it says completed, the usage is     *)
(* within the limits and every response was handed over.                   *)
ReceiptHonest ==
    receipt # NoReceipt =>
        /\ receipt.status = "effect_unknown" =>
              /\ Total(receipt.unknown) = 1 /\ receipt.failed
              /\ receipt.index = Total(receipt.calls) + 1
              /\ \A m \in Meters : receipt.spent[m] <= provider.used[m]
        /\ receipt.status # "effect_unknown" =>
              /\ receipt.calls = provider.invoked
              /\ receipt.spent = provider.used
        /\ receipt.status = "completed" =>
              /\ ~receipt.failed
              /\ \A m \in Meters : provider.used[m] <= Limit[m]
              /\ handed = Total(receipt.calls)

(* The broker comes to an end, finalized or not, through denials, failing  *)
(* calls and the death of its peer, unless a peer holds it.  "Serve one    *)
(* policy-bound broker until finalization or its time cap" says more: a    *)
(* held broker passes the cap.                                             *)
BrokerEnds == <>~Running \/ <>[]Held

(* No client waits for ever, unless some connection holds the broker: a    *)
(* request is answered or reset, whenever the broker or the peer ends.     *)
RequestsReturn ==
    \A c \in Clients :
        (client[c].pc # "idle" ~> (client[c].pc = "idle" \/ ~peer)) \/ <>[]Held
=============================================================================
