---------------------------- MODULE AgentWebhook ----------------------------
(***************************************************************************)
(* The backend asks an agent what to bet (trigger_agent, run_agent), and   *)
(* an agent made with the SDK, whose webhook server was asked, bets by     *)
(* itself before it answers (webhook.py): each of the two is a client of   *)
(* the other.  A call that asks holds one of the backend's workers all the *)
(* time; the bet the agent sends meanwhile needs one as well.              *)
(***************************************************************************)
EXTENDS Naturals, Sequences, FiniteSets

CONSTANTS
    Calls,     \* the calls that trigger an agent, one market's
    Signed,    \* those of an agent whose server was given a secret
    Workers    \* how many requests the backend serves at once

ASSUME WebhookAssumption == Signed \subseteq Calls /\ Workers \in Nat \ {0}

VARIABLES
    market,     \* its status: "open" or "resolved"
    backlog,    \* the requests the backend has not taken yet, oldest first
    stage,      \* stage[r]: where the backend is with request r
    want,       \* want[c]: whether the backend is to bet itself
    hook,       \* hook[c]: where the agent's webhook handler is
    verdict,    \* verdict[c]: what the agent decided
    bets        \* the bets placed

vars == <<market, backlog, stage, want, hook, verdict, bets>>

\* A call, and the bet request the agent may send on account of it.
Requests == [kind : {"trigger", "bet"}, call : Calls]
TriggerOf(c) == [kind |-> "trigger", call |-> c]
BetOf(c) == [kind |-> "bet", call |-> c]

\* The requests that hold a worker.
Serving == {r \in Requests : stage[r] \in {"calling", "locking"}}

Init ==
    /\ market = "open"
    /\ backlog = <<>>
    /\ stage = [r \in Requests |-> "none"]
    /\ want \in [Calls -> {"bet", "decide"}]
    /\ hook = [c \in Calls |-> "none"]
    /\ verdict = [c \in Calls |-> "none"]
    /\ bets = {}

Submit(r) ==
    /\ stage' = [stage EXCEPT ![r] = "queued"]
    /\ backlog' = Append(backlog, r)

Leave(r) == stage' = [stage EXCEPT ![r] = "ended"]

----------------------------------------------------------------------------
(* The backend *)

\* POST /agents/<id>/trigger (which bets if it names a market), or webhook-trigger.
Trigger(c) ==
    /\ stage[TriggerOf(c)] = "none"
    /\ Submit(TriggerOf(c))
    /\ UNCHANGED <<market, want, hook, verdict, bets>>

\* A free worker begins with the oldest request.
NextInLine(r) ==
    /\ Cardinality(Serving) < Workers
    /\ backlog # <<>> /\ Head(backlog) = r
    /\ backlog' = Tail(backlog)

\* run_agent calls the agent's webhook and waits.
TakeTrigger(c) ==
    /\ NextInLine(TriggerOf(c))
    /\ stage' = [stage EXCEPT ![TriggerOf(c)] = "calling"]
    /\ hook' = [hook EXCEPT ![c] = "called"]
    /\ UNCHANGED <<market, want, verdict, bets>>

\* place_bet looks at the market's status; an open one goes on to lock_bet.
TakeBet(c) ==
    /\ NextInLine(BetOf(c))
    /\ stage' = [stage EXCEPT ![BetOf(c)] = IF market = "open" THEN "locking" ELSE "ended"]
    /\ UNCHANGED <<market, want, hook, verdict, bets>>

\* Mutant: without a timeout only a connection that breaks ends the wait.
TriggerWaits(c) ==
    /\ stage[TriggerOf(c)] = "calling" /\ hook[c] = "over"
    /\ Leave(TriggerOf(c))
    /\ UNCHANGED <<market, backlog, want, hook, verdict, bets>>

\* The agent did not answer within REQUEST_TIMEOUT_SECONDS, or the connection broke; if its
\* handler runs, it goes on.
TriggerTimesOut(c) ==
    /\ stage[TriggerOf(c)] = "calling"
    /\ Leave(TriggerOf(c))
    /\ UNCHANGED <<market, backlog, want, hook, verdict, bets>>

\* _call_webhook reads "decision" from the top level of the answer.
Decision(payload) == IF "decision" \in DOMAIN payload THEN payload.decision ELSE "NO"

\* The SDK's server wraps what its handler returned.
Payload(c) == [status |-> "success", result |-> [decision |-> verdict[c]]]

\* lock_bet returned: the bet is stored, the agent's by its side, the backend's own by
\* what it understood.
PlaceBet(r) ==
    /\ stage[r] = "locking"
    /\ Leave(r)
    /\ bets' = bets \cup {[request |-> r, side |-> IF r.kind = "bet" THEN verdict[r.call]
                                                   ELSE Decision(Payload(r.call))]}
    /\ UNCHANGED <<market, backlog, want, hook, verdict>>

\* Somebody resolves the market.
Resolve ==
    /\ market = "open"
    /\ market' = "resolved"
    /\ UNCHANGED <<backlog, stage, want, hook, verdict, bets>>

----------------------------------------------------------------------------
(* The agent's webhook server *)

\* Mutant: a refusal is read like an answer.
RejectReadAsAnswer(c) ==
    /\ hook[c] = "called" /\ c \in Signed
    /\ hook' = [hook EXCEPT ![c] = "over"]
    /\ IF stage[TriggerOf(c)] = "calling"
       THEN stage' = [stage EXCEPT ![TriggerOf(c)] =
                         IF want[c] = "bet" /\ market = "open" THEN "locking" ELSE "ended"]
       ELSE UNCHANGED stage
    /\ UNCHANGED <<market, backlog, want, verdict, bets>>

\* A server with a secret refuses the call, for the backend does not sign it.
Reject(c) ==
    /\ hook[c] = "called" /\ c \in Signed
    /\ hook' = [hook EXCEPT ![c] = "over"]
    /\ IF stage[TriggerOf(c)] = "calling" THEN Leave(TriggerOf(c)) ELSE UNCHANGED stage
    /\ UNCHANGED <<market, backlog, want, verdict, bets>>

\* Mutant: an agent that decided not to bet bets.
AnalyzeBetsAnyway(c) ==
    /\ hook[c] = "called" /\ c \notin Signed
    /\ \E v \in {"YES", "NO", "NO_BET"} : verdict' = [verdict EXCEPT ![c] = v]
    /\ hook' = [hook EXCEPT ![c] = "betting"]
    /\ Submit(BetOf(c))
    /\ UNCHANGED <<market, want, bets>>

\* analyze_market decided; an agent that decided for a side places its bet.
Analyze(c) ==
    /\ hook[c] = "called" /\ c \notin Signed
    /\ \E v \in {"YES", "NO", "NO_BET"} :
         /\ verdict' = [verdict EXCEPT ![c] = v]
         /\ IF v = "NO_BET"
            THEN hook' = [hook EXCEPT ![c] = "answering"] /\ UNCHANGED <<backlog, stage>>
            ELSE hook' = [hook EXCEPT ![c] = "betting"] /\ Submit(BetOf(c))
    /\ UNCHANGED <<market, want, bets>>

\* api.place_bet ends: answered, or given up after its own timeout, while the request
\* stays with the backend.
BetReturns(c) ==
    /\ hook[c] = "betting"
    /\ hook' = [hook EXCEPT ![c] = "answering"]
    /\ UNCHANGED <<market, backlog, stage, want, verdict, bets>>

\* The handler answers. If the backend still waits, it goes on to place_bet or is done.
Answer(c) ==
    /\ hook[c] = "answering"
    /\ hook' = [hook EXCEPT ![c] = "over"]
    /\ IF stage[TriggerOf(c)] = "calling"
       THEN stage' = [stage EXCEPT ![TriggerOf(c)] =
                         IF want[c] = "bet" /\ market = "open" THEN "locking" ELSE "ended"]
       ELSE UNCHANGED stage
    /\ UNCHANGED <<market, backlog, want, verdict, bets>>

Take == \E c \in Calls : TakeTrigger(c) \/ TakeBet(c)

Next ==
    \/ Take
    \/ \E c \in Calls : \/ Trigger(c) \/ TriggerTimesOut(c)
                        \/ Reject(c) \/ Analyze(c) \/ BetReturns(c) \/ Answer(c)
    \/ \E r \in Requests : PlaceBet(r)
    \/ Resolve

Spec == Init /\ [][Next]_vars

\* The backend's workers work, and its timeouts come; nothing is asked of an agent.
FairSpec ==
    /\ Spec
    /\ WF_vars(Take)
    /\ \A c \in Calls : WF_vars(TriggerTimesOut(c))
    /\ \A r \in Requests : WF_vars(PlaceBet(r))

----------------------------------------------------------------------------
(* Properties *)

\* The variables have their types; a bet is on a side, also that of an agent that may decide
\* for none.
TypeOK ==
    /\ market \in {"open", "resolved"}
    /\ backlog \in Seq(Requests)
    /\ stage \in [Requests -> {"none", "queued", "calling", "locking", "ended"}]
    /\ want \in [Calls -> {"bet", "decide"}]
    /\ hook \in [Calls -> {"none", "called", "betting", "answering", "over"}]
    /\ verdict \in [Calls -> {"none", "YES", "NO", "NO_BET"}]
    /\ bets \subseteq [request : Requests, side : {"YES", "NO"}]

\* A server that was given a secret, as the SDK's README advises, refuses the backend's calls:
\* no bet is placed on account of one, neither the agent's nor the backend's own.
SecretMeansNoBet == \A b \in bets : b.request.call \notin Signed

\* The backend never comes to a standstill with every worker waiting for an agent whose
\* own request waits for a worker: every request is served to its end, even if no agent
\* ever answers.
RequestsEnd == \A r \in Requests : stage[r] = "queued" ~> stage[r] = "ended"
=============================================================================
