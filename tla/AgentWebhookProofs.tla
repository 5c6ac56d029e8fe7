------------------------- MODULE AgentWebhookProofs -------------------------
(* What holds of AgentWebhook for every value of its constants. *)
EXTENDS AgentWebhook, TLAPS

\* The handler runs from when the call was taken; an agent sends a bet when it has decided
\* for a side.
HandlerInv ==
    \A c \in Calls :
        /\ hook[c] = "none" <=> stage[TriggerOf(c)] \in {"none", "queued"}
        /\ hook[c] \in {"none", "called"} => stage[BetOf(c)] = "none"
        /\ stage[BetOf(c)] # "none" => verdict[c] \in {"YES", "NO"}

\* Who stands in line waits, and stands there once.
LineInv ==
    /\ \A i \in 1..Len(backlog) : stage[backlog[i]] = "queued"
    /\ \A i, j \in 1..Len(backlog) : backlog[i] = backlog[j] => i = j

\* What the backend gets of an agent whose server has a secret is a refusal.
SecretInv ==
    \A c \in Signed :
        /\ hook[c] \in {"none", "called", "over"}
        /\ stage[BetOf(c)] = "none"
        /\ stage[TriggerOf(c)] # "locking"
        /\ \A b \in bets : b.request.call # c

HookInv == TypeOK /\ HandlerInv /\ LineInv /\ SecretInv

LEMMA RequestFacts ==
    /\ \A c \in Calls : TriggerOf(c) \in Requests /\ BetOf(c) \in Requests
    /\ \A c, d : /\ TriggerOf(c) # BetOf(d)
                 /\ TriggerOf(c) = TriggerOf(d) => c = d
                 /\ BetOf(c) = BetOf(d) => c = d
    /\ \A c : /\ TriggerOf(c).kind = "trigger" /\ TriggerOf(c).call = c
              /\ BetOf(c).kind = "bet" /\ BetOf(c).call = c
    /\ \A r \in Requests :
         /\ r.call \in Calls
         /\ \/ r.kind = "trigger" /\ r = TriggerOf(r.call)
            \/ r.kind = "bet" /\ r = BetOf(r.call)
<1>1. /\ \A c \in Calls : TriggerOf(c) \in Requests /\ BetOf(c) \in Requests
      /\ \A c : /\ TriggerOf(c).kind = "trigger" /\ TriggerOf(c).call = c
                /\ BetOf(c).kind = "bet" /\ BetOf(c).call = c
  BY DEF Requests, TriggerOf, BetOf
<1>2. \A c, d : /\ TriggerOf(c) # BetOf(d)
                /\ TriggerOf(c) = TriggerOf(d) => c = d
                /\ BetOf(c) = BetOf(d) => c = d
  BY DEF TriggerOf, BetOf
<1>3. \A r \in Requests :
        /\ r.call \in Calls
        /\ \/ r.kind = "trigger" /\ r = TriggerOf(r.call)
           \/ r.kind = "bet" /\ r = BetOf(r.call)
  BY DEF Requests, TriggerOf, BetOf
<1> QED
  BY <1>1, <1>2, <1>3

LEMMA InitInv == Init => HookInv
<1> SUFFICES ASSUME Init PROVE HookInv
  OBVIOUS
<1>1. TypeOK
  BY DEF Init, TypeOK
<1>2. HandlerInv /\ LineInv /\ SecretInv
  BY RequestFacts, WebhookAssumption DEF Init, HandlerInv, LineInv, SecretInv
<1> QED
  BY <1>1, <1>2 DEF HookInv

\* Whoever takes the head of the line leaves a line of the others.
LEMMA LineMoves ==
    ASSUME TypeOK, LineInv, NEW r, NextInLine(r)
    PROVE  /\ r \in Requests /\ stage[r] = "queued"
           /\ backlog' \in Seq(Requests)
           /\ \A i \in 1..Len(backlog') : stage[backlog'[i]] = "queued" /\ backlog'[i] # r
           /\ \A i, j \in 1..Len(backlog') : backlog'[i] = backlog'[j] => i = j
<1>1. /\ Len(backlog) \in Nat /\ Len(backlog) > 0 /\ backlog[1] = r
      /\ backlog' = Tail(backlog) /\ backlog \in Seq(Requests)
  BY DEF TypeOK, NextInLine
<1>2. /\ backlog' \in Seq(Requests) /\ Len(backlog') = Len(backlog) - 1
      /\ \A i \in 1..Len(backlog') : backlog'[i] = backlog[i + 1]
  BY <1>1
<1>3. r \in Requests
  BY <1>1
<1> QED
  BY <1>1, <1>2, <1>3 DEF LineInv

LEMMA LineGrows ==
    ASSUME TypeOK, LineInv, NEW r \in Requests, stage[r] = "none", Submit(r)
    PROVE  backlog' \in Seq(Requests) /\ LineInv'
<1>1. /\ Len(backlog) \in Nat /\ backlog' \in Seq(Requests)
      /\ Len(backlog') = Len(backlog) + 1 /\ backlog'[Len(backlog) + 1] = r
      /\ \A i \in 1..Len(backlog) : backlog'[i] = backlog[i] /\ backlog[i] \in Requests
  BY DEF TypeOK, Submit
<1>2. \A i \in 1..Len(backlog') : i \in 1..Len(backlog) \/ i = Len(backlog) + 1
  BY <1>1
<1>3. stage' = [stage EXCEPT ![r] = "queued"] /\ DOMAIN stage = Requests
  BY DEF Submit, TypeOK
<1>4. \A i \in 1..Len(backlog') : stage'[backlog'[i]] = "queued"
  BY <1>1, <1>2, <1>3 DEF LineInv
<1>5. \A i \in 1..Len(backlog) : backlog[i] # r
  BY DEF LineInv
<1>6. \A i, j \in 1..Len(backlog') : backlog'[i] = backlog'[j] => i = j
  BY <1>1, <1>2, <1>5 DEF LineInv
<1> QED
  BY <1>1, <1>4, <1>6 DEF LineInv

LEMMA TriggerStep == ASSUME HookInv, NEW c \in Calls, Trigger(c) PROVE HookInv'
<1> USE RequestFacts DEF HookInv, Trigger
<1> DEFINE r == TriggerOf(c)
<1>1. r \in Requests /\ stage[r] = "none" /\ Submit(r)
  OBVIOUS
<1>2. /\ stage' = [stage EXCEPT ![r] = "queued"]
      /\ UNCHANGED <<market, want, hook, verdict, bets>>
  BY DEF Submit
<1>3. backlog' \in Seq(Requests) /\ LineInv'
  BY <1>1, LineGrows
<1>4. TypeOK'
  BY <1>2, <1>3 DEF TypeOK
<1>5. HandlerInv' /\ SecretInv'
  BY <1>1, <1>2, WebhookAssumption DEF HandlerInv, SecretInv, TypeOK
<1> QED
  BY <1>3, <1>4, <1>5

LEMMA TakeTriggerStep == ASSUME HookInv, NEW c \in Calls, TakeTrigger(c) PROVE HookInv'
<1> USE RequestFacts DEF HookInv, TakeTrigger
<1> DEFINE r == TriggerOf(c)
<1>1. /\ r \in Requests /\ stage[r] = "queued" /\ NextInLine(r)
      /\ backlog' \in Seq(Requests)
      /\ \A i \in 1..Len(backlog') : stage[backlog'[i]] = "queued" /\ backlog'[i] # r
      /\ \A i, j \in 1..Len(backlog') : backlog'[i] = backlog'[j] => i = j
  BY LineMoves
<1>2. /\ stage' = [stage EXCEPT ![r] = "calling"] /\ hook' = [hook EXCEPT ![c] = "called"]
      /\ UNCHANGED <<market, want, verdict, bets>>
  OBVIOUS
<1>3. TypeOK'
  BY <1>1, <1>2 DEF TypeOK
<1>4. LineInv'
  BY <1>1, <1>2 DEF LineInv, TypeOK
<1>5. HandlerInv' /\ SecretInv'
  BY <1>1, <1>2, WebhookAssumption DEF HandlerInv, SecretInv, TypeOK
<1> QED
  BY <1>3, <1>4, <1>5

LEMMA TakeBetStep == ASSUME HookInv, NEW c \in Calls, TakeBet(c) PROVE HookInv'
<1> USE RequestFacts DEF HookInv, TakeBet
<1> DEFINE r == BetOf(c)
<1>1. /\ r \in Requests /\ stage[r] = "queued" /\ NextInLine(r)
      /\ backlog' \in Seq(Requests)
      /\ \A i \in 1..Len(backlog') : stage[backlog'[i]] = "queued" /\ backlog'[i] # r
      /\ \A i, j \in 1..Len(backlog') : backlog'[i] = backlog'[j] => i = j
  BY LineMoves
<1>2. PICK s \in {"locking", "ended"} : stage' = [stage EXCEPT ![r] = s]
  OBVIOUS
<1>3. UNCHANGED <<market, want, hook, verdict, bets>>
  OBVIOUS
<1>4. TypeOK'
  BY <1>1, <1>2, <1>3 DEF TypeOK
<1>5. LineInv'
  BY <1>1, <1>2 DEF LineInv, TypeOK
<1>6. HandlerInv' /\ SecretInv'
  BY <1>1, <1>2, <1>3, WebhookAssumption DEF HandlerInv, SecretInv, TypeOK
<1> QED
  BY <1>4, <1>5, <1>6

\* A step within requests that are served, and handlers that run, disturbs nobody else.
LEMMA ServedStep ==
    ASSUME HookInv, NEW r \in Requests, NEW s \in {"locking", "ended"},
           UNCHANGED <<market, backlog, want, verdict>>,
           stage[r] \in {"calling", "locking"} /\ stage' = [stage EXCEPT ![r] = s],
           s = "locking" => r.call \notin Signed,
           \/ hook' = hook
           \/ r.kind = "trigger" /\ hook' = [hook EXCEPT ![r.call] = "over"],
           bets' = bets \/ (r.call \notin Signed /\ \E x \in {"YES", "NO"} :
                              bets' = bets \cup {[request |-> r, side |-> x]})
    PROVE  HookInv'
<1> USE RequestFacts DEF HookInv
<1>1. TypeOK'
  BY DEF TypeOK
<1>2. LineInv'
  BY DEF LineInv, TypeOK
<1>3. HandlerInv'
  BY DEF HandlerInv, TypeOK
<1>4. SecretInv'
  BY WebhookAssumption DEF SecretInv, TypeOK
<1> QED
  BY <1>1, <1>2, <1>3, <1>4

\* So does one of the handler alone.
LEMMA HandlerStep ==
    ASSUME HookInv, NEW c \in Calls, hook[c] # "none",
           UNCHANGED <<market, backlog, stage, want, bets>>,
           \/ verdict' = verdict /\ hook[c] \in {"called", "answering"}
                /\ hook' = [hook EXCEPT ![c] = "over"]
           \/ verdict' = verdict /\ hook[c] = "betting"
                /\ hook' = [hook EXCEPT ![c] = "answering"]
           \/ verdict' = [verdict EXCEPT ![c] = "NO_BET"] /\ hook[c] = "called"
                /\ hook' = [hook EXCEPT ![c] = "answering"] /\ c \notin Signed
    PROVE  HookInv'
<1> USE RequestFacts DEF HookInv
<1>1. TypeOK'
  <2>1. hook' \in [Calls -> {"none", "called", "betting", "answering", "over"}]
    BY DEF TypeOK
  <2>2. verdict' \in [Calls -> {"none", "YES", "NO", "NO_BET"}]
    BY DEF TypeOK
  <2> QED
    BY <2>1, <2>2 DEF TypeOK
<1>2. LineInv'
  BY DEF LineInv
<1>3. HandlerInv'
  BY DEF HandlerInv, TypeOK
<1>4. SecretInv'
  BY WebhookAssumption DEF SecretInv, TypeOK
<1> QED
  BY <1>1, <1>2, <1>3, <1>4

LEMMA DecideStep ==
    ASSUME HookInv, NEW c \in Calls, NEW v \in {"YES", "NO"},
           hook[c] = "called", c \notin Signed,
           verdict' = [verdict EXCEPT ![c] = v], hook' = [hook EXCEPT ![c] = "betting"],
           Submit(BetOf(c)), UNCHANGED <<market, want, bets>>
    PROVE  HookInv'
<1> USE RequestFacts DEF HookInv
<1> DEFINE r == BetOf(c)
<1>1. r \in Requests /\ stage[r] = "none"
  BY DEF HandlerInv
<1>2. stage' = [stage EXCEPT ![r] = "queued"]
  BY DEF Submit
<1>3. backlog' \in Seq(Requests) /\ LineInv'
  BY <1>1, LineGrows
<1>4. TypeOK'
  BY <1>2, <1>3 DEF TypeOK
<1>5. HandlerInv'
  BY <1>1, <1>2 DEF HandlerInv, TypeOK
<1>6. SecretInv'
  BY <1>1, <1>2, WebhookAssumption DEF SecretInv, TypeOK
<1> QED
  BY <1>3, <1>4, <1>5, <1>6

LEMMA PlaceBetStep == ASSUME HookInv, NEW r \in Requests, PlaceBet(r) PROVE HookInv'
<1>1. r.call \notin Signed
  BY RequestFacts DEF HookInv, SecretInv, PlaceBet
<1>2. PICK x : /\ bets' = bets \cup {[request |-> r, side |-> x]}
               /\ r.kind = "bet" => x = verdict[r.call]
               /\ r.kind # "bet" => x = Decision(Payload(r.call))
  BY DEF PlaceBet
<1>3. x \in {"YES", "NO"}
  <2>1. CASE r.kind = "bet"
    BY <1>2, <2>1, RequestFacts DEF HookInv, HandlerInv, PlaceBet
  <2>2. CASE r.kind # "bet"
    BY <1>2, <2>2 DEF Decision, Payload
  <2> QED
    BY <2>1, <2>2
<1> QED
  BY <1>1, <1>2, <1>3, ServedStep DEF PlaceBet, Leave

LEMMA AnswerStep == ASSUME HookInv, NEW c \in Calls, Answer(c) PROVE HookInv'
<1>1. c \notin Signed /\ hook[c] = "answering"
  BY DEF HookInv, SecretInv, Answer
<1>2. CASE stage[TriggerOf(c)] = "calling"
  <2>1. PICK s \in {"locking", "ended"} : stage' = [stage EXCEPT ![TriggerOf(c)] = s]
    BY <1>2 DEF Answer
  <2>2. /\ UNCHANGED <<market, backlog, want, verdict, bets>>
        /\ hook' = [hook EXCEPT ![c] = "over"]
    BY DEF Answer
  <2>3. TriggerOf(c) \in Requests /\ TriggerOf(c).kind = "trigger" /\ TriggerOf(c).call = c
    BY RequestFacts
  <2> QED
    BY <1>1, <1>2, <2>1, <2>2, <2>3, ServedStep
<1>3. CASE stage[TriggerOf(c)] # "calling"
  BY <1>1, <1>3, HandlerStep DEF Answer
<1> QED
  BY <1>2, <1>3

LEMMA RejectStep == ASSUME HookInv, NEW c \in Calls, Reject(c) PROVE HookInv'
<1>1. CASE stage[TriggerOf(c)] = "calling"
  BY <1>1, RequestFacts, ServedStep DEF Reject, Leave
<1>2. CASE stage[TriggerOf(c)] # "calling"
  BY <1>2, HandlerStep DEF Reject
<1> QED
  BY <1>1, <1>2

LEMMA AnalyzeStep == ASSUME HookInv, NEW c \in Calls, Analyze(c) PROVE HookInv'
<1>1. PICK v \in {"YES", "NO", "NO_BET"} :
        /\ verdict' = [verdict EXCEPT ![c] = v]
        /\ IF v = "NO_BET"
           THEN hook' = [hook EXCEPT ![c] = "answering"] /\ UNCHANGED <<backlog, stage>>
           ELSE hook' = [hook EXCEPT ![c] = "betting"] /\ Submit(BetOf(c))
  BY DEF Analyze
<1>2. hook[c] = "called" /\ c \notin Signed /\ UNCHANGED <<market, want, bets>>
  BY DEF Analyze
<1>3. CASE v = "NO_BET"
  BY <1>1, <1>2, <1>3, HandlerStep
<1>4. CASE v \in {"YES", "NO"}
  BY <1>1, <1>2, <1>4, DecideStep
<1> QED
  BY <1>3, <1>4

LEMMA NextInv == HookInv /\ [Next]_vars => HookInv'
<1> SUFFICES ASSUME HookInv, [Next]_vars PROVE HookInv'
  OBVIOUS
<1>1. ASSUME NEW c \in Calls, TriggerTimesOut(c) PROVE HookInv'
  <2>1. /\ UNCHANGED <<market, backlog, want, hook, verdict, bets>>
        /\ stage[TriggerOf(c)] = "calling"
        /\ stage' = [stage EXCEPT ![TriggerOf(c)] = "ended"]
    BY <1>1 DEF TriggerTimesOut, Leave
  <2>2. TriggerOf(c) \in Requests
    BY RequestFacts
  <2> QED
    BY <2>1, <2>2, ServedStep
<1>2. ASSUME NEW c \in Calls, BetReturns(c) PROVE HookInv'
  BY <1>2, HandlerStep DEF BetReturns
<1>3. CASE Resolve \/ UNCHANGED vars
  <2>1. /\ UNCHANGED <<backlog, stage, want, hook, verdict, bets>>
        /\ market' = market \/ market' = "resolved"
    BY <1>3 DEF Resolve, vars
  <2>2. TypeOK' /\ HandlerInv' /\ LineInv' /\ SecretInv'
    BY <2>1 DEF HookInv, TypeOK, HandlerInv, LineInv, SecretInv
    <2> QED
    BY <2>2 DEF HookInv
<1> QED
  BY <1>1, <1>2, <1>3, TriggerStep, TakeTriggerStep, TakeBetStep, RejectStep, AnalyzeStep,
     AnswerStep, PlaceBetStep DEF Next, Take

LEMMA InvHolds == Spec => []HookInv
BY InitInv, NextInv, PTL DEF Spec

\* The variables keep their types, however the calls, the agents' bets and the timeouts
\* interleave: a bet that was placed is on a side.
THEOREM WebhookTypeCorrect == Spec => []TypeOK
<1>1. HookInv => TypeOK
  BY DEF HookInv
<1> QED
  BY <1>1, InvHolds, PTL

\* A server that was given a secret, as the SDK's README advises, refuses every call of the
\* backend: the agent never has a bet on account of one, its own or the backend's.
THEOREM SecretServersNeverBet == Spec => []SecretMeansNoBet
<1>1. HookInv => SecretMeansNoBet
  BY DEF HookInv, SecretInv, SecretMeansNoBet
<1> QED
  BY <1>1, InvHolds, PTL
=============================================================================
