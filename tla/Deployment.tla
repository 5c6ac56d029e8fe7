----------------------------- MODULE Deployment -----------------------------
(***************************************************************************)
(* The deployment scripts of SmartContracts/smart_contracts.               *)
(* deploy_testnet.py creates PlatformRegistry and pays its minimum         *)
(* balance; then, for each role, it creates a contract, pays its minimum   *)
(* balance and registers it under the role.  deploy_market_pool.py is the  *)
(* case without roles, its one contract being the pool.                    *)
(*                                                                         *)
(* Each operation sends a transaction and waits four rounds for it.  What  *)
(* goes wrong on the way is tried again, up to MaxRetries attempts, with a *)
(* new transaction: the one given up is valid for a thousand rounds and    *)
(* may be confirmed at any later time.  Who runs a script again starts     *)
(* from nothing, as it writes nothing down.                                *)
(***************************************************************************)
EXTENDS Naturals, Sequences, FiniteSets

CONSTANTS
    Roles,        \* how many roles are registered: 4, none for the market pool
    MaxRetries,   \* max_retries of retry_operation
    MaxRuns,      \* bound: runs of the script
    MaxSent       \* bound: transactions sent

ASSUME DeploymentAssumption ==
    /\ Roles \in Nat
    /\ MaxRetries \in Nat \ {0}
    /\ MaxRuns \in Nat
    /\ MaxSent \in Nat

VARIABLES
    run,        \* which run of the script this is
    pc,         \* where retry_operation stands
    op,         \* the operation: "deploy", "fund" or "register"
    con,        \* the contract it is about: a role's number, or Registry
    attempt,    \* attempts of the operation that failed
    app_id,     \* app_id[c]: the application the script knows contract c by
    txs,        \* every transaction sent, in order
    confirmed,  \* the positions in txs of those that took effect
    boxes       \* the registries' boxes, which name an application for a role

vars == <<run, pc, op, con, attempt, app_id, txs, confirmed, boxes>>
script == <<run, pc, op, con, attempt, app_id>>
chain == <<txs, confirmed, boxes>>

Registry == 0
Contracts == 0..Roles
NoApp == 0

Init ==
    /\ run = 0
    /\ pc = "idle"
    /\ op = "deploy"
    /\ con = Registry
    /\ attempt = 0
    /\ app_id = [c \in Contracts |-> NoApp]
    /\ txs = <<>>
    /\ confirmed = {}
    /\ boxes = {}

Ended == pc \in {"idle", "failed", "done"}

\* main, when a node answers and the deployer's balance suffices.
Begin ==
    /\ Ended
    /\ run < MaxRuns
    /\ run' = run + 1
    /\ pc' = "sending"
    /\ op' = "deploy"
    /\ con' = Registry
    /\ attempt' = 0
    /\ app_id' = [c \in Contracts |-> NoApp]
    /\ UNCHANGED chain

----------------------------------------------------------------------------
(* One operation: retry_operation around _deploy, _fund or _call *)

\* What is sent names the run for the sake of the properties. An application goes by the
\* position of the transaction that created it.
Transaction ==
    [op |-> op, con |-> con, app |-> app_id[con], registry |-> app_id[Registry], run |-> run]

Send ==
    /\ pc = "sending"
    /\ Len(txs) < MaxSent
    /\ txs' = Append(txs, Transaction)
    /\ pc' = "waiting"
    /\ UNCHANGED <<run, op, con, attempt, app_id, confirmed, boxes>>

\* The process ends, and what it knew is gone.
End ==
    /\ pc' = "failed"
    /\ op' = "deploy"
    /\ con' = Registry
    /\ attempt' = 0
    /\ app_id' = [c \in Contracts |-> NoApp]

\* An exception: no parameters from any node, a transaction refused, or no confirmation
\* within four rounds. What was sent stays sent.
Exception == pc \in {"sending", "waiting"}

\* Mutant: a failed attempt is not counted.
RetryUncounted ==
    /\ Exception
    /\ pc' = "sending"
    /\ UNCHANGED <<run, op, con, attempt, app_id, chain>>

\* Mutant: one attempt too many.
RetryOnceMore ==
    /\ Exception
    /\ attempt < MaxRetries
    /\ attempt' = attempt + 1
    /\ pc' = "sending"
    /\ UNCHANGED <<run, op, con, app_id, chain>>

\* Mutant: what is tried again is the whole role.
RetryWholeRole ==
    /\ Exception
    /\ attempt + 1 < MaxRetries
    /\ attempt' = attempt + 1
    /\ op' = "deploy"
    /\ pc' = "sending"
    /\ UNCHANGED <<run, con, app_id, chain>>

\* The operation is tried again, after time.sleep.
Retry ==
    /\ Exception
    /\ attempt + 1 < MaxRetries
    /\ attempt' = attempt + 1
    /\ pc' = "sending"
    /\ UNCHANGED <<run, op, con, app_id, chain>>

\* The last attempt's exception ends main.
GiveUp ==
    /\ Exception
    /\ attempt + 1 >= MaxRetries
    /\ End
    /\ UNCHANGED <<run, chain>>

\* Mutant: a contract is registered before it is paid.
AfterRegisterFirst(o, c) ==
    CASE o = "deploy" /\ c # Registry -> [op |-> "register", con |-> c]
      [] o = "register" \/ (o = "deploy" /\ c = Registry) -> [op |-> "fund", con |-> c]
      [] OTHER -> [op |-> "deploy", con |-> c + 1]

\* The order of main: create, pay, register, then the next role.
After(o, c) ==
    CASE o = "deploy" -> [op |-> "fund", con |-> c]
      [] o = "fund" /\ c # Registry -> [op |-> "register", con |-> c]
      [] OTHER -> [op |-> "deploy", con |-> c + 1]

\* The next operation of main, or its end.
Advance ==
    LET next == After(op, con)
    IN IF next.con \in Contracts
       THEN pc' = "sending" /\ op' = next.op /\ con' = next.con
       ELSE pc' = "done" /\ UNCHANGED <<op, con>>

\* Mutant: the script does not wait for the confirmation.
SucceedUnconfirmed ==
    /\ pc = "waiting"
    /\ app_id' = IF op = "deploy" THEN [app_id EXCEPT ![con] = Len(txs)] ELSE app_id
    /\ attempt' = 0
    /\ Advance
    /\ UNCHANGED <<run, chain>>

\* Mutant: the attempts of one operation count for the next.
SucceedWithoutReset ==
    /\ pc = "waiting"
    /\ Len(txs) \in confirmed
    /\ app_id' = IF op = "deploy" THEN [app_id EXCEPT ![con] = Len(txs)] ELSE app_id
    /\ attempt' = attempt + 1
    /\ Advance
    /\ UNCHANGED <<run, chain>>

\* wait_for_confirmation returns; the application created is known by its answer.
Succeed ==
    /\ pc = "waiting"
    /\ Len(txs) \in confirmed
    /\ app_id' = IF op = "deploy" THEN [app_id EXCEPT ![con] = Len(txs)] ELSE app_id
    /\ attempt' = 0
    /\ Advance
    /\ UNCHANGED <<run, chain>>

\* The process is ended in the middle.
Crash ==
    /\ ~Ended
    /\ End
    /\ UNCHANGED <<run, chain>>

----------------------------------------------------------------------------
(* The chain *)

\* PlatformRegistry.register_contract: the box of the role is written.
RegisterContract(t) ==
    {b \in boxes : b.registry # t.registry \/ b.role # t.con}
        \cup {[registry |-> t.registry, role |-> t.con, app |-> t.app]}

\* A transaction takes effect, in time or late. One that never does is just not confirmed.
Confirm(i) ==
    /\ i \in DOMAIN txs \ confirmed
    /\ confirmed' = confirmed \cup {i}
    /\ boxes' = IF txs[i].op = "register" THEN RegisterContract(txs[i]) ELSE boxes
    /\ UNCHANGED <<script, txs>>

Operation == Send \/ Retry \/ GiveUp \/ Succeed

Next == Begin \/ Operation \/ Crash \/ \E i \in DOMAIN txs : Confirm(i)

Spec == Init /\ [][Next]_vars

\* A node answers or the request fails, and a sleep ends.
FairSpec == Spec /\ WF_vars(Operation)

----------------------------------------------------------------------------
(* Properties *)

Transactions ==
    [op : {"deploy", "fund", "register"}, con : Contracts, app : Nat, registry : Nat,
     run : 0..MaxRuns]

\* The variables have their types.
TypeOK ==
    /\ run \in 0..MaxRuns
    /\ pc \in {"idle", "sending", "waiting", "failed", "done"}
    /\ op \in {"deploy", "fund", "register"}
    /\ con \in Contracts
    /\ attempt \in 0..(MaxRetries - 1)
    /\ app_id \in [Contracts -> Nat]
    /\ txs \in Seq(Transactions)
    /\ confirmed \subseteq DOMAIN txs
    /\ boxes \subseteq [registry : Nat, role : Contracts, app : Nat]

\* Application a is one of contract c.
IsApp(a, c) == a \in confirmed /\ txs[a].op = "deploy" /\ txs[a].con = c

\* Application a got its minimum balance.
Funded(a) == \E i \in confirmed : txs[i].op = "fund" /\ txs[i].app = a

\* "ALL CONTRACTS DEPLOYED SUCCESSFULLY!": the applications the script reports exist and
\* are paid, and the registry it reports names each of them for its role: now and after
\* every transaction that was given up and is confirmed all the same.
ReportedDeploymentIsWhole ==
    pc = "done" =>
        /\ \A c \in Contracts : IsApp(app_id[c], c) /\ Funded(app_id[c])
        /\ \A c \in Contracts \ {Registry} :
             [registry |-> app_id[Registry], role |-> c, app |-> app_id[c]] \in boxes

\* No registry, not even one of a run that failed in the middle, ever names an application
\* that is not of its role's contract or cannot pay for its own boxes.
NamedAppsAreFunded ==
    \A b \in boxes : IsApp(b.app, b.role) /\ Funded(b.app)

\* A registry is never made to name another application for a role, although attempts
\* overlap, runs follow one another and transactions take effect late.
NamesAreFinal == [][boxes \subseteq boxes']_boxes

\* What repeated attempts may cost: of a contract a run creates at most MaxRetries
\* applications, and an application is paid at most MaxRetries times.
DuplicatesAreBounded ==
    /\ \A c \in Contracts, r \in 1..MaxRuns :
         Cardinality({a \in confirmed : IsApp(a, c) /\ txs[a].run = r}) <= MaxRetries
    /\ \A a \in confirmed :
         Cardinality({i \in confirmed : txs[i].op = "fund" /\ txs[i].app = a}) <= MaxRetries

\* retry_operation gives up: a run that began ends.
RunEnds == ~Ended ~> Ended
=============================================================================
