-------------------------- MODULE DeploymentProofs --------------------------
(* What holds of Deployment for every value of its constants. *)
EXTENDS Deployment, FiniteSetTheorems, TLAPS

Box(t) == [registry |-> t.registry, role |-> t.con, app |-> t.app]

\* The script waits for what it sent last.
WaitInv == pc = "waiting" => Len(txs) > 0 /\ txs[Len(txs)] = Transaction

\* What the script knows are applications of this run, and those of the contracts it came
\* to: main goes through the contracts in order.
KnownInv ==
    \A c \in Contracts :
        /\ app_id[c] # NoApp => IsApp(app_id[c], c) /\ txs[app_id[c]].run = run
        /\ c > con \/ (c = con /\ op = "deploy") => app_id[c] = NoApp

Named(c) == [registry |-> app_id[Registry], role |-> c, app |-> app_id[c]] \in boxes

Whole(c) == IsApp(app_id[c], c) /\ Funded(app_id[c]) /\ (c # Registry => Named(c))

\* The contracts before the present one are finished, and the present one is as far as its
\* operation tells.
ProgressInv ==
    /\ pc \in {"sending", "waiting"} =>
         /\ \A c \in Contracts : c < con => Whole(c)
         /\ op # "deploy" => app_id[con] # NoApp
         /\ op = "register" => con # Registry /\ Funded(app_id[con])
    /\ pc = "done" => \A c \in Contracts : Whole(c)
    /\ Ended => pc = "done" \/ \A c \in Contracts : app_id[c] = NoApp

\* A registration is about a paid application of its role, and a registry of its own run;
\* those of the present run are about what the script knows.
TxInv ==
    \A i \in DOMAIN txs :
        /\ txs[i].run <= run
        /\ txs[i].op = "register" =>
             /\ IsApp(txs[i].app, txs[i].con) /\ Funded(txs[i].app)
             /\ txs[i].registry \in DOMAIN txs /\ txs[txs[i].registry].run = txs[i].run
             /\ txs[i].run = run /\ pc # "failed" =>
                  txs[i].registry = app_id[Registry] /\ txs[i].app = app_id[txs[i].con]

\* No two registrations give a role of a registry to different applications.
SameName ==
    \A i, j \in DOMAIN txs :
        /\ txs[i].op = "register" /\ txs[j].op = "register"
        /\ txs[i].registry = txs[j].registry /\ txs[i].con = txs[j].con
        => txs[i].app = txs[j].app

\* The boxes are the registrations that took effect.
BoxInv ==
    /\ \A b \in boxes : \E i \in confirmed : txs[i].op = "register" /\ b = Box(txs[i])
    /\ \A i \in confirmed : txs[i].op = "register" => Box(txs[i]) \in boxes

DeployInv ==
    TypeOK /\ WaitInv /\ KnownInv /\ ProgressInv /\ TxInv /\ SameName /\ BoxInv

LEMMA ConstantFacts ==
    /\ Roles \in Nat /\ MaxRetries \in Nat \ {0} /\ MaxRuns \in Nat /\ MaxSent \in Nat
    /\ Registry = 0 /\ NoApp = 0 /\ Registry \in Contracts /\ Contracts = 0..Roles
BY DeploymentAssumption DEF Registry, NoApp, Contracts

LEMMA EmptyTxs == DOMAIN <<>> = {} /\ Len(<<>>) = 0
OBVIOUS

LEMMA InitInv == Init => DeployInv
<1> SUFFICES ASSUME Init PROVE DeployInv
  OBVIOUS
<1> USE ConstantFacts, EmptyTxs DEF Init
<1>1. TypeOK
  BY DEF TypeOK
<1>2. WaitInv /\ KnownInv /\ ProgressInv
  BY DEF WaitInv, KnownInv, ProgressInv, Ended
<1>3. TxInv /\ SameName /\ BoxInv
  BY DEF TxInv, SameName, BoxInv
<1> QED
  BY <1>1, <1>2, <1>3 DEF DeployInv

\* The chain forgets nothing.
Growth ==
    /\ DOMAIN txs \subseteq DOMAIN txs'
    /\ \A i \in DOMAIN txs : txs'[i] = txs[i]
    /\ confirmed \subseteq confirmed'

LEMMA AppsRemain ==
    ASSUME TypeOK, Growth
    PROVE  /\ \A a, c : IsApp(a, c) => IsApp(a, c)'
           /\ \A a : Funded(a) => Funded(a)'
BY DEF Growth, IsApp, Funded, TypeOK

LEMMA AppsAreSent ==
    ASSUME TypeOK
    PROVE  \A a, c : IsApp(a, c) => a \in DOMAIN txs /\ a # NoApp
BY ConstantFacts DEF TypeOK, IsApp

LEMMA BeginStep == DeployInv /\ Begin => DeployInv'
<1> SUFFICES ASSUME DeployInv, Begin PROVE DeployInv'
  OBVIOUS
<1> USE ConstantFacts DEF DeployInv, Begin, chain
<1>1. TypeOK'
  BY DEF TypeOK
<1>2. WaitInv' /\ KnownInv' /\ ProgressInv'
  BY DEF WaitInv, KnownInv, ProgressInv, Ended, TypeOK
<1>3. TxInv'
  <2>a. \A i \in DOMAIN txs : txs[i] \in Transactions
    BY DEF TypeOK
  <2>1. \A i \in DOMAIN txs : txs[i].run <= run /\ txs[i].run \in Nat /\ run \in Nat
    BY <2>a DEF TxInv, TypeOK, Transactions
  <2>2. \A i \in DOMAIN txs : txs[i].run <= run + 1 /\ txs[i].run # run + 1
    BY <2>1
  <2> QED
    BY <2>2 DEF TxInv, IsApp, Funded
<1>4. SameName' /\ BoxInv'
  BY DEF SameName, BoxInv, Box
<1> QED
  BY <1>1, <1>2, <1>3, <1>4

LEMMA EndStep == DeployInv /\ End /\ UNCHANGED <<run, chain>> => DeployInv'
<1> SUFFICES ASSUME DeployInv, End, UNCHANGED <<run, chain>> PROVE DeployInv'
  OBVIOUS
<1> USE ConstantFacts DEF DeployInv, End, chain
<1>1. TypeOK'
  BY DEF TypeOK
<1>2. WaitInv' /\ KnownInv' /\ ProgressInv'
  BY DEF WaitInv, KnownInv, ProgressInv, Ended
<1>3. TxInv'
  BY DEF TxInv, IsApp, Funded
<1>4. SameName' /\ BoxInv'
  BY DEF SameName, BoxInv, Box
<1> QED
  BY <1>1, <1>2, <1>3, <1>4

LEMMA RetryStep == DeployInv /\ Retry => DeployInv'
<1> SUFFICES ASSUME DeployInv, Retry PROVE DeployInv'
  OBVIOUS
<1> USE ConstantFacts DEF DeployInv, Retry, Exception, chain
<1>1. TypeOK'
  BY DEF TypeOK
<1>2. WaitInv' /\ KnownInv'
  BY DEF WaitInv, KnownInv, IsApp
<1>3. ProgressInv'
  BY DEF ProgressInv, Ended, Whole, Named, IsApp, Funded
<1>4. TxInv'
  BY DEF TxInv, IsApp, Funded
<1>5. SameName' /\ BoxInv'
  BY DEF SameName, BoxInv, Box
<1> QED
  BY <1>1, <1>2, <1>3, <1>4, <1>5

LEMMA SendStep == DeployInv /\ Send => DeployInv'
<1> SUFFICES ASSUME DeployInv, Send PROVE DeployInv'
  OBVIOUS
<1> USE ConstantFacts DEF DeployInv, Send
<1> DEFINE n == Len(txs) + 1
<1>0. Transaction \in Transactions
  BY DEF Transaction, Transactions, TypeOK
<1>1. /\ txs \in Seq(Transactions) /\ DOMAIN txs = 1..Len(txs) /\ Len(txs) \in Nat
      /\ txs' \in Seq(Transactions) /\ DOMAIN txs' = 1..n /\ Len(txs') = n
      /\ txs'[n] = Transaction /\ \A i \in DOMAIN txs : txs'[i] = txs[i]
  BY <1>0 DEF TypeOK
<1>2. Growth
  BY <1>1 DEF Growth
<1>3. TypeOK'
  BY <1>1 DEF TypeOK
<1>4. WaitInv'
  BY <1>1 DEF WaitInv, Transaction
<1> HIDE DEF n
<1>5. KnownInv'
  BY <1>1, <1>2, AppsRemain, AppsAreSent DEF KnownInv
<1>6. ProgressInv'
  BY <1>2, AppsRemain DEF ProgressInv, Ended, Whole, Named
<1>7. ASSUME op = "register"
      PROVE  /\ con # Registry /\ con \in Contracts
             /\ app_id[con] # NoApp /\ IsApp(app_id[con], con) /\ Funded(app_id[con])
             /\ app_id[Registry] # NoApp /\ app_id[Registry] \in DOMAIN txs
             /\ txs[app_id[Registry]].run = run
  <2>1. con # Registry /\ con \in Contracts /\ app_id[con] # NoApp /\ Funded(app_id[con])
    BY <1>7 DEF ProgressInv, TypeOK
  <2>2. IsApp(app_id[con], con)
    BY <2>1 DEF KnownInv
  <2>3. IsApp(app_id[Registry], Registry)
    BY <2>1 DEF ProgressInv, Whole
  <2> QED
    BY <2>1, <2>2, <2>3, AppsAreSent DEF KnownInv
<1>8. TxInv'
  <2> SUFFICES ASSUME NEW i \in DOMAIN txs'
               PROVE  /\ txs'[i].run <= run
                      /\ txs'[i].op = "register" =>
                           /\ IsApp(txs[i].app, txs[i].con)' /\ Funded(txs[i].app)'
                           /\ txs'[i].registry \in DOMAIN txs'
                           /\ txs'[txs'[i].registry].run = txs'[i].run
                           /\ txs'[i].run = run =>
                                /\ txs'[i].registry = app_id[Registry]
                                /\ txs'[i].app = app_id[txs'[i].con]
    BY DEF TxInv
  <2>1. CASE i \in DOMAIN txs
    BY <1>1, <1>2, <2>1, AppsRemain DEF TxInv, Growth
  <2>2. CASE i = n
    <3>1. txs'[i] = Transaction
      BY <1>1, <2>2
    <3>2. txs'[i].run = run /\ run <= run
      BY <3>1 DEF Transaction, TypeOK
    <3>3. CASE txs'[i].op = "register"
      <4>1. /\ op = "register" /\ txs'[i].con = con /\ txs'[i].app = app_id[con]
            /\ txs'[i].registry = app_id[Registry]
        BY <3>1, <3>3 DEF Transaction
      <4> QED
        BY <1>1, <1>2, <1>7, <3>2, <4>1, AppsRemain DEF Growth
    <3> QED
      BY <3>2, <3>3
  <2> QED
    BY <1>1, <2>1, <2>2 DEF n
<1>9. SameName'
  <2>1. ASSUME NEW j \in DOMAIN txs, txs[j].op = "register", op = "register",
               txs[j].registry = app_id[Registry], txs[j].con = con
        PROVE  txs[j].app = app_id[con]
    <3>1. txs[j].run = run
      BY <1>7, <2>1 DEF TxInv
    <3> QED
      BY <2>1, <3>1 DEF TxInv
  <2>2. ASSUME NEW i \in DOMAIN txs', NEW j \in DOMAIN txs',
               txs'[i].op = "register", txs'[j].op = "register",
               txs'[i].registry = txs'[j].registry, txs'[i].con = txs'[j].con
        PROVE  txs'[i].app = txs'[j].app
    <3>1. \A k \in DOMAIN txs' : k \in DOMAIN txs \/ k = n
      BY <1>1 DEF n
    <3>2. CASE i \in DOMAIN txs /\ j \in DOMAIN txs
      BY <1>1, <2>2, <3>2 DEF SameName
    <3>3. CASE i = n /\ j \in DOMAIN txs
      BY <1>1, <2>1, <2>2, <3>3 DEF Transaction
    <3>4. CASE i \in DOMAIN txs /\ j = n
      BY <1>1, <2>1, <2>2, <3>4 DEF Transaction
    <3> QED
      BY <3>1, <3>2, <3>3, <3>4
  <2> QED
    BY <2>2 DEF SameName
<1>10. BoxInv'
  BY <1>1 DEF BoxInv, Box, TypeOK
<1> QED
  BY <1>3, <1>4, <1>5, <1>6, <1>8, <1>9, <1>10

LEMMA AdvanceFacts ==
    ASSUME TypeOK, Advance
    PROVE  \/ /\ op = "deploy" /\ pc' = "sending" /\ op' = "fund" /\ con' = con
           \/ /\ op = "fund" /\ con # Registry
              /\ pc' = "sending" /\ op' = "register" /\ con' = con
           \/ /\ op = "register" \/ (op = "fund" /\ con = Registry)
              /\ con + 1 \in Contracts
              /\ pc' = "sending" /\ op' = "deploy" /\ con' = con + 1
           \/ /\ op = "register" \/ (op = "fund" /\ con = Registry)
              /\ con = Roles
              /\ pc' = "done" /\ op' = op /\ con' = con
BY ConstantFacts DEF Advance, After, TypeOK

LEMMA SucceedStep == DeployInv /\ Succeed => DeployInv'
<1> SUFFICES ASSUME DeployInv, Succeed PROVE DeployInv'
  OBVIOUS
<1> USE ConstantFacts DEF DeployInv, chain
<1> DEFINE last == txs[Len(txs)]
<1>1. /\ UNCHANGED <<run, txs, confirmed, boxes>>
      /\ \A a, c : IsApp(a, c)' <=> IsApp(a, c)
      /\ \A a : Funded(a)' <=> Funded(a)
  BY DEF Succeed, IsApp, Funded
<1>2. /\ pc = "waiting" /\ Len(txs) \in confirmed /\ Len(txs) \in DOMAIN txs
      /\ last.op = op /\ last.con = con /\ last.app = app_id[con]
      /\ last.registry = app_id[Registry] /\ last.run = run
      /\ con \in Contracts /\ con \in Nat
  BY DEF Succeed, WaitInv, Transaction, TypeOK
<1>3. /\ op = "deploy" => app_id' = [app_id EXCEPT ![con] = Len(txs)]
      /\ op # "deploy" => app_id' = app_id
      /\ app_id \in [Contracts -> Nat] /\ attempt' = 0 /\ Len(txs) \in Nat
  BY DEF Succeed, TypeOK
<1>4. Advance
  BY DEF Succeed
<1>5. TypeOK'
  <2>1. app_id' \in [Contracts -> Nat]
    BY <1>2, <1>3
  <2>2. /\ pc' \in {"sending", "done"} /\ op' \in {"deploy", "fund", "register"}
        /\ con' \in Contracts
    BY <1>2, <1>4, AdvanceFacts DEF TypeOK
  <2> QED
    BY <1>1, <1>3, <2>1, <2>2 DEF TypeOK
<1>6. WaitInv' /\ ~Ended
  BY <1>2, <1>4, AdvanceFacts DEF WaitInv, Ended
<1>7. SameName' /\ BoxInv'
  BY <1>1 DEF SameName, BoxInv, Box
<1>8. CASE op = "deploy"
  <2>1. /\ app_id' = [app_id EXCEPT ![con] = Len(txs)]
        /\ pc' = "sending" /\ op' = "fund" /\ con' = con
    BY <1>3, <1>4, <1>8, AdvanceFacts
  <2>2. app_id[con] = NoApp
    BY <1>2, <1>8 DEF KnownInv
  <2>3. IsApp(Len(txs), con) /\ Len(txs) # NoApp
    BY <1>2, <1>8, AppsAreSent DEF IsApp
  <2>4. \A c \in Contracts : app_id'[c] = IF c = con THEN Len(txs) ELSE app_id[c]
    BY <1>3, <2>1
  <2>5. KnownInv'
    BY <1>1, <1>2, <2>1, <2>3, <2>4 DEF KnownInv
  <2>6. ASSUME NEW c \in Contracts, c < con PROVE Whole(c)'
    <3>1. Whole(c) /\ c # con /\ Registry # con
      BY <1>2, <2>6 DEF ProgressInv
    <3> QED
      BY <1>1, <2>4, <3>1 DEF Whole, Named
  <2>7. ProgressInv'
    BY <1>2, <2>1, <2>3, <2>4, <2>6 DEF ProgressInv, Ended
  <2>8. TxInv'
    <3>1. ASSUME NEW i \in DOMAIN txs, txs[i].op = "register", txs[i].run = run
          PROVE  /\ txs[i].registry = app_id'[Registry]
                 /\ txs[i].app = app_id'[txs[i].con]
      <4>1. /\ txs[i].registry = app_id[Registry] /\ txs[i].app = app_id[txs[i].con]
            /\ txs[i].registry \in DOMAIN txs /\ IsApp(txs[i].app, txs[i].con)
        BY <1>2, <3>1 DEF TxInv
      <4>2. txs[i].con \in Contracts
        <5>1. txs[i] \in Transactions
          BY DEF TypeOK
        <5> QED
          BY <5>1 DEF Transactions
      <4>3. 0 \notin DOMAIN txs
        BY DEF TypeOK
      <4>4. Registry # con /\ txs[i].con # con
        BY <2>2, <4>1, <4>3, AppsAreSent
      <4> QED
        BY <2>4, <4>1, <4>2, <4>4
    <3> QED
      BY <1>1, <3>1 DEF TxInv
  <2> QED
    BY <1>5, <1>6, <1>7, <2>5, <2>7, <2>8
<1>9. CASE op # "deploy"
  <2>1. app_id' = app_id /\ app_id[con] # NoApp /\ IsApp(app_id[con], con)
    BY <1>2, <1>3, <1>9 DEF ProgressInv, KnownInv
  <2>2. \A c : Whole(c)' <=> Whole(c)
    BY <1>1, <2>1 DEF Whole, Named
  <2>3. TxInv'
    BY <1>1, <1>2, <2>1 DEF TxInv
  <2>4. KnownInv'
    BY <1>1, <1>2, <1>4, <1>9, <2>1, AdvanceFacts DEF KnownInv
  <2>5. Funded(app_id[con])
    BY <1>2, <1>9 DEF Funded, ProgressInv, TypeOK, Transactions
  <2>6. op = "register" => Named(con)
    BY <1>2 DEF BoxInv, Box, Named
  <2>7. op = "register" \/ con = Registry => Whole(con)
    BY <2>1, <2>5, <2>6 DEF Whole
  <2>8. \A c \in Contracts : c < con => Whole(c)
    BY <1>2 DEF ProgressInv
  <2>9. CASE op = "fund" /\ con # Registry
    <3>1. pc' = "sending" /\ op' = "register" /\ con' = con
      BY <1>4, <2>9, AdvanceFacts
    <3>2. ProgressInv'
      BY <1>1, <2>1, <2>2, <2>5, <2>8, <2>9, <3>1 DEF ProgressInv, Ended
    <3> QED
      BY <1>5, <1>6, <1>7, <2>3, <2>4, <3>2
  <2>10. CASE op = "register" \/ con = Registry
    <3>1. \A c \in Contracts : c < con + 1 => Whole(c)
      BY <1>2, <2>7, <2>8, <2>10
    <3>2. \/ pc' = "sending" /\ op' = "deploy" /\ con' = con + 1
          \/ pc' = "done" /\ con = Roles
      BY <1>4, <1>9, <2>10, AdvanceFacts DEF TypeOK
    <3>3. ProgressInv'
      BY <2>2, <3>1, <3>2 DEF ProgressInv, Ended
    <3> QED
      BY <1>5, <1>6, <1>7, <2>3, <2>4, <3>3
  <2> QED
    BY <1>9, <2>9, <2>10 DEF TypeOK
<1> QED
  BY <1>8, <1>9

\* A registration that takes effect, late or not, leaves every name as it was.
LEMMA NamesKept ==
    ASSUME DeployInv, NEW i \in DOMAIN txs, Confirm(i)
    PROVE  boxes \subseteq boxes'
<1> SUFFICES ASSUME NEW b \in boxes, txs[i].op = "register" PROVE b \in boxes'
  BY DEF Confirm
<1>1. PICK j \in confirmed : txs[j].op = "register" /\ b = Box(txs[j])
  BY DEF DeployInv, BoxInv
<1>2. j \in DOMAIN txs
  BY DEF DeployInv, TypeOK
<1>3. CASE b.registry # txs[i].registry \/ b.role # txs[i].con
  BY <1>3 DEF Confirm, RegisterContract
<1>4. CASE b.registry = txs[i].registry /\ b.role = txs[i].con
  <2>1. txs[j].app = txs[i].app
    BY <1>1, <1>2, <1>4 DEF DeployInv, SameName, Box
  <2>2. b = Box(txs[i])
    BY <1>1, <1>4, <2>1 DEF Box
  <2> QED
    BY <2>2 DEF Confirm, RegisterContract, Box
<1> QED
  BY <1>3, <1>4

LEMMA ConfirmStep ==
    ASSUME DeployInv, NEW i \in DOMAIN txs, Confirm(i)
    PROVE  DeployInv'
<1> USE ConstantFacts DEF DeployInv, script
<1>1. /\ UNCHANGED <<run, pc, op, con, attempt, app_id, txs>>
      /\ confirmed' = confirmed \cup {i}
      /\ txs[i].op = "register" => boxes' = RegisterContract(txs[i])
      /\ txs[i].op # "register" => boxes' = boxes
  BY DEF Confirm
<1>2. Growth
  BY <1>1 DEF Growth
<1>3. boxes \subseteq boxes'
  BY NamesKept
<1>4. txs[i] \in Transactions
  BY DEF TypeOK
<1>5. TypeOK'
  <2>1. /\ txs[i].con \in Contracts /\ txs[i].registry \in Nat /\ txs[i].app \in Nat
    BY <1>4 DEF Transactions
  <2>2. boxes' \subseteq [registry : Nat, role : Contracts, app : Nat]
    BY <1>1, <2>1 DEF TypeOK, RegisterContract
  <2> QED
    BY <1>1, <2>2 DEF TypeOK
<1>6. WaitInv' /\ SameName'
  BY <1>1 DEF WaitInv, Transaction, SameName
<1>7. KnownInv'
  BY <1>1, <1>2, AppsRemain DEF KnownInv
<1>8. \A c : Whole(c) => Whole(c)'
  BY <1>1, <1>2, <1>3, AppsRemain DEF Whole, Named
<1>9. ProgressInv'
  BY <1>1, <1>2, <1>8, AppsRemain DEF ProgressInv, Ended
<1>10. TxInv'
  BY <1>1, <1>2, AppsRemain DEF TxInv
<1>11. BoxInv'
  <2>1. \A b \in boxes' : b \in boxes \/ (txs[i].op = "register" /\ b = Box(txs[i]))
    BY <1>1 DEF RegisterContract, Box
  <2>2. txs[i].op = "register" => Box(txs[i]) \in boxes'
    BY <1>1 DEF RegisterContract, Box
  <2>3. \A t : Box(t)' = Box(t)
    BY DEF Box
  <2>4. \A b \in boxes' : \E j \in confirmed' : txs[j].op = "register" /\ b = Box(txs[j])
    BY <1>1, <2>1 DEF BoxInv
  <2>5. \A j \in confirmed' : txs[j].op = "register" => Box(txs[j]) \in boxes'
    BY <1>1, <1>3, <2>2 DEF BoxInv
  <2> QED
    BY <1>1, <2>4, <2>5 DEF BoxInv, Box
<1> QED
  BY <1>5, <1>6, <1>7, <1>9, <1>10, <1>11

LEMMA NextInv == DeployInv /\ [Next]_vars => DeployInv'
<1> SUFFICES ASSUME DeployInv, [Next]_vars PROVE DeployInv'
  OBVIOUS
<1>1. CASE UNCHANGED vars
  BY <1>1 DEF vars, DeployInv, TypeOK, WaitInv, Transaction, KnownInv, IsApp, ProgressInv,
     Ended, Whole, Named, Funded, TxInv, SameName, BoxInv, Box
<1>2. CASE Begin \/ Operation \/ Crash
  BY <1>2, BeginStep, SendStep, RetryStep, EndStep, SucceedStep
  DEF Operation, GiveUp, Crash
<1>3. CASE \E i \in DOMAIN txs : Confirm(i)
  BY <1>3, ConfirmStep
<1> QED
  BY <1>1, <1>2, <1>3 DEF Next

LEMMA InvHolds == Spec => []DeployInv
BY InitInv, NextInv, PTL DEF Spec

\* Every variable of the deployment keeps its type.
THEOREM DeploymentTypeCorrect == Spec => []TypeOK
<1>1. DeployInv => TypeOK
  BY DEF DeployInv
<1> QED
  BY <1>1, InvHolds, PTL

\* For every number of roles and attempts: a script that reports success reports paid
\* applications, named by the registry it reports, whatever is confirmed late.
THEOREM DeploymentIsWhole == Spec => []ReportedDeploymentIsWhole
<1>1. DeployInv => ReportedDeploymentIsWhole
  BY DEF DeployInv, ProgressInv, ReportedDeploymentIsWhole, Whole, Named
<1> QED
  BY <1>1, InvHolds, PTL

\* At no time does a registry name an application that is another contract's or unpaid.
THEOREM NamedAppsCanPay == Spec => []NamedAppsAreFunded
<1>1. DeployInv => NamedAppsAreFunded
  BY DEF DeployInv, TypeOK, TxInv, BoxInv, Box, NamedAppsAreFunded
<1> QED
  BY <1>1, InvHolds, PTL

\* No transaction, late or repeated, makes a registry name another application.
THEOREM NamesStay == Spec => NamesAreFinal
<1>1. DeployInv /\ [Next]_vars => [boxes \subseteq boxes']_boxes
  <2> SUFFICES ASSUME DeployInv, [Next]_vars, boxes' # boxes PROVE boxes \subseteq boxes'
    OBVIOUS
  <2>1. PICK i \in DOMAIN txs : Confirm(i)
    BY DEF Next, vars, chain, Begin, Operation, Send, Retry, GiveUp, Succeed, Crash
  <2> QED
    BY <2>1, NamesKept
<1> QED
  BY <1>1, InvHolds, PTL DEF Spec, NamesAreFinal
----------------------------------------------------------------------------
(* The attempts at one operation are counted. *)

\* The transactions a run sent for one of its operations.
Tries(o, c, r) == {i \in DOMAIN txs : txs[i].op = o /\ txs[i].con = c /\ txs[i].run = r}

\* The order of main, in numbers.
Rank(o, c) == 3 * c + (IF o = "deploy" THEN 0 ELSE IF o = "fund" THEN 1 ELSE 2)

\* Nothing was sent yet for an operation that is still to come, and a payment goes to an
\* application of its own contract and run.
ComingInv ==
    \A i \in DOMAIN txs :
        /\ txs[i].run = run /\ ~Ended => Rank(txs[i].op, txs[i].con) <= Rank(op, con)
        /\ txs[i].op = "fund" => /\ IsApp(txs[i].app, txs[i].con)
                                 /\ txs[txs[i].app].run = txs[i].run

\* The present operation has sent no more than its failed attempts and the one it waits for.
AttemptInv ==
    \A o, c, r :
        /\ Cardinality(Tries(o, c, r)) <= MaxRetries
        /\ ~Ended /\ o = op /\ c = con /\ r = run =>
             /\ Cardinality(Tries(o, c, r)) <= attempt + 1
             /\ pc = "sending" => Cardinality(Tries(o, c, r)) <= attempt

CountInv == ComingInv /\ AttemptInv

LEMMA TriesFinite ==
    ASSUME TypeOK, NEW o, NEW c, NEW r
    PROVE  /\ IsFiniteSet(Tries(o, c, r)) /\ Cardinality(Tries(o, c, r)) \in Nat
           /\ (\A i \in DOMAIN txs : ~(txs[i].op = o /\ txs[i].con = c /\ txs[i].run = r))
                => Cardinality(Tries(o, c, r)) = 0
<1>1. DOMAIN txs = 1..Len(txs) /\ Len(txs) \in Nat
  BY DEF TypeOK
<1>2. IsFiniteSet(DOMAIN txs)
  BY <1>1, FS_Interval
<1>3. Tries(o, c, r) \subseteq DOMAIN txs
  BY DEF Tries
<1>4. IsFiniteSet(Tries(o, c, r))
  BY <1>2, <1>3, FS_Subset
<1>5. Cardinality(Tries(o, c, r)) \in Nat
  BY <1>4, FS_CardinalityType
<1>6. ASSUME \A i \in DOMAIN txs : ~(txs[i].op = o /\ txs[i].con = c /\ txs[i].run = r)
      PROVE  Cardinality(Tries(o, c, r)) = 0
  <2>1. Tries(o, c, r) = {}
    BY <1>6 DEF Tries
  <2> QED
    BY <2>1, FS_EmptySet
<1> QED
  BY <1>4, <1>5, <1>6

LEMMA InitCount == Init => CountInv
<1> SUFFICES ASSUME Init PROVE CountInv
  OBVIOUS
<1>1. TypeOK
  BY InitInv DEF DeployInv
<1>2. DOMAIN txs = {} /\ Ended
  BY EmptyTxs DEF Init, Ended
<1>3. \A o, c, r : Cardinality(Tries(o, c, r)) = 0
  BY <1>1, <1>2, TriesFinite
<1> QED
  BY <1>2, <1>3, ConstantFacts DEF CountInv, ComingInv, AttemptInv

LEMMA SendCount == DeployInv /\ CountInv /\ Send => CountInv'
<1> SUFFICES ASSUME DeployInv, CountInv, Send PROVE CountInv'
  OBVIOUS
<1> USE ConstantFacts
<1> DEFINE n == Len(txs) + 1
<1>0. TypeOK /\ Transaction \in Transactions
  BY DEF DeployInv, Transaction, Transactions, TypeOK
<1>1. /\ txs' = Append(txs, Transaction) /\ n \notin DOMAIN txs
      /\ DOMAIN txs' = DOMAIN txs \cup {n} /\ txs'[n] = Transaction
      /\ \A i \in DOMAIN txs : txs'[i] = txs[i]
  BY <1>0 DEF Send, TypeOK
<1>2. /\ UNCHANGED <<run, op, con, attempt, app_id, confirmed>> /\ pc = "sending"
      /\ pc' = "waiting" /\ ~Ended /\ ~Ended'
  BY DEF Send, Ended
<1> HIDE DEF n
<1>3. ComingInv'
  <2>1. op = "fund" => IsApp(app_id[con], con) /\ txs[app_id[con]].run = run
    BY <1>0, <1>2 DEF DeployInv, ProgressInv, KnownInv, TypeOK
  <2>2. Growth
    BY <1>1, <1>2 DEF Growth
  <2>3. ASSUME NEW i \in DOMAIN txs'
        PROVE  /\ txs'[i].run = run => Rank(txs'[i].op, txs'[i].con) <= Rank(op, con)
               /\ txs'[i].op = "fund" => /\ IsApp(txs[i].app, txs[i].con)'
                                         /\ txs'[txs'[i].app].run = txs'[i].run
    <3>1. CASE i \in DOMAIN txs
      BY <1>0, <1>1, <1>2, <2>2, <3>1, AppsRemain, AppsAreSent DEF CountInv, ComingInv
    <3>2. CASE i = n
      <4>1. /\ txs'[i].op = op /\ txs'[i].con = con /\ txs'[i].run = run
            /\ txs'[i].app = app_id[con]
        BY <1>1, <3>2 DEF Transaction
      <4>2. Rank(op, con) <= Rank(op, con)
        BY <1>0 DEF Rank, TypeOK
      <4> QED
        BY <1>0, <1>1, <2>1, <2>2, <4>1, <4>2, AppsRemain, AppsAreSent
    <3> QED
      BY <1>1, <3>1, <3>2
  <2> QED
    BY <1>2, <2>3 DEF ComingInv, Rank
<1>4. AttemptInv'
  <2> SUFFICES ASSUME NEW o, NEW c, NEW r
               PROVE  /\ Cardinality(Tries(o, c, r)') <= MaxRetries
                      /\ o = op /\ c = con /\ r = run =>
                           Cardinality(Tries(o, c, r)') <= attempt + 1
    BY <1>2 DEF AttemptInv
  <2>1. IsFiniteSet(Tries(o, c, r)) /\ Cardinality(Tries(o, c, r)) \in Nat
    BY <1>0, TriesFinite
  <2>2. CASE o = op /\ c = con /\ r = run
    <3>1. Tries(o, c, r)' = Tries(o, c, r) \cup {n} /\ n \notin Tries(o, c, r)
      BY <1>1, <2>2 DEF Tries, Transaction
    <3>2. Cardinality(Tries(o, c, r)') = Cardinality(Tries(o, c, r)) + 1
      BY <2>1, <3>1, FS_AddElement
    <3>3. Cardinality(Tries(o, c, r)) <= attempt
      BY <1>2, <2>2 DEF CountInv, AttemptInv
    <3>4. attempt \in Nat /\ attempt + 1 <= MaxRetries
      BY <1>0 DEF TypeOK
    <3> QED
      BY <2>1, <3>2, <3>3, <3>4
  <2>3. CASE ~(o = op /\ c = con /\ r = run)
    <3>1. Tries(o, c, r)' = Tries(o, c, r)
      BY <1>1, <2>3 DEF Tries, Transaction
    <3> QED
      BY <2>3, <3>1 DEF CountInv, AttemptInv
  <2> QED
    BY <2>2, <2>3
<1> QED
  BY <1>3, <1>4 DEF CountInv

\* What Succeed goes to comes after what it leaves.
LEMMA RankGrows ==
    ASSUME TypeOK, Advance
    PROVE  pc' = "done" \/ (pc' = "sending" /\ Rank(op, con) + 1 <= Rank(op', con'))
<1>1. con \in Nat
  BY ConstantFacts DEF TypeOK
<1>2. \/ pc' = "done"
      \/ pc' = "sending" /\ op = "deploy" /\ op' = "fund" /\ con' = con
      \/ pc' = "sending" /\ op = "fund" /\ op' = "register" /\ con' = con
      \/ pc' = "sending" /\ op # "deploy" /\ op' = "deploy" /\ con' = con + 1
  BY AdvanceFacts
<1> QED
  BY <1>1, <1>2 DEF Rank

LEMMA SucceedCount == DeployInv /\ CountInv /\ Succeed => CountInv'
<1> SUFFICES ASSUME DeployInv, CountInv, Succeed PROVE CountInv'
  OBVIOUS
<1> USE ConstantFacts
<1>1. /\ UNCHANGED <<run, txs, confirmed>> /\ attempt' = 0 /\ pc = "waiting" /\ ~Ended
      /\ TypeOK /\ Advance /\ TypeOK'
  BY SucceedStep DEF Succeed, DeployInv, Ended, chain
<1>2. pc' = "done" \/ (pc' = "sending" /\ Rank(op, con) + 1 <= Rank(op', con'))
  BY <1>1, RankGrows
<1>3. /\ Rank(op, con) \in Nat /\ Rank(op', con') \in Nat
      /\ \A i \in DOMAIN txs : Rank(txs[i].op, txs[i].con) \in Nat
  <2>1. con \in Nat /\ con' \in Nat
    BY <1>1 DEF TypeOK
  <2>2. \A i \in DOMAIN txs : txs[i] \in Transactions
    BY <1>1 DEF TypeOK
  <2>3. \A i \in DOMAIN txs : txs[i].con \in Nat
    BY <2>2 DEF Transactions
  <2>4. Rank(op, con) \in Nat /\ Rank(op', con') \in Nat
    <3>1. \A c \in Nat : 3 * c + 0 \in Nat /\ 3 * c + 1 \in Nat /\ 3 * c + 2 \in Nat
      OBVIOUS
    <3>2. Rank(op, con) \in {3 * con + 0, 3 * con + 1, 3 * con + 2}
      BY DEF Rank
    <3>3. Rank(op', con') \in {3 * con' + 0, 3 * con' + 1, 3 * con' + 2}
      BY DEF Rank
    <3> QED
      BY <2>1, <3>1, <3>2, <3>3
  <2>5. ASSUME NEW i \in DOMAIN txs PROVE Rank(txs[i].op, txs[i].con) \in Nat
    BY <2>3 DEF Rank
  <2> QED
    BY <2>4, <2>5
<1>4. pc' # "done" => \A i \in DOMAIN txs :
        txs[i].run = run => Rank(txs[i].op, txs[i].con) + 1 <= Rank(op', con')
  BY <1>1, <1>2, <1>3 DEF CountInv, ComingInv
<1>5. ComingInv'
  BY <1>1, <1>3, <1>4 DEF CountInv, ComingInv, Ended, IsApp, Rank
<1>6. AttemptInv'
  <2> SUFFICES ASSUME NEW o, NEW c, NEW r
               PROVE  /\ Cardinality(Tries(o, c, r)') <= MaxRetries
                      /\ ~Ended' /\ o = op' /\ c = con' /\ r = run =>
                           Cardinality(Tries(o, c, r)') = 0
    BY <1>1 DEF AttemptInv
  <2>1. Tries(o, c, r)' = Tries(o, c, r)
    BY <1>1 DEF Tries
  <2>2. ASSUME ~Ended', o = op', c = con', r = run
        PROVE  Cardinality(Tries(o, c, r)) = 0
    <3>1. \A i \in DOMAIN txs : ~(txs[i].op = o /\ txs[i].con = c /\ txs[i].run = r)
      BY <1>3, <1>4, <2>2 DEF Ended
    <3> QED
      BY <1>1, <3>1, TriesFinite
  <2> QED
    BY <2>1, <2>2 DEF CountInv, AttemptInv
<1> QED
  BY <1>5, <1>6 DEF CountInv

\* The steps that send nothing.
LEMMA OtherCount ==
    ASSUME DeployInv, CountInv, UNCHANGED txs, confirmed \subseteq confirmed',
           \/ UNCHANGED <<run, pc, op, con, attempt>>
           \/ Retry
           \/ Begin
           \/ run' = run /\ Ended'
    PROVE  CountInv'
<1> USE ConstantFacts
<1>1. TypeOK /\ \A i \in DOMAIN txs : txs[i] \in Transactions
  BY DEF DeployInv, TypeOK
<1>2. \A a, c : IsApp(a, c) => IsApp(a, c)'
  BY DEF IsApp
<1>3. \A o, c, r : /\ Tries(o, c, r)' = Tries(o, c, r)
                   /\ Cardinality(Tries(o, c, r)) \in Nat
  <2>1. \A o, c, r : Tries(o, c, r)' = Tries(o, c, r)
    BY DEF Tries
  <2>2. \A o, c, r : Cardinality(Tries(o, c, r)) \in Nat
    BY <1>1, TriesFinite
  <2> QED
    BY <2>1, <2>2
<1>4. \A i \in DOMAIN txs : txs[i].run <= run /\ txs[i].run \in Nat /\ run \in Nat
  BY <1>1 DEF DeployInv, TxInv, TypeOK, Transactions
<1>5. CASE UNCHANGED <<run, pc, op, con, attempt>>
  BY <1>2, <1>3, <1>5 DEF CountInv, ComingInv, AttemptInv, Ended, Rank
<1>6. CASE run' = run /\ Ended'
  BY <1>2, <1>3, <1>6 DEF CountInv, ComingInv, AttemptInv
<1>7. CASE Retry
  <2>1. /\ UNCHANGED <<run, op, con>> /\ attempt' = attempt + 1 /\ attempt \in Nat
        /\ ~Ended
    BY <1>1, <1>7 DEF Retry, Exception, Ended, TypeOK
  <2>2. ComingInv'
    BY <1>2, <2>1 DEF CountInv, ComingInv, Rank
  <2>3. AttemptInv'
    BY <1>3, <2>1 DEF CountInv, AttemptInv
  <2> QED
    BY <2>2, <2>3 DEF CountInv
<1>8. CASE Begin
  <2>1. run' = run + 1 /\ attempt' = 0
    BY <1>8 DEF Begin
  <2>2. \A i \in DOMAIN txs : txs[i].run # run'
    BY <1>4, <2>1
  <2>3. ComingInv'
    BY <1>2, <2>2 DEF CountInv, ComingInv
  <2>4. \A o, c : Cardinality(Tries(o, c, run')) = 0
    BY <1>1, <2>2, TriesFinite
  <2>5. AttemptInv'
    BY <1>3, <2>1, <2>4 DEF CountInv, AttemptInv
  <2> QED
    BY <2>3, <2>5 DEF CountInv
<1> QED
  BY <1>5, <1>6, <1>7, <1>8

LEMMA NextCount == DeployInv /\ CountInv /\ [Next]_vars => CountInv'
<1> SUFFICES ASSUME DeployInv, CountInv, [Next]_vars PROVE CountInv'
  OBVIOUS
<1>1. CASE Send
  BY <1>1, SendCount
<1>2. CASE Succeed
  BY <1>2, SucceedCount
<1>3. CASE Begin \/ Retry \/ GiveUp \/ Crash
  BY <1>3, OtherCount DEF Begin, Retry, GiveUp, Crash, End, Ended, chain
<1>4. CASE \E i \in DOMAIN txs : Confirm(i)
  BY <1>4, OtherCount DEF Confirm, script
<1>5. CASE UNCHANGED vars
  BY <1>5, OtherCount DEF vars
<1> QED
  BY <1>1, <1>2, <1>3, <1>4, <1>5 DEF Next, Operation

\* For every number of attempts allowed: late confirmations and all, a run creates at most
\* that many applications of a contract and pays each at most that often.
THEOREM RetriesCostLittle == Spec => []DuplicatesAreBounded
<1>1. ASSUME DeployInv, CountInv PROVE DuplicatesAreBounded
  <2>1. TypeOK /\ confirmed \subseteq DOMAIN txs
    BY <1>1 DEF DeployInv, TypeOK
  <2>2. ASSUME NEW S, NEW o, NEW c, NEW r, S \subseteq Tries(o, c, r)
        PROVE  Cardinality(S) <= MaxRetries
    <3>1. IsFiniteSet(Tries(o, c, r)) /\ Cardinality(Tries(o, c, r)) \in Nat
      BY <2>1, TriesFinite
    <3>2. IsFiniteSet(S) /\ Cardinality(S) <= Cardinality(Tries(o, c, r))
      BY <2>2, <3>1, FS_Subset
    <3>3. Cardinality(S) \in Nat
      BY <3>2, FS_CardinalityType
    <3>4. Cardinality(Tries(o, c, r)) <= MaxRetries /\ MaxRetries \in Nat
      BY <1>1, ConstantFacts DEF CountInv, AttemptInv
    <3> QED
      BY <3>1, <3>2, <3>3, <3>4
  <2>3. ASSUME NEW c \in Contracts, NEW r \in 1..MaxRuns
        PROVE  Cardinality({a \in confirmed : IsApp(a, c) /\ txs[a].run = r}) <= MaxRetries
    <3>1. {a \in confirmed : IsApp(a, c) /\ txs[a].run = r} \subseteq Tries("deploy", c, r)
      BY <2>1 DEF Tries, IsApp
    <3> QED
      BY <2>2, <3>1
  <2>4. ASSUME NEW a \in confirmed
        PROVE  Cardinality({i \in confirmed : txs[i].op = "fund" /\ txs[i].app = a})
                 <= MaxRetries
    <3>1. {i \in confirmed : txs[i].op = "fund" /\ txs[i].app = a}
            \subseteq Tries("fund", txs[a].con, txs[a].run)
      BY <1>1, <2>1 DEF Tries, CountInv, ComingInv, IsApp
    <3> QED
      BY <2>2, <3>1
  <2> QED
    BY <2>3, <2>4 DEF DuplicatesAreBounded
<1> QED
  BY <1>1, InitInv, NextInv, InitCount, NextCount, PTL DEF Spec
=============================================================================
