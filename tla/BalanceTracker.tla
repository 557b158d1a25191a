--------------------------- MODULE BalanceTracker ---------------------------
(***************************************************************************)
(* execution/balance_tracker.py: a table of asset balances.  Every method  *)
(* holds the lock for all it does to the table, and what it stores and     *)
(* returns are copies: a call is one step and a balance is a value.        *)
(*                                                                         *)
(* Amounts are integers, exact up to Largest, the greatest finite one; the *)
(* rounding of sums is left out.  Malformed is any amount that is refused. *)
(***************************************************************************)
EXTENDS Integers, Sequences, FiniteSetsExt

CONSTANTS Assets, Amounts, Largest, Malformed, MaxBatch

AmountsAssumption == Amounts \subseteq Int /\ Largest \in Nat /\ MaxBatch \in Nat

VARIABLES accounts,             \* _balances, in the order of insertion
          outcome               \* history: the call that has just ended

vars == <<accounts, outcome>>

Balances == [asset : Assets, free : Amounts \cup {Malformed}, locked : Amounts \cup {Malformed}]
Tracked == {accounts[i].asset : i \in DOMAIN accounts}
BalanceOf(asset) == accounts[CHOOSE i \in DOMAIN accounts : accounts[i].asset = asset]

Finite(amount) == amount <= Largest

\* _validate_balance, and _normalize_balances_iterable of a whole batch.
Valid(balance) ==
  /\ balance.free # Malformed /\ balance.locked # Malformed
  /\ balance.free >= 0 /\ balance.locked >= 0
  /\ Finite(balance.free + balance.locked)
ValidBatch(batch) ==
  /\ \A i \in DOMAIN batch : Valid(batch[i])
  /\ \A i, j \in DOMAIN batch : batch[i].asset = batch[j].asset => i = j

\* A dict assignment: an asset that is there keeps its place.
Put(table, balance) ==
  IF \E i \in DOMAIN table : table[i].asset = balance.asset
  THEN [i \in DOMAIN table |-> IF table[i].asset = balance.asset THEN balance ELSE table[i]]
  ELSE Append(table, balance)

\* The loop of update_many over a batch that was found valid.
PutEach(table, batch) ==
  LET after[n \in 0..Len(batch)] == IF n = 0 THEN table ELSE Put(after[n - 1], batch[n])
  IN  after[Len(batch)]

Batches == UNION {[1..n -> Balances] : n \in 0..MaxBatch}

TypeOK ==
  /\ accounts \in Seq(Balances)
  /\ outcome.method \in {"none", "update_many", "replace_all", "remove", "clear"}
  /\ outcome.refused \in BOOLEAN

Settled == [method |-> "none", refused |-> FALSE, given |-> <<>>, before |-> <<>>]

Init == accounts = <<>> /\ outcome = Settled

Called(method, given, refused) ==
  /\ outcome = Settled
  /\ outcome' = [method |-> method, refused |-> refused, given |-> given, before |-> accounts]
Settle == outcome # Settled /\ outcome' = Settled /\ UNCHANGED accounts

\* Mutant: balances are stored as they are validated, up to the first that is refused.
UpdateAsFound(batch) ==
  /\ accounts' = PutEach(accounts, SelectSeq(batch, Valid))
  /\ Called("update_many", batch, ~ValidBatch(batch))

\* update is the batch of one.
UpdateMany(batch) ==
  /\ accounts' = IF ValidBatch(batch) THEN PutEach(accounts, batch) ELSE accounts
  /\ Called("update_many", batch, ~ValidBatch(batch))

ReplaceEvery(batch) ==
  /\ accounts' = IF ValidBatch(batch) THEN batch ELSE accounts
  /\ Called("replace_all", batch, ~ValidBatch(batch))

\* An asset that is not tracked raises.
RemoveAsset(asset) ==
  /\ LET at == CHOOSE i \in DOMAIN accounts : accounts[i].asset = asset
     IN  accounts' = IF asset \in Tracked
                     THEN SubSeq(accounts, 1, at - 1) \o SubSeq(accounts, at + 1, Len(accounts))
                     ELSE accounts
  /\ Called("remove", <<asset>>, asset \notin Tracked)

Clear == accounts' = <<>> /\ Called("clear", <<>>, FALSE)

\* fsum adds without intermediate rounding: only the sum itself may be infinite.
SumOf(amounts) == MapThenSumSet(LAMBDA i : amounts[i], DOMAIN amounts)
TotalFree == SumOf([i \in DOMAIN accounts |-> accounts[i].free])
TotalLocked == SumOf([i \in DOMAIN accounts |-> accounts[i].locked])
TotalBalance == SumOf([i \in DOMAIN accounts |-> accounts[i].free + accounts[i].locked])

Next ==
  \/ \E batch \in Batches : UpdateMany(batch) \/ ReplaceEvery(batch)
  \/ \E asset \in Assets : RemoveAsset(asset)
  \/ Clear \/ Settle

(***************************************************************************)
(* Properties                                                              *)
(***************************************************************************)

\* A refused call changes nothing; an accepted batch is stored whole and leaves what it
\* does not name as it was, or drops it when it replaces.  No asset is there twice, and
\* when the whole sum is finite the two parts are, and make it up.
TotalsAgree ==
  /\ \A i, j \in DOMAIN accounts : accounts[i].asset = accounts[j].asset => i = j
  /\ outcome.refused => accounts = outcome.before
  /\ outcome.method \in {"update_many", "replace_all"} /\ ~outcome.refused =>
       LET named == {outcome.given[i].asset : i \in DOMAIN outcome.given} IN
       /\ \A i \in DOMAIN outcome.given : BalanceOf(outcome.given[i].asset) = outcome.given[i]
       /\ outcome.method = "replace_all" => Tracked = named
       /\ outcome.method = "update_many" =>
            \A i \in DOMAIN outcome.before :
              outcome.before[i].asset \notin named =>
                BalanceOf(outcome.before[i].asset) = outcome.before[i]
  /\ Finite(TotalBalance) =>
       Finite(TotalFree) /\ Finite(TotalLocked) /\ TotalFree + TotalLocked = TotalBalance
=============================================================================
