-------------------------------- MODULE Bank --------------------------------
(***************************************************************************)
(* services/bank.py: deposits, withdrawals, loans, daily interest and the  *)
(* credit score, over the accounts of models/economy.py.                   *)
(*                                                                         *)
(* process_interest is taken one account at a time because the accounts    *)
(* come in no particular order and every loan can lower the score the next *)
(* is judged by.  Money is in cents, rates are in basis points.            *)
(***************************************************************************)
EXTENDS Town

CONSTANT TICKS_PER_DAY   (* 6 in the source *)

ASSUME BankAssumption == TICKS_PER_DAY \in Nat \ {0}

VARIABLES
  accounts,   (* rows of accounts, in the order they were opened              *)
  interest    (* accounts the interest phase of the tick has still to look at *)

bankVars == <<accounts, interest>>

AccountType == {"checking", "savings", "loan"}

AccountRow ==
  [owner : Agents, type : AccountType, balance : Int, rate : Nat, active : BOOLEAN]

BankTypeOK ==
  /\ accounts \in Seq(AccountRow)
  /\ interest \subseteq DOMAIN accounts

BankInit == accounts = <<>> /\ interest = {}

MAX_LOAN_AMOUNT == 500000
MAX_DEPOSIT_AMOUNT == 10000000
MAX_WITHDRAWAL_AMOUNT == 10000000

\* A new account of another type than LOAN.
OpenAccount(a, type, initial) ==
  /\ initial > 0 => agents[a].balance >= initial
  /\ agents' = Pay(a, Max2(0, initial))
  /\ accounts' = Append(accounts,
       [owner |-> a, type |-> type, balance |-> initial, rate |-> 300, active |-> TRUE])
  /\ UNCHANGED interest

\* Money goes from the pocket of a into account c, or out of it if n is negative.
Move(a, c, n) ==
  /\ agents' = Pay(a, n)
  /\ accounts' = [accounts EXCEPT ![c].balance = @ + n]
  /\ UNCHANGED interest

\* Faulty variant of Deposit: the pocket is not checked.
DepositUnchecked(a, c, amount) ==
  /\ accounts[c].owner = a /\ accounts[c].active
  /\ 0 < amount /\ amount <= MAX_DEPOSIT_AMOUNT
  /\ Move(a, c, amount)

Deposit(a, c, amount) ==
  /\ accounts[c].owner = a /\ accounts[c].active
  /\ 0 < amount /\ amount <= MAX_DEPOSIT_AMOUNT
  /\ agents[a].balance >= amount
  /\ Move(a, c, amount)

Withdraw(a, c, amount) ==
  /\ accounts[c].owner = a /\ accounts[c].active
  /\ 0 < amount /\ amount <= MAX_WITHDRAWAL_AMOUNT
  /\ accounts[c].balance >= amount
  /\ Move(a, c, -amount)

\* 10 % for the worst score, 7 points of a thousand less per point, but at least 3 %.
LoanRate(score) == Max2(300, 1000 - (score * 7) \div 10)

RequestLoan(a, amount) ==
  /\ 0 < amount /\ amount <= MAX_LOAN_AMOUNT
  /\ amount <= agents[a].credit_score * 100
  /\ agents' = Pay(a, -amount)
  /\ accounts' = Append(accounts,
       [owner |-> a, type |-> "loan", balance |-> -amount,
        rate |-> LoanRate(agents[a].credit_score), active |-> TRUE])
  /\ UNCHANGED interest

\* Faulty variant of RepayLoan: any repayment settles the loan.
RepayLoanSettles(a, c, amount) ==
  /\ accounts[c].owner = a /\ accounts[c].type = "loan"
  /\ 0 < amount /\ agents[a].balance >= amount
  /\ agents' = [Pay(a, amount) EXCEPT ![a].credit_score = Min2(1000, @ + 20)]
  /\ accounts' = [accounts EXCEPT ![c].balance = @ + amount, ![c].active = FALSE]
  /\ UNCHANGED interest

\* Faulty variant of RepayLoan: the agent pays what it owes, the account gains what it offers.
RepayLoanCapped(a, c, amount) ==
  LET repaid == accounts[c].balance + amount >= 0 IN
  /\ accounts[c].owner = a /\ accounts[c].type = "loan"
  /\ 0 < amount /\ agents[a].balance >= amount
  /\ agents' = Pay(a, Min2(amount, Max2(0, -accounts[c].balance)))
  /\ accounts' = [accounts EXCEPT ![c].balance = @ + amount, ![c].active = @ /\ ~repaid]
  /\ UNCHANGED interest

\* repay_loan asks neither whether the loan is still open nor how much is owed.
RepayLoan(a, c, amount) ==
  LET repaid == accounts[c].balance + amount >= 0 IN
  /\ accounts[c].owner = a /\ accounts[c].type = "loan"
  /\ 0 < amount /\ agents[a].balance >= amount
  /\ agents' = [Pay(a, amount) EXCEPT ![a].credit_score = IF repaid THEN Min2(1000, @ + 20) ELSE @]
  /\ accounts' = [accounts EXCEPT ![c].balance = @ + amount, ![c].active = @ /\ ~repaid]
  /\ UNCHANGED interest

-----------------------------------------------------------------------------
(* Interest.                                                               *)

\* On the first tick of a day, but the first day, the active accounts are selected ...
BeginInterest ==
  interest' = IF tick > 0 /\ tick % TICKS_PER_DAY = 0
              THEN {c \in DOMAIN accounts : accounts[c].active} ELSE {}

InterestOn(n, rate) == (n * rate) \div 10000

EarnsInterest(c) == accounts[c].type = "savings" /\ accounts[c].balance > 0
OwesInterest(c)  == accounts[c].type = "loan" /\ accounts[c].balance < 0

\* What is added to an account by a visit.
InterestOf(c) ==
  IF EarnsInterest(c) THEN InterestOn(accounts[c].balance, accounts[c].rate)
  ELSE IF OwesInterest(c) THEN -InterestOn(-accounts[c].balance, accounts[c].rate)
  ELSE 0

\* ... and visited: savings earn interest, loans are charged it, and a loan that has outgrown
\* the score of its owner lowers the score.
VisitAccount(c) ==
  LET a    == accounts[c].owner
      left == accounts[c].balance + InterestOf(c)
  IN
  /\ interest' = interest \ {c}
  /\ accounts' = [accounts EXCEPT ![c].balance = left]
  /\ agents' = IF OwesInterest(c) /\ InterestOf(c) # 0 /\ -left > agents[a].credit_score * 200
               THEN [agents EXCEPT ![a].credit_score = Max2(0, @ - 5)] ELSE agents
=============================================================================
