----------------------------- MODULE BankProofs -----------------------------
(***************************************************************************)
(* What the bank's operations do to accounts and balances in Society, for  *)
(* any agents and sums: the lemmas SocietyProofs builds on.  Each request  *)
(* is an entry in one account whose amount leaves or enters the pocket of  *)
(* its owner.                                                              *)
(***************************************************************************)
EXTENDS Society, SumLemmas, TLAPS

(* ------------------------------- agents ---------------------------------- *)

\* Rows of agents who owe fines at most and are not in jail.
Sound ==
  {rows \in [Agents -> AgentRow] :
     \A a \in Agents : rows[a].balance >= -500 * rows[a].lawsuits_lost /\ rows[a].status = "active"}

LEMMA SoundRow ==
  ASSUME agents \in Sound, NEW a \in Agents
  PROVE  /\ agents[a] \in AgentRow
         /\ agents[a].balance \in Int /\ agents[a].lawsuits_lost \in Nat
         /\ agents[a].balance >= -500 * agents[a].lawsuits_lost
         /\ agents[a].status = "active"
BY DEF Sound, AgentRow

\* Whoever has what he pays, pays.
LEMMA PaySound ==
  ASSUME agents \in Sound, NEW a \in Agents, NEW n \in Int, n <= agents[a].balance \/ n <= 0
  PROVE  Pay(a, n) \in Sound
<1>1. Pay(a, n) \in [Agents -> AgentRow]
  BY DEF Sound, AgentRow, Pay
<1>2. Pay(a, n)[a].balance = agents[a].balance - n
      /\ Pay(a, n)[a].lawsuits_lost = agents[a].lawsuits_lost /\ Pay(a, n)[a].status = "active"
      /\ \A b \in Agents \ {a} : Pay(a, n)[b] = agents[b]
  BY DEF Sound, AgentRow, Pay
<1>3. agents[a].balance - n >= -500 * agents[a].lawsuits_lost
  BY SoundRow
<1> QED  BY <1>1, <1>2, <1>3 DEF Sound

LEMMA PaidBalances ==
  ASSUME agents \in Sound, NEW a \in Agents, NEW n \in Int
  PROVE  /\ Pay(a, n) \in [Agents -> AgentRow]
         /\ \A c \in Agents :
              Pay(a, n)[c].balance = IF c = a THEN agents[a].balance - n ELSE agents[c].balance
<1>1. Pay(a, n) \in [Agents -> AgentRow]
  BY DEF Sound, AgentRow, Pay
<1>2. ASSUME NEW c \in Agents
      PROVE  Pay(a, n)[c].balance = IF c = a THEN agents[a].balance - n ELSE agents[c].balance
  BY DEF Sound, AgentRow, Pay
<1> QED  BY <1>1, <1>2

\* Another credit score changes nothing else.
LEMMA ScoredSound ==
  ASSUME NEW rows \in Sound, NEW a \in Agents, NEW s \in Ratings
  PROVE  /\ [rows EXCEPT ![a].credit_score = s] \in Sound
         /\ \A b \in Agents : [rows EXCEPT ![a].credit_score = s][b].balance = rows[b].balance
<1> DEFINE new == [rows EXCEPT ![a].credit_score = s]
<1>1. new \in [Agents -> AgentRow]
  BY DEF Sound, AgentRow
<1>2. \A b \in Agents : /\ new[b].balance = rows[b].balance
                        /\ new[b].lawsuits_lost = rows[b].lawsuits_lost
                        /\ new[b].status = rows[b].status
  BY DEF Sound, AgentRow
<1>3. \A b \in Agents : rows[b].balance >= -500 * rows[b].lawsuits_lost
                        /\ rows[b].status = "active"
  BY DEF Sound
<1> HIDE DEF new
<1>4. new \in Sound
  BY <1>1, <1>2, <1>3 DEF Sound
<1> QED  BY <1>2, <1>4 DEF new

LEMMA NewScores ==
  \A r \in Ratings : Min2(1000, r + 20) \in Ratings /\ Max2(0, r - 5) \in Ratings
BY DEF Ratings, Max2, Min2

(* ------------------------------ sequences -------------------------------- *)

\* A row is added to a table.
LEMMA AddedRow ==
  ASSUME NEW S, NEW q \in Seq(S), NEW e \in S
  PROVE  /\ Append(q, e) \in Seq(S)
         /\ DOMAIN Append(q, e) = DOMAIN q \cup {Len(q) + 1} /\ Len(q) + 1 \notin DOMAIN q
         /\ \A i \in DOMAIN q : Append(q, e)[i] = q[i]
         /\ Append(q, e)[Len(q) + 1] = e
<1>1. DOMAIN q = 1..Len(q) /\ Len(q) \in Nat
  OBVIOUS
<1>2. Append(q, e) \in Seq(S) /\ Len(Append(q, e)) = Len(q) + 1
  OBVIOUS
<1>3. DOMAIN Append(q, e) = 1..(Len(q) + 1)
  BY <1>2
<1> QED  BY <1>1, <1>2, <1>3

\* A row of a table is changed.
LEMMA ChangedRow ==
  ASSUME NEW S, NEW q \in Seq(S), NEW i \in DOMAIN q, NEW e \in S
  PROVE  /\ [q EXCEPT ![i] = e] \in Seq(S)
         /\ DOMAIN [q EXCEPT ![i] = e] = DOMAIN q
         /\ [q EXCEPT ![i] = e][i] = e
         /\ \A j \in DOMAIN q : j # i => [q EXCEPT ![i] = e][j] = q[j]
<1>1. DOMAIN q = 1..Len(q) /\ Len(q) \in Nat /\ q \in [1..Len(q) -> S]
  OBVIOUS
<1>2. [q EXCEPT ![i] = e] \in [1..Len(q) -> S]
  BY <1>1
<1> QED  BY <1>1, <1>2

(* ------------------------------ accounts --------------------------------- *)

\* The books of the bank: types, no debt that is not a loan, no debt on a closed account, and
\* nothing to settle outside the phase that does.
Overdrafts == \A c \in DOMAIN accounts : accounts[c].balance < 0 => accounts[c].type = "loan"

Books ==
  /\ BankTypeOK /\ Overdrafts /\ ClosedLoansStayPaid
  /\ phase # "interest" => interest = {}

LEMMA AccountRows ==
  ASSUME BankTypeOK, NEW c \in DOMAIN accounts
  PROVE  /\ accounts[c] \in AccountRow
         /\ accounts[c].owner \in Agents /\ accounts[c].type \in AccountType
         /\ accounts[c].balance \in Int /\ accounts[c].rate \in Nat
         /\ accounts[c].active \in BOOLEAN
<1>1. accounts[c] \in AccountRow
  BY DEF BankTypeOK
<1> QED  BY <1>1 DEF AccountRow

LEMMA FiniteAccounts ==
  ASSUME BankTypeOK
  PROVE  IsFiniteSet(DOMAIN accounts)
<1>1. DOMAIN accounts = 1..Len(accounts) /\ Len(accounts) \in Nat
  BY DEF BankTypeOK
<1> QED  BY <1>1, FS_Interval

\* Row c is written, or added.
Written(c) ==
  /\ accounts' \in Seq(AccountRow)
  /\ DOMAIN accounts' = DOMAIN accounts \cup {c}
  /\ \A x \in DOMAIN accounts : x # c => accounts'[x] = accounts[x]

LEMMA RowAdded ==
  ASSUME BankTypeOK, NEW r \in AccountRow, accounts' = Append(accounts, r)
  PROVE  \E c : Written(c) /\ c \notin DOMAIN accounts /\ accounts'[c] = r
<1>1. accounts \in Seq(AccountRow)
  BY DEF BankTypeOK
<1> QED  BY <1>1, AddedRow DEF Written

LEMMA RowChanged ==
  ASSUME BankTypeOK, NEW c \in DOMAIN accounts, NEW r \in AccountRow,
         accounts' = [accounts EXCEPT ![c] = r]
  PROVE  Written(c) /\ accounts'[c] = r
<1>1. accounts \in Seq(AccountRow)
  BY DEF BankTypeOK
<1>2. /\ accounts' \in Seq(AccountRow) /\ DOMAIN accounts' = DOMAIN accounts
      /\ accounts'[c] = r /\ \A x \in DOMAIN accounts : x # c => accounts'[x] = accounts[x]
  BY <1>1, ChangedRow
<1> QED  BY <1>2 DEF Written

\* Only the balance, or balance and life, of an account changes.
LEMMA BalanceChanged ==
  ASSUME BankTypeOK, NEW c \in DOMAIN accounts, NEW n \in Int, NEW open \in BOOLEAN,
         \/ accounts' = [accounts EXCEPT ![c].balance = n] /\ open = accounts[c].active
         \/ accounts' = [accounts EXCEPT ![c].balance = n, ![c].active = open]
  PROVE  /\ Written(c)
         /\ accounts'[c].balance = n /\ accounts'[c].active = open
         /\ accounts'[c].owner = accounts[c].owner /\ accounts'[c].type = accounts[c].type
<1> DEFINE r == [accounts[c] EXCEPT !.balance = n, !.active = open]
<1>1. accounts[c] \in AccountRow /\ accounts \in Seq(AccountRow)
  BY AccountRows DEF BankTypeOK
<1>2. /\ r \in AccountRow /\ r.balance = n /\ r.active = open
      /\ r.owner = accounts[c].owner /\ r.type = accounts[c].type
  BY <1>1 DEF AccountRow
<1>3. accounts' = [accounts EXCEPT ![c] = r]
  <2>1. CASE accounts' = [accounts EXCEPT ![c].balance = n] /\ open = accounts[c].active
    <3>1. [accounts[c] EXCEPT !.balance = n] = r
      BY <1>1, <2>1 DEF AccountRow
    <3>2. accounts' = [accounts EXCEPT ![c] = [accounts[c] EXCEPT !.balance = n]]
      BY <2>1
    <3> HIDE DEF r
    <3> QED  BY <3>1, <3>2
  <2>2. CASE accounts' = [accounts EXCEPT ![c].balance = n, ![c].active = open]
    BY <1>1, <2>2
  <2> QED  BY <2>1, <2>2
<1> HIDE DEF r
<1> QED  BY <1>2, <1>3, RowChanged

(* ------------------------------- requests -------------------------------- *)

\* Agent a moves d from its pocket into its account c, which may be new.
Entry(a, c, d) ==
  /\ Written(c)
  /\ accounts'[c].owner = a
  /\ c \in DOMAIN accounts =>
       accounts[c].owner = a /\ accounts'[c].balance = accounts[c].balance + d
  /\ c \notin DOMAIN accounts => accounts'[c].balance = d
  /\ accounts'[c].balance < 0 => accounts'[c].type = "loan"
  /\ ~accounts'[c].active => accounts'[c].type = "loan" /\ accounts'[c].balance >= 0
  /\ \A b \in Agents :
       agents'[b].balance = IF b = a THEN agents[a].balance - d ELSE agents[b].balance
  /\ interest' = interest

Entered(a) == agents' \in Sound /\ \E c : \E d \in Int : Entry(a, c, d)

LEMMA SaveEntry ==
  ASSUME agents \in Sound, Books, NEW a \in Agents, Save(a)
  PROVE  Entered(a)
<1>1. PICK type \in AskedAccounts, n \in AskedSums : n >= 0 /\ OpenAccount(a, type, n)
  BY DEF Save
<1> DEFINE r == [owner |-> a, type |-> type, balance |-> n, rate |-> 300, active |-> TRUE]
<1>2. /\ n \in Int /\ n >= 0 /\ (n > 0 => agents[a].balance >= n) /\ agents' = Pay(a, n)
      /\ accounts' = Append(accounts, r) /\ interest' = interest
  <2>1. n \in Int /\ n >= 0 /\ Max2(0, n) = n
    BY <1>1, SocietyAssumption DEF Max2
  <2> QED  BY <1>1, <2>1 DEF OpenAccount
<1>3. r \in AccountRow /\ r.owner = a /\ r.balance = n /\ r.active = TRUE
  BY <1>2, SocietyAssumption DEF AccountRow
<1> HIDE DEF r
<1>4. PICK c : Written(c) /\ c \notin DOMAIN accounts /\ accounts'[c] = r
  BY <1>2, <1>3, RowAdded DEF Books
<1>5. agents' \in Sound
  <2>1. n <= agents[a].balance \/ n <= 0
    BY <1>2, SoundRow
  <2> QED  BY <1>2, <2>1, PaySound
<1>6. \A b \in Agents :
        agents'[b].balance = IF b = a THEN agents[a].balance - n ELSE agents[b].balance
  BY <1>2, PaidBalances
<1>7. Entry(a, c, n)
  BY <1>2, <1>3, <1>4, <1>6 DEF Entry
<1> QED  BY <1>2, <1>5, <1>7 DEF Entered

LEMMA RateIsNatural ==
  ASSUME NEW s \in Ratings
  PROVE  LoanRate(s) \in Nat
BY DEF Ratings, LoanRate, Max2

LEMMA BorrowEntry ==
  ASSUME agents \in Sound, Books, NEW a \in Agents, Borrow(a)
  PROVE  Entered(a)
<1>1. PICK n \in AskedSums : RequestLoan(a, n)
  BY DEF Borrow
<1> DEFINE rate == LoanRate(agents[a].credit_score)
           m == -n
           r == [owner |-> a, type |-> "loan", balance |-> m, rate |-> rate, active |-> TRUE]
<1>2. /\ n \in Int /\ m \in Int /\ m <= 0 /\ agents' = Pay(a, m)
      /\ accounts' = Append(accounts, r) /\ interest' = interest
  BY <1>1, SocietyAssumption DEF RequestLoan
<1>3. rate \in Nat
  BY RateIsNatural, SoundRow DEF AgentRow
<1> HIDE DEF rate, m
<1>4. r \in AccountRow /\ r.owner = a /\ r.balance = m /\ r.active = TRUE /\ r.type = "loan"
  BY <1>2, <1>3 DEF AccountRow, AccountType
<1> HIDE DEF r
<1>5. PICK c : Written(c) /\ c \notin DOMAIN accounts /\ accounts'[c] = r
  BY <1>2, <1>4, RowAdded DEF Books
<1>6. agents' \in Sound
  BY <1>2, PaySound
<1>7. \A b \in Agents :
        agents'[b].balance = IF b = a THEN agents[a].balance - m ELSE agents[b].balance
  BY <1>2, PaidBalances
<1>8. Entry(a, c, m)
  BY <1>2, <1>4, <1>5, <1>7 DEF Entry
<1> QED  BY <1>2, <1>6, <1>8 DEF Entered

\* A deposit, or a withdrawal of what is there.
LEMMA MoveEntry ==
  ASSUME agents \in Sound, Books, NEW a \in Agents, NEW c \in DOMAIN accounts, NEW n \in Int,
         accounts[c].owner = a, accounts[c].active, Move(a, c, n),
         (n >= 0 /\ n <= agents[a].balance) \/ (n <= 0 /\ accounts[c].balance + n >= 0)
  PROVE  Entered(a)
<1> DEFINE m == accounts[c].balance + n
<1>1. /\ agents' = Pay(a, n) /\ accounts' = [accounts EXCEPT ![c].balance = m]
      /\ interest' = interest
  BY DEF Move
<1>2. accounts[c].balance \in Int /\ m \in Int /\ (m < 0 => accounts[c].balance < 0)
  BY AccountRows DEF Books
<1>3. m = accounts[c].balance + n
  OBVIOUS
<1> HIDE DEF m
<1>4. /\ Written(c) /\ accounts'[c].balance = m /\ accounts'[c].active = TRUE
      /\ accounts'[c].owner = a /\ accounts'[c].type = accounts[c].type
  BY <1>1, <1>2, BalanceChanged DEF Books
<1>5. m < 0 => accounts[c].type = "loan"
  BY <1>2 DEF Books, Overdrafts
<1>6. agents' \in Sound
  BY <1>1, PaySound
<1>7. \A b \in Agents :
        agents'[b].balance = IF b = a THEN agents[a].balance - n ELSE agents[b].balance
  BY <1>1, PaidBalances
<1>8. Entry(a, c, n)
  BY <1>1, <1>3, <1>4, <1>5, <1>7 DEF Entry
<1> QED  BY <1>6, <1>8 DEF Entered

LEMMA RepayEntry ==
  ASSUME agents \in Sound, Books, NEW a \in Agents, NEW c \in DOMAIN accounts, NEW n \in Int,
         RepayLoan(a, c, n)
  PROVE  Entered(a)
<1> DEFINE m == accounts[c].balance + n
           repaid == m >= 0
           open == accounts[c].active /\ ~repaid
           p == Pay(a, n)
           s == IF repaid THEN Min2(1000, p[a].credit_score + 20) ELSE p[a].credit_score
<1>1. /\ accounts[c].owner = a /\ accounts[c].type = "loan"
      /\ 0 < n /\ agents[a].balance >= n /\ interest' = interest
      /\ agents' = [p EXCEPT ![a].credit_score = s]
      /\ accounts' = [accounts EXCEPT ![c].balance = m, ![c].active = open]
  <2>1. p \in [Agents -> AgentRow]
    BY PaidBalances
  <2> QED  BY <2>1 DEF RepayLoan
<1>2. accounts[c].balance \in Int /\ m \in Int /\ open \in BOOLEAN
  BY AccountRows DEF Books
<1>3. ~open => m >= 0
  <2>1. ~accounts[c].active => accounts[c].balance >= 0
    BY DEF Books, ClosedLoansStayPaid
  <2> QED  BY <1>1, <1>2, <2>1
<1>4. p \in Sound
  <2>1. n <= agents[a].balance
    BY <1>1, SoundRow
  <2> QED  BY <2>1, PaySound
<1>5. s \in Ratings
  <2>1. p[a].credit_score \in Ratings
    BY <1>4 DEF Sound, AgentRow
  <2> QED  BY <2>1, NewScores
<1>6. \A b \in Agents : p[b].balance = IF b = a THEN agents[a].balance - n ELSE agents[b].balance
  BY PaidBalances
<1>7. m = accounts[c].balance + n
  OBVIOUS
<1> HIDE DEF m, open, p, s
<1>8. agents' \in Sound /\ \A b \in Agents : agents'[b].balance = p[b].balance
  <2>1. /\ [p EXCEPT ![a].credit_score = s] \in Sound
        /\ \A b \in Agents : [p EXCEPT ![a].credit_score = s][b].balance = p[b].balance
    BY <1>4, <1>5, ScoredSound
  <2> QED  BY <1>1, <2>1
<1>9. /\ Written(c) /\ accounts'[c].balance = m /\ accounts'[c].active = open
      /\ accounts'[c].owner = a /\ accounts'[c].type = "loan"
  BY <1>1, <1>2, BalanceChanged DEF Books
<1>10. Entry(a, c, n)
  BY <1>1, <1>3, <1>6, <1>7, <1>8, <1>9 DEF Entry
<1> QED  BY <1>8, <1>10 DEF Entered

LEMMA RequestEntry ==
  ASSUME agents \in Sound, Books, NEW a \in Agents, Save(a) \/ Borrow(a) \/ UseAccount(a)
  PROVE  Entered(a)
<1>1. ASSUME NEW c \in DOMAIN accounts, NEW n \in AskedSums,
             Deposit(a, c, n) \/ Withdraw(a, c, n) \/ RepayLoan(a, c, n)
      PROVE  Entered(a)
  <2>1. n \in Int /\ -n \in Int /\ accounts[c].balance \in Int /\ agents[a].balance \in Int
    BY SocietyAssumption, AccountRows, SoundRow DEF Books
  <2>2. CASE Deposit(a, c, n)
    BY <2>1, <2>2, MoveEntry DEF Deposit
  <2>3. CASE Withdraw(a, c, n)
    <3>1. -n <= 0 /\ accounts[c].balance + (-n) >= 0
      BY <2>1, <2>3 DEF Withdraw
    <3> QED  BY <2>1, <2>3, <3>1, MoveEntry DEF Withdraw
  <2>4. CASE RepayLoan(a, c, n)
    BY <2>1, <2>4, RepayEntry
  <2> QED  BY <1>1, <2>2, <2>3, <2>4
<1> QED  BY <1>1, SaveEntry, BorrowEntry DEF UseAccount

\* What an entry does to the books ...
LEMMA EntryBooks ==
  ASSUME Books, NEW a \in Agents, NEW c, NEW d \in Int, Entry(a, c, d), phase' = phase
  PROVE  Books'
<1>1. BankTypeOK'
  BY DEF Books, BankTypeOK, Entry, Written
<1>2. Overdrafts' /\ ClosedLoansStayPaid'
  BY DEF Books, Overdrafts, ClosedLoansStayPaid, Entry, Written
<1> QED  BY <1>1, <1>2 DEF Books, Entry

\* ... to what each agent is worth ...
LEMMA EntryWorth ==
  ASSUME agents \in Sound, Books, NEW a \in Agents, NEW c, NEW d \in Int, Entry(a, c, d),
         NEW b \in Agents
  PROVE  NetWorth(b)' = NetWorth(b)
<1> DEFINE f == Held(b)
           g == Held(b)'
           n == IF b = a THEN d ELSE 0
           S == DOMAIN accounts
<1>1. IsFiniteSet(S) /\ agents[b].balance \in Int /\ n \in Int
  BY FiniteAccounts, SoundRow DEF Books
<1>2. \A x \in S : f[x] \in Int /\ f[x] = IF accounts[x].owner = b THEN accounts[x].balance ELSE 0
  BY AccountRows DEF Held, Books
<1>3. \A x \in S \cup {c} : g[x] = IF accounts'[x].owner = b THEN accounts'[x].balance ELSE 0
  BY DEF Held, Entry, Written
<1>4. \A x \in S : x # c => g[x] = f[x]
  BY <1>2, <1>3 DEF Entry, Written
<1>5. (c \in S => g[c] = f[c] + n) /\ (c \notin S => g[c] = n)
  <2>1. c \in S => accounts[c].balance \in Int
    BY AccountRows DEF Books
  <2> QED  BY <1>2, <1>3, <2>1 DEF Entry
<1>6. agents'[b].balance = agents[b].balance - n
  BY <1>1 DEF Entry
<1> HIDE DEF f, g, n
<1>7. SumFunctionOnSet(g, S \cup {c}) = SumFunctionOnSet(f, S) + n
  BY <1>1, <1>2, <1>4, <1>5, SumWritten
<1>8. SumFunctionOnSet(f, S) \in Int
  BY <1>1, <1>2, SumInt
<1>9. agents'[b].balance + SumFunctionOnSet(g, S \cup {c}) = agents[b].balance + SumFunctionOnSet(f, S)
  BY <1>1, <1>6, <1>7, <1>8
<1> QED  BY <1>9 DEF NetWorth, f, g, Entry, Written

\* ... and to the sum of all accounts.
Deposited == SumFunctionOnSet(Banked, DOMAIN accounts)

LEMMA DepositedInt ==
  ASSUME BankTypeOK
  PROVE  Deposited \in Int
<1>1. \A c \in DOMAIN accounts : Banked[c] \in Int
  BY AccountRows DEF Banked
<1> QED  BY <1>1, FiniteAccounts, SumInt DEF Deposited

LEMMA WrittenDeposits ==
  ASSUME BankTypeOK, NEW c, NEW n \in Int, Written(c),
         c \in DOMAIN accounts => accounts'[c].balance = accounts[c].balance + n,
         c \notin DOMAIN accounts => accounts'[c].balance = n
  PROVE  Deposited' = Deposited + n
<1> DEFINE f == Banked
           g == Banked'
<1>1. \A x \in DOMAIN accounts : f[x] \in Int
  BY AccountRows DEF Banked
<1>2. /\ \A x \in DOMAIN accounts : x # c => g[x] = f[x]
      /\ c \in DOMAIN accounts => g[c] = f[c] + n
      /\ c \notin DOMAIN accounts => g[c] = n
  BY DEF Banked, Written
<1> HIDE DEF f, g
<1>3. SumFunctionOnSet(g, DOMAIN accounts \cup {c}) = SumFunctionOnSet(f, DOMAIN accounts) + n
  BY <1>1, <1>2, FiniteAccounts, SumWritten
<1> QED  BY <1>3 DEF Deposited, Written, f, g

(* ------------------------------- interest -------------------------------- *)

LEMMA InterestIsNatural ==
  ASSUME NEW n \in Nat, NEW r \in Nat
  PROVE  InterestOn(n, r) \in Nat
<1>1. n * r \in Nat
  OBVIOUS
<1>2. \A m \in Nat : m \div 10000 \in Nat
  OBVIOUS
<1> QED  BY <1>1, <1>2 DEF InterestOn

\* Interest leaves an account on its side of zero, if it is no loan or closed.
LEMMA InterestSigns ==
  ASSUME Books, NEW c \in DOMAIN accounts
  PROVE  /\ InterestOf(c) \in Int
         /\ accounts[c].type # "loan" => accounts[c].balance + InterestOf(c) >= 0
         /\ ~accounts[c].active => InterestOf(c) = 0
<1>1. accounts[c].balance \in Int /\ accounts[c].rate \in Nat
  BY AccountRows DEF Books
<1>2. accounts[c].type # "loan" => accounts[c].balance >= 0
  BY <1>1 DEF Books, Overdrafts
<1>3. ~accounts[c].active => accounts[c].type = "loan" /\ accounts[c].balance >= 0
  BY DEF Books, ClosedLoansStayPaid
<1>4. CASE EarnsInterest(c)
  <2>1. accounts[c].type = "savings" /\ accounts[c].balance \in Nat
    BY <1>1, <1>4 DEF EarnsInterest
  <2>2. InterestOf(c) \in Nat
    BY <1>1, <1>4, <2>1, InterestIsNatural DEF InterestOf
  <2> QED  BY <1>1, <1>3, <2>1, <2>2
<1>5. CASE ~EarnsInterest(c) /\ OwesInterest(c)
  <2>1. accounts[c].type = "loan" /\ accounts[c].balance < 0 /\ -accounts[c].balance \in Nat
    BY <1>1, <1>5 DEF OwesInterest
  <2>2. InterestOn(-accounts[c].balance, accounts[c].rate) \in Nat
    BY <1>1, <2>1, InterestIsNatural
  <2>3. InterestOf(c) \in Int
    BY <1>5, <2>2 DEF InterestOf
  <2> QED  BY <1>1, <1>3, <2>1, <2>3
<1>6. CASE ~EarnsInterest(c) /\ ~OwesInterest(c)
  <2>1. InterestOf(c) = 0
    BY <1>6 DEF InterestOf
  <2> QED  BY <1>1, <1>2, <2>1
<1> QED  BY <1>4, <1>5, <1>6

\* A visit moves no balance of an agent, and the books stay what they are.
LEMMA VisitBooks ==
  ASSUME agents \in Sound, Books, NEW c \in interest, VisitAccount(c), phase = "interest",
         phase' = phase
  PROVE  /\ Books' /\ agents' \in Sound
         /\ \A b \in Agents : agents'[b].balance = agents[b].balance
         /\ InterestOf(c) \in Int /\ interest \ interest' = {c}
         /\ Deposited' = Deposited + InterestOf(c)
<1> DEFINE n == InterestOf(c)
           left == accounts[c].balance + n
           a == accounts[c].owner
           s == Max2(0, agents[a].credit_score - 5)
<1>1. /\ c \in DOMAIN accounts /\ interest' = interest \ {c}
      /\ accounts' = [accounts EXCEPT ![c].balance = left]
      /\ agents' = agents \/ agents' = [agents EXCEPT ![a].credit_score = s]
  BY DEF VisitAccount, Books, BankTypeOK
<1>2. /\ a \in Agents /\ accounts[c].balance \in Int /\ accounts[c].active \in BOOLEAN
      /\ n \in Int /\ left \in Int /\ left = accounts[c].balance + n
      /\ accounts[c].type # "loan" => left >= 0
      /\ ~accounts[c].active => n = 0
  BY <1>1, AccountRows, InterestSigns DEF Books
<1>3. s \in Ratings
  <2>1. agents[a].credit_score \in Ratings
    BY <1>2, SoundRow DEF AgentRow
  <2> QED  BY <2>1, NewScores
<1> HIDE DEF n, left, a, s
<1>4. agents' \in Sound /\ \A b \in Agents : agents'[b].balance = agents[b].balance
  <2>1. /\ [agents EXCEPT ![a].credit_score = s] \in Sound
        /\ \A b \in Agents : [agents EXCEPT ![a].credit_score = s][b].balance = agents[b].balance
    BY <1>2, <1>3, ScoredSound
  <2> QED  BY <1>1, <2>1
<1>5. /\ Written(c) /\ accounts'[c].balance = left /\ accounts'[c].active = accounts[c].active
      /\ accounts'[c].type = accounts[c].type
  BY <1>1, <1>2, BalanceChanged DEF Books
<1>6. BankTypeOK'
  BY <1>1, <1>5 DEF Books, BankTypeOK, Written
<1>7. Overdrafts'
  BY <1>1, <1>2, <1>5 DEF Books, Overdrafts, Written
<1>8. ClosedLoansStayPaid'
  <2>1. ~accounts[c].active => accounts[c].type = "loan" /\ left >= 0
    BY <1>1, <1>2 DEF Books, ClosedLoansStayPaid
  <2> QED  BY <1>1, <1>5, <2>1 DEF Books, ClosedLoansStayPaid, Written
<1>9. Deposited' = Deposited + n
  BY <1>1, <1>2, <1>5, WrittenDeposits DEF Books
<1> QED  BY <1>1, <1>2, <1>4, <1>6, <1>7, <1>8, <1>9 DEF Books, n
=============================================================================
