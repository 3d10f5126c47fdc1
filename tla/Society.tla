------------------------------ MODULE Society ------------------------------
(***************************************************************************)
(* Bank, court, employment and barter composed: the requests               *)
(* action_handler.py hands to them, between the macro ticks of             *)
(* engine/tick.py that pass verdicts, give income and goods, pay salaries  *)
(* and settle the interest.                                                *)
(*                                                                         *)
(* A request is one transaction, hence one step, and one that is refused   *)
(* changes nothing.  Requests that overlap each other or a tick are the    *)
(* subject of Sessions, trade that of Market.                              *)
(***************************************************************************)
EXTENDS Bank, Court, Employment, Barter, Functions

CONSTANTS
  AskedCases, AskedBusinesses, AskedSalaries, AskedAmounts,  (* what agents ask for *)
  AskedTrades, AskedBuildings, AskedAccounts, AskedSums,     (* (sums: of the bank) *)
  MAX_INVESTMENT,    (* 1_000_000 in the source                                      *)
  LastRequest,       (* bound: the last tick of a life in which requests come        *)
  MaxRows            (* bound: cases, businesses, contracts, offers, accounts        *)

ASSUME SocietyAssumption ==
  /\ AskedCases \subseteq CaseTypes
  /\ AskedBusinesses \subseteq DOMAIN StartupCost
  /\ AskedBuildings \subseteq DOMAIN BuildCost
  /\ AskedAccounts \subseteq AccountType \ {"loan"}
  /\ AskedSalaries \subseteq Int /\ AskedAmounts \subseteq Int /\ AskedSums \subseteq Int
  /\ AskedTrades \subseteq Goods \X Goods
  /\ MAX_INVESTMENT \in Nat /\ LastRequest \in Nat /\ MaxRows \in Nat

vars == <<townVars, bankVars, courtVars, employmentVars, barterVars>>

TypeOK == TownTypeOK /\ BankTypeOK /\ CourtTypeOK /\ EmploymentTypeOK /\ BarterTypeOK

Init == TownInit /\ BankInit /\ CourtInit /\ EmploymentInit /\ BarterInit

-----------------------------------------------------------------------------
(* Requests.                                                               *)

Between ==
  /\ phase = "requests" /\ tick <= LastRequest
  /\ UNCHANGED <<tick, phase, restarts>>

RoomForRow ==
  Len(cases) + Len(businesses) + Len(contracts) + Len(offers) + Len(accounts) < MaxRows

Sue(a) ==
  /\ Between
  /\ RoomForRow
  /\ \E d \in Agents, type \in AskedCases : FileLawsuit(a, d, type)
  /\ UNCHANGED <<inventory, bankVars, employmentVars, barterVars>>

Start(a) ==
  /\ Between
  /\ RoomForRow
  /\ \E type \in AskedBusinesses : StartBusiness(a, type)
  /\ UNCHANGED <<inventory, bankVars, courtVars, barterVars>>

Close(a) ==
  /\ Between
  /\ \E b \in DOMAIN businesses : CloseBusiness(a, b)
  /\ UNCHANGED <<inventory, bankVars, courtVars, barterVars>>

Price(a) ==
  /\ Between
  /\ \E b \in DOMAIN businesses, i \in Items, price \in AskedAmounts : SetPrice(a, b, i, price)
  /\ UNCHANGED <<agents, inventory, bankVars, courtVars, barterVars>>

Employ(a) ==
  /\ Between
  /\ RoomForRow
  /\ \E e \in Agents, b \in DOMAIN businesses, salary \in AskedSalaries : Hire(a, e, b, salary)
  /\ UNCHANGED <<agents, inventory, bankVars, courtVars, barterVars>>

Dismiss(a) ==
  /\ Between
  /\ \E e \in Agents : Fire(a, e)
  /\ UNCHANGED <<agents, inventory, bankVars, courtVars, barterVars>>

Fund(a) ==
  /\ Between
  /\ \E b \in DOMAIN businesses, n \in AskedAmounts : n <= MAX_INVESTMENT /\ Invest(a, b, n)
  /\ UNCHANGED <<inventory, bankVars, courtVars, barterVars>>

Offer(a) ==
  /\ Between
  /\ RoomForRow
  /\ \E b \in Agents, t \in AskedTrades : CreateTradeOffer(a, b, t[1], t[2])
  /\ UNCHANGED <<agents, bankVars, courtVars, employmentVars>>

Accept(a) ==
  /\ Between
  /\ \E o \in DOMAIN offers : AcceptTradeOffer(a, o)
  /\ UNCHANGED <<agents, bankVars, courtVars, employmentVars>>

Reject(a) ==
  /\ Between
  /\ \E o \in DOMAIN offers : RejectTradeOffer(a, o)
  /\ UNCHANGED <<agents, bankVars, courtVars, employmentVars>>

Build(a) ==
  /\ Between
  /\ \E type \in AskedBuildings : BuildProperty(a, type)
  /\ UNCHANGED <<inventory, offers, bankVars, courtVars, employmentVars>>

\* The bank.  No action type reaches open_account: accounts other than loans are opened by
\* whoever sets a world up, as the tests do, with some money or none.
Save(a) ==
  /\ Between
  /\ RoomForRow
  /\ \E type \in AskedAccounts, n \in AskedSums : n >= 0 /\ OpenAccount(a, type, n)
  /\ UNCHANGED <<inventory, courtVars, employmentVars, barterVars>>

Borrow(a) ==
  /\ Between
  /\ RoomForRow
  /\ \E n \in AskedSums : RequestLoan(a, n)
  /\ UNCHANGED <<inventory, courtVars, employmentVars, barterVars>>

UseAccount(a) ==
  /\ Between
  /\ \E c \in DOMAIN accounts, n \in AskedSums :
       Deposit(a, c, n) \/ Withdraw(a, c, n) \/ RepayLoan(a, c, n)
  /\ UNCHANGED <<inventory, courtVars, employmentVars, barterVars>>

HandleAction ==
  \E a \in Agents :
    Sue(a) \/ Start(a) \/ Close(a) \/ Price(a) \/ Employ(a) \/ Dismiss(a) \/ Fund(a)
      \/ Offer(a) \/ Accept(a) \/ Reject(a) \/ Build(a)
      \/ Save(a) \/ Borrow(a) \/ UseAccount(a)

-----------------------------------------------------------------------------
(* The macro tick: court, production, payroll, interest, in this order.    *)

BeginTick ==
  /\ phase = "requests" /\ tick < MaxTick
  /\ phase' = "court"
  /\ UNCHANGED <<agents, inventory, tick, restarts, bankVars, courtVars, employmentVars, barterVars>>

Judge ==
  /\ phase = "court"
  /\ \E c \in DOMAIN cases : ProcessPendingCase(c)
  /\ UNCHANGED <<inventory, tick, phase, restarts, bankVars, employmentVars, barterVars>>

Produce ==
  /\ phase = "court" /\ \A c \in DOMAIN cases : ~Pending(c)
  /\ ProcessProduction /\ BeginPayroll
  /\ phase' = "payroll"
  /\ UNCHANGED <<tick, restarts, bankVars, courtVars, businesses, contracts, barterVars>>

PayOne ==
  /\ phase = "payroll"
  /\ \E k \in payroll : PaySalary(k)
  /\ UNCHANGED <<inventory, tick, phase, restarts, bankVars, courtVars, barterVars>>

EndPayroll ==
  /\ phase = "payroll" /\ payroll = {}
  /\ BeginInterest
  /\ phase' = "interest"
  /\ UNCHANGED <<agents, inventory, tick, restarts, accounts, courtVars, employmentVars, barterVars>>

AccrueOne ==
  /\ phase = "interest"
  /\ \E c \in interest : VisitAccount(c)
  /\ UNCHANGED <<inventory, tick, phase, restarts, courtVars, employmentVars, barterVars>>

EndTick ==
  /\ phase = "interest" /\ interest = {}
  /\ tick' = tick + 1 /\ phase' = "requests"
  /\ UNCHANGED <<agents, inventory, restarts, bankVars, courtVars, employmentVars, barterVars>>

ProcessTick == BeginTick \/ Judge \/ Produce \/ PayOne \/ EndPayroll \/ AccrueOne \/ EndTick

Reboot == Restart /\ UNCHANGED <<bankVars, courtVars, employmentVars, barterVars>>

Next == HandleAction \/ ProcessTick \/ Reboot

Spec == Init /\ [][Next]_vars

-----------------------------------------------------------------------------
(* Correctness.                                                            *)

\* The employee count of a business, the only thing hire_agent compares with the limit, is
\* the number of its contracts that nobody has terminated, breached ones included: a breach
\* takes the job but keeps the place, also through the closing of the business.
CountedJobs ==
  \A b \in DOMAIN businesses :
    businesses[b].employees =
      Cardinality({k \in DOMAIN contracts : contracts[k].business = b
                                           /\ contracts[k].status # "terminated"})

\* fire_agent finds the contract by the two agents alone, and fails if there are two: through
\* any sequence of hiring, firing, closing and breach two agents have at most one active
\* contract.
OneJobPerEmployer ==
  \A a, e \in Agents : \A k, l \in Jobs(a, e) : k = l

\* What hiring and firing rely on, of whole businesses and of pairs of agents.
JobsAddUp == CountedJobs /\ OneJobPerEmployer

\* Only fines put an agent into debt, and by no more than 500 for each case it has lost: every
\* other payment, salaries, deposits and repayments included, is checked against a balance that
\* is still there.  An account that is overdrawn is a loan.
DebtIsFines ==
  /\ \A a \in Agents : agents[a].balance >= -500 * agents[a].lawsuits_lost
  /\ \A c \in DOMAIN accounts : accounts[c].balance < 0 => accounts[c].type = "loan"

\* What docs/SECURITY.md says of balances: never negative, at least where a tick has committed
\* its fines, which are taken unchecked, and its income.
NoDebts == phase = "requests" => \A a \in Agents : agents[a].balance >= 0

\* Only a loan is ever closed, and a closed loan is never owed on again: no interest run, deposit
\* or withdrawal reopens the debt.
ClosedLoansStayPaid ==
  \A c \in DOMAIN accounts :
    ~accounts[c].active => accounts[c].type = "loan" /\ accounts[c].balance >= 0

\* court.py jails for serious crimes, but no fine for one can exceed the 5000 it asks for:
\* nobody is ever jailed, and production pays everybody.
NobodyIsJailed == Working = Agents

\* What each account adds to the worth of an agent: nothing if it is not its own.
Held(a) == [c \in DOMAIN accounts |-> IF accounts[c].owner = a THEN accounts[c].balance ELSE 0]

NetWorth(a) == agents[a].balance + SumFunctionOnSet(Held(a), DOMAIN accounts)

\* A request that touches an account shifts money between the pocket and the accounts of one and
\* the same agent: nobody is worth more or less by it, whoever asks and whatever for.
BankingKeepsWorth ==
  [][ phase = "requests" /\ accounts' # accounts => \A a \in Agents : NetWorth(a)' = NetWorth(a) ]_vars

\* What an agent owns, what a business owns, and what its closing does not refund.
Worth   == [a \in Agents |-> agents[a].balance + estate[a]]
Capital == [b \in DOMAIN businesses |-> businesses[b].capital]
Waste   == [b \in DOMAIN businesses |-> businesses[b].capital - businesses[b].capital \div 2]
Banked  == [c \in DOMAIN accounts |-> accounts[c].balance]

Wealth ==
  SumFunctionOnSet(Worth, Agents) + SumFunctionOnSet(Capital, DOMAIN businesses)
    + SumFunctionOnSet(Banked, DOMAIN accounts)

\* What a step adds to the town's money and what it takes: the income of a production, the fees
\* of new cases, the waste of businesses that close, the interest of the account that is visited.
Income  == IF phase' # phase /\ phase' = "payroll" THEN BASE_INCOME * Cardinality(Agents) ELSE 0
Fees    == FILING_FEE * (Len(cases') - Len(cases))
Closed  == {b \in DOMAIN businesses : Open(b) /\ ~businesses'[b].is_active}
Accrued == SumFunctionOnSet([c \in DOMAIN accounts |-> InterestOf(c)], interest \ interest')

\* Money comes from production and the interest on savings and goes in filing fees, closed
\* businesses (the half of the capital that is not refunded) and the interest on loans: verdicts,
\* salaries, investments, buildings, deposits, loans and repayments only move it.
WealthIsAccounted ==
  [][ Wealth' = Wealth + Income + Accrued - Fees - SumFunctionOnSet(Waste, Closed) ]_vars

\* An offer with an item on both of its sides.
Tangled(o) == Named(offers[o].offer) \cap Named(offers[o].request) # {}

TotalHeld(i) == SumFunctionOnSet([a \in Agents |-> inventory[a][i]], Agents)

\* However old an offer is when it is accepted, accepting it makes and loses no goods, unless an
\* item is on both of its sides.
BarterIsFair ==
  [][ (\A o \in DOMAIN offers : offers'[o] # offers[o] => ~Tangled(o)) =>
        \A i \in Items : phase' # "payroll" => TotalHeld(i)' = TotalHeld(i) ]_vars

\* Between ticks no case waits longer than its deliberation, whatever requests and restarts came
\* before: the tick that makes it due decides it.
VerdictsAreInTime ==
  phase = "requests" =>
    \A c \in DOMAIN cases : cases[c].status = "filed" => tick <= cases[c].tick_filed + DELIBERATION
=============================================================================
