----------------------------- MODULE Employment -----------------------------
(***************************************************************************)
(* services/business.py, the investments of services/social.py, and the    *)
(* salaries of engine/tick.py.                                             *)
(***************************************************************************)
EXTENDS Town

CONSTANTS
  MAX_BUSINESSES_PER_AGENT,   (* 5 in the source                               *)
  MAX_EMPLOYEES_PER_BUSINESS, (* 20                                            *)
  MAX_PRODUCTS_PER_BUSINESS,  (* 50                                            *)
  MAX_SALARY,                 (* 100_000                                       *)
  PAYMENT_INTERVAL            (* 720                                           *)

ASSUME EmploymentAssumption ==
  /\ MAX_BUSINESSES_PER_AGENT \in Nat /\ MAX_EMPLOYEES_PER_BUSINESS \in Nat
  /\ MAX_PRODUCTS_PER_BUSINESS \in Nat /\ MAX_SALARY \in Nat
  /\ PAYMENT_INTERVAL \in Nat \ {0}

VARIABLES
  businesses,   (* rows of businesses; products: the items that have a price    *)
  contracts,    (* rows of contracts whose type is EMPLOYMENT                   *)
  payroll       (* contracts the payment phase of the tick has still to look at *)

employmentVars == <<businesses, contracts, payroll>>

BusinessRow == [owner : Agents, capital : Nat, employees : Nat, is_active : BOOLEAN,
                products : SUBSET Items]

ContractRow == [employer : Agents, employee : Agents, business : Nat, salary : 1..MAX_SALARY,
                tick_start : Nat, status : {"active", "breached", "terminated"}]

EmploymentTypeOK ==
  /\ businesses \in Seq(BusinessRow)
  /\ contracts \in Seq(ContractRow)
  /\ payroll \subseteq DOMAIN contracts

EmploymentInit == businesses = <<>> /\ contracts = <<>> /\ payroll = {}

StartupCost == [shop |-> 5000, factory |-> 15000, farm |-> 8000, bank |-> 50000,
                restaurant |-> 7000, service |-> 3000, custom |-> 5000]

Open(b)    == businesses[b].is_active
Owns(a, b) == businesses[b].owner = a

StartBusiness(a, type) ==
  /\ Cardinality({b \in DOMAIN businesses : Owns(a, b) /\ Open(b)}) < MAX_BUSINESSES_PER_AGENT
  /\ agents[a].balance >= StartupCost[type]
  /\ agents' = Pay(a, StartupCost[type])
  /\ businesses' = Append(businesses,
       [owner |-> a, capital |-> StartupCost[type], employees |-> 0, is_active |-> TRUE,
        products |-> {}])
  /\ UNCHANGED <<contracts, payroll>>

\* Half of the capital is refunded; contracts are left as they are.
CloseBusiness(a, b) ==
  /\ Owns(a, b) /\ Open(b)
  /\ agents' = Pay(a, -(businesses[b].capital \div 2))
  /\ businesses' = [businesses EXCEPT ![b].is_active = FALSE, ![b].capital = 0]
  /\ UNCHANGED <<contracts, payroll>>

\* A price of zero takes the item off the catalog.
SetPrice(a, b, item, price) ==
  /\ Owns(a, b) /\ Open(b) /\ price >= 0
  /\ price = 0 \/ item \in businesses[b].products
     \/ Cardinality(businesses[b].products) < MAX_PRODUCTS_PER_BUSINESS
  /\ businesses' = [businesses EXCEPT ![b].products =
       IF price = 0 THEN @ \ {item} ELSE @ \cup {item}]
  /\ UNCHANGED <<contracts, payroll>>

Invest(a, b, amount) ==
  /\ amount > 0 /\ agents[a].balance >= amount
  /\ Open(b)
  /\ agents' = Pay(a, amount)
  /\ businesses' = [businesses EXCEPT ![b].capital = @ + amount]
  /\ UNCHANGED <<contracts, payroll>>

Active(k) == contracts[k].status = "active"

\* The active contracts between two agents: hire_agent wants none, fire_agent exactly one
\* (scalar_one_or_none raises if there are more).
Jobs(a, e) == {k \in DOMAIN contracts :
  contracts[k].employer = a /\ contracts[k].employee = e /\ Active(k)}

Hire(a, e, b, salary) ==
  /\ a # e /\ salary \in 1..MAX_SALARY
  /\ Owns(a, b) /\ Open(b)
  /\ businesses[b].employees < MAX_EMPLOYEES_PER_BUSINESS
  /\ Jobs(a, e) = {}
  /\ contracts' = Append(contracts,
       [employer |-> a, employee |-> e, business |-> b, salary |-> salary, tick_start |-> tick,
        status |-> "active"])
  /\ businesses' = [businesses EXCEPT ![b].employees = @ + 1]
  /\ UNCHANGED payroll

\* Faulty variant of Fire: the count of the business is forgotten.
FireUncounted(a, e) ==
  \E k \in Jobs(a, e) :
    /\ Jobs(a, e) = {k}
    /\ contracts' = [contracts EXCEPT ![k].status = "terminated"]
    /\ UNCHANGED <<businesses, payroll>>

Fire(a, e) ==
  \E k \in Jobs(a, e) :
    /\ Jobs(a, e) = {k}
    /\ contracts' = [contracts EXCEPT ![k].status = "terminated"]
    /\ businesses' = [businesses EXCEPT ![contracts[k].business].employees =
         IF @ > 0 THEN @ - 1 ELSE @]
    /\ UNCHANGED payroll

\* Salary is due every PAYMENT_INTERVAL ticks after the start.
SalaryDue(k) ==
  LET elapsed == tick - contracts[k].tick_start
  IN elapsed > 0 /\ elapsed % PAYMENT_INTERVAL = 0

BeginPayroll == payroll' = {k \in DOMAIN contracts : Active(k) /\ SalaryDue(k)}

\* The salary is paid or, for want of money, the contract is breached.  The business
\* is not touched either way.
PaySalary(k) ==
  LET a == contracts[k].employer
      e == contracts[k].employee
      n == contracts[k].salary
  IN
  /\ payroll' = payroll \ {k}
  /\ IF agents[a].balance >= n
     THEN /\ agents' = Transfer(a, e, n)
          /\ UNCHANGED contracts
     ELSE /\ contracts' = [contracts EXCEPT ![k].status = "breached"]
          /\ agents' = [agents EXCEPT ![a].reputation = Max2(0, @ - 20)]
  /\ UNCHANGED businesses
=============================================================================
