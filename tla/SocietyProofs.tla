---------------------------- MODULE SocietyProofs ----------------------------
(***************************************************************************)
(* Theorems of Society, for any agents, goods, limits and requests.        *)
(***************************************************************************)
EXTENDS BankProofs

(* ------------------------------- prices ---------------------------------- *)

LEMMA Costs ==
  /\ \A type \in DOMAIN StartupCost : StartupCost[type] \in Nat
  /\ \A type \in DOMAIN BuildCost : BuildCost[type] \in Nat
<1>1. ASSUME NEW type \in DOMAIN StartupCost PROVE StartupCost[type] \in Nat
  BY DEF StartupCost
<1>2. ASSUME NEW type \in DOMAIN BuildCost PROVE BuildCost[type] \in Nat
  BY DEF BuildCost
<1> QED  BY <1>1, <1>2

LEMMA BaseFinesAreNumbers ==
  /\ \A type \in CaseTypes : BaseFines[type] \in Nat
  /\ \A type \in CaseTypes : type \in {"fraud", "theft"} => BaseFines[type] <= 5000
<1>1. ASSUME NEW type \in CaseTypes PROVE BaseFines[type] \in Nat
  BY DEF CaseTypes, BaseFines
<1>2. ASSUME NEW type \in CaseTypes, type \in {"fraud", "theft"} PROVE BaseFines[type] <= 5000
  BY <1>2 DEF CaseTypes, BaseFines
<1> QED  BY <1>1, <1>2

\* A fine beyond 500 is within the balance it is taken from, and no serious crime costs enough
\* to be jailed for.
LEMMA FineIsBounded ==
  ASSUME NEW type \in CaseTypes, NEW balance \in Int
  PROVE  /\ CalculateFine(type, balance) \in Nat
         /\ CalculateFine(type, balance) <= 500 \/ CalculateFine(type, balance) <= balance
         /\ ~Serious(type, CalculateFine(type, balance))
<1> DEFINE share == (balance * 30) \div 100
<1>1. share \in Int /\ (share > 500 => share <= balance)
  OBVIOUS
<1>2. BaseFines[type] \in Nat /\ (type \in {"fraud", "theft"} => BaseFines[type] <= 5000)
  BY BaseFinesAreNumbers
<1> HIDE DEF share
<1>3. /\ Min2(BaseFines[type], Max2(share, 500)) \in Nat
      /\ Min2(BaseFines[type], Max2(share, 500)) <= 500
         \/ Min2(BaseFines[type], Max2(share, 500)) <= balance
      /\ Min2(BaseFines[type], Max2(share, 500)) <= BaseFines[type]
  BY <1>1, <1>2 DEF Min2, Max2
<1>4. CalculateFine(type, balance) = Min2(BaseFines[type], Max2(share, 500))
  BY DEF CalculateFine, share
<1> HIDE DEF CalculateFine
<1>5. CalculateFine(type, balance) \in Nat /\ CalculateFine(type, balance) <= BaseFines[type]
  BY <1>3, <1>4
<1>6. ~Serious(type, CalculateFine(type, balance))
  BY <1>2, <1>5 DEF Serious
<1> QED  BY <1>3, <1>4, <1>6

(* ------------------------------ agents ----------------------------------- *)

LEMMA TransferSound ==
  ASSUME agents \in Sound, NEW a \in Agents, NEW b \in Agents, NEW n \in Nat,
         n <= agents[a].balance
  PROVE  Transfer(a, b, n) \in Sound
<1> DEFINE p == Pay(a, n)
<1>1. p \in Sound
  BY PaySound
<1>2. Transfer(a, b, n) = [p EXCEPT ![b].balance = @ + n]
  BY DEF Transfer
<1> HIDE DEF p
<1> DEFINE q == [p EXCEPT ![b].balance = @ + n]
<1>3. q \in [Agents -> AgentRow]
  BY <1>1 DEF Sound, AgentRow
<1>4. \A c \in Agents : /\ q[c].balance >= p[c].balance
                        /\ q[c].lawsuits_lost = p[c].lawsuits_lost /\ q[c].status = p[c].status
  BY <1>1 DEF Sound, AgentRow
<1>5. \A c \in Agents : /\ p[c].balance >= -500 * p[c].lawsuits_lost /\ p[c].status = "active"
                        /\ p[c].balance \in Int /\ p[c].lawsuits_lost \in Nat
  BY <1>1 DEF Sound, AgentRow
<1>6. \A c \in Agents : q[c].balance \in Int
  BY <1>3 DEF AgentRow
<1> HIDE DEF q
<1>7. \A c \in Agents : q[c].balance >= -500 * q[c].lawsuits_lost /\ q[c].status = "active"
  BY <1>4, <1>5, <1>6
<1>8. q \in Sound
  BY <1>3, <1>7 DEF Sound
<1>9. Transfer(a, b, n) = q
  BY <1>2 DEF q
<1> QED  BY <1>8, <1>9

\* The parties and the type of a case.
LEMMA Parties ==
  ASSUME CourtTypeOK, NEW c \in DOMAIN cases
  PROVE  /\ cases[c].plaintiff \in Agents /\ cases[c].defendant \in Agents
         /\ cases[c].case_type \in CaseTypes /\ cases[c].tick_filed \in Nat
<1>1. cases[c] \in CaseRow
  BY DEF CourtTypeOK
<1> QED  BY <1>1 DEF CaseRow

\* Nobody sues himself.
Adversaries == \A c \in DOMAIN cases : cases[c].plaintiff # cases[c].defendant

LEMMA NewRatings ==
  \A r \in Ratings : /\ Max2(0, r - 50) \in Ratings /\ Max2(0, r - 30) \in Ratings
                     /\ Max2(0, r - 20) \in Ratings
                     /\ Min2(1000, r + 10) \in Ratings /\ Min2(1000, r + 5) \in Ratings
BY DEF Ratings, Max2, Min2

\* The rows after a verdict against c.
LEMMA ConvictSound ==
  ASSUME agents \in Sound, CourtTypeOK, Adversaries, NEW c \in DOMAIN cases, Convict(c)
  PROVE  /\ agents' \in Sound
         /\ \E n \in Nat : \A a \in Agents :
              agents'[a].balance = Transfer(cases[c].defendant, cases[c].plaintiff, n)[a].balance
<1> DEFINE p == cases[c].plaintiff
           d == cases[c].defendant
           type == cases[c].case_type
           fine == CalculateFine(type, agents[d].balance)
<1>1. p \in Agents /\ d \in Agents /\ type \in CaseTypes /\ p # d
  BY Parties DEF Adversaries
<1>2. agents[d].balance \in Int
  BY <1>1, SoundRow
<1>3. fine \in Nat /\ (fine <= 500 \/ fine <= agents[d].balance) /\ ~Serious(type, fine)
  BY <1>1, <1>2, FineIsBounded
<1> DEFINE t == Transfer(d, p, fine)
           jail == Serious(type, fine)
<1>4. agents' = Convicted(t, p, d, jail) /\ ~jail
  BY <1>3 DEF Convict
<1> HIDE DEF p, d, type, fine, jail, t
<1> DEFINE x == Max2(0, t[d].reputation - 50)
           y == Min2(1000, t[p].reputation + 10)
           z == Max2(0, t[d].credit_score - 30)
           s == IF jail THEN "jailed" ELSE t[d].status
<1>5. agents' = [t EXCEPT ![d].reputation    = x,
                           ![p].reputation    = y,
                           ![d].credit_score  = z,
                           ![p].lawsuits_won  = t[p].lawsuits_won + 1,
                           ![d].lawsuits_lost = t[d].lawsuits_lost + 1,
                           ![d].status        = s]
  BY <1>4, ZenonT(60) DEF Convicted
<1>6. /\ t \in [Agents -> AgentRow]
      /\ t[d].balance = agents[d].balance - fine
      /\ \A a \in Agents \ {d} : t[a].balance >= agents[a].balance
      /\ \A a \in Agents : t[a].lawsuits_lost = agents[a].lawsuits_lost /\ t[a].status = "active"
  <2> DEFINE u == Pay(d, fine)
  <2>1. u \in [Agents -> AgentRow] /\ u[d].balance = agents[d].balance - fine
    BY <1>1, <1>3 DEF Sound, AgentRow, Pay
  <2>2. \A a \in Agents \ {d} : u[a] = agents[a]
    BY <1>1 DEF Sound, Pay
  <2>3. \A a \in Agents : u[a].lawsuits_lost = agents[a].lawsuits_lost /\ u[a].status = "active"
    BY <1>1, <1>3 DEF Sound, AgentRow, Pay
  <2>4. t = [u EXCEPT ![p].balance = u[p].balance + fine]
    BY DEF t, Transfer
  <2> HIDE DEF u
  <2>5. t \in [Agents -> AgentRow] /\ t[p].balance = u[p].balance + fine
    BY <1>1, <1>3, <2>1, <2>4 DEF AgentRow
  <2>6. \A a \in Agents \ {p} : t[a] = u[a]
    BY <1>1, <2>1, <2>4
  <2>7. t[p].lawsuits_lost = u[p].lawsuits_lost /\ t[p].status = u[p].status
    BY <1>1, <2>1, <2>4 DEF AgentRow
  <2>8. ASSUME NEW a \in Agents \ {d} PROVE t[a].balance >= agents[a].balance
    <3>1. u[a].balance \in Int
      BY <2>1 DEF AgentRow
    <3> QED  BY <1>3, <2>2, <2>5, <2>6, <3>1
  <2>9. t[d].balance = agents[d].balance - fine
    BY <1>1, <2>1, <2>6
  <2>10. \A a \in Agents : t[a].lawsuits_lost = agents[a].lawsuits_lost /\ t[a].status = "active"
    BY <2>3, <2>6, <2>7
  <2> QED  BY <2>5, <2>8, <2>9, <2>10
<1>7. s = "active"
  BY <1>1, <1>4, <1>6
<1> HIDE DEF x, y, z, s
<1>8. /\ agents' = [a \in Agents |-> agents'[a]]
      /\ agents'[d] = [t[d] EXCEPT !.reputation = x, !.credit_score = z,
                                   !.lawsuits_lost = t[d].lawsuits_lost + 1, !.status = s]
      /\ agents'[p] = [t[p] EXCEPT !.reputation = y, !.lawsuits_won = t[p].lawsuits_won + 1]
      /\ \A a \in Agents \ {d, p} : agents'[a] = t[a]
  <2> DEFINE q == [t EXCEPT ![d].reputation    = x,
                            ![p].reputation    = y,
                            ![d].credit_score  = z,
                            ![p].lawsuits_won  = t[p].lawsuits_won + 1,
                            ![d].lawsuits_lost = t[d].lawsuits_lost + 1,
                            ![d].status        = s]
  <2>1. /\ q = [a \in Agents |-> q[a]]
        /\ q[d] = [t[d] EXCEPT !.reputation = x, !.credit_score = z,
                               !.lawsuits_lost = t[d].lawsuits_lost + 1, !.status = s]
        /\ q[p] = [t[p] EXCEPT !.reputation = y, !.lawsuits_won = t[p].lawsuits_won + 1]
        /\ \A a \in Agents \ {d, p} : q[a] = t[a]
    BY <1>1, <1>6 DEF AgentRow
  <2>2. agents' = q
    BY <1>5
  <2> HIDE DEF q
  <2> QED  BY <2>1, <2>2, Zenon
<1>9. t[d] \in AgentRow /\ t[p] \in AgentRow
  BY <1>1, <1>6
<1>10. x \in Ratings /\ y \in Ratings /\ z \in Ratings
  <2>1. t[d].reputation \in Ratings /\ t[p].reputation \in Ratings /\ t[d].credit_score \in Ratings
    BY <1>9 DEF AgentRow
  <2> QED  BY <2>1, NewRatings DEF x, y, z
<1>11. t[d].lawsuits_lost + 1 \in Nat /\ t[p].lawsuits_won + 1 \in Nat
  BY <1>9 DEF AgentRow
<1>12. agents'[d] \in AgentRow /\ agents'[p] \in AgentRow
  <2>1. agents'[d] \in AgentRow
    BY <1>7, <1>8, <1>9, <1>10, <1>11 DEF AgentRow
  <2>2. agents'[p] \in AgentRow
    BY <1>8, <1>9, <1>10, <1>11 DEF AgentRow
  <2> QED  BY <2>1, <2>2
<1>13. agents' \in [Agents -> AgentRow]
  <2>1. \A a \in Agents : agents'[a] \in AgentRow
    BY <1>6, <1>8, <1>12
  <2> QED  BY <1>8, <2>1
<1>14. /\ agents'[d].balance = t[d].balance /\ agents'[d].status = "active"
       /\ agents'[d].lawsuits_lost = t[d].lawsuits_lost + 1
       /\ agents'[p].balance = t[p].balance /\ agents'[p].status = t[p].status
       /\ agents'[p].lawsuits_lost = t[p].lawsuits_lost
  BY <1>8, <1>9, <1>7 DEF AgentRow
<1>15. agents'[d].balance >= -500 * agents'[d].lawsuits_lost
  BY <1>1, <1>2, <1>3, <1>6, <1>14, SoundRow
<1>16. ASSUME NEW a \in Agents \ {d}
       PROVE  agents'[a].balance >= -500 * agents'[a].lawsuits_lost /\ agents'[a].status = "active"
  <2>1. agents'[a].balance = t[a].balance /\ agents'[a].lawsuits_lost = t[a].lawsuits_lost
        /\ agents'[a].status = t[a].status
    BY <1>8, <1>14
  <2>2. t[a].balance \in Int
    BY <1>6 DEF AgentRow
  <2> QED  BY <1>6, <2>1, <2>2, SoundRow
<1>17. \A a \in Agents : agents'[a].balance = Transfer(d, p, fine)[a].balance
  BY <1>8, <1>14 DEF t
<1>18. \E n \in Nat : \A a \in Agents : agents'[a].balance = Transfer(d, p, n)[a].balance
  BY <1>3, <1>17
<1>19. agents' \in Sound
  BY <1>13, <1>14, <1>15, <1>16 DEF Sound
<1> QED  BY <1>18, <1>19 DEF d, p

LEMMA AcquitSound ==
  ASSUME agents \in Sound, CourtTypeOK, Adversaries, NEW c \in DOMAIN cases, Acquit(c)
  PROVE  agents' \in Sound /\ \A a \in Agents : agents'[a].balance = agents[a].balance
<1> DEFINE p == cases[c].plaintiff
           d == cases[c].defendant
           x == Min2(1000, agents[d].reputation + 5)
<1>1. p \in Agents /\ d \in Agents /\ p # d
  BY Parties DEF Adversaries
<1>2. agents' = [agents EXCEPT ![d].reputation    = x,
                               ![p].lawsuits_lost = agents[p].lawsuits_lost + 1]
  BY <1>1 DEF Acquit
<1>3. x \in Ratings
  <2>1. agents[d].reputation \in Ratings
    BY <1>1, SoundRow DEF AgentRow
  <2> QED  BY <2>1, NewRatings
<1> HIDE DEF p, d, x
<1>4. agents' \in [Agents -> AgentRow]
  BY <1>1, <1>2, <1>3 DEF Sound, AgentRow
<1>5. \A a \in Agents : /\ agents'[a].balance = agents[a].balance
                        /\ agents'[a].status = agents[a].status
                        /\ agents'[a].lawsuits_lost >= agents[a].lawsuits_lost
                        /\ agents'[a].lawsuits_lost \in Nat
  BY <1>1, <1>2 DEF Sound, AgentRow
<1>6. ASSUME NEW a \in Agents PROVE agents'[a].balance >= -500 * agents'[a].lawsuits_lost
  BY <1>5, SoundRow
<1> QED  BY <1>4, <1>5, <1>6, SoundRow DEF Sound
\* A breached contract costs reputation alone.
LEMMA BreachSound ==
  ASSUME agents \in Sound, NEW a \in Agents,
         agents' = [agents EXCEPT ![a].reputation = Max2(0, @ - 20)]
  PROVE  agents' \in Sound /\ \A b \in Agents : agents'[b].balance = agents[b].balance
<1> DEFINE x == Max2(0, agents[a].reputation - 20)
<1>1. x \in Ratings
  <2>1. agents[a].reputation \in Ratings
    BY SoundRow DEF AgentRow
  <2> QED  BY <2>1, NewRatings
<1>2. agents' = [agents EXCEPT ![a].reputation = x]
  OBVIOUS
<1> HIDE DEF x
<1>3. agents' \in [Agents -> AgentRow]
  BY <1>1, <1>2 DEF Sound, AgentRow
<1>4. \A b \in Agents : /\ agents'[b].balance = agents[b].balance
                        /\ agents'[b].status = agents[b].status
                        /\ agents'[b].lawsuits_lost = agents[b].lawsuits_lost
  BY <1>2 DEF Sound, AgentRow
<1>5. \A b \in Agents : agents'[b].balance >= -500 * agents'[b].lawsuits_lost
                        /\ agents'[b].status = "active"
  BY <1>4, SoundRow
<1> QED  BY <1>3, <1>4, <1>5 DEF Sound

LEMMA ProductionSound ==
  ASSUME agents \in Sound, ProcessProduction
  PROVE  agents' \in Sound
<1>1. agents' = [a \in Agents |->
        IF a \in Working THEN [agents[a] EXCEPT !.balance = @ + BASE_INCOME] ELSE agents[a]]
  BY DEF ProcessProduction
<1>2. ASSUME NEW a \in Agents
      PROVE  /\ agents'[a] \in AgentRow
             /\ agents'[a].balance >= -500 * agents'[a].lawsuits_lost
             /\ agents'[a].status = "active"
  <2>1. agents[a] \in AgentRow /\ agents[a].balance \in Int /\ agents[a].lawsuits_lost \in Nat
        /\ agents[a].balance >= -500 * agents[a].lawsuits_lost /\ agents[a].status = "active"
    BY SoundRow
  <2>2. CASE a \in Working
    <3>1. agents'[a] = [agents[a] EXCEPT !.balance = @ + 500]
      BY <1>1, <2>2 DEF BASE_INCOME
    <3>2. agents'[a] \in AgentRow /\ agents'[a].balance = agents[a].balance + 500
          /\ agents'[a].lawsuits_lost = agents[a].lawsuits_lost /\ agents'[a].status = "active"
      BY <2>1, <3>1 DEF AgentRow
    <3> QED  BY <2>1, <3>2
  <2>3. CASE a \notin Working
    BY <1>1, <2>1, <2>3
  <2> QED  BY <2>2, <2>3
<1>3. agents' \in [Agents -> AgentRow]
  BY <1>1, <1>2
<1> QED  BY <1>2, <1>3 DEF Sound

(* ------------------------------ requests --------------------------------- *)

\* What is proved of businesses and contracts beside their types: the tick pays contracts that are
\* active, and contracts are of businesses there are.
Hired ==
  /\ \A k \in payroll : Active(k)
  /\ \A k \in DOMAIN contracts : contracts[k].business \in DOMAIN businesses
  /\ phase # "payroll" => payroll = {}

LEMMA BusinessRows ==
  ASSUME EmploymentTypeOK
  PROVE  /\ \A b \in DOMAIN businesses :
              businesses[b] \in BusinessRow /\ businesses[b].capital \in Nat
              /\ businesses[b].employees \in Nat
         /\ \A k \in DOMAIN contracts :
              contracts[k] \in ContractRow /\ contracts[k].employer \in Agents
              /\ contracts[k].employee \in Agents /\ contracts[k].salary \in Nat
<1>1. \A b \in DOMAIN businesses : businesses[b] \in BusinessRow
  BY DEF EmploymentTypeOK
<1>2. \A k \in DOMAIN contracts : contracts[k] \in ContractRow
  BY DEF EmploymentTypeOK
<1>3. \A r \in BusinessRow : r.capital \in Nat /\ r.employees \in Nat
  BY DEF BusinessRow
<1>4. \A r \in ContractRow : r.employer \in Agents /\ r.employee \in Agents /\ r.salary \in Nat
  BY EmploymentAssumption DEF ContractRow
<1> QED  BY <1>1, <1>2, <1>3, <1>4

\* Whatever is asked for, agents spend what they have and courts and ticks take fines.
LEMMA SoundStep ==
  ASSUME agents \in Sound, CourtTypeOK, Adversaries, EmploymentTypeOK, Books, [Next]_vars
  PROVE  agents' \in Sound
<1>1. ASSUME NEW a \in Agents, Sue(a) PROVE agents' \in Sound
  <2>1. agents[a].balance >= 500 /\ agents' = Pay(a, 500)
    BY <1>1 DEF Sue, FileLawsuit, FILING_FEE
  <2>2. 500 <= agents[a].balance
    BY <2>1, SoundRow
  <2> QED  BY <2>1, <2>2, PaySound
<1>2. ASSUME NEW a \in Agents, Start(a) PROVE agents' \in Sound
  <2>1. PICK type \in AskedBusinesses : StartBusiness(a, type)
    BY <1>2 DEF Start
  <2>2. StartupCost[type] \in Int
    BY Costs, SocietyAssumption
  <2> DEFINE n == StartupCost[type]
  <2>3. agents[a].balance >= n /\ agents' = Pay(a, n)
    BY <2>1 DEF StartBusiness
  <2> HIDE DEF n
  <2>4. n \in Int /\ n <= agents[a].balance
    BY <2>2, <2>3, SoundRow DEF n
  <2> QED  BY <2>3, <2>4, PaySound
<1>3. ASSUME NEW a \in Agents, Close(a) PROVE agents' \in Sound
  <2>1. PICK b \in DOMAIN businesses : CloseBusiness(a, b)
    BY <1>3 DEF Close
  <2> DEFINE n == -(businesses[b].capital \div 2)
  <2>2. agents' = Pay(a, n)
    BY <2>1 DEF CloseBusiness
  <2>3. businesses[b].capital \in Nat
    BY BusinessRows
  <2>4. n \in Int /\ n <= 0
    BY <2>3
  <2> HIDE DEF n
  <2> QED  BY <2>2, <2>4, PaySound
<1>4. ASSUME NEW a \in Agents, Fund(a) PROVE agents' \in Sound
  <2>1. PICK b \in DOMAIN businesses, n \in AskedAmounts : Invest(a, b, n)
    BY <1>4 DEF Fund
  <2>2. n \in Int /\ agents[a].balance >= n /\ agents' = Pay(a, n)
    BY <2>1, SocietyAssumption DEF Invest
  <2>3. n <= agents[a].balance
    BY <2>2, SoundRow
  <2> QED  BY <2>2, <2>3, PaySound
<1>5. ASSUME NEW a \in Agents, Build(a) PROVE agents' \in Sound
  <2>1. PICK type \in AskedBuildings : BuildProperty(a, type)
    BY <1>5 DEF Build
  <2>2. BuildCost[type] \in Int
    BY Costs, SocietyAssumption
  <2> DEFINE n == BuildCost[type]
  <2>3. agents[a].balance >= n /\ agents' = Pay(a, n)
    BY <2>1 DEF BuildProperty
  <2> HIDE DEF n
  <2>4. n \in Int /\ n <= agents[a].balance
    BY <2>2, <2>3, SoundRow DEF n
  <2> QED  BY <2>3, <2>4, PaySound
<1>6. ASSUME NEW a \in Agents,
             Price(a) \/ Employ(a) \/ Dismiss(a) \/ Offer(a) \/ Accept(a) \/ Reject(a)
      PROVE  agents' \in Sound
  BY <1>6 DEF Price, Employ, Dismiss, Offer, Accept, Reject
<1>7. ASSUME Judge PROVE agents' \in Sound
  BY <1>7, ConvictSound, AcquitSound DEF Judge, ProcessPendingCase
<1>8. ASSUME Produce PROVE agents' \in Sound
  BY <1>8, ProductionSound DEF Produce
<1>9. ASSUME PayOne PROVE agents' \in Sound
  <2>1. PICK k \in payroll : PaySalary(k)
    BY <1>9 DEF PayOne
  <2> DEFINE a == contracts[k].employer
             e == contracts[k].employee
             n == contracts[k].salary
  <2>2. a \in Agents /\ e \in Agents /\ n \in Nat
    <3>1. k \in DOMAIN contracts
      BY <2>1 DEF EmploymentTypeOK
    <3> QED  BY <3>1, BusinessRows
  <2>3. \/ agents[a].balance >= n /\ agents' = Transfer(a, e, n)
        \/ agents' = [agents EXCEPT ![a].reputation = Max2(0, @ - 20)]
    BY <2>1 DEF PaySalary
  <2> HIDE DEF a, e, n
  <2>4. CASE agents[a].balance >= n /\ agents' = Transfer(a, e, n)
    <3>1. n <= agents[a].balance
      BY <2>2, <2>4, SoundRow
    <3> QED  BY <2>2, <2>4, <3>1, TransferSound
  <2>5. CASE agents' = [agents EXCEPT ![a].reputation = Max2(0, @ - 20)]
    BY <2>2, <2>5, BreachSound
  <2> QED  BY <2>3, <2>4, <2>5
<1>10. ASSUME NEW a \in Agents, Save(a) \/ Borrow(a) \/ UseAccount(a) PROVE agents' \in Sound
  BY <1>10, RequestEntry DEF Entered
<1>11. ASSUME AccrueOne PROVE agents' \in Sound
  BY <1>11, VisitBooks DEF AccrueOne
<1>12. ASSUME BeginTick \/ EndPayroll \/ EndTick \/ Reboot \/ UNCHANGED vars
       PROVE  agents' \in Sound
  BY <1>12 DEF BeginTick, EndPayroll, EndTick, Reboot, Restart, vars, townVars
<1> QED  BY <1>1, <1>2, <1>3, <1>4, <1>5, <1>6, <1>7, <1>8, <1>9, <1>10, <1>11, <1>12
         DEF Next, HandleAction, ProcessTick
(* ------------------------------- court ----------------------------------- *)

Clock ==
  tick \in Nat /\ phase \in {"requests", "court", "payroll", "interest"} /\ restarts \in Nat

\* A case is decided in time: the tick goes on only when it has decided what was due.
InTime ==
  /\ VerdictsAreInTime
  /\ phase \in {"payroll", "interest"} => \A c \in DOMAIN cases : ~Pending(c)

Docket == CourtTypeOK /\ Adversaries /\ InTime

LEMMA ClockStep ==
  ASSUME Clock, [Next]_vars
  PROVE  Clock'
<1>1. ASSUME HandleAction PROVE Clock'
  BY <1>1 DEF HandleAction, Sue, Start, Close, Price, Employ, Dismiss, Fund, Offer, Accept,
              Reject, Build, Save, Borrow, UseAccount, Between, Clock
<1>2. ASSUME ProcessTick \/ Reboot PROVE Clock'
  BY <1>2 DEF ProcessTick, BeginTick, Judge, Produce, PayOne, EndPayroll, AccrueOne, EndTick,
              Reboot, Restart, Clock
<1>3. ASSUME UNCHANGED vars PROVE Clock'
  BY <1>3 DEF vars, townVars, Clock
<1> QED  BY <1>1, <1>2, <1>3 DEF Next

LEMMA SueDocket ==
  ASSUME Docket, Clock, NEW a \in Agents, Sue(a)
  PROVE  Docket'
<1>1. PICK d \in Agents, type \in AskedCases : FileLawsuit(a, d, type)
  BY DEF Sue
<1> DEFINE r == [case_type |-> type, plaintiff |-> a, defendant |-> d, tick_filed |-> tick,
                 status |-> "filed", fine_amount |-> 0]
<1>2. cases' = Append(cases, r) /\ a # d
  BY <1>1 DEF FileLawsuit
<1>3. r \in CaseRow
  BY SocietyAssumption DEF CaseRow, Clock
<1>4. phase = "requests" /\ phase' = phase /\ tick' = tick
  BY DEF Sue, Between
<1>5. r.plaintiff = a /\ r.defendant = d /\ r.tick_filed = tick
  OBVIOUS
<1> HIDE DEF r
<1>6. cases \in Seq(CaseRow)
  BY DEF Docket, CourtTypeOK
<1>7. /\ cases' \in Seq(CaseRow) /\ DOMAIN cases' = DOMAIN cases \cup {Len(cases) + 1}
      /\ \A c \in DOMAIN cases : cases'[c] = cases[c]
      /\ cases'[Len(cases) + 1] = r
  BY <1>2, <1>3, <1>6, AddedRow
<1>8. Adversaries'
  BY <1>2, <1>5, <1>7 DEF Docket, Adversaries
<1>9. InTime'
  BY <1>4, <1>5, <1>7 DEF Docket, InTime, VerdictsAreInTime, Clock, DELIBERATION
<1> QED  BY <1>7, <1>8, <1>9 DEF Docket, CourtTypeOK

\* A verdict decides a case, and leaves its parties and its date.
LEMMA JudgeDocket ==
  ASSUME Docket, agents \in Sound, Judge
  PROVE  Docket'
<1>1. PICK c \in DOMAIN cases : Convict(c) \/ Acquit(c)
  BY DEF Judge, ProcessPendingCase
<1>2. phase' = "court"
  BY DEF Judge
<1>3. cases \in Seq(CaseRow) /\ cases[c] \in CaseRow
  BY DEF Docket, CourtTypeOK
<1>4. \E r \in CaseRow : /\ cases' = [cases EXCEPT ![c] = r]
                         /\ r.plaintiff = cases[c].plaintiff /\ r.defendant = cases[c].defendant
  <2>1. CASE Convict(c)
    <3> DEFINE fine == CalculateFine(cases[c].case_type, agents[cases[c].defendant].balance)
               r == [cases[c] EXCEPT !.status = "verdict_guilty", !.fine_amount = fine]
    <3>1. cases' = [cases EXCEPT ![c].status = "verdict_guilty", ![c].fine_amount = fine]
      BY <2>1 DEF Convict
    <3>2. fine \in Nat
      <4>1. cases[c].case_type \in CaseTypes /\ agents[cases[c].defendant].balance \in Int
        BY Parties, SoundRow DEF Docket
      <4> QED  BY <4>1, FineIsBounded
    <3> HIDE DEF fine
    <3>3. cases' = [cases EXCEPT ![c] = r]
      BY <1>3, <3>1 DEF CaseRow
    <3>4. r \in CaseRow /\ r.plaintiff = cases[c].plaintiff /\ r.defendant = cases[c].defendant
      BY <1>3, <3>2 DEF CaseRow, Verdicts
    <3> QED  BY <3>3, <3>4
  <2>2. CASE Acquit(c)
    <3> DEFINE r == [cases[c] EXCEPT !.status = "verdict_not_guilty"]
    <3>1. cases' = [cases EXCEPT ![c] = r]
      BY <2>2 DEF Acquit
    <3>2. r \in CaseRow /\ r.plaintiff = cases[c].plaintiff /\ r.defendant = cases[c].defendant
      BY <1>3 DEF CaseRow, Verdicts
    <3> QED  BY <3>1, <3>2
  <2> QED  BY <1>1, <2>1, <2>2
<1>5. PICK r \in CaseRow : /\ cases' = [cases EXCEPT ![c] = r]
                           /\ r.plaintiff = cases[c].plaintiff /\ r.defendant = cases[c].defendant
  BY <1>4
<1>6. /\ cases' \in Seq(CaseRow) /\ DOMAIN cases' = DOMAIN cases /\ cases'[c] = r
      /\ \A k \in DOMAIN cases : k # c => cases'[k] = cases[k]
  BY <1>3, <1>5, ChangedRow
<1>7. Adversaries'
  BY <1>5, <1>6 DEF Docket, Adversaries
<1>8. InTime'
  BY <1>2 DEF InTime, VerdictsAreInTime
<1> QED  BY <1>6, <1>7, <1>8 DEF Docket, CourtTypeOK

LEMMA DocketStep ==
  ASSUME Docket, Clock, agents \in Sound, [Next]_vars
  PROVE  Docket'
<1>1. ASSUME NEW a \in Agents,
             Start(a) \/ Close(a) \/ Price(a) \/ Employ(a) \/ Dismiss(a) \/ Fund(a)
               \/ Offer(a) \/ Accept(a) \/ Reject(a) \/ Build(a)
               \/ Save(a) \/ Borrow(a) \/ UseAccount(a)
      PROVE  Docket'
  <2>1. UNCHANGED <<cases, tick, phase>>
    BY <1>1 DEF Start, Close, Price, Employ, Dismiss, Fund, Offer, Accept, Reject, Build,
                Save, Borrow, UseAccount, Between, courtVars
  <2>2. CourtTypeOK' /\ Adversaries'
    BY <2>1 DEF Docket, CourtTypeOK, Adversaries
  <2>3. InTime'
    BY <2>1 DEF Docket, InTime, VerdictsAreInTime, Pending
  <2> QED  BY <2>2, <2>3 DEF Docket
<1>2. ASSUME \/ BeginTick \/ Produce \/ PayOne \/ EndPayroll \/ AccrueOne \/ EndTick
             \/ Reboot \/ UNCHANGED vars
      PROVE  Docket'
  <2>1. cases' = cases
    BY <1>2 DEF BeginTick, Produce, PayOne, EndPayroll, AccrueOne, EndTick, Reboot, vars, courtVars
  <2>2. CourtTypeOK' /\ Adversaries'
    BY <2>1 DEF Docket, CourtTypeOK, Adversaries
  <2>3. \A c \in DOMAIN cases : cases[c].tick_filed \in Nat
    BY Parties DEF Docket
  <2>4. CASE BeginTick
    BY <2>2, <2>4 DEF BeginTick, InTime, VerdictsAreInTime, Docket
  <2>5. CASE Produce
    <3>1. phase' = "payroll" /\ tick' = tick /\ \A c \in DOMAIN cases : ~Pending(c)
      BY <2>5 DEF Produce
    <3> QED  BY <2>1, <2>2, <3>1 DEF InTime, VerdictsAreInTime, Docket, Pending
  <2>6. CASE PayOne \/ EndPayroll \/ AccrueOne
    <3>1. phase' \in {"payroll", "interest"} /\ tick' = tick /\ phase \in {"payroll", "interest"}
      BY <2>6 DEF PayOne, EndPayroll, AccrueOne
    <3> QED  BY <2>1, <2>2, <3>1 DEF InTime, VerdictsAreInTime, Docket, Pending
  <2>7. CASE EndTick
    <3>1. phase' = "requests" /\ tick' = tick + 1 /\ phase = "interest"
      BY <2>7 DEF EndTick
    <3>2. \A c \in DOMAIN cases : ~Pending(c)
      BY <3>1 DEF InTime, Docket
    <3>3. ASSUME NEW c \in DOMAIN cases, cases[c].status = "filed"
          PROVE  tick + 1 <= cases[c].tick_filed + 3
      <4>1. ~(cases[c].tick_filed <= tick - 3)
        BY <3>2, <3>3 DEF Pending, DELIBERATION
      <4> QED  BY <2>3, <4>1 DEF Clock
    <3> QED  BY <2>1, <2>2, <3>1, <3>3 DEF InTime, VerdictsAreInTime, Docket, DELIBERATION
  <2>8. CASE Reboot
    <3>1. phase' = "requests" /\ tick' = 0
      BY <2>8 DEF Reboot, Restart
    <3>2. VerdictsAreInTime'
      BY <2>1, <2>3, <3>1 DEF VerdictsAreInTime, DELIBERATION
    <3> QED  BY <2>2, <3>1, <3>2 DEF InTime, Docket
  <2>9. CASE UNCHANGED vars
    <3>1. phase' = phase /\ tick' = tick
      BY <2>9 DEF vars, townVars
    <3> QED  BY <2>1, <2>2, <3>1 DEF InTime, VerdictsAreInTime, Docket, Pending
  <2> QED  BY <1>2, <2>4, <2>5, <2>6, <2>7, <2>8, <2>9
<1> QED  BY <1>1, <1>2, SueDocket, JudgeDocket DEF Next, HandleAction, ProcessTick
(* ----------------------------- employment -------------------------------- *)

Staff == EmploymentTypeOK /\ Hired /\ JobsAddUp

\* The contracts of a business that keep their place in its count.
Places(b, rows) ==
  {k \in DOMAIN rows : rows[k].business = b /\ rows[k].status # "terminated"}

LEMMA PlacesAreFinite ==
  ASSUME EmploymentTypeOK, NEW b
  PROVE  IsFiniteSet(Places(b, contracts)) /\ Cardinality(Places(b, contracts)) \in Nat
<1>1. DOMAIN contracts = 1..Len(contracts) /\ Len(contracts) \in Nat
  BY DEF EmploymentTypeOK
<1>2. IsFiniteSet(DOMAIN contracts)
  BY <1>1, FS_Interval
<1>3. Places(b, contracts) \subseteq DOMAIN contracts
  BY DEF Places
<1>4. IsFiniteSet(Places(b, contracts))
  BY <1>2, <1>3, FS_Subset
<1> QED  BY <1>4, FS_CardinalityType

\* CountedJobs, by those contracts.
CountsPlaces ==
  \A b \in DOMAIN businesses : businesses[b].employees = Cardinality(Places(b, contracts))

LEMMA CountedByPlaces == CountedJobs <=> CountsPlaces
BY DEF CountedJobs, CountsPlaces, Places

\* A step that touches no contract, and no owner or count of a business there was.
LEMMA QuietStaff ==
  ASSUME Staff, contracts' = contracts, businesses' \in Seq(BusinessRow),
         DOMAIN businesses \subseteq DOMAIN businesses',
         \A b \in DOMAIN businesses : businesses'[b].employees = businesses[b].employees,
         \A b \in DOMAIN businesses' \ DOMAIN businesses : businesses'[b].employees = 0,
         payroll' \subseteq payroll, phase' # "payroll" => payroll' = {}
  PROVE  Staff'
<1>1. EmploymentTypeOK' /\ Hired'
  BY DEF Staff, EmploymentTypeOK, Hired, Active
<1>2. CountsPlaces'
  <2>1. CountsPlaces
    BY CountedByPlaces DEF Staff, JobsAddUp
  <2>2. ASSUME NEW b \in DOMAIN businesses' \ DOMAIN businesses
        PROVE  businesses'[b].employees = Cardinality(Places(b, contracts))
    <3>1. Places(b, contracts) = {}
      BY <2>2 DEF Staff, Hired, Places
    <3> QED  BY <2>2, <3>1, FS_EmptySet
  <2> QED  BY <2>1, <2>2 DEF CountsPlaces
<1>3. OneJobPerEmployer'
  BY DEF Staff, JobsAddUp, OneJobPerEmployer, Jobs, Active
<1>4. CountedJobs'
  BY <1>2 DEF CountedJobs, CountsPlaces, Places
<1> QED  BY <1>1, <1>3, <1>4 DEF Staff, JobsAddUp

LEMMA StartStaff ==
  ASSUME Staff, NEW a \in Agents, Start(a)
  PROVE  Staff'
<1>1. PICK type \in AskedBusinesses : StartBusiness(a, type)
  BY DEF Start
<1> DEFINE r == [owner |-> a, capital |-> StartupCost[type], employees |-> 0,
                 is_active |-> TRUE, products |-> {}]
<1>2. businesses' = Append(businesses, r) /\ UNCHANGED <<contracts, payroll>> /\ phase' = phase
  BY <1>1 DEF StartBusiness, Start, Between
<1>3. r \in BusinessRow
  <2>1. StartupCost[type] \in Nat
    BY Costs, SocietyAssumption
  <2> HIDE DEF StartupCost
  <2> QED  BY <2>1 DEF BusinessRow
<1>4. r.employees = 0
  OBVIOUS
<1> HIDE DEF r
<1>5. businesses \in Seq(BusinessRow)
  BY DEF Staff, EmploymentTypeOK
<1>6. /\ businesses' \in Seq(BusinessRow)
      /\ DOMAIN businesses' = DOMAIN businesses \cup {Len(businesses) + 1}
      /\ \A b \in DOMAIN businesses : businesses'[b] = businesses[b]
      /\ businesses'[Len(businesses) + 1] = r
  BY <1>2, <1>3, <1>5, AddedRow
<1> QED  BY <1>2, <1>4, <1>6, QuietStaff DEF Staff, Hired

\* Capital, products or the closing of a business change.
LEMMA ChangedBusiness ==
  ASSUME Staff, NEW b \in DOMAIN businesses, NEW r \in BusinessRow,
         businesses' = [businesses EXCEPT ![b] = r], r.employees = businesses[b].employees,
         UNCHANGED <<contracts, payroll, phase>>
  PROVE  Staff'
<1>1. businesses \in Seq(BusinessRow)
  BY DEF Staff, EmploymentTypeOK
<1>2. /\ businesses' \in Seq(BusinessRow) /\ DOMAIN businesses' = DOMAIN businesses
      /\ businesses'[b] = r /\ \A c \in DOMAIN businesses : c # b => businesses'[c] = businesses[c]
  BY <1>1, ChangedRow
<1> QED  BY <1>2, QuietStaff DEF Staff, Hired

LEMMA BusinessStaff ==
  ASSUME Staff, NEW a \in Agents, Close(a) \/ Price(a) \/ Fund(a)
  PROVE  Staff'
<1>1. businesses \in Seq(BusinessRow) /\ \A b \in DOMAIN businesses : businesses[b] \in BusinessRow
  BY DEF Staff, EmploymentTypeOK
<1>2. ASSUME NEW b \in DOMAIN businesses, CloseBusiness(a, b), UNCHANGED phase PROVE Staff'
  <2> DEFINE r == [businesses[b] EXCEPT !.is_active = FALSE, !.capital = 0]
  <2>1. businesses' = [businesses EXCEPT ![b] = r]
    <3>1. businesses' = [businesses EXCEPT ![b].is_active = FALSE, ![b].capital = 0]
      BY <1>2 DEF CloseBusiness
    <3> QED  BY <1>1, <3>1 DEF BusinessRow
  <2>2. r \in BusinessRow /\ r.employees = businesses[b].employees
    BY <1>1 DEF BusinessRow
  <2>3. UNCHANGED <<contracts, payroll, phase>>
    BY <1>2 DEF CloseBusiness
  <2> HIDE DEF r
  <2> QED  BY <2>1, <2>2, <2>3, ChangedBusiness
<1>3. ASSUME NEW b \in DOMAIN businesses, NEW i \in Items, NEW n, SetPrice(a, b, i, n),
             UNCHANGED phase
      PROVE  Staff'
  <2> DEFINE s == IF n = 0 THEN businesses[b].products \ {i} ELSE businesses[b].products \cup {i}
             r == [businesses[b] EXCEPT !.products = s]
  <2>1. businesses' = [businesses EXCEPT ![b] = r]
    BY <1>3 DEF SetPrice
  <2>2. s \in SUBSET Items
    BY <1>1 DEF BusinessRow
  <2> HIDE DEF s
  <2>3. r \in BusinessRow /\ r.employees = businesses[b].employees
    BY <1>1, <2>2 DEF BusinessRow
  <2>4. UNCHANGED <<contracts, payroll, phase>>
    BY <1>3 DEF SetPrice
  <2> HIDE DEF r
  <2> QED  BY <2>1, <2>3, <2>4, ChangedBusiness
<1>4. ASSUME NEW b \in DOMAIN businesses, NEW n \in AskedAmounts, Invest(a, b, n), UNCHANGED phase
      PROVE  Staff'
  <2> DEFINE r == [businesses[b] EXCEPT !.capital = businesses[b].capital + n]
  <2>1. businesses' = [businesses EXCEPT ![b] = r]
    BY <1>4 DEF Invest
  <2>2. businesses[b].capital + n \in Nat
    <3>1. n \in Nat /\ businesses[b].capital \in Nat
      BY <1>4, SocietyAssumption, BusinessRows DEF Invest, Staff
    <3> QED  BY <3>1
  <2>3. r \in BusinessRow /\ r.employees = businesses[b].employees
    BY <1>1, <2>2 DEF BusinessRow
  <2>4. UNCHANGED <<contracts, payroll, phase>>
    BY <1>4 DEF Invest
  <2> HIDE DEF r
  <2> QED  BY <2>1, <2>3, <2>4, ChangedBusiness
<1> QED  BY <1>2, <1>3, <1>4 DEF Close, Price, Fund, Between
\* A contract changes its status only.
Restated(k, status) ==
  /\ contracts' \in Seq(ContractRow) /\ DOMAIN contracts' = DOMAIN contracts
  /\ contracts'[k].status = status
  /\ \A i \in DOMAIN contracts :
       /\ i # k => contracts'[i] = contracts[i]
       /\ contracts'[i].employer = contracts[i].employer
       /\ contracts'[i].employee = contracts[i].employee
       /\ contracts'[i].business = contracts[i].business

LEMMA NewStatus ==
  ASSUME EmploymentTypeOK, NEW k \in DOMAIN contracts, NEW status \in {"breached", "terminated"},
         contracts' = [contracts EXCEPT ![k].status = status]
  PROVE  Restated(k, status)
<1>1. contracts \in Seq(ContractRow) /\ contracts[k] \in ContractRow
  BY DEF EmploymentTypeOK
<1> DEFINE r == [contracts[k] EXCEPT !.status = status]
<1>2. r \in ContractRow /\ r.status = status /\ r.employer = contracts[k].employer
      /\ r.employee = contracts[k].employee /\ r.business = contracts[k].business
  BY <1>1 DEF ContractRow
<1>3. contracts' = [contracts EXCEPT ![k] = r]
  OBVIOUS
<1> HIDE DEF r
<1>4. /\ contracts' \in Seq(ContractRow) /\ DOMAIN contracts' = DOMAIN contracts
      /\ contracts'[k] = r /\ \A i \in DOMAIN contracts : i # k => contracts'[i] = contracts[i]
  BY <1>1, <1>2, <1>3, ChangedRow
<1> QED  BY <1>2, <1>4 DEF Restated

\* Who had one job at most has one at most: nobody gets a job by another status.
LEMMA RestatedJobs ==
  ASSUME OneJobPerEmployer, NEW k \in DOMAIN contracts, NEW status \in {"breached", "terminated"},
         Restated(k, status)
  PROVE  OneJobPerEmployer'
BY DEF OneJobPerEmployer, Jobs, Active, Restated

LEMMA HireStaff ==
  ASSUME Staff, Clock, NEW a \in Agents, Employ(a)
  PROVE  Staff'
<1>1. PICK e \in Agents, b \in DOMAIN businesses, salary \in AskedSalaries : Hire(a, e, b, salary)
  BY DEF Employ
<1> DEFINE r == [employer |-> a, employee |-> e, business |-> b, salary |-> salary,
                 tick_start |-> tick, status |-> "active"]
           s == [businesses[b] EXCEPT !.employees = businesses[b].employees + 1]
           new == Len(contracts) + 1
<1>2. /\ contracts' = Append(contracts, r) /\ businesses' = [businesses EXCEPT ![b] = s]
      /\ payroll' = payroll /\ phase' = phase /\ phase = "requests" /\ Jobs(a, e) = {}
  BY <1>1 DEF Hire, Employ, Between
<1>3. businesses \in Seq(BusinessRow) /\ contracts \in Seq(ContractRow)
      /\ businesses[b] \in BusinessRow /\ b \in Nat
  BY DEF Staff, EmploymentTypeOK
<1>4. r \in ContractRow
  BY <1>1, <1>3 DEF Hire, ContractRow, Clock
<1>5. s \in BusinessRow /\ s.employees = businesses[b].employees + 1
  <2>1. businesses[b].employees + 1 \in Nat
    BY BusinessRows DEF Staff
  <2> QED  BY <1>3, <2>1 DEF BusinessRow
<1>6. r.employer = a /\ r.employee = e /\ r.business = b /\ r.status = "active"
  OBVIOUS
<1> HIDE DEF r, s
<1>7. /\ contracts' \in Seq(ContractRow) /\ DOMAIN contracts' = DOMAIN contracts \cup {new}
      /\ new \notin DOMAIN contracts /\ contracts'[new] = r
      /\ \A k \in DOMAIN contracts : contracts'[k] = contracts[k]
  BY <1>2, <1>3, <1>4, AddedRow
<1>8. /\ businesses' \in Seq(BusinessRow) /\ DOMAIN businesses' = DOMAIN businesses
      /\ businesses'[b] = s /\ \A c \in DOMAIN businesses : c # b => businesses'[c] = businesses[c]
  BY <1>2, <1>3, <1>5, ChangedRow
<1> HIDE DEF new
<1>9. payroll = {}
  BY <1>2 DEF Staff, Hired
<1>10. EmploymentTypeOK' /\ Hired'
  BY <1>2, <1>6, <1>7, <1>8, <1>9 DEF Staff, EmploymentTypeOK, Hired
<1>11. ASSUME NEW c \in DOMAIN businesses
       PROVE  businesses'[c].employees = Cardinality(Places(c, contracts'))
  <2>1. businesses[c].employees = Cardinality(Places(c, contracts))
    BY CountedByPlaces DEF Staff, JobsAddUp, CountsPlaces
  <2>2. CASE c = b
    <3>1. Places(c, contracts') = Places(c, contracts) \cup {new} /\ new \notin Places(c, contracts)
      BY <1>6, <1>7, <2>2 DEF Places
    <3>2. IsFiniteSet(Places(c, contracts))
      BY PlacesAreFinite DEF Staff
    <3>3. Cardinality(Places(c, contracts')) = Cardinality(Places(c, contracts)) + 1
      BY <3>1, <3>2, FS_AddElement
    <3> QED  BY <1>5, <1>8, <2>1, <2>2, <3>3
  <2>3. CASE c # b
    <3>1. Places(c, contracts') = Places(c, contracts)
      BY <1>6, <1>7, <2>3 DEF Places
    <3> QED  BY <1>8, <2>1, <2>3, <3>1
  <2> QED  BY <2>2, <2>3
<1>12. CountedJobs'
  BY <1>8, <1>11 DEF CountedJobs, Places
<1>13. OneJobPerEmployer'
  <2>1. \A p, q \in Agents : Jobs(p, q)' \subseteq Jobs(p, q) \cup
          (IF p = a /\ q = e THEN {new} ELSE {})
    BY <1>6, <1>7 DEF Jobs, Active
  <2> QED  BY <1>2, <2>1 DEF Staff, JobsAddUp, OneJobPerEmployer
<1> QED  BY <1>10, <1>12, <1>13 DEF Staff, JobsAddUp

LEMMA FireStaff ==
  ASSUME Staff, NEW a \in Agents, Dismiss(a)
  PROVE  Staff'
<1>1. PICK e \in Agents : Fire(a, e)
  BY DEF Dismiss
<1>2. PICK k \in Jobs(a, e) :
        /\ contracts' = [contracts EXCEPT ![k].status = "terminated"]
        /\ businesses' = [businesses EXCEPT ![contracts[k].business].employees =
             IF @ > 0 THEN @ - 1 ELSE @]
        /\ payroll' = payroll
  BY <1>1 DEF Fire
<1>3. k \in DOMAIN contracts /\ contracts[k].status = "active"
  BY <1>2 DEF Jobs, Active
<1> DEFINE b == contracts[k].business
           n == IF businesses[b].employees > 0 THEN businesses[b].employees - 1
                                               ELSE businesses[b].employees
           s == [businesses[b] EXCEPT !.employees = n]
<1>4. b \in DOMAIN businesses
  BY <1>3 DEF Staff, Hired
<1>5. businesses' = [businesses EXCEPT ![b] = s]
  BY <1>2
<1>6. Restated(k, "terminated")
  BY <1>2, <1>3, NewStatus DEF Staff
<1>7. businesses \in Seq(BusinessRow) /\ businesses[b] \in BusinessRow /\ businesses[b].employees \in Nat
  BY <1>4, BusinessRows DEF Staff, EmploymentTypeOK
<1>8. s \in BusinessRow
      /\ (businesses[b].employees > 0 => s.employees = businesses[b].employees - 1)
  <2>1. n \in Nat /\ (businesses[b].employees > 0 => n = businesses[b].employees - 1)
    BY <1>7
  <2> HIDE DEF n
  <2>2. s \in BusinessRow /\ s.employees = n
    BY <1>7, <2>1 DEF BusinessRow
  <2> QED  BY <2>1, <2>2
<1> HIDE DEF b, s
<1>9. /\ businesses' \in Seq(BusinessRow) /\ DOMAIN businesses' = DOMAIN businesses
      /\ businesses'[b] = s /\ \A c \in DOMAIN businesses : c # b => businesses'[c] = businesses[c]
  BY <1>4, <1>5, <1>7, <1>8, ChangedRow
<1>10. payroll = {} /\ phase' = "requests"
  BY DEF Dismiss, Between, Staff, Hired
<1>11. EmploymentTypeOK' /\ Hired'
  BY <1>2, <1>6, <1>9, <1>10 DEF Staff, EmploymentTypeOK, Hired, Restated
<1>12. ASSUME NEW c \in DOMAIN businesses
       PROVE  businesses'[c].employees = Cardinality(Places(c, contracts'))
  <2>1. businesses[c].employees = Cardinality(Places(c, contracts))
    BY CountedByPlaces DEF Staff, JobsAddUp, CountsPlaces
  <2>2. CASE c = b
    <3>1. Places(c, contracts') = Places(c, contracts) \ {k} /\ k \in Places(c, contracts)
      BY <1>3, <1>6, <2>2 DEF Places, Restated, b
    <3>2. IsFiniteSet(Places(c, contracts)) /\ Cardinality(Places(c, contracts)) \in Nat
      BY PlacesAreFinite DEF Staff
    <3>3. Cardinality(Places(c, contracts')) = Cardinality(Places(c, contracts)) - 1
      <4>1. Cardinality(Places(c, contracts) \ {k}) = Cardinality(Places(c, contracts)) - 1
        BY <3>1, <3>2, FS_RemoveElement
      <4> QED  BY <3>1, <4>1
    <3>4. Cardinality(Places(c, contracts)) > 0
      BY <3>1, <3>2, FS_EmptySet
    <3> QED  BY <1>8, <1>9, <2>1, <2>2, <3>3, <3>4
  <2>3. CASE c # b
    <3>1. Places(c, contracts') = Places(c, contracts)
      BY <1>3, <1>6, <2>3 DEF Places, Restated, b
    <3> QED  BY <1>9, <2>1, <2>3, <3>1
  <2> QED  BY <2>2, <2>3
<1>13. CountedJobs'
  BY <1>9, <1>12 DEF CountedJobs, Places
<1>14. OneJobPerEmployer'
  BY <1>3, <1>6, RestatedJobs DEF Staff, JobsAddUp
<1> QED  BY <1>11, <1>13, <1>14 DEF Staff, JobsAddUp

LEMMA PayStaff ==
  ASSUME Staff, PayOne
  PROVE  Staff'
<1>1. PICK k \in payroll : PaySalary(k)
  BY DEF PayOne
<1>2. k \in DOMAIN contracts /\ contracts[k].status = "active"
  BY <1>1 DEF Staff, EmploymentTypeOK, Hired, Active
<1>3. /\ businesses' = businesses /\ payroll' = payroll \ {k} /\ phase' = phase /\ phase = "payroll"
      /\ contracts' = contracts \/ contracts' = [contracts EXCEPT ![k].status = "breached"]
  BY <1>1 DEF PaySalary, PayOne
<1>4. CASE contracts' = contracts
  BY <1>3, <1>4, QuietStaff DEF Staff, EmploymentTypeOK
<1>5. CASE contracts' = [contracts EXCEPT ![k].status = "breached"]
  <2>1. Restated(k, "breached")
    BY <1>2, <1>5, NewStatus DEF Staff
  <2>2. EmploymentTypeOK' /\ Hired'
    BY <1>3, <2>1 DEF Staff, EmploymentTypeOK, Hired, Active, Restated
  <2>3. \A b : Places(b, contracts') = Places(b, contracts)
    BY <1>2, <2>1 DEF Places, Restated
  <2>4. \A b \in DOMAIN businesses : businesses[b].employees = Cardinality(Places(b, contracts'))
    BY <2>3, CountedByPlaces DEF Staff, JobsAddUp, CountsPlaces
  <2>5. CountedJobs'
    BY <1>3, <2>4 DEF CountedJobs, Places
  <2>6. OneJobPerEmployer'
    BY <1>2, <2>1, RestatedJobs DEF Staff, JobsAddUp
  <2> QED  BY <2>2, <2>5, <2>6 DEF Staff, JobsAddUp
<1> QED  BY <1>3, <1>4, <1>5

LEMMA StaffStep ==
  ASSUME Staff, Clock, [Next]_vars
  PROVE  Staff'
<1>1. ASSUME NEW a \in Agents,
             Sue(a) \/ Offer(a) \/ Accept(a) \/ Reject(a) \/ Build(a)
               \/ Save(a) \/ Borrow(a) \/ UseAccount(a)
      PROVE  Staff'
  <2>1. UNCHANGED <<businesses, contracts, payroll, phase>>
    BY <1>1 DEF Sue, Offer, Accept, Reject, Build, Save, Borrow, UseAccount, Between,
                employmentVars
  <2> QED  BY <2>1, QuietStaff DEF Staff, EmploymentTypeOK, Hired
<1>2. ASSUME BeginTick \/ Judge \/ EndPayroll \/ AccrueOne \/ EndTick \/ Reboot \/ UNCHANGED vars
      PROVE  Staff'
  <2>1. UNCHANGED <<businesses, contracts, payroll>>
    BY <1>2 DEF BeginTick, Judge, EndPayroll, AccrueOne, EndTick, Reboot, employmentVars, vars
  <2>2. phase' # "payroll" => payroll' = {}
    BY <1>2 DEF BeginTick, Judge, EndPayroll, AccrueOne, EndTick, Reboot, Restart, vars, townVars,
                employmentVars, Staff, Hired
  <2> QED  BY <2>1, <2>2, QuietStaff DEF Staff, EmploymentTypeOK
<1>3. ASSUME Produce PROVE Staff'
  <2>1. /\ UNCHANGED <<businesses, contracts>> /\ phase' = "payroll"
        /\ payroll' = {k \in DOMAIN contracts : Active(k) /\ SalaryDue(k)}
    BY <1>3 DEF Produce, BeginPayroll
  <2>2. EmploymentTypeOK' /\ Hired'
    BY <2>1 DEF Staff, EmploymentTypeOK, Hired, Active
  <2>3. CountedJobs' /\ OneJobPerEmployer'
    BY <2>1 DEF Staff, JobsAddUp, CountedJobs, OneJobPerEmployer, Jobs, Active
  <2> QED  BY <2>2, <2>3 DEF Staff, JobsAddUp
<1> QED  BY <1>1, <1>2, <1>3, StartStaff, BusinessStaff, HireStaff, FireStaff, PayStaff
         DEF Next, HandleAction, ProcessTick
(* ------------------------------- barter ---------------------------------- *)

\* Nobody makes himself an offer.
Partners == \A o \in DOMAIN offers : offers[o].from # offers[o].to

Stock == inventory \in [Agents -> [Items -> Nat]] /\ BarterTypeOK /\ Partners

LEMMA SwapIsStock ==
  ASSUME NEW inv \in [Items -> Nat], NEW lost \in Goods, NEW gained \in Goods
  PROVE  Swap(inv, lost, gained) \in [Items -> Nat]
<1>1. ASSUME NEW i \in Items PROVE Max2(0, inv[i] - lost[i] + gained[i]) \in Nat
  <2>1. inv[i] - lost[i] + gained[i] \in Int
    BY DEF Goods
  <2> QED  BY <2>1 DEF Max2
<1> QED  BY <1>1 DEF Swap

LEMMA OfferRows ==
  ASSUME BarterTypeOK, NEW o \in DOMAIN offers
  PROVE  /\ offers[o] \in OfferRow /\ offers[o].from \in Agents
         /\ offers[o].offer \in Goods /\ offers[o].request \in Goods
<1>1. offers[o] \in OfferRow
  BY DEF BarterTypeOK
<1> QED  BY <1>1 DEF OfferRow

LEMMA AnsweredOffer ==
  ASSUME BarterTypeOK, NEW o \in DOMAIN offers, NEW status \in {"completed", "terminated"},
         offers' = [offers EXCEPT ![o].status = status]
  PROVE  offers' \in Seq(OfferRow) /\ (Partners => Partners')
<1> DEFINE r == [offers[o] EXCEPT !.status = status]
<1>1. offers[o] \in OfferRow /\ offers \in Seq(OfferRow)
  BY OfferRows DEF BarterTypeOK
<1>2. r \in OfferRow /\ r.from = offers[o].from /\ r.to = offers[o].to
  BY <1>1 DEF OfferRow
<1>3. offers' = [offers EXCEPT ![o] = r]
  OBVIOUS
<1> HIDE DEF r
<1>4. /\ offers' \in Seq(OfferRow) /\ DOMAIN offers' = DOMAIN offers /\ offers'[o] = r
      /\ \A i \in DOMAIN offers : i # o => offers'[i] = offers[i]
  BY <1>1, <1>2, <1>3, ChangedRow
<1> QED  BY <1>2, <1>4 DEF Partners

LEMMA StockStep ==
  ASSUME Stock, [Next]_vars
  PROVE  Stock'
<1>1. ASSUME NEW a \in Agents, Offer(a) PROVE Stock'
  <2>1. PICK b \in Agents, t \in AskedTrades : CreateTradeOffer(a, b, t[1], t[2])
    BY <1>1 DEF Offer
  <2> DEFINE r == [from |-> a, to |-> b, offer |-> t[1], request |-> t[2], status |-> "proposed"]
  <2>2. offers' = Append(offers, r) /\ UNCHANGED <<inventory, estate>>
    BY <2>1 DEF CreateTradeOffer
  <2>3. t[1] \in Goods /\ t[2] \in Goods
    BY SocietyAssumption
  <2>4. r \in OfferRow /\ r.from = a /\ r.to = b /\ a # b
    BY <2>1, <2>3 DEF OfferRow, CreateTradeOffer
  <2> HIDE DEF r
  <2>5. /\ offers' \in Seq(OfferRow) /\ DOMAIN offers' = DOMAIN offers \cup {Len(offers) + 1}
        /\ offers'[Len(offers) + 1] = r /\ \A i \in DOMAIN offers : offers'[i] = offers[i]
    BY <2>2, <2>4, AddedRow DEF Stock, BarterTypeOK
  <2>6. Partners'
    BY <2>4, <2>5 DEF Stock, Partners
  <2> QED  BY <2>2, <2>5, <2>6 DEF Stock, BarterTypeOK
<1>2. ASSUME NEW a \in Agents, Accept(a) PROVE Stock'
  <2>1. PICK o \in DOMAIN offers : AcceptTradeOffer(a, o)
    BY <1>2 DEF Accept
  <2> DEFINE f == offers[o].from
             g == offers[o].offer
             h == offers[o].request
  <2>2. /\ inventory' = [inventory EXCEPT ![f] = Swap(@, g, h), ![a] = Swap(@, h, g)]
        /\ offers' = [offers EXCEPT ![o].status = "completed"] /\ estate' = estate
    BY <2>1 DEF AcceptTradeOffer
  <2>3. f \in Agents /\ g \in Goods /\ h \in Goods /\ f # a
    BY <2>1, OfferRows DEF Stock, Partners, AcceptTradeOffer
  <2>4. offers' \in Seq(OfferRow) /\ Partners'
    BY <2>2, AnsweredOffer DEF Stock
  <2> HIDE DEF f, g, h
  <2>5. inventory' \in [Agents -> [Items -> Nat]]
    <3> DEFINE first == [inventory EXCEPT ![f] = Swap(@, g, h)]
    <3>1. first \in [Agents -> [Items -> Nat]]
      BY <2>3, SwapIsStock DEF Stock
    <3>2. inventory' = [first EXCEPT ![a] = Swap(@, h, g)]
      BY <2>2, <2>3
    <3> HIDE DEF first
    <3>3. Swap(first[a], h, g) \in [Items -> Nat]
      BY <2>3, <3>1, SwapIsStock
    <3> QED  BY <3>1, <3>2, <3>3
  <2> QED  BY <2>2, <2>4, <2>5 DEF Stock, BarterTypeOK
<1>3. ASSUME NEW a \in Agents, Reject(a) PROVE Stock'
  <2>1. PICK o \in DOMAIN offers : RejectTradeOffer(a, o)
    BY <1>3 DEF Reject
  <2>2. offers' \in Seq(OfferRow) /\ Partners' /\ UNCHANGED <<inventory, estate>>
    BY <2>1, AnsweredOffer DEF RejectTradeOffer, Stock
  <2> QED  BY <2>2 DEF Stock, BarterTypeOK
<1>4. ASSUME NEW a \in Agents, Build(a) PROVE Stock'
  <2>1. PICK type \in AskedBuildings : BuildProperty(a, type)
    BY <1>4 DEF Build
  <2>2. BuildCost[type] \in Nat
    BY Costs, SocietyAssumption
  <2> HIDE DEF BuildCost
  <2>3. estate' \in [Agents -> Nat]
    BY <2>1, <2>2 DEF BuildProperty, Stock, BarterTypeOK
  <2> QED  BY <1>4, <2>3 DEF Build, Stock, BarterTypeOK, Partners
<1>5. ASSUME Produce PROVE Stock'
  <2>1. PICK haul \in [Working -> UNION {HaulsOf[a] : a \in Working}] :
          /\ \A a \in Working : haul[a] \in HaulsOf[a]
          /\ inventory' = [a \in Agents |-> [i \in Items |->
               inventory[a][i] + IF a \in Working THEN haul[a][i] ELSE 0]]
    BY <1>5 DEF Produce, ProcessProduction
  <2>2. ASSUME NEW a \in Agents, NEW i \in Items
        PROVE  inventory[a][i] + (IF a \in Working THEN haul[a][i] ELSE 0) \in Nat
    <3>1. inventory[a][i] \in Nat
      BY DEF Stock
    <3>2. CASE a \in Working
      <4>1. haul[a] \in [Items -> Nat]
        BY <2>1, <3>2, TownAssumption
      <4>2. haul[a][i] \in Nat
        BY <4>1
      <4> QED  BY <3>1, <3>2, <4>2
    <3>3. CASE a \notin Working
      BY <3>1, <3>3
    <3> QED  BY <3>2, <3>3
  <2>3. inventory' \in [Agents -> [Items -> Nat]]
    BY <2>1, <2>2
  <2> QED  BY <1>5, <2>3 DEF Produce, barterVars, Stock, BarterTypeOK, Partners
<1>6. ASSUME NEW a \in Agents,
             Sue(a) \/ Start(a) \/ Close(a) \/ Price(a) \/ Employ(a) \/ Dismiss(a) \/ Fund(a)
               \/ Save(a) \/ Borrow(a) \/ UseAccount(a)
      PROVE  Stock'
  BY <1>6 DEF Sue, Start, Close, Price, Employ, Dismiss, Fund, Save, Borrow, UseAccount,
              barterVars, Stock, BarterTypeOK, Partners
<1>7. ASSUME \/ BeginTick \/ Judge \/ PayOne \/ EndPayroll \/ AccrueOne \/ EndTick
             \/ Reboot \/ UNCHANGED vars
      PROVE  Stock'
  BY <1>7 DEF BeginTick, Judge, PayOne, EndPayroll, AccrueOne, EndTick, Reboot, Restart,
              barterVars, vars, townVars, Stock, BarterTypeOK, Partners
<1> QED  BY <1>1, <1>2, <1>3, <1>4, <1>5, <1>6, <1>7 DEF Next, HandleAction, ProcessTick

(* ------------------------------ fair barter ------------------------------ *)

\* Every offer there is was valid when it was made.
Checked == \A o \in DOMAIN offers : ValidTrade(offers[o].offer, offers[o].request)

LEMMA AnsweredIsChecked ==
  ASSUME BarterTypeOK, Checked, NEW o \in DOMAIN offers, NEW status \in {"completed", "terminated"},
         offers' = [offers EXCEPT ![o].status = status]
  PROVE  Checked' /\ offers'[o].status = status
<1> DEFINE r == [offers[o] EXCEPT !.status = status]
<1>1. offers[o] \in OfferRow /\ offers \in Seq(OfferRow)
  BY OfferRows DEF BarterTypeOK
<1>2. r \in OfferRow /\ r.offer = offers[o].offer /\ r.request = offers[o].request
      /\ r.status = status
  BY <1>1 DEF OfferRow
<1>3. offers' = [offers EXCEPT ![o] = r]
  OBVIOUS
<1> HIDE DEF r
<1>4. /\ DOMAIN offers' = DOMAIN offers /\ offers'[o] = r
      /\ \A i \in DOMAIN offers : i # o => offers'[i] = offers[i]
  BY <1>1, <1>2, <1>3, ChangedRow
<1>5. ASSUME NEW i \in DOMAIN offers'
      PROVE  ValidTrade(offers'[i].offer, offers'[i].request)
  <2>1. CASE i = o
    <3>1. offers'[i].offer = offers[o].offer /\ offers'[i].request = offers[o].request
      BY <1>2, <1>4, <2>1
    <3> QED  BY <3>1 DEF Checked
  <2>2. CASE i # o
    BY <1>4, <1>5, <2>2 DEF Checked
  <2> QED  BY <2>1, <2>2
<1> QED  BY <1>2, <1>4, <1>5 DEF Checked

LEMMA CheckedStep ==
  ASSUME BarterTypeOK, Checked, [Next]_vars
  PROVE  Checked'
<1>1. ASSUME NEW a \in Agents, Offer(a) PROVE Checked'
  <2>1. PICK b \in Agents, t \in AskedTrades : CreateTradeOffer(a, b, t[1], t[2])
    BY <1>1 DEF Offer
  <2> DEFINE g == t[1]
             h == t[2]
             r == [from |-> a, to |-> b, offer |-> g, request |-> h, status |-> "proposed"]
  <2>2. offers' = Append(offers, r) /\ ValidTrade(g, h)
    BY <2>1 DEF CreateTradeOffer
  <2>3. g \in Goods /\ h \in Goods
    BY SocietyAssumption
  <2> HIDE DEF g, h
  <2>4. r \in OfferRow /\ r.offer = g /\ r.request = h
    BY <2>3 DEF OfferRow
  <2> HIDE DEF r
  <2>5. /\ DOMAIN offers' = DOMAIN offers \cup {Len(offers) + 1}
        /\ offers'[Len(offers) + 1] = r /\ \A i \in DOMAIN offers : offers'[i] = offers[i]
    BY <2>2, <2>4, AddedRow DEF BarterTypeOK
  <2> QED  BY <2>2, <2>4, <2>5 DEF Checked
<1>2. ASSUME NEW a \in Agents, Accept(a) \/ Reject(a) PROVE Checked'
  <2>1. PICK o \in DOMAIN offers : AcceptTradeOffer(a, o) \/ RejectTradeOffer(a, o)
    BY <1>2 DEF Accept, Reject
  <2>2. \/ offers' = [offers EXCEPT ![o].status = "completed"]
        \/ offers' = [offers EXCEPT ![o].status = "terminated"]
    BY <2>1 DEF AcceptTradeOffer, RejectTradeOffer
  <2> QED  BY <2>2, AnsweredIsChecked
<1>3. ASSUME NEW a \in Agents,
             Sue(a) \/ Start(a) \/ Close(a) \/ Price(a) \/ Employ(a) \/ Dismiss(a) \/ Fund(a)
               \/ Build(a) \/ Save(a) \/ Borrow(a) \/ UseAccount(a)
      PROVE  Checked'
  <2>1. offers' = offers
    BY <1>3 DEF Sue, Start, Close, Price, Employ, Dismiss, Fund, Build, Save, Borrow, UseAccount,
                barterVars
  <2> QED  BY <2>1 DEF Checked
<1>4. ASSUME ProcessTick \/ Reboot \/ UNCHANGED vars PROVE Checked'
  <2>1. offers' = offers
    BY <1>4 DEF ProcessTick, BeginTick, Judge, Produce, PayOne, EndPayroll, AccrueOne, EndTick,
                Reboot, barterVars, vars
  <2> QED  BY <2>1 DEF Checked
<1> QED  BY <1>1, <1>2, <1>3, <1>4 DEF Next, HandleAction

\* When no item is on both sides of a valid offer, no quantity in it is negative.
LEMMA PlainOffer ==
  ASSUME NEW g \in Goods, NEW h \in Goods, ValidTrade(g, h), Named(g) \cap Named(h) = {},
         NEW i \in Items
  PROVE  g[i] \in Nat /\ h[i] \in Nat
<1> DEFINE both == Merged(g, h)
<1>1. \A j \in Named(both) : both[j] \in 1..MAX_TRADE_QUANTITY
  BY DEF ValidTrade
<1>2. g[i] \in Int /\ h[i] \in Int
  BY DEF Goods
<1>3. both[i] = IF h[i] # 0 THEN h[i] ELSE g[i]
  BY DEF Merged, Named
<1>4. h[i] = 0 \/ g[i] = 0
  BY DEF Named
<1>5. both[i] # 0 => both[i] \in 1..MAX_TRADE_QUANTITY
  BY <1>1 DEF Named
<1> HIDE DEF both
<1> QED  BY <1>2, <1>3, <1>4, <1>5

\* What one side of such an offer loses the other side gains.
LEMMA SwapMoves ==
  ASSUME NEW inv1 \in [Items -> Nat], NEW inv2 \in [Items -> Nat],
         NEW g \in Goods, NEW h \in Goods, ValidTrade(g, h), Named(g) \cap Named(h) = {},
         \A j \in Named(g) : inv1[j] >= g[j], \A j \in Named(h) : inv2[j] >= h[j],
         NEW i \in Items
  PROVE  Swap(inv1, g, h)[i] + Swap(inv2, h, g)[i] = inv1[i] + inv2[i]
<1>1. g[i] \in Nat /\ h[i] \in Nat /\ inv1[i] \in Nat /\ inv2[i] \in Nat
  BY PlainOffer
<1>2. inv1[i] >= g[i] /\ inv2[i] >= h[i]
  <2>1. g[i] # 0 => inv1[i] >= g[i]
    BY DEF Named
  <2>2. h[i] # 0 => inv2[i] >= h[i]
    BY DEF Named
  <2> QED  BY <1>1, <2>1, <2>2
<1>3. /\ Swap(inv1, g, h)[i] = Max2(0, inv1[i] - g[i] + h[i])
      /\ Swap(inv2, h, g)[i] = Max2(0, inv2[i] - h[i] + g[i])
  BY DEF Swap
<1> QED  BY <1>1, <1>2, <1>3 DEF Max2

\* Accepting an offer without a common item keeps the number of each good.
LEMMA AcceptIsFair ==
  ASSUME Stock, Checked, NEW a \in Agents, NEW o \in DOMAIN offers, AcceptTradeOffer(a, o),
         ~Tangled(o), NEW i \in Items
  PROVE  TotalHeld(i)' = TotalHeld(i)
<1> DEFINE f == offers[o].from
           g == offers[o].offer
           h == offers[o].request
           mine   == Swap(inventory[f], g, h)
           theirs == Swap(inventory[a], h, g)
<1>1. /\ inventory' = [inventory EXCEPT ![f] = mine, ![a] = theirs]
      /\ f \in Agents /\ g \in Goods /\ h \in Goods /\ f # a
  BY OfferRows DEF Stock, Partners, AcceptTradeOffer
<1>2. ValidTrade(g, h) /\ Named(g) \cap Named(h) = {}
  BY DEF Checked, Tangled
<1>3. (\A j \in Named(g) : inventory[f][j] >= g[j]) /\ (\A j \in Named(h) : inventory[a][j] >= h[j])
  BY DEF AcceptTradeOffer, Holds
<1> HIDE DEF f, g, h
<1>4. inventory \in [Agents -> [Items -> Nat]]
  BY DEF Stock
<1>5. mine \in [Items -> Nat] /\ theirs \in [Items -> Nat]
  BY <1>1, <1>4, SwapIsStock
<1>6. mine[i] + theirs[i] = inventory[f][i] + inventory[a][i]
  BY <1>1, <1>2, <1>3, <1>4, SwapMoves
<1> HIDE DEF mine, theirs
<1>7. /\ inventory' \in [Agents -> [Items -> Nat]]
      /\ inventory'[f] = mine /\ inventory'[a] = theirs
      /\ \A b \in Agents : b # f /\ b # a => inventory'[b] = inventory[b]
  BY <1>1, <1>4, <1>5
<1> DEFINE before == [b \in Agents |-> inventory[b][i]]
           after  == [b \in Agents |-> inventory'[b][i]]
<1>8. \A b \in Agents : before[b] \in Int /\ after[b] \in Int
  BY <1>4, <1>7
<1>9. \A b \in Agents : b # f /\ b # a => after[b] = before[b]
  BY <1>7
<1>10. after[f] + after[a] = before[f] + before[a]
  BY <1>1, <1>6, <1>7
<1> HIDE DEF before, after
<1>11. SumFunctionOnSet(after, Agents)
         = SumFunctionOnSet(before, Agents) + (after[f] - before[f]) + (after[a] - before[a])
  BY <1>1, <1>8, <1>9, SumChangeTwo, TownAssumption
<1>12. /\ SumFunctionOnSet(before, Agents) \in Int
       /\ after[f] \in Int /\ before[f] \in Int /\ after[a] \in Int /\ before[a] \in Int
  BY <1>1, <1>8, SumInt, TownAssumption
<1>13. SumFunctionOnSet(after, Agents) = SumFunctionOnSet(before, Agents)
  BY <1>10, <1>11, <1>12
<1> QED  BY <1>13 DEF TotalHeld, before, after

(* -------------------------------- bank ----------------------------------- *)

LEMMA BooksStep ==
  ASSUME agents \in Sound, Books, [Next]_vars
  PROVE  Books'
<1>1. ASSUME accounts' = accounts, interest' \subseteq DOMAIN accounts,
             phase' # "interest" => interest' = {}
      PROVE  Books'
  BY <1>1 DEF Books, BankTypeOK, Overdrafts, ClosedLoansStayPaid
<1>2. interest \subseteq DOMAIN accounts
  BY DEF Books, BankTypeOK
<1>3. ASSUME NEW a \in Agents, Save(a) \/ Borrow(a) \/ UseAccount(a) PROVE Books'
  <2>1. phase' = phase
    BY <1>3 DEF Save, Borrow, UseAccount, Between
  <2> QED  BY <1>3, <2>1, RequestEntry, EntryBooks DEF Entered
<1>4. ASSUME NEW a \in Agents,
             Sue(a) \/ Start(a) \/ Close(a) \/ Price(a) \/ Employ(a) \/ Dismiss(a) \/ Fund(a)
               \/ Offer(a) \/ Accept(a) \/ Reject(a) \/ Build(a)
      PROVE  Books'
  <2>1. UNCHANGED <<accounts, interest, phase>>
    BY <1>4 DEF Sue, Start, Close, Price, Employ, Dismiss, Fund, Offer, Accept, Reject, Build,
                Between, bankVars
  <2> QED  BY <1>1, <1>2, <2>1 DEF Books
<1>5. ASSUME BeginTick \/ Judge \/ Produce \/ PayOne \/ EndTick \/ Reboot \/ UNCHANGED vars
      PROVE  Books'
  <2>1. UNCHANGED <<accounts, interest>> /\ (phase' # "interest" => interest = {})
    BY <1>5 DEF BeginTick, Judge, Produce, PayOne, EndTick, Reboot, Restart, vars, townVars,
                bankVars, Books
  <2> QED  BY <1>1, <1>2, <2>1
<1>6. ASSUME EndPayroll PROVE Books'
  BY <1>1, <1>6 DEF EndPayroll, BeginInterest
<1>7. ASSUME AccrueOne PROVE Books'
  BY <1>7, VisitBooks DEF AccrueOne
<1> QED  BY <1>3, <1>4, <1>5, <1>6, <1>7 DEF Next, HandleAction, ProcessTick

(* ----------------------------- invariant --------------------------------- *)

Invariant == Clock /\ agents \in Sound /\ Docket /\ Staff /\ Stock /\ Books

LEMMA InvariantInit == Init => Invariant
<1> SUFFICES ASSUME Init PROVE Invariant
  OBVIOUS
<1> USE DEF Init
<1>1. Clock
  BY DEF TownInit, Clock
<1>2. agents \in Sound
  BY TownAssumption DEF TownInit, Sound, AgentRow, Ratings
<1>3. cases = <<>> /\ businesses = <<>> /\ contracts = <<>> /\ payroll = {} /\ offers = <<>>
      /\ phase = "requests" /\ accounts = <<>> /\ interest = {}
  BY DEF CourtInit, EmploymentInit, BarterInit, TownInit, BankInit
<1>4. \A S : <<>> \in Seq(S) /\ DOMAIN <<>> = {}
  OBVIOUS
<1>5. Docket
  BY <1>3, <1>4 DEF Docket, CourtTypeOK, Adversaries, InTime, VerdictsAreInTime
<1>6. Staff
  BY <1>3, <1>4 DEF Staff, EmploymentTypeOK, Hired, JobsAddUp, CountedJobs, OneJobPerEmployer, Jobs
<1>7. Stock
  BY <1>3, <1>4, TownAssumption DEF TownInit, BarterInit, Stock, BarterTypeOK, Partners
<1>8. Books
  BY <1>3, <1>4 DEF Books, BankTypeOK, Overdrafts, ClosedLoansStayPaid
<1> QED  BY <1>1, <1>2, <1>5, <1>6, <1>7, <1>8 DEF Invariant

LEMMA InvariantStep ==
  ASSUME Invariant, [Next]_vars
  PROVE  Invariant'
<1>1. Clock' /\ Docket' /\ Staff' /\ Stock' /\ Books'
  BY ClockStep, DocketStep, StaffStep, StockStep, BooksStep DEF Invariant
<1>2. agents' \in Sound
  BY SoundStep DEF Invariant, Docket, Staff
<1> QED  BY <1>1, <1>2 DEF Invariant

\* What a step does to the number of each good.
LEMMA FairStep ==
  ASSUME Invariant, Checked, [Next]_vars,
         \A o \in DOMAIN offers : offers'[o] # offers[o] => ~Tangled(o),
         phase' # "payroll", NEW i \in Items
  PROVE  TotalHeld(i)' = TotalHeld(i)
<1>1. ASSUME NEW a \in Agents, Accept(a) PROVE TotalHeld(i)' = TotalHeld(i)
  <2>1. PICK o \in DOMAIN offers : AcceptTradeOffer(a, o)
    BY <1>1 DEF Accept
  <2>2. offers'[o].status = "completed" /\ offers[o].status = "proposed"
    BY <2>1, AnsweredIsChecked DEF AcceptTradeOffer, Invariant, Stock
  <2>3. ~Tangled(o)
    BY <2>2
  <2> QED  BY <2>1, <2>3, AcceptIsFair DEF Invariant
<1>2. ASSUME inventory' = inventory PROVE TotalHeld(i)' = TotalHeld(i)
  BY <1>2 DEF TotalHeld
<1>3. ASSUME NEW a \in Agents,
             Sue(a) \/ Start(a) \/ Close(a) \/ Price(a) \/ Employ(a) \/ Dismiss(a) \/ Fund(a)
               \/ Offer(a) \/ Reject(a) \/ Build(a) \/ Save(a) \/ Borrow(a) \/ UseAccount(a)
      PROVE  inventory' = inventory
  BY <1>3 DEF Sue, Start, Close, Price, Employ, Dismiss, Fund, Offer, Reject, Build, Save, Borrow,
              UseAccount, CreateTradeOffer, RejectTradeOffer
<1>4. ASSUME \/ BeginTick \/ Judge \/ PayOne \/ EndPayroll \/ AccrueOne \/ EndTick
             \/ Reboot \/ UNCHANGED vars
      PROVE  inventory' = inventory
  BY <1>4 DEF BeginTick, Judge, PayOne, EndPayroll, AccrueOne, EndTick, Reboot, Restart, vars,
              townVars
<1>5. ~Produce
  BY DEF Produce
<1> QED  BY <1>1, <1>2, <1>3, <1>4, <1>5 DEF Next, HandleAction, ProcessTick

(* ------------------------------- wealth ---------------------------------- *)

\* The sums of the wealth of the town, with Deposited.
Owned    == SumFunctionOnSet(Worth, Agents)
Invested == SumFunctionOnSet(Capital, DOMAIN businesses)

Priced ==
  agents \in Sound /\ estate \in [Agents -> Nat] /\ businesses \in Seq(BusinessRow) /\ BankTypeOK

LEMMA Amounts ==
  ASSUME Priced
  PROVE  /\ Worth \in [Agents -> Int] /\ IsFiniteSet(Agents)
         /\ Capital \in [DOMAIN businesses -> Int] /\ IsFiniteSet(DOMAIN businesses)
         /\ Owned \in Int /\ Invested \in Int /\ Deposited \in Int
<1>1. Worth \in [Agents -> Int]
  <2>1. \A a \in Agents : agents[a].balance + estate[a] \in Int
    BY SoundRow DEF Priced
  <2> QED  BY <2>1 DEF Worth
<1>2. Capital \in [DOMAIN businesses -> Int]
  <2>1. ASSUME NEW b \in DOMAIN businesses PROVE businesses[b].capital \in Int
    <3>1. businesses[b] \in BusinessRow
      BY DEF Priced
    <3> QED  BY <3>1 DEF BusinessRow
  <2> QED  BY <2>1 DEF Capital
<1>3. IsFiniteSet(DOMAIN businesses)
  <2>1. DOMAIN businesses = 1..Len(businesses) /\ Len(businesses) \in Nat
    BY DEF Priced
  <2> QED  BY <2>1, FS_Interval
<1>4. Deposited \in Int
  BY DepositedInt DEF Priced
<1> QED  BY <1>1, <1>2, <1>3, <1>4, SumInt, TownAssumption DEF Owned, Invested

\* One summand grows by n.
LEMMA Credit ==
  ASSUME NEW S, IsFiniteSet(S), NEW f \in [S -> Int], NEW x \in S, NEW n \in Int, NEW g,
         g[x] = f[x] + n, \A y \in S : y # x => g[y] = f[y]
  PROVE  SumFunctionOnSet(g, S) = SumFunctionOnSet(f, S) + n
<1>1. \A y \in S : f[y] \in Int /\ g[y] \in Int
  OBVIOUS
<1>2. SumFunctionOnSet(g, S) = SumFunctionOnSet(f, S) + g[x] - f[x]
  BY <1>1, SumChange
<1>3. SumFunctionOnSet(f, S) \in Int /\ f[x] \in Int
  BY SumInt
<1> QED  BY <1>2, <1>3

\* A step that moves nothing between balances and buildings of different agents.
LEMMA WorthKept ==
  ASSUME \A a \in Agents : agents'[a].balance + estate'[a] = agents[a].balance + estate[a]
  PROVE  Owned' = Owned
<1>1. Worth' = Worth
  BY DEF Worth
<1> QED  BY <1>1 DEF Owned

\* An agent pays n out of the agents' pockets.
LEMMA WorthPaid ==
  ASSUME Priced, NEW a \in Agents, NEW n \in Int, agents' = Pay(a, n), estate' = estate
  PROVE  Owned' = Owned - n
<1>1. Worth \in [Agents -> Int] /\ IsFiniteSet(Agents) /\ -n \in Int /\ Owned \in Int
  BY Amounts
<1>2. \A c \in Agents :
        agents'[c].balance = IF c = a THEN agents[a].balance - n ELSE agents[c].balance
  BY PaidBalances DEF Priced
<1>3. \A c \in Agents : agents[c].balance \in Int /\ estate[c] \in Int
  BY SoundRow DEF Priced
<1>4. Worth'[a] = Worth[a] + (-n) /\ \A c \in Agents : c # a => Worth'[c] = Worth[c]
  BY <1>2, <1>3 DEF Worth
<1>5. SumFunctionOnSet(Worth', Agents) = Owned + (-n)
  BY <1>1, <1>4, Credit DEF Owned
<1> QED  BY <1>1, <1>5 DEF Owned

\* An agent pays n to an agent, himself perhaps.
LEMMA WorthMoved ==
  ASSUME Priced, NEW a \in Agents, NEW b \in Agents, NEW n \in Int, estate' = estate,
         \A c \in Agents : agents'[c].balance = Transfer(a, b, n)[c].balance
  PROVE  Owned' = Owned
<1> DEFINE u == Pay(a, n)
           t == Transfer(a, b, n)
           mid == [c \in Agents |-> u[c].balance + estate[c]]
<1>1. Worth \in [Agents -> Int] /\ IsFiniteSet(Agents) /\ -n \in Int /\ Owned \in Int
  BY Amounts
<1>2. u \in [Agents -> AgentRow]
  BY PaidBalances DEF Priced
<1>3. \A c \in Agents :
        u[c].balance = IF c = a THEN agents[a].balance - n ELSE agents[c].balance
  BY PaidBalances DEF Priced
<1>4. t = [u EXCEPT ![b].balance = @ + n]
  BY DEF Transfer
<1>5. \A c \in Agents : agents'[c].balance = t[c].balance
  OBVIOUS
<1> HIDE DEF u, t
<1>6. ASSUME NEW c \in Agents
      PROVE  t[c].balance = IF c = b THEN u[b].balance + n ELSE u[c].balance
  BY <1>2, <1>4 DEF AgentRow
<1>7. \A c \in Agents : agents[c].balance \in Int /\ estate[c] \in Int /\ u[c].balance \in Int
  BY <1>2, SoundRow DEF Priced, AgentRow
<1>8. mid \in [Agents -> Int]
  BY <1>7
<1>9. mid[a] = Worth[a] + (-n) /\ \A c \in Agents : c # a => mid[c] = Worth[c]
  BY <1>3, <1>7 DEF Worth
<1>10. Worth'[b] = mid[b] + n /\ \A c \in Agents : c # b => Worth'[c] = mid[c]
  BY <1>5, <1>6, <1>7 DEF Worth
<1> HIDE DEF mid
<1>11. SumFunctionOnSet(mid, Agents) = Owned + (-n)
  BY <1>1, <1>9, Credit DEF Owned
<1>12. SumFunctionOnSet(Worth', Agents) = SumFunctionOnSet(mid, Agents) + n
  BY <1>1, <1>8, <1>10, Credit
<1> QED  BY <1>1, <1>11, <1>12 DEF Owned

\* A step that leaves capitals alone, and closes nothing.
LEMMA CapitalKept ==
  ASSUME DOMAIN businesses' = DOMAIN businesses,
         \A b \in DOMAIN businesses : /\ businesses'[b].capital = businesses[b].capital
                                      /\ businesses'[b].is_active = businesses[b].is_active
  PROVE  Invested' = Invested /\ SumFunctionOnSet(Waste, Closed) = 0
<1>1. Capital' = Capital
  BY DEF Capital
<1>2. Closed = {}
  BY DEF Closed, Open
<1> QED  BY <1>1, <1>2, SumEmpty DEF Invested

\* A step that leaves the accounts alone.
Unbanked == accounts' = accounts /\ interest \ interest' = {}

LEMMA DepositsKept ==
  ASSUME Unbanked
  PROVE  Deposited' = Deposited /\ Accrued = 0
<1>1. Banked' = Banked
  BY DEF Unbanked, Banked
<1> QED  BY <1>1, SumEmpty DEF Unbanked, Deposited, Accrued

\* What WealthIsAccounted asks of a step.
Balanced == Wealth' = Wealth + Income + Accrued - Fees - SumFunctionOnSet(Waste, Closed)

LEMMA Wealths ==
  Wealth = Owned + Invested + Deposited /\ Wealth' = Owned' + Invested' + Deposited'
BY DEF Wealth, Owned, Invested, Deposited

LEMMA Prices == Invariant => Priced /\ CourtTypeOK
BY DEF Invariant, Docket, Staff, Stock, Books, EmploymentTypeOK, BarterTypeOK, Priced

\* A step within a phase, or into one without income, that files no case.
LEMMA NoFlow ==
  ASSUME CourtTypeOK, cases' = cases \/ Len(cases') = Len(cases),
         phase' = phase \/ phase' # "payroll"
  PROVE  Income = 0 /\ Fees = 0
<1>1. Len(cases) \in Int
  BY DEF CourtTypeOK
<1>2. Len(cases') - Len(cases) = 0
  BY <1>1
<1>3. Fees = 0
  BY <1>2 DEF Fees, FILING_FEE
<1>4. Income = 0
  BY DEF Income
<1> QED  BY <1>3, <1>4

\* Such a step that moves money only.
LEMMA EvenStep ==
  ASSUME Priced, CourtTypeOK, cases' = cases \/ Len(cases') = Len(cases),
         phase' = phase \/ phase' # "payroll", Unbanked,
         Owned' + Invested' = Owned + Invested, SumFunctionOnSet(Waste, Closed) = 0
  PROVE  Balanced
<1>1. Owned \in Int /\ Invested \in Int /\ Deposited \in Int
  BY Amounts
<1>2. Income = 0 /\ Fees = 0 /\ Accrued = 0 /\ Deposited' = Deposited
  BY NoFlow, DepositsKept
<1>3. Wealth \in Int /\ Wealth' = Wealth
  BY <1>1, <1>2, Wealths
<1> QED  BY <1>2, <1>3 DEF Balanced

\* The plaintiff pays the fee of a new case.
LEMMA SueBalanced ==
  ASSUME Invariant, NEW a \in Agents, Sue(a)
  PROVE  Balanced
<1>1. Priced /\ CourtTypeOK
  BY Prices
<1>2. PICK d \in Agents, type \in AskedCases : FileLawsuit(a, d, type)
  BY DEF Sue
<1>3. /\ agents' = Pay(a, 500) /\ estate' = estate /\ businesses' = businesses
      /\ phase' = phase /\ Unbanked
  BY <1>2 DEF Sue, Between, FileLawsuit, FILING_FEE, barterVars, employmentVars, bankVars, Unbanked
<1>4. Len(cases') - Len(cases) = 1
  <2>1. \A q, e : q \in Seq(CaseRow) => Len(Append(q, e)) = Len(q) + 1 /\ Len(q) \in Nat
    OBVIOUS
  <2> QED  BY <1>1, <1>2, <2>1 DEF CourtTypeOK, FileLawsuit
<1>5. Fees = 500
  BY <1>4 DEF Fees, FILING_FEE
<1>6. Owned' = Owned - 500 /\ Owned \in Int /\ Invested \in Int /\ Deposited \in Int
  BY <1>1, <1>3, WorthPaid, Amounts
<1>7. Invested' = Invested /\ SumFunctionOnSet(Waste, Closed) = 0
  BY <1>3, CapitalKept
<1>8. Income = 0 /\ Accrued = 0 /\ Deposited' = Deposited
  BY <1>3, DepositsKept DEF Income
<1>9. Wealth \in Int /\ Wealth' = Wealth - 500
  BY <1>6, <1>7, <1>8, Wealths
<1> QED  BY <1>5, <1>7, <1>8, <1>9 DEF Balanced

\* The owner's money becomes the capital of a new business.
LEMMA StartBalanced ==
  ASSUME Invariant, NEW a \in Agents, Start(a)
  PROVE  Balanced
<1>1. Priced /\ CourtTypeOK
  BY Prices
<1>2. PICK type \in AskedBusinesses : StartBusiness(a, type)
  BY DEF Start
<1> DEFINE n == StartupCost[type]
           r == [owner |-> a, capital |-> n, employees |-> 0, is_active |-> TRUE, products |-> {}]
           new == Len(businesses) + 1
<1>3. agents' = Pay(a, n) /\ businesses' = Append(businesses, r)
      /\ estate' = estate /\ cases' = cases /\ phase' = phase /\ Unbanked
  BY <1>2 DEF Start, Between, StartBusiness, courtVars, barterVars, bankVars, Unbanked
<1>4. n \in Nat
  BY Costs, SocietyAssumption
<1> HIDE DEF n
<1>5. r \in BusinessRow /\ r.capital = n
  BY <1>4 DEF BusinessRow
<1> HIDE DEF r
<1>6. /\ DOMAIN businesses' = DOMAIN businesses \cup {new} /\ new \notin DOMAIN businesses
      /\ \A b \in DOMAIN businesses : businesses'[b] = businesses[b]
      /\ businesses'[new] = r
  BY <1>1, <1>3, <1>5, AddedRow DEF Priced
<1> HIDE DEF new
<1>7. Owned' = Owned - n /\ Owned \in Int /\ Invested \in Int
  BY <1>1, <1>3, <1>4, WorthPaid, Amounts
<1>8. /\ Capital \in [DOMAIN businesses -> Int] /\ IsFiniteSet(DOMAIN businesses)
      /\ Capital'[new] = n
      /\ \A b \in DOMAIN businesses : Capital'[b] = Capital[b]
  BY <1>1, <1>5, <1>6, Amounts DEF Capital
<1>9. SumFunctionOnSet(Capital', DOMAIN businesses) = Invested
  <2>1. \A b \in DOMAIN businesses : Capital[b] \in Int /\ Capital'[b] = Capital[b]
    BY <1>8
  <2> QED  BY <1>8, <2>1, SumSame DEF Invested
<1>10. SumFunctionOnSet(Capital', DOMAIN businesses \cup {new})
         = n + SumFunctionOnSet(Capital', DOMAIN businesses)
  <2>1. \A b \in DOMAIN businesses \cup {new} : Capital'[b] \in Int
    BY <1>4, <1>8
  <2> QED  BY <1>6, <1>8, <2>1, SumAdd
<1>11. Invested' = n + Invested
  BY <1>6, <1>9, <1>10 DEF Invested
<1>12. Closed = {}
  BY <1>6 DEF Closed, Open
<1>13. SumFunctionOnSet(Waste, Closed) = 0
  BY <1>12, SumEmpty
<1>14. Owned' + Invested' = Owned + Invested
  BY <1>4, <1>7, <1>11
<1> QED  BY <1>1, <1>3, <1>13, <1>14, EvenStep

\* Half of the capital goes to the owner, the rest is lost.
LEMMA CloseBalanced ==
  ASSUME Invariant, NEW a \in Agents, Close(a)
  PROVE  Balanced
<1>1. Priced /\ CourtTypeOK
  BY Prices
<1>2. PICK b \in DOMAIN businesses : CloseBusiness(a, b)
  BY DEF Close
<1> DEFINE c == businesses[b].capital
           half == c \div 2
           r == [businesses[b] EXCEPT !.is_active = FALSE, !.capital = 0]
<1>3. agents' = Pay(a, -half) /\ Open(b) /\ businesses' = [businesses EXCEPT ![b] = r]
      /\ estate' = estate /\ cases' = cases /\ phase' = phase /\ Unbanked
  <2>1. businesses[b] \in BusinessRow
    BY <1>1 DEF Priced
  <2>2. businesses' = [businesses EXCEPT ![b].is_active = FALSE, ![b].capital = 0]
    BY <1>2 DEF CloseBusiness
  <2>3. businesses' = [businesses EXCEPT ![b] = r]
    BY <2>1, <2>2 DEF BusinessRow
  <2> QED  BY <1>2, <2>3 DEF Close, Between, CloseBusiness, courtVars, barterVars, bankVars,
                             Unbanked
<1>4. businesses[b] \in BusinessRow /\ businesses \in Seq(BusinessRow)
  BY <1>1 DEF Priced
<1>5. c \in Nat /\ half \in Nat /\ -half \in Int
  <2>1. c \in Nat
    BY <1>4 DEF BusinessRow
  <2> HIDE DEF c
  <2> QED  BY <2>1
<1>6. r \in BusinessRow /\ r.capital = 0 /\ r.is_active = FALSE
  BY <1>4 DEF BusinessRow
<1> HIDE DEF r
<1>7. /\ DOMAIN businesses' = DOMAIN businesses /\ businesses'[b] = r
      /\ \A d \in DOMAIN businesses : d # b => businesses'[d] = businesses[d]
  BY <1>3, <1>4, <1>6, ChangedRow
<1>8. /\ Capital \in [DOMAIN businesses -> Int] /\ IsFiniteSet(DOMAIN businesses)
      /\ Owned \in Int /\ Invested \in Int /\ Deposited \in Int /\ -c \in Int
  BY <1>1, <1>5, Amounts
<1>9. Capital[b] = c /\ Capital'[b] = 0
      /\ \A d \in DOMAIN businesses : d # b => Capital'[d] = Capital[d]
  BY <1>6, <1>7 DEF Capital
<1>10. Closed = {b}
  BY <1>3, <1>6, <1>7 DEF Closed, Open
<1>11. Waste[b] = c - half
  BY DEF Waste
<1> HIDE DEF half
<1>12. SumFunctionOnSet(Waste, Closed) = c - half
  <2>1. c - half \in Int
    BY <1>5
  <2>2. \A x \in {} \cup {b} : Waste[x] \in Int
    BY <1>11, <2>1
  <2>3. {b} = {} \cup {b}
    OBVIOUS
  <2>4. SumFunctionOnSet(Waste, {} \cup {b}) = Waste[b] + SumFunctionOnSet(Waste, {})
    BY <2>2, SumAdd, FS_EmptySet
  <2>5. SumFunctionOnSet(Waste, {}) = 0
    BY SumEmpty
  <2> QED  BY <1>10, <1>11, <2>1, <2>3, <2>4, <2>5
<1> HIDE DEF c
<1>13. Owned' = Owned - (-half)
  BY <1>1, <1>3, <1>5, WorthPaid
<1>14. SumFunctionOnSet(Capital', DOMAIN businesses) = Invested + (-c)
  <2>1. Capital'[b] = Capital[b] + (-c)
    BY <1>5, <1>9
  <2> QED  BY <1>8, <1>9, <2>1, Credit DEF Invested
<1>15. Invested' = Invested + (-c)
  BY <1>7, <1>14 DEF Invested
<1>16. Income = 0 /\ Fees = 0 /\ Accrued = 0 /\ Deposited' = Deposited
  BY <1>1, <1>3, NoFlow, DepositsKept
<1>17. Wealth \in Int /\ Wealth' = Wealth - (c - half)
  BY <1>5, <1>8, <1>13, <1>15, <1>16, Wealths
<1> QED  BY <1>5, <1>12, <1>16, <1>17 DEF Balanced

\* An investment turns the investor's money into capital.
LEMMA FundBalanced ==
  ASSUME Invariant, NEW a \in Agents, Fund(a)
  PROVE  Balanced
<1>1. Priced /\ CourtTypeOK
  BY Prices
<1>2. PICK b \in DOMAIN businesses, n \in AskedAmounts : Invest(a, b, n)
  BY DEF Fund
<1> DEFINE r == [businesses[b] EXCEPT !.capital = businesses[b].capital + n]
<1>3. agents' = Pay(a, n) /\ businesses' = [businesses EXCEPT ![b] = r]
      /\ estate' = estate /\ cases' = cases /\ phase' = phase /\ Unbanked
  BY <1>2 DEF Fund, Between, Invest, courtVars, barterVars, bankVars, Unbanked
<1>4. businesses[b] \in BusinessRow /\ businesses \in Seq(BusinessRow)
  BY <1>1 DEF Priced
<1>5. n \in Nat
  <2>1. n \in Int /\ n > 0
    BY <1>2, SocietyAssumption DEF Invest
  <2> QED  BY <2>1
<1>6. r \in BusinessRow /\ r.capital = businesses[b].capital + n
      /\ r.is_active = businesses[b].is_active
  <2> DEFINE m == businesses[b].capital + n
  <2>1. m \in Nat
    BY <1>4, <1>5 DEF BusinessRow
  <2> HIDE DEF m
  <2>2. [businesses[b] EXCEPT !.capital = m] \in BusinessRow
        /\ [businesses[b] EXCEPT !.capital = m].capital = m
        /\ [businesses[b] EXCEPT !.capital = m].is_active = businesses[b].is_active
    BY <1>4, <2>1 DEF BusinessRow
  <2> QED  BY <2>2 DEF m
<1> HIDE DEF r
<1>7. /\ DOMAIN businesses' = DOMAIN businesses /\ businesses'[b] = r
      /\ \A d \in DOMAIN businesses : d # b => businesses'[d] = businesses[d]
  BY <1>3, <1>4, <1>6, ChangedRow
<1>8. /\ Capital \in [DOMAIN businesses -> Int] /\ IsFiniteSet(DOMAIN businesses)
      /\ Owned \in Int /\ Invested \in Int
  BY <1>1, Amounts
<1>9. Capital'[b] = Capital[b] + n
      /\ \A d \in DOMAIN businesses : d # b => Capital'[d] = Capital[d]
  BY <1>6, <1>7 DEF Capital
<1>10. SumFunctionOnSet(Capital', DOMAIN businesses) = Invested + n
  BY <1>5, <1>8, <1>9, Credit DEF Invested
<1>11. Invested' = Invested + n
  BY <1>7, <1>10 DEF Invested
<1>12. Owned' = Owned - n
  BY <1>1, <1>3, <1>5, WorthPaid
<1>13. Closed = {}
  BY <1>6, <1>7 DEF Closed, Open
<1>14. SumFunctionOnSet(Waste, Closed) = 0
  BY <1>13, SumEmpty
<1>15. Owned' + Invested' = Owned + Invested
  BY <1>5, <1>8, <1>11, <1>12
<1> QED  BY <1>1, <1>3, <1>14, <1>15, EvenStep

\* The money paid for a building is its worth.
LEMMA BuildBalanced ==
  ASSUME Invariant, NEW a \in Agents, Build(a)
  PROVE  Balanced
<1>1. Priced /\ CourtTypeOK
  BY Prices
<1>2. PICK type \in AskedBuildings : BuildProperty(a, type)
  BY DEF Build
<1> DEFINE n == BuildCost[type]
<1>3. agents' = Pay(a, n) /\ estate' = [estate EXCEPT ![a] = estate[a] + n]
      /\ businesses' = businesses /\ cases' = cases /\ phase' = phase /\ Unbanked
  BY <1>2 DEF Build, Between, BuildProperty, courtVars, employmentVars, bankVars, Unbanked
<1>4. n \in Nat
  BY Costs, SocietyAssumption
<1> HIDE DEF n
<1>5. \A c \in Agents :
        agents'[c].balance = IF c = a THEN agents[a].balance - n ELSE agents[c].balance
  BY <1>1, <1>3, <1>4, PaidBalances DEF Priced
<1>6. \A c \in Agents : estate'[c] = IF c = a THEN estate[a] + n ELSE estate[c]
  BY <1>1, <1>3 DEF Priced
<1>7. \A c \in Agents : agents[c].balance \in Int /\ estate[c] \in Int
  BY <1>1, SoundRow DEF Priced
<1>8. \A c \in Agents : agents'[c].balance + estate'[c] = agents[c].balance + estate[c]
  BY <1>4, <1>5, <1>6, <1>7
<1>9. Owned' = Owned
  BY <1>8, WorthKept
<1>10. Invested' = Invested /\ SumFunctionOnSet(Waste, Closed) = 0
  BY <1>3, CapitalKept
<1> QED  BY <1>1, <1>3, <1>9, <1>10, EvenStep

\* A fine goes from one party to the other.
LEMMA JudgeBalanced ==
  ASSUME Invariant, Judge
  PROVE  Balanced
<1>1. Priced /\ CourtTypeOK /\ agents \in Sound /\ Adversaries
  BY Prices DEF Invariant, Docket
<1>2. PICK c \in DOMAIN cases : Convict(c) \/ Acquit(c)
  BY DEF Judge, ProcessPendingCase
<1>3. estate' = estate /\ businesses' = businesses /\ phase' = phase /\ Unbanked
  BY DEF Judge, employmentVars, barterVars, bankVars, Unbanked
<1>4. Owned' = Owned
  <2>1. CASE Convict(c)
    <3>1. PICK n \in Nat : \A a \in Agents :
            agents'[a].balance = Transfer(cases[c].defendant, cases[c].plaintiff, n)[a].balance
      BY <1>1, <2>1, ConvictSound
    <3>2. cases[c].defendant \in Agents /\ cases[c].plaintiff \in Agents /\ n \in Int
      BY <1>1, Parties
    <3> QED  BY <1>1, <1>3, <3>1, <3>2, WorthMoved
  <2>2. CASE Acquit(c)
    <3>1. \A a \in Agents : agents'[a].balance = agents[a].balance
      BY <1>1, <2>2, AcquitSound
    <3> QED  BY <1>3, <3>1, WorthKept
  <2> QED  BY <1>2, <2>1, <2>2
<1>5. Len(cases') = Len(cases)
  <2>1. \A r : Len([cases EXCEPT ![c] = r]) = Len(cases)
    BY <1>1 DEF CourtTypeOK
  <2>2. \E r : cases' = [cases EXCEPT ![c] = r]
    <3>1. CASE Acquit(c)
      BY <3>1 DEF Acquit
    <3>2. CASE Convict(c)
      <4>1. PICK fine : cases' =
              [cases EXCEPT ![c].status = "verdict_guilty", ![c].fine_amount = fine]
        BY <3>2 DEF Convict
      <4>2. cases' = [cases EXCEPT ![c] =
              [cases[c] EXCEPT !.status = "verdict_guilty", !.fine_amount = fine]]
        BY <1>1, <4>1 DEF CourtTypeOK, CaseRow
      <4> QED  BY <4>2
    <3> QED  BY <1>2, <3>1, <3>2
  <2> QED  BY <2>1, <2>2
<1>6. Invested' = Invested /\ SumFunctionOnSet(Waste, Closed) = 0
  BY <1>3, CapitalKept
<1> QED  BY <1>1, <1>3, <1>4, <1>5, <1>6, EvenStep

\* Everybody works, and everybody gets the income.
LEMMA ProduceBalanced ==
  ASSUME Invariant, Produce
  PROVE  Balanced
<1>1. Priced /\ CourtTypeOK /\ agents \in Sound
  BY Prices DEF Invariant
<1>2. agents' = [a \in Agents |->
        IF a \in Working THEN [agents[a] EXCEPT !.balance = @ + BASE_INCOME] ELSE agents[a]]
  BY DEF Produce, ProcessProduction
<1>3. /\ estate' = estate /\ businesses' = businesses /\ cases' = cases
      /\ phase = "court" /\ phase' = "payroll" /\ Unbanked
  BY DEF Produce, courtVars, barterVars, bankVars, Unbanked
<1> DEFINE n == BASE_INCOME
           income == [a \in Agents |-> n]
<1>4. n \in Int
  BY DEF BASE_INCOME
<1> HIDE DEF n
<1>5. ASSUME NEW a \in Agents PROVE Worth'[a] = Worth[a] + income[a]
  <2>1. /\ agents[a] \in AgentRow /\ agents[a].balance \in Int
        /\ estate[a] \in Int /\ agents[a].status = "active"
    BY <1>1, SoundRow DEF Priced
  <2>2. agents'[a] = [agents[a] EXCEPT !.balance = @ + n]
    BY <1>2, <2>1 DEF Working, n
  <2>3. agents'[a].balance = agents[a].balance + n
    BY <1>4, <2>1, <2>2 DEF AgentRow
  <2> QED  BY <1>3, <1>4, <2>1, <2>3 DEF Worth
<1>6. /\ Worth \in [Agents -> Int] /\ IsFiniteSet(Agents)
      /\ Owned \in Int /\ Invested \in Int /\ Deposited \in Int
  BY <1>1, Amounts
<1>7. \A a \in Agents : Worth[a] \in Int /\ income[a] \in Int /\ income[a] = n
                        /\ Worth'[a] = Worth[a] + income[a]
  BY <1>4, <1>5, <1>6
<1> HIDE DEF income
<1>8. SumFunctionOnSet(Worth', Agents) = Owned + SumFunctionOnSet(income, Agents)
  BY <1>6, <1>7, SumPlus DEF Owned
<1>9. SumFunctionOnSet(income, Agents) = n * Cardinality(Agents)
  BY <1>4, <1>6, <1>7, SumConstant
<1>10. SumFunctionOnSet(income, Agents) \in Int
  BY <1>6, <1>7, SumInt
<1>11. Income = SumFunctionOnSet(income, Agents)
  BY <1>3, <1>9 DEF Income, n
<1>12. Owned' = Owned + Income /\ Income \in Int
  BY <1>8, <1>10, <1>11 DEF Owned
<1>13. Invested' = Invested /\ SumFunctionOnSet(Waste, Closed) = 0
  BY <1>3, CapitalKept
<1>14. Fees = 0
  <2>1. Len(cases') - Len(cases) = 0
    BY <1>1, <1>3 DEF CourtTypeOK
  <2> QED  BY <2>1 DEF Fees, FILING_FEE
<1>15. Accrued = 0 /\ Deposited' = Deposited
  BY <1>3, DepositsKept
<1>16. Wealth \in Int /\ Wealth' = Wealth + Income
  BY <1>6, <1>12, <1>13, <1>15, Wealths
<1> QED  BY <1>12, <1>13, <1>14, <1>15, <1>16 DEF Balanced

\* A salary goes from the employer to the employee, a breach costs no money.
LEMMA PayBalanced ==
  ASSUME Invariant, PayOne
  PROVE  Balanced
<1>1. Priced /\ CourtTypeOK /\ agents \in Sound /\ EmploymentTypeOK
  BY Prices DEF Invariant, Staff
<1>2. PICK k \in payroll : PaySalary(k)
  BY DEF PayOne
<1> DEFINE a == contracts[k].employer
           e == contracts[k].employee
           n == contracts[k].salary
<1>3. /\ estate' = estate /\ businesses' = businesses /\ cases' = cases /\ phase' = phase
      /\ Unbanked
      /\ \/ agents' = Transfer(a, e, n)
         \/ agents' = [agents EXCEPT ![a].reputation = Max2(0, @ - 20)]
  BY <1>2 DEF PayOne, PaySalary, courtVars, barterVars, bankVars, Unbanked
<1>4. a \in Agents /\ e \in Agents /\ n \in Int
  <2>1. k \in DOMAIN contracts
    BY <1>1 DEF EmploymentTypeOK
  <2> QED  BY <1>1, <2>1, BusinessRows
<1> HIDE DEF a, e, n
<1>5. Owned' = Owned
  <2>1. CASE agents' = Transfer(a, e, n)
    <3>1. \A c \in Agents : agents'[c].balance = Transfer(a, e, n)[c].balance
      BY <2>1
    <3> QED  BY <1>1, <1>3, <1>4, <3>1, WorthMoved
  <2>2. CASE agents' = [agents EXCEPT ![a].reputation = Max2(0, @ - 20)]
    <3>1. \A c \in Agents : agents'[c].balance = agents[c].balance
      BY <1>1, <1>4, <2>2, BreachSound
    <3> QED  BY <1>3, <3>1, WorthKept
  <2> QED  BY <1>3, <2>1, <2>2
<1>6. Invested' = Invested /\ SumFunctionOnSet(Waste, Closed) = 0
  BY <1>3, CapitalKept
<1> QED  BY <1>1, <1>3, <1>5, <1>6, EvenStep

\* A price, a place and its end leave the capital and the life of a business alone.
LEMMA StaffBalanced ==
  ASSUME Invariant, NEW a \in Agents, Price(a) \/ Employ(a) \/ Dismiss(a)
  PROVE  Balanced
<1>1. Priced /\ CourtTypeOK
  BY Prices
<1>2. agents' = agents /\ estate' = estate /\ cases' = cases /\ phase' = phase /\ Unbanked
  BY DEF Price, Employ, Dismiss, Between, courtVars, barterVars, bankVars, Unbanked
<1>3. \E b \in DOMAIN businesses : \E r :
        /\ businesses' = [businesses EXCEPT ![b] = r]
        /\ r.capital = businesses[b].capital /\ r.is_active = businesses[b].is_active
  <2>1. ASSUME NEW b \in DOMAIN businesses, NEW n,
               \/ businesses' = [businesses EXCEPT ![b].products = n]
               \/ businesses' = [businesses EXCEPT ![b].employees = n]
        PROVE  \E r :
          /\ businesses' = [businesses EXCEPT ![b] = r]
          /\ r.capital = businesses[b].capital /\ r.is_active = businesses[b].is_active
    <3>1. businesses[b] \in BusinessRow
      BY <1>1 DEF Priced
    <3>2. CASE businesses' = [businesses EXCEPT ![b].products = n]
      <4> DEFINE r == [businesses[b] EXCEPT !.products = n]
      <4>1. r.capital = businesses[b].capital /\ r.is_active = businesses[b].is_active
        BY <3>1 DEF BusinessRow
      <4> QED  BY <3>2, <4>1
    <3>3. CASE businesses' = [businesses EXCEPT ![b].employees = n]
      <4> DEFINE r == [businesses[b] EXCEPT !.employees = n]
      <4>1. r.capital = businesses[b].capital /\ r.is_active = businesses[b].is_active
        BY <3>1 DEF BusinessRow
      <4> QED  BY <3>3, <4>1
    <3> QED  BY <2>1, <3>2, <3>3
  <2>2. CASE Price(a)
    <3>1. PICK b \in DOMAIN businesses : \E n :
            businesses' = [businesses EXCEPT ![b].products = n]
      BY <2>2 DEF Price, SetPrice
    <3> QED  BY <2>1, <3>1
  <2>3. CASE Employ(a)
    <3>1. PICK b \in DOMAIN businesses : \E n :
            businesses' = [businesses EXCEPT ![b].employees = n]
      BY <2>3 DEF Employ, Hire
    <3> QED  BY <2>1, <3>1
  <2>4. CASE Dismiss(a)
    <3>1. PICK k \in DOMAIN contracts : \E n :
            businesses' = [businesses EXCEPT ![contracts[k].business].employees = n]
      BY <2>4 DEF Dismiss, Fire, Jobs
    <3>2. contracts[k].business \in DOMAIN businesses
      BY DEF Invariant, Staff, Hired
    <3> QED  BY <2>1, <3>1, <3>2
  <2> QED  BY <2>2, <2>3, <2>4
<1>4. DOMAIN businesses' = DOMAIN businesses
      /\ \A b \in DOMAIN businesses : /\ businesses'[b].capital = businesses[b].capital
                                      /\ businesses'[b].is_active = businesses[b].is_active
  BY <1>3
<1>5. Owned' = Owned
  BY <1>2, WorthKept
<1>6. Invested' = Invested /\ SumFunctionOnSet(Waste, Closed) = 0
  BY <1>4, CapitalKept
<1> QED  BY <1>1, <1>2, <1>5, <1>6, EvenStep

\* The other steps move no money at all.
LEMMA IdleBalanced ==
  ASSUME Invariant, agents' = agents, estate' = estate, businesses' = businesses, cases' = cases,
         Unbanked, phase' = phase \/ phase' # "payroll"
  PROVE  Balanced
<1>1. Priced /\ CourtTypeOK
  BY Prices
<1>2. Owned' = Owned
  BY WorthKept
<1>3. Invested' = Invested /\ SumFunctionOnSet(Waste, Closed) = 0
  BY CapitalKept
<1> QED  BY <1>1, <1>2, <1>3, EvenStep

\* What an entry takes from the pocket is in the account.
LEMMA BankBalanced ==
  ASSUME Invariant, NEW a \in Agents, Save(a) \/ Borrow(a) \/ UseAccount(a)
  PROVE  Balanced
<1>1. Priced /\ CourtTypeOK /\ BankTypeOK /\ agents \in Sound /\ Books
  BY Prices DEF Invariant, Books
<1>2. estate' = estate /\ businesses' = businesses /\ cases' = cases /\ phase' = phase
  BY DEF Save, Borrow, UseAccount, Between, courtVars, employmentVars, barterVars
<1>3. PICK c : \E d \in Int : Entry(a, c, d)
  BY <1>1, RequestEntry DEF Entered
<1>4. PICK d \in Int : Entry(a, c, d)
  BY <1>3
<1>5. Deposited' = Deposited + d
  BY <1>1, <1>4, WrittenDeposits DEF Entry
<1>6. Owned' = Owned - d
  <2>1. Worth \in [Agents -> Int] /\ IsFiniteSet(Agents) /\ -d \in Int
    BY <1>1, Amounts
  <2>2. \A b \in Agents :
          agents'[b].balance = IF b = a THEN agents[a].balance - d ELSE agents[b].balance
    BY <1>4 DEF Entry
  <2>3. \A b \in Agents : agents[b].balance \in Int /\ estate[b] \in Int
    BY <1>1, SoundRow DEF Priced
  <2>4. Worth'[a] = Worth[a] + (-d) /\ \A b \in Agents : b # a => Worth'[b] = Worth[b]
    BY <1>2, <2>2, <2>3 DEF Worth
  <2>5. SumFunctionOnSet(Worth', Agents) = SumFunctionOnSet(Worth, Agents) + (-d)
    BY <2>1, <2>4, Credit
  <2>6. SumFunctionOnSet(Worth, Agents) \in Int
    BY <2>1, SumInt
  <2> QED  BY <2>5, <2>6 DEF Owned
<1>7. Invested' = Invested /\ SumFunctionOnSet(Waste, Closed) = 0
  BY <1>2, CapitalKept
<1>8. Income = 0 /\ Fees = 0
  BY <1>1, <1>2, NoFlow
<1>9. Accrued = 0
  <2>1. interest \ interest' = {}
    BY <1>4 DEF Entry
  <2> QED  BY <2>1, SumEmpty DEF Accrued
<1>10. Owned \in Int /\ Invested \in Int /\ Deposited \in Int
  BY <1>1, Amounts
<1>11. Wealth \in Int /\ Wealth' = Wealth
  BY <1>5, <1>6, <1>7, <1>10, Wealths
<1> QED  BY <1>7, <1>8, <1>9, <1>11 DEF Balanced

\* A visit adds the interest of the account it visits.
LEMMA AccrueBalanced ==
  ASSUME Invariant, AccrueOne
  PROVE  Balanced
<1>1. Priced /\ CourtTypeOK /\ agents \in Sound /\ Books
  BY Prices DEF Invariant
<1>2. /\ estate' = estate /\ businesses' = businesses /\ cases' = cases
      /\ phase' = phase /\ phase = "interest"
  BY DEF AccrueOne, courtVars, employmentVars, barterVars
<1>3. PICK c \in interest : VisitAccount(c)
  BY DEF AccrueOne
<1>4. /\ \A b \in Agents : agents'[b].balance = agents[b].balance
      /\ InterestOf(c) \in Int /\ interest \ interest' = {c}
      /\ Deposited' = Deposited + InterestOf(c)
  BY <1>1, <1>2, <1>3, VisitBooks
<1>5. Owned' = Owned
  BY <1>2, <1>4, WorthKept
<1>6. Invested' = Invested /\ SumFunctionOnSet(Waste, Closed) = 0
  BY <1>2, CapitalKept
<1>7. Income = 0 /\ Fees = 0
  BY <1>1, <1>2, NoFlow
<1>8. Accrued = InterestOf(c)
  <2> DEFINE f == [x \in DOMAIN accounts |-> InterestOf(x)]
  <2>1. c \in DOMAIN accounts
    BY <1>1, <1>3 DEF Books, BankTypeOK
  <2>2. f[c] = InterestOf(c)
    BY <2>1
  <2> HIDE DEF f
  <2>3. SumFunctionOnSet(f, {c}) = InterestOf(c)
    BY <1>4, <2>2, SumOne
  <2> QED  BY <1>4, <2>3 DEF Accrued, f
<1>9. Owned \in Int /\ Invested \in Int /\ Deposited \in Int
  BY <1>1, Amounts
<1>10. Wealth \in Int /\ Wealth' = Wealth + InterestOf(c)
  BY <1>4, <1>5, <1>6, <1>9, Wealths
<1> QED  BY <1>4, <1>6, <1>7, <1>8, <1>10 DEF Balanced

LEMMA BalancedStep ==
  ASSUME Invariant, [Next]_vars
  PROVE  Balanced
<1>1. ASSUME NEW a \in Agents, Offer(a) \/ Accept(a) \/ Reject(a) PROVE Balanced
  <2>1. /\ agents' = agents /\ estate' = estate /\ businesses' = businesses /\ cases' = cases
        /\ phase' = phase /\ Unbanked
    BY <1>1 DEF Offer, Accept, Reject, CreateTradeOffer, AcceptTradeOffer, RejectTradeOffer,
                Between, courtVars, employmentVars, bankVars, Unbanked
  <2> QED  BY <2>1, IdleBalanced
<1>2. ASSUME BeginTick \/ EndPayroll \/ EndTick \/ Reboot \/ UNCHANGED vars PROVE Balanced
  <2>1. /\ agents' = agents /\ estate' = estate /\ businesses' = businesses /\ cases' = cases
        /\ phase' = phase \/ phase' # "payroll"
    BY <1>2 DEF BeginTick, EndPayroll, EndTick, Reboot, Restart, vars, townVars, courtVars,
                employmentVars, barterVars
  <2>2. Unbanked
    BY <1>2 DEF BeginTick, EndPayroll, EndTick, Reboot, vars, bankVars, Unbanked, Invariant, Books
  <2> QED  BY <2>1, <2>2, IdleBalanced
<1> QED  BY <1>1, <1>2, SueBalanced, StartBalanced, CloseBalanced, FundBalanced, BuildBalanced,
            StaffBalanced, JudgeBalanced, ProduceBalanced, PayBalanced, BankBalanced,
            AccrueBalanced
         DEF Next, HandleAction, ProcessTick

(* ------------------------------ theorems --------------------------------- *)

\* Type correctness of the rows of agents, accounts, cases, businesses, contracts and offers: in
\* particular inventories, capitals and counts never fall below zero, and ratings and credit scores
\* stay within 0..1000.
THEOREM SocietyTypeOK == Spec => []TypeOK
<1>1. Invariant => TypeOK
  BY DEF Invariant, Clock, Sound, Docket, Staff, Stock, Books, TypeOK, TownTypeOK
<1> QED  BY <1>1, InvariantInit, InvariantStep, PTL DEF Spec

\* An agent owes fines at most (court.py:120 takes them whatever the balance is), 500 for each case
\* it has lost, and an account that is overdrawn is a loan.
THEOREM DebtsAreFines == Spec => []DebtIsFines
<1>1. Invariant => DebtIsFines
  BY DEF Invariant, Sound, Books, Overdrafts, DebtIsFines
<1> QED  BY <1>1, InvariantInit, InvariantStep, PTL DEF Spec

\* An account that repay_loan has closed (bank.py:220) is never owed on again.
THEOREM ClosedLoansArePaid == Spec => []ClosedLoansStayPaid
<1>1. Invariant => ClosedLoansStayPaid
  BY DEF Invariant, Books
<1> QED  BY <1>1, InvariantInit, InvariantStep, PTL DEF Spec

\* Whatever is deposited, withdrawn, lent or paid back, every agent is worth what it was before.
THEOREM RequestsKeepWorth == Spec => BankingKeepsWorth
<1>1. ASSUME Invariant, [Next]_vars, phase = "requests", accounts' # accounts
      PROVE  \A a \in Agents : NetWorth(a)' = NetWorth(a)
  <2>1. \E a \in Agents : Save(a) \/ Borrow(a) \/ UseAccount(a)
    BY <1>1 DEF Next, HandleAction, ProcessTick, Sue, Start, Close, Price, Employ, Dismiss, Fund,
                Offer, Accept, Reject, Build, BeginTick, Judge, Produce, PayOne, EndPayroll,
                AccrueOne, EndTick, Reboot, vars, bankVars
  <2> QED  BY <1>1, <2>1, RequestEntry, EntryWorth DEF Entered, Invariant
<1>2. Invariant /\ [Next]_vars =>
        [ phase = "requests" /\ accounts' # accounts =>
            \A a \in Agents : NetWorth(a)' = NetWorth(a) ]_vars
  BY <1>1
<1> QED  BY <1>2, InvariantInit, InvariantStep, PTL DEF Spec, BankingKeepsWorth

\* No verdict jails anybody (court.py:220): production has everybody at work, forever.
THEOREM NobodyGoesToJail == Spec => []NobodyIsJailed
<1>1. Invariant => NobodyIsJailed
  BY DEF Invariant, Sound, NobodyIsJailed, Working
<1> QED  BY <1>1, InvariantInit, InvariantStep, PTL DEF Spec

\* What hire_agent and fire_agent count on (business.py): a business counts its contracts that
\* nobody has terminated, and an agent has one job with an employer at most.
THEOREM JobsAlwaysAddUp == Spec => []JobsAddUp
<1>1. Invariant => JobsAddUp
  BY DEF Invariant, Staff
<1> QED  BY <1>1, InvariantInit, InvariantStep, PTL DEF Spec

\* A case is decided by the tick that makes it due (court.py:150), also after a restart that has
\* set the ticks back.
THEOREM VerdictsComeInTime == Spec => []VerdictsAreInTime
<1>1. Invariant => VerdictsAreInTime
  BY DEF Invariant, Docket, InTime
<1> QED  BY <1>1, InvariantInit, InvariantStep, PTL DEF Spec

\* However old an offer is when it is accepted (social.py:88), accepting it makes and loses no
\* goods, unless an item is on both of its sides.
THEOREM AcceptingIsFair == Spec => BarterIsFair
<1>1. Init => Checked
  <2>1. BarterInit => offers = <<>>
    BY DEF BarterInit
  <2> QED  BY <2>1 DEF Init, Checked
<1>2. Invariant => BarterTypeOK
  BY DEF Invariant, Stock
<1>3. Invariant /\ Checked /\ [Next]_vars => Checked'
  BY <1>2, CheckedStep
<1>4. Invariant /\ Checked /\ [Next]_vars =>
        [ (\A o \in DOMAIN offers : offers'[o] # offers[o] => ~Tangled(o)) =>
            \A i \in Items : phase' # "payroll" => TotalHeld(i)' = TotalHeld(i) ]_vars
  BY FairStep
<1> QED  BY <1>1, <1>3, <1>4, InvariantInit, InvariantStep, PTL DEF Spec, BarterIsFair

\* Money comes from production and the interest on savings and goes in filing fees, in the half of
\* the capital that close_business does not refund (business.py:107) and in the interest on loans:
\* verdicts, salaries, investments, buildings, deposits, loans and repayments only move it.
THEOREM WealthIsAccountedFor == Spec => WealthIsAccounted
<1>1. Invariant /\ [Next]_vars =>
        [ Wealth' = Wealth + Income + Accrued - Fees - SumFunctionOnSet(Waste, Closed) ]_vars
  BY BalancedStep DEF Balanced
<1> QED  BY <1>1, InvariantInit, InvariantStep, PTL DEF Spec, WealthIsAccounted
=============================================================================
