------------------------------- MODULE Court -------------------------------
(***************************************************************************)
(* services/court.py: lawsuits and the verdicts of the macro tick.  The    *)
(* roll of a verdict is a hash of tick and case, its chance is kept within *)
(* 10..90 %: either verdict is possible.                                   *)
(***************************************************************************)
EXTENDS Town

VARIABLE cases      (* rows of court_cases, in the order they were filed *)

courtVars == <<cases>>

BaseFines == [fraud |-> 5000, theft |-> 3000, breach_of_contract |-> 2000, defamation |-> 1000,
              property_dispute |-> 2500, antitrust |-> 10000, other |-> 1000]

CaseTypes == DOMAIN BaseFines

Verdicts == {"verdict_guilty", "verdict_not_guilty"}

CaseRow == [case_type : CaseTypes, plaintiff : Agents, defendant : Agents, tick_filed : Nat,
            status : {"filed"} \cup Verdicts, fine_amount : Nat]

CourtTypeOK == cases \in Seq(CaseRow)

CourtInit == cases = <<>>

FILING_FEE   == 500
DELIBERATION == 3

\* Faulty variant of FileLawsuit: the fee is not checked against the balance.
FileLawsuitUnchecked(p, d, type) ==
  /\ p # d
  /\ agents' = Pay(p, FILING_FEE)
  /\ cases' = Append(cases,
       [case_type |-> type, plaintiff |-> p, defendant |-> d, tick_filed |-> tick,
        status |-> "filed", fine_amount |-> 0])

FileLawsuit(p, d, type) ==
  /\ p # d
  /\ agents[p].balance >= FILING_FEE
  /\ agents' = Pay(p, FILING_FEE)
  /\ cases' = Append(cases,
       [case_type |-> type, plaintiff |-> p, defendant |-> d, tick_filed |-> tick,
        status |-> "filed", fine_amount |-> 0])

\* Faulty variant of Pending: the tick that makes a case due is left out.
PendingLate(c) == cases[c].status = "filed" /\ cases[c].tick_filed < tick - DELIBERATION

\* What process_pending_cases selects.
Pending(c) == cases[c].status = "filed" /\ cases[c].tick_filed <= tick - DELIBERATION

CalculateFine(type, balance) == Min2(BaseFines[type], Max2((balance * 30) \div 100, 500))

\* Faulty variant of Convict: the fine reaches the plaintiff without leaving the defendant.
ConvictForFree(c) ==
  LET p == cases[c].plaintiff
      d == cases[c].defendant
      fine == CalculateFine(cases[c].case_type, agents[d].balance)
  IN
  /\ cases' = [cases EXCEPT ![c].status = "verdict_guilty", ![c].fine_amount = fine]
  /\ agents' = [agents EXCEPT ![p].balance = @ + fine]

\* What sends the convicted to jail.
Serious(type, fine) == type \in {"fraud", "theft"} /\ fine > 5000

\* The rows after a verdict for p against d whose fine is paid.
Convicted(rows, p, d, serious) ==
  [rows EXCEPT
     ![d].reputation    = Max2(0, @ - 50),
     ![p].reputation    = Min2(1000, @ + 10),
     ![d].credit_score  = Max2(0, @ - 30),
     ![p].lawsuits_won  = @ + 1,
     ![d].lawsuits_lost = @ + 1,
     ![d].status        = IF serious THEN "jailed" ELSE @]

Convict(c) ==
  LET p == cases[c].plaintiff
      d == cases[c].defendant
      type == cases[c].case_type
      fine == CalculateFine(type, agents[d].balance)
  IN
  /\ cases' = [cases EXCEPT ![c].status = "verdict_guilty", ![c].fine_amount = fine]
  /\ agents' = Convicted(Transfer(d, p, fine), p, d, Serious(type, fine))

Acquit(c) ==
  LET p == cases[c].plaintiff
      d == cases[c].defendant
  IN
  /\ cases' = [cases EXCEPT ![c].status = "verdict_not_guilty"]
  /\ agents' = [agents EXCEPT ![d].reputation    = Min2(1000, @ + 5),
                              ![p].lawsuits_lost = @ + 1]

ProcessPendingCase(c) == Pending(c) /\ (Convict(c) \/ Acquit(c))
=============================================================================
