----------------------------- MODULE Inspection -----------------------------
(***************************************************************************)
(* The inspections of one customer: which months are expected, which were   *)
(* missed, whether this month is due. Nothing of that is stored. Three      *)
(* services compute it from the customer's row, its inspection targets and  *)
(* the reports uploaded so far: InspectionStatusService (missing months of  *)
(* a year), CustomersService (status of this month, in two ways) and        *)
(* DashboardService (customers that are incomplete). The server runs in UTC *)
(* and reports carry dates without time, so time is counted in months.      *)
(***************************************************************************)
EXTENDS Integers, FiniteSets, Sequences

CONSTANTS
  Target,        \* primary keys the inspection_targets table can hand out
  Start,         \* first month of a behaviour, counted from January of year 0
  Horizon,       \* bound: months a behaviour lasts
  Dates,         \* months that reports are dated with
  MaxReports,    \* bound: reports that exist at a time
  YearlyMonths   \* the months chosen for yearly inspections, of the twelve

ContractType == {"none", "poc", "paid", "free", "expired"}
CycleType == {"monthly", "quarterly", "halfYearly", "yearly", "partner", "freePeriod"}
MonthNo == 1..12
NoMonth == 0

ASSUME InspectionAssumption ==
  /\ Start \in Nat /\ Horizon \in Nat /\ MaxReports \in Nat
  /\ Dates \subseteq Nat
  /\ YearlyMonths \subseteq MonthNo

VARIABLES
  clock,     \* the current month
  contract,  \* the columns of the customer's row that inspections depend on
  targets,   \* the customer's rows of inspection_targets
  issued,    \* ids of targets handed out so far
  reports    \* rows of documents: target and month of inspectionDate

inspection == <<clock, contract, targets, issued, reports>>

CustomerRow ==
  [contractType : ContractType, cycleType : CycleType, cycleMonth : {NoMonth} \cup MonthNo]

InspectionOK ==
  /\ clock \in Start..(Start + Horizon)
  /\ contract \in CustomerRow
  /\ issued \subseteq Target /\ targets \subseteq issued
  /\ reports \subseteq targets \X Dates

\* A new customer: the page creates it without inspection settings.
InspectionInit ==
  /\ clock = Start
  /\ contract = [contractType |-> "none", cycleType |-> "monthly", cycleMonth |-> NoMonth]
  /\ targets = {} /\ issued = {} /\ reports = {}

Year(m) == m \div 12
Month(m) == (m % 12) + 1

Slip_Later(m, k) == (m + k) % 12  \* December becomes month 0

\* k months after month m, around the year's end.
Later(m, k) == ((m - 1 + k) % 12) + 1

NeverInspected == {"partner", "freePeriod"}
NoContract == {"expired", "none"}

---------------------------------------------------------------------------
(* Slips: plausible mistakes in single operators, used by no action. *)

Slip_HalfYearPattern(m) == {m, ((m - 1 + 6) % 11) + 1}  \* wraps at eleven

Slip_BestMatch(patterns, months, default) ==  \* prefers the fewest matches
  LET misses(i) == Cardinality(months \ patterns[i])
      best == CHOOSE i \in DOMAIN patterns : \A j \in DOMAIN patterns :
                /\ misses(j) <= misses(i)
                /\ j < i => misses(j) < misses(i)
  IN IF misses(best) > 0 THEN patterns[best] ELSE default

Slip_MonthsInYear(t, year) ==  \* of any year
  {Month(d) : d \in {e \in Dates : <<t, e>> \in reports}}

Slip_Excused(m, year) == year = Year(clock) /\ m > Month(clock)  \* asks for the current month

Slip_Incomplete == \E t \in targets : <<t, clock>> \notin reports  \* whether due or not

---------------------------------------------------------------------------
(* InspectionStatusService: expected and missing months. *)

\* generateQuarterlyFromStartMonth, generateHalfYearlyFromStartMonth
QuarterPattern(m) == {Later(m, k) : k \in {0, 3, 6, 9}}
HalfYearPattern(m) == {m, Later(m, 6)}

\* generatePatternFromCycleMonth, for a month from 1 to 12.
ConfiguredPattern(cycleType, m) ==
  CASE cycleType = "quarterly"  -> QuarterPattern(m)
    [] cycleType = "halfYearly" -> HalfYearPattern(m)
    [] cycleType = "yearly"     -> {m}
    [] OTHER                    -> {}

\* The pattern with the most of the given months, the first of several.
BestMatch(patterns, months, default) ==
  LET hits(i) == Cardinality(months \cap patterns[i])
      best == CHOOSE i \in DOMAIN patterns : \A j \in DOMAIN patterns :
                /\ hits(j) <= hits(i)
                /\ j < i => hits(j) < hits(i)
  IN IF hits(best) > 0 THEN patterns[best] ELSE default

\* findQuarterlyPattern, findHalfYearlyPattern, findYearlyPattern. The months
\* are distinct, so no month is more frequent than the first, the smallest.
PatternOfHistory(cycleType, months) ==
  CASE cycleType = "quarterly" ->
         BestMatch(<<{1, 4, 7, 10}, {2, 5, 8, 11}, {3, 6, 9, 12}>>, months, {3, 6, 9, 12})
    [] cycleType = "halfYearly" ->
         BestMatch(<<{6, 12}, {3, 9}, {4, 10}, {5, 11}>>, months, {6, 12})
    [] cycleType = "yearly" -> {CHOOSE m \in months : \A n \in months : m <= n}
    [] OTHER -> {}

\* generatePatternFromMonth: the only month with a report so far.
PatternFromMonth(cycleType, m) ==
  CASE cycleType = "quarterly" /\ m \in {1, 2, 3, 10, 11, 12}       -> {1, 4, 7, 10}
    [] cycleType = "quarterly" /\ m \in {4, 5, 6}                   -> {2, 5, 8, 11}
    [] cycleType = "quarterly" /\ m \in {7, 8, 9}                   -> {3, 6, 9, 12}
    [] cycleType = "halfYearly" /\ m \in {1, 2, 6, 7, 8, 12}        -> {6, 12}
    [] cycleType = "halfYearly" /\ m \in {3, 4, 9, 10}              -> {3, 9}
    [] cycleType = "halfYearly" /\ m \in {5, 11}                    -> {5, 11}
    [] cycleType = "yearly"                                         -> {m}
    [] OTHER                                                        -> {}

\* getDefaultInspectionMonths: the month of the period before the current one.
DefaultPattern(cycleType) ==
  CASE cycleType = "quarterly"  -> {Later(3 * ((Month(clock) - 1) \div 3) + 1, 9)}
    [] cycleType = "halfYearly" -> {IF Month(clock) <= 6 THEN 12 ELSE 6}
    [] cycleType = "yearly"     -> {12}
    [] OTHER                    -> {}

InspectedMonths(t) == {Month(d) : d \in {e \in Dates : <<t, e>> \in reports}}

\* analyzeInspectionPattern: the months in which target t is to be inspected.
Expected(t) ==
  LET cycleType == contract.cycleType
      months == InspectedMonths(t)
  IN CASE cycleType = "monthly" -> MonthNo
       [] cycleType # "monthly" /\ contract.cycleMonth # NoMonth ->
            ConfiguredPattern(cycleType, contract.cycleMonth)
       [] OTHER ->
            CASE Cardinality(months) >= 2 -> PatternOfHistory(cycleType, months)
              [] Cardinality(months) = 1  -> PatternFromMonth(cycleType, CHOOSE m \in months : TRUE)
              [] OTHER                    -> DefaultPattern(cycleType)

\* findMissingMonths: a month of the current year is missed once it has ended.
MonthsInYear(t, year) == {Month(d) : d \in {e \in Dates : <<t, e>> \in reports /\ Year(e) = year}}

Excused(m, year) == year = Year(clock) /\ m >= Month(clock)

MissingMonths(t, year) == {m \in Expected(t) \ MonthsInYear(t, year) : ~Excused(m, year)}

\* getMissingInspections: what the page lists for target t.
Missing(t, year) ==
  IF contract.contractType \in NoContract \/ contract.cycleType \in NeverInspected
  THEN {} ELSE MissingMonths(t, year)

\* The years the page offers.
YearsShown == 2024..Year(clock)

---------------------------------------------------------------------------
(* CustomersService and DashboardService: the current month. *)

\* isInspectionNeededThisMonth
Needed ==
  /\ contract.contractType \in {"paid", "free"}
  /\ contract.cycleType \notin NeverInspected
  /\ \/ contract.cycleType = "monthly"
     \/ /\ contract.cycleType = "quarterly" /\ contract.cycleMonth \in 1..3
        /\ Month(clock) % 3 = contract.cycleMonth % 3
     \/ /\ contract.cycleType = "halfYearly" /\ contract.cycleMonth \in 1..6
        /\ Month(clock) % 6 = contract.cycleMonth % 6
     \/ /\ contract.cycleType = "yearly"
        /\ Month(clock) = contract.cycleMonth

\* The targets with a report of this month, as the services collect them.
CompletedTargets == {t \in targets : <<t, clock>> \in reports}

\* getInspectionStatus: the customer list, with its own exclusions first.
Status ==
  CASE contract.contractType \in NoContract                             -> "notDue"
    [] contract.cycleType \in NeverInspected                            -> "notDue"
    [] ~Needed                                                          -> "notDue"
    [] Needed /\ targets # {} /\ (\A t \in targets : t \in CompletedTargets) -> "completed"
    [] OTHER                                                            -> "incomplete"

\* isInspectionCompletedThisMonth: compares two counts.
CompletedThisMonth ==
  Needed /\ targets # {} /\ Cardinality(CompletedTargets) = Cardinality(targets)

\* getIncompleteInspections: the dashboard's list.
Incomplete == Needed /\ (targets = {} \/ ~(targets \subseteq CompletedTargets))

---------------------------------------------------------------------------
(* Actions. The edit page sends the whole form back; two fields changed in  *)
(* one save are two steps here. It does not clear the month when the cycle  *)
(* changes, and hides the cycle while there is no contract.                 *)

ChangeContract(type) ==
  /\ contract' = [contract EXCEPT !.contractType = type]
  /\ UNCHANGED <<clock, targets, issued, reports>>

CycleShown == contract.contractType \notin {"none", "poc", "expired"}

ChangeCycle(type) ==
  /\ CycleShown
  /\ contract' = [contract EXCEPT !.cycleType = type]
  /\ UNCHANGED <<clock, targets, issued, reports>>

\* The months the page offers for a cycle.
Offered(type) ==
  CASE type = "quarterly"  -> 1..3
    [] type = "halfYearly" -> 1..6
    [] type = "yearly"     -> YearlyMonths
    [] OTHER               -> {}

ChooseMonth(m) ==
  /\ CycleShown
  /\ m \in Offered(contract.cycleType)
  /\ contract' = [contract EXCEPT !.cycleMonth = m]
  /\ UNCHANGED <<clock, targets, issued, reports>>

AddTarget(t) ==
  /\ t \notin issued
  /\ issued' = issued \cup {t}
  /\ targets' = targets \cup {t}
  /\ UNCHANGED <<clock, contract, reports>>

\* onDelete: SetNull. The target's reports stay and count for no target.
SetNull(t) == {r \in reports : r[1] # t}

RemoveTarget(t) ==
  /\ t \in targets
  /\ targets' = targets \ {t}
  /\ reports' = SetNull(t)
  /\ UNCHANGED <<clock, contract, issued>>

\* DocumentsService.upload and remove write the row; updateInspectionStatus,
\* which they call afterwards, only reads.
UploadReport(t, d) ==
  /\ t \in targets
  /\ Cardinality(reports) < MaxReports
  /\ <<t, d>> \notin reports
  /\ reports' = reports \cup {<<t, d>>}
  /\ UNCHANGED <<clock, contract, targets, issued>>

RemoveReport(r) ==
  /\ r \in reports
  /\ reports' = reports \ {r}
  /\ UNCHANGED <<clock, contract, targets, issued>>

NextMonth ==
  /\ clock < Start + Horizon
  /\ clock' = clock + 1
  /\ UNCHANGED <<contract, targets, issued, reports>>

InspectionNext ==
  \/ \E type \in ContractType : ChangeContract(type)
  \/ \E type \in CycleType : ChangeCycle(type)
  \/ \E m \in MonthNo : ChooseMonth(m)
  \/ \E t \in Target : AddTarget(t) \/ RemoveTarget(t) \/ \E d \in Dates : UploadReport(t, d)
  \/ \E r \in reports : RemoveReport(r)
  \/ NextMonth

InspectionSpec == InspectionInit /\ [][InspectionNext]_inspection

---------------------------------------------------------------------------
(* Properties *)

\* The cycle's month was chosen for this cycle, not left from another one.
MonthFits == contract.cycleType = "monthly" \/ contract.cycleMonth \in Offered(contract.cycleType)

\* The list of missing inspections and the services that look at the current
\* month expect a paying customer's inspection in the same months, whatever
\* months the targets were inspected in before: modular patterns there, tables
\* here.
CopiesAgree ==
  contract.contractType \in {"paid", "free"} /\ MonthFits =>
    \A t \in targets : Needed <=> Month(clock) \in Expected(t)

\* The customer list, the check of one customer and the dashboard give one
\* answer, also after targets were added and removed in the middle of a month.
ViewsAgree ==
  /\ Status = "completed" <=> CompletedThisMonth
  /\ Status = "incomplete" <=> Incomplete

\* At the end of a month that was due, the list of missing inspections of that
\* year (the last one, in January) names exactly the targets without a report:
\* what the dashboard called incomplete does not get lost, also when the cycle's
\* month was left from another cycle.
EndOfMonthIsJudged ==
  [][clock' # clock /\ Needed =>
       \A t \in targets, m \in {Month(clock)}, year \in {Year(clock)} :
         (m \in Missing(t, year)') <=> t \notin CompletedTargets]_inspection

\* For a customer whose months are configured, time adds only the month that
\* has just ended to the lists of the years shown, and takes nothing away.
OnlyTheEndedMonthIsAdded ==
  [][clock' # clock /\ (contract.cycleType = "monthly" \/ contract.cycleMonth # NoMonth) =>
       \A t \in targets, year \in YearsShown :
         /\ Missing(t, year) \subseteq Missing(t, year)'
         /\ Missing(t, year)' \subseteq
              Missing(t, year) \cup (IF year = Year(clock) THEN {Month(clock)} ELSE {})]_inspection

\* For a customer whose months are configured, a new report takes its own month
\* from the list of its own target and year, and changes no other list: old
\* reports do not shift what is expected.
UploadsOnlyClear ==
  [][(contract.cycleType = "monthly" \/ contract.cycleMonth # NoMonth) =>
       \A t \in targets, d \in Dates : UploadReport(t, d) =>
         \A u \in targets, year \in YearsShown :
           Missing(u, year)' =
             Missing(u, year) \ (IF u = t /\ year = Year(d) THEN {Month(d)} ELSE {})]_inspection

\* A quarterly customer without a chosen month, inspected in two or more months
\* of one pattern, is expected in that pattern from then on.
QuarterlyHistoryIsKept ==
  contract.cycleType = "quarterly" /\ contract.cycleMonth = NoMonth =>
    \A t \in targets, m \in 1..3 :
      InspectedMonths(t) \subseteq QuarterPattern(m) /\ Cardinality(InspectedMonths(t)) >= 2
        => Expected(t) = QuarterPattern(m)

\* Every reachable state is well typed, and the views agree on it.
AnswersAgree == InspectionOK /\ ViewsAgree

=============================================================================
