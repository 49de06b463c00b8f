----------------------------- MODULE RateBudget -----------------------------
(***************************************************************************)
(* The budget of calls to the heat pump's vendor (ratebudget.py): the      *)
(* stamps of the calls in a rolling window, kept in a file so that a       *)
(* process started anew knows them.  A budget is a number of calls per     *)
(* age; what has reached the age of the window counts no more (_evict,     *)
(* which runs before every look at it).                                    *)
(***************************************************************************)
EXTENDS Integers, FiniteSets

CONSTANTS
    Cap,     \* cap
    Window   \* window_s, in ticks

ASSUME BudgetAssumption == Cap \in Nat \ {0} /\ Window \in Nat \ {0}

VARIABLES
    calls,   \* _calls
    file     \* what the file at persist_path holds, if all of it can be read

Ages == 0..(Window - 1)
Budgets == [Ages -> Nat]

Empty == [age \in Ages |-> 0]

\* The stamps in the deque, and how many they are.
Stamps(budget) == UNION {{age} \X (1..budget[age]) : age \in Ages}
Total(budget) == Cardinality(Stamps(budget))

\* The oldest calls are kept, whatever their age.
OlderKept(budget, ticks) ==
    [age \in Ages |->
        (IF age >= ticks THEN budget[age - ticks] ELSE 0)
        + (IF age = Window - 1 /\ ticks > 0 THEN budget[age] ELSE 0)]

\* The same calls some ticks later.
Older(budget, ticks) ==
    [age \in Ages |-> IF age >= ticks THEN budget[age - ticks] ELSE 0]

OneMore(budget) == [budget EXCEPT ![0] = @ + 1]

\* Both sides added, age by age; and what the left has more than the right.
Plus(a, b) == [age \in Ages |-> a[age] + b[age]]
Beyond(a, b) == [age \in Ages |-> IF a[age] > b[age] THEN a[age] - b[age] ELSE 0]

BudgetInit == calls = Empty /\ file = Empty

\* What may be read of a file: all of it; nothing when it is missing, unreadable or
\* no JSON; or what _coerce keeps when entries of it are no numbers.
Parts(budget) ==
    {part \in [Ages -> 0..Cap] : \A age \in Ages : part[age] <= budget[age]}

Loaded == calls' \in Parts(file)

Allow == Total(calls) < Cap

\* record, of a call dated behind ticks ago; a file that cannot be written is
\* left as it is.
RecordCall(behind) ==
    /\ calls' = Older(OneMore(calls), behind)
    /\ file' \in {calls', file}

=============================================================================
