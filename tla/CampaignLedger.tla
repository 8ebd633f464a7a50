--------------------------- MODULE CampaignLedger ---------------------------
(***************************************************************************)
(* The cumulative send ledger of a citation campaign                       *)
(* (eval/citation_baseline/live_generation.py, GenerationBudgetLedger):    *)
(* one row per request to the paid provider, reserved at a ceiling before  *)
(* the request goes out, and given the provider's own count when one comes *)
(* back. The code keeps three totals of one form (prompt tokens,           *)
(* completion tokens, cost); here one of them, in units, stands for all.   *)
(***************************************************************************)
EXTENDS Integers, Sequences, FiniteSets, SequencesExt

CONSTANTS Executions,       \* execution ids; each has its output directory
          Cases,            \* frozen case ids
          Ceiling,          \* units one send is authorised for
          MaxUnits,         \* cap on the campaign's units
          MaxSends,         \* max_total_sends
          MaxSendsPerCase   \* max_sends_per_case of each execution

ASSUME LedgerAssumption ==
  /\ Ceiling \in Nat \ {0} /\ MaxUnits \in Nat /\ Ceiling <= MaxUnits
  /\ MaxSends \in Nat \ {0}
  /\ MaxSendsPerCase \in [Executions -> 1..4]

Unknown == -1    \* no usage in the row: null in the file

(* A send of an earlier ledger is kept under the execution it came from.   *)
Row == [execution : Executions, case : Cases,
        status : {"reserved", "succeeded", "failed"},
        units : (0..Ceiling) \cup {Unknown}]

Reserved(e, c) ==
  [execution |-> e, case |-> c, status |-> "reserved", units |-> Unknown]

(* The mutant takes a send of unknown usage for a free one.                *)
AccountedKnown(row) == IF row.units = Unknown THEN 0 ELSE row.units
Accounted(row) == IF row.units = Unknown THEN Ceiling ELSE row.units

Total(rows) == FoldLeft(LAMBDA sum, row : sum + Accounted(row), 0, rows)

(* A row carries its number in the campaign (send_sequence).               *)
SendsOf(rows, e) == {i \in DOMAIN rows : rows[i].execution = e}
RowsOf(rows, e) == {[number |-> i, row |-> rows[i]] : i \in SendsOf(rows, e)}

CaseSends(rows, e, c) ==
  Cardinality({i \in SendsOf(rows, e) : rows[i].case = c})

(* What reserve requires of the ledger it has just read. The mutant leaves *)
(* the campaign's own count out.                                           *)
MayReserveUncounted(rows, e, c) ==
  CaseSends(rows, e, c) < MaxSendsPerCase[e] /\ Total(rows) + Ceiling <= MaxUnits
MayReserve(rows, e, c) ==
  /\ CaseSends(rows, e, c) < MaxSendsPerCase[e]
  /\ Len(rows) < MaxSends
  /\ Total(rows) + Ceiling <= MaxUnits

(* Room for one worst-case send of each of n cases.                        *)
BatchCapacity(rows, n) ==
  /\ Len(rows) + n <= MaxSends
  /\ Total(rows) + n * Ceiling <= MaxUnits

Terminal(row, status, units) ==
  [row EXCEPT !.status = status, !.units = units]
=============================================================================
