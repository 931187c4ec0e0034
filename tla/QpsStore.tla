------------------------------ MODULE QpsStore ------------------------------
(***************************************************************************)
(* The measured rates of internal/profiling/profiling_retrieve.go, for one *)
(* model on one type of GPU: loaded from CSV files when the program        *)
(* starts, set afterwards, and asked for by SM percentage and quota.       *)
(*                                                                         *)
(* Quotas are counted in thousandths, so that the rounding to hundredths   *)
(* and the drift of a quota summed up in floats show.  Rates are in a unit *)
(* in which measured ones are even.                                        *)
(***************************************************************************)
EXTENDS Integers, FiniteSetsExt

CONSTANTS
  SMs,        \* SM percentages that occur in the files
  Quotas,     \* quotas that occur in the files
  Rates,      \* rates that occur in the files, also none (0)
  Asked,      \* SM percentages asked for
  RoundBys,   \* values of roundBy
  Drift,      \* by how much a quota asked for may be off
  MaxRows     \* bound on the rows

Keys == SMs \X Quotas

(* The files give quotas to the hundredth; a quota summed up in floats is  *)
(* off by less than half of one.                                           *)
ASSUME StoreAssumption ==
  /\ SMs \subseteq Nat /\ Rates \subseteq Nat /\ 0 \in Rates
  /\ \A quota \in Quotas : quota \in Nat /\ quota % 10 = 0
  /\ Asked \subseteq Nat /\ RoundBys \subseteq Nat /\ Drift \in 0..4 /\ MaxRows \in Nat

VARIABLES
  data,     \* the map; 0 where it has no rate
  loading,  \* NewRPSStore has not returned yet
  rows      \* history: the rows read or set that count, with their rates

storeVars == <<data, loading, rows>>

StoreInit ==
  /\ data = [k \in Keys |-> 0]
  /\ loading = TRUE
  /\ rows = {}

(* Fault: the first row of a key counts.                                   *)
FirstRow(k, qps) == IF data[k] = 0 THEN qps ELSE data[k]

(* Several rows for one key: the best rate counts.                         *)
BestRow(k, qps) == IF data[k] = 0 \/ qps > data[k] THEN qps ELSE data[k]

(* NewRPSStore reads a row; one that cannot be parsed or has no positive   *)
(* rate is passed over.                                                    *)
LoadRow(k, qps) ==
  /\ loading /\ Cardinality(rows) < MaxRows
  /\ qps > 0
  /\ data' = [data EXCEPT ![k] = BestRow(k, qps)]
  /\ rows' = rows \cup {<<k, qps>>}
  /\ UNCHANGED loading

Loaded ==
  /\ loading
  /\ loading' = FALSE
  /\ UNCHANGED <<data, rows>>

(* Fault: the quota is cut off.                                            *)
CutOff(quota) == (quota \div 10) * 10

RoundQuota(quota) == ((quota + 5) \div 10) * 10

(* Set replaces the rate of a key.                                         *)
Set(sm, quota, qps) ==
  LET k == <<sm, RoundQuota(quota)>>
  IN  /\ ~loading
      /\ qps > 0 /\ k \in Keys
      /\ data' = [data EXCEPT ![k] = qps]
      /\ rows' = {r \in rows : r[1] # k} \cup {<<k, qps>>}
      /\ UNCHANGED loading

StoreNext ==
  \/ \E k \in Keys, qps \in Rates : LoadRow(k, qps)
  \/ Loaded
  \/ \E sm \in SMs, quota \in Quotas, d \in {0, Drift}, qps \in Rates : Set(sm, quota + d, qps)

StoreSpec == StoreInit /\ [][StoreNext]_storeVars

-----------------------------------------------------------------------------
(* Queries.  A rate of 0 is the answer "not found".                        *)

Get(sm, quota) ==
  LET k == <<sm, RoundQuota(quota)>> IN IF k \in Keys THEN data[k] ELSE 0

Lower(sm, roundBy) == (sm \div roundBy) * roundBy

Upper(sm, roundBy) ==
  IF sm % roundBy = 0 THEN Lower(sm, roundBy) ELSE Lower(sm, roundBy) + roundBy

(* Fault: a missing neighbour counts as a rate of 0.                       *)
MeanOfAll(lo, hi) == (lo + hi) \div 2

(* The mean of the two neighbours, or the one there is.                    *)
Estimate(lo, hi) ==
  IF lo > 0 /\ hi > 0 THEN (lo + hi) \div 2 ELSE IF lo > 0 THEN lo ELSE hi

GetQPS(sm, quota, roundBy) ==
  IF Get(sm, quota) > 0 THEN Get(sm, quota)
  ELSE IF roundBy = 0 THEN 0
  ELSE Estimate(Get(Lower(sm, roundBy), quota), Get(Upper(sm, roundBy), quota))

-----------------------------------------------------------------------------
(* Properties.                                                             *)

StoreTypeOK ==
  /\ data \in [Keys -> Rates]
  /\ loading \in BOOLEAN
  /\ rows \subseteq Keys \X (Rates \ {0})

(* Whatever the order of the files and of the rows in them, and however    *)
(* often a key occurs, NewRPSStore keeps the best rate of each key; Set    *)
(* keeps the last.                                                         *)
BestOfRows ==
  \A k \in Keys :
    LET rates == {r[2] : r \in {x \in rows : x[1] = k}}
    IN  data[k] = IF rates = {} THEN 0 ELSE Max(rates)

(* getConfig sums its quotas up in floats, 0.1 + 0.1 + ...: whatever is    *)
(* stored is found in spite of what that adds or takes away.               *)
DriftAbsorbed ==
  \A k \in Keys, d \in -Drift..Drift :
    data[k] > 0 => GetQPS(k[1], k[2] + d, 0) = data[k]

(* The rates of the grid points around sm at this quota.                   *)
Around(sm, quota, roundBy) ==
  {Get(s, quota) : s \in {x \in SMs : /\ x % roundBy = 0
                                      /\ x - sm < roundBy /\ sm - x < roundBy
                                      /\ sm % roundBy = 0 => x = sm}} \ {0}

(* An estimate is within the rates measured around it, and there is one as *)
(* soon as there is a measured rate.                                       *)
EstimateIsBounded ==
  \A sm \in Asked, quota \in Quotas, roundBy \in RoundBys \ {0} :
    LET around   == Around(sm, quota, roundBy)
        estimate == GetQPS(sm, quota, roundBy)
    IN  Get(sm, quota) = 0 =>
          IF around = {} THEN estimate = 0
          ELSE Min(around) <= estimate /\ estimate <= Max(around)

(* GetQPS is said to estimate "using bilinear interpolation": between two  *)
(* neighbours the nearer one counts more.                                  *)
Interpolates ==
  \A sm \in Asked, quota \in Quotas, roundBy \in RoundBys \ {0} :
    LET lo == Get(Lower(sm, roundBy), quota)
        hi == Get(Upper(sm, roundBy), quota)
    IN  Get(sm, quota) = 0 /\ lo > 0 /\ hi > 0 =>
          GetQPS(sm, quota, roundBy) * roundBy =
            lo * (Upper(sm, roundBy) - sm) + hi * (sm - Lower(sm, roundBy))
=============================================================================
