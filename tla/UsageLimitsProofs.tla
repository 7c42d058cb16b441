-------------------------- MODULE UsageLimitsProofs --------------------------
(***************************************************************************)
(* Proofs about UsageLimits, for any finite set of callers.  For every     *)
(* counter the invariant balances two sums: what was used is what is       *)
(* counted, on its way to the counter, or lost; and what was used, with    *)
(* what callers that passed the check may still use, is within the limit   *)
(* they saw.  Callers are counted as sets (Cardinality), and what an action*)
(* does to these sets is one caller more or one less.                      *)
(***************************************************************************)
EXTENDS UsageLimits, FiniteSetTheorems, TLAPS

(* The records of history, and of one caller.                               *)
Histories ==
    [used : [Metrics -> Nat], today : Nat, unchecked : [Metrics -> Nat],
     uncounted : [Metrics -> Nat], unlogged : Nat,
     highest : [Metrics -> Limits], ahead : SUBSET Callers]
Phases == {"idle", "loaded", "quota", "ready", "completed", "metered", "building",
           "unbounded", "exported"}
CallRecords == [phase : Phases, amount : 0..RowCap]

-----------------------------------------------------------------------------
(* Numbers and sets *)

(* The larger, and the smaller, of two numbers.                             *)
LEMMA MaxOfTwo ==
    ASSUME NEW a \in Nat, NEW b \in Nat
    PROVE  Max({a, b}) = IF a >= b THEN a ELSE b
<1> DEFINE m == IF a >= b THEN a ELSE b
<1>1. m \in {a, b} /\ \A y \in {a, b} : m >= y
  OBVIOUS
<1>2. \A x \in {a, b} : (\A y \in {a, b} : x >= y) => x = m
  OBVIOUS
<1> HIDE DEF m
<1> QED BY <1>1, <1>2 DEF Max, m

LEMMA MinOfTwo ==
    ASSUME NEW a \in Nat, NEW b \in Nat
    PROVE  Min({a, b}) = IF a <= b THEN a ELSE b
<1> DEFINE m == IF a <= b THEN a ELSE b
<1>1. m \in {a, b} /\ \A y \in {a, b} : m <= y
  OBVIOUS
<1>2. \A x \in {a, b} : (\A y \in {a, b} : x <= y) => x = m
  OBVIOUS
<1> HIDE DEF m
<1> QED BY <1>1, <1>2 DEF Min, m

LEMMA DisjointUnion ==
    ASSUME NEW S, NEW T, IsFiniteSet(S), IsFiniteSet(T), S \cap T = {}
    PROVE  /\ Cardinality(S) \in Nat /\ Cardinality(T) \in Nat
           /\ Cardinality(S \cup T) = Cardinality(S) + Cardinality(T)
<1>1. Cardinality(S \cap T) = 0
  BY FS_EmptySet
<1>2. Cardinality(S) \in Nat /\ Cardinality(T) \in Nat
  BY FS_CardinalityType
<1>3. Cardinality(S \cup T) = Cardinality(S) + Cardinality(T) - Cardinality(S \cap T)
  BY FS_Union
<1> QED BY <1>1, <1>2, <1>3

LEMMA OthersType == Others \in Nat /\ Cardinality(Callers) = Others + 1
<1>1. Cardinality(Callers) \in Nat /\ Cardinality(Callers) # 0
  BY LimitsAssumption, FS_CardinalityType, FS_EmptySet
<1> QED BY <1>1 DEF Others

(* The callers in some phases.                                              *)
InPhases(P) == {c \in Callers : call[c].phase \in P}

LEMMA FiniteCallers ==
    ASSUME NEW S \in SUBSET Callers
    PROVE  IsFiniteSet(S) /\ Cardinality(S) \in Nat /\ Cardinality(S) <= Others + 1
BY LimitsAssumption, FS_Subset, FS_CardinalityType, OthersType

(* A caller that moves on leaves one phase for another.                     *)
LEMMA CountsMove ==
    ASSUME NEW c \in Callers, NEW p, NEW q, NEW P,
           call[c].phase = p, call'[c].phase = q,
           \A d \in Callers \ {c} : call'[d] = call[d]
    PROVE  /\ Cardinality(InPhases(P)) \in Nat /\ Cardinality(InPhases(P)') \in Nat
           /\ p \in P /\ q \in P => Cardinality(InPhases(P)') = Cardinality(InPhases(P))
           /\ p \notin P /\ q \notin P
                 => Cardinality(InPhases(P)') = Cardinality(InPhases(P))
           /\ p \in P /\ q \notin P
                 => Cardinality(InPhases(P)') = Cardinality(InPhases(P)) - 1
           /\ p \notin P /\ q \in P
                 => Cardinality(InPhases(P)') = Cardinality(InPhases(P)) + 1
<1>1. PICK S, T : S = InPhases(P) /\ T = InPhases(P)'
  OBVIOUS
<1>2. S \in SUBSET Callers /\ T \in SUBSET Callers
  BY <1>1 DEF InPhases
<1>3. /\ p \in P <=> c \in S
      /\ q \in P <=> c \in T
      /\ \A d \in Callers \ {c} : d \in S <=> d \in T
  BY <1>1 DEF InPhases
<1>4. /\ IsFiniteSet(S) /\ Cardinality(S) \in Nat
      /\ IsFiniteSet(T) /\ Cardinality(T) \in Nat
  BY <1>2, FiniteCallers
<1>5. (c \in S <=> c \in T) => S = T
  BY <1>2, <1>3
<1>6. c \in S /\ c \notin T => Cardinality(T) = Cardinality(S) - 1
  <2> SUFFICES ASSUME c \in S, c \notin T PROVE Cardinality(T) = Cardinality(S) - 1
    OBVIOUS
  <2>1. T = S \ {c}
    BY <1>2, <1>3
  <2> QED BY <1>4, <2>1, FS_RemoveElement
<1>7. c \notin S /\ c \in T => Cardinality(T) = Cardinality(S) + 1
  <2> SUFFICES ASSUME c \notin S, c \in T PROVE Cardinality(T) = Cardinality(S) + 1
    OBVIOUS
  <2>1. T = S \cup {c}
    BY <1>2, <1>3
  <2> QED BY <1>4, <2>1, FS_AddElement
<1> QED BY <1>1, <1>3, <1>4, <1>5, <1>6, <1>7

(* Callers in different phases are different callers.                       *)
LEMMA DisjointPhases ==
    ASSUME NEW P, NEW Q, P \cap Q = {}
    PROVE  /\ Cardinality(InPhases(P)) \in Nat /\ Cardinality(InPhases(Q)) \in Nat
           /\ Cardinality(InPhases(P)) + Cardinality(InPhases(Q)) <= Others + 1
           /\ \A c \in Callers : call[c].phase \notin P \cup Q
                => Cardinality(InPhases(P)) + Cardinality(InPhases(Q)) <= Others
<1>1. PICK S, T : S = InPhases(P) /\ T = InPhases(Q)
  OBVIOUS
<1>2. S \in SUBSET Callers /\ T \in SUBSET Callers /\ S \cap T = {}
  BY <1>1 DEF InPhases
<1>3. /\ IsFiniteSet(S) /\ Cardinality(S) \in Nat
      /\ IsFiniteSet(T) /\ Cardinality(T) \in Nat
      /\ IsFiniteSet(S \cup T) /\ Cardinality(S \cup T) \in Nat
      /\ Cardinality(S \cup T) <= Others + 1
  BY <1>2, FiniteCallers
<1>4. Cardinality(S \cup T) = Cardinality(S) + Cardinality(T)
  BY <1>2, <1>3, DisjointUnion
<1>5. ASSUME NEW c \in Callers, call[c].phase \notin P \cup Q
      PROVE  Cardinality(S \cup T) <= Others
  <2>1. c \notin S \cup T
    BY <1>1, <1>5 DEF InPhases
  <2>2. Cardinality((S \cup T) \cup {c}) <= Others + 1
    BY <1>2, FiniteCallers
  <2>3. Cardinality((S \cup T) \cup {c}) = Cardinality(S \cup T) + 1
    BY <1>3, <2>1, FS_AddElement
  <2> QED BY <1>3, <2>2, <2>3, OthersType
<1> QED BY <1>1, <1>3, <1>4, <1>5

-----------------------------------------------------------------------------
(* Rows of reports *)

(* The rows that reports being built may still have: as many as the cap of  *)
(* one report, for each.                                                   *)
HeldRows == {row \in Callers \X (1..RowCap) : InPhase(row[1], "building")}
AllRows == Callers \X (1..RowCap)
RowsOf(c, n) == {c} \X (1..n)

LEMMA AllRowsCount ==
    IsFiniteSet(AllRows) /\ Cardinality(AllRows) = (Others + 1) * RowCap
<1>1. IsFiniteSet(1..RowCap) /\ Cardinality(1..RowCap) = RowCap
  BY LimitsAssumption, FS_Interval
<1>2. IsFiniteSet(Callers) /\ Cardinality(Callers) = Others + 1
  BY LimitsAssumption, OthersType
<1> QED BY <1>1, <1>2, FS_Product DEF AllRows

LEMMA RowsOfCount ==
    ASSUME NEW c \in Callers, NEW n \in 0..RowCap
    PROVE  RowsOf(c, n) \subseteq AllRows /\ Cardinality(RowsOf(c, n)) = n
<1>1. IsFiniteSet(1..n) /\ Cardinality(1..n) = n
  BY LimitsAssumption, FS_Interval
<1>2. IsFiniteSet({c}) /\ Cardinality({c}) = 1
  BY FS_Singleton
<1>3. Cardinality(RowsOf(c, n)) = 1 * n
  BY <1>1, <1>2, FS_Product DEF RowsOf
<1> QED BY <1>3, LimitsAssumption DEF RowsOf, AllRows

LEMMA FiniteRows ==
    ASSUME NEW S \in SUBSET AllRows
    PROVE  IsFiniteSet(S) /\ Cardinality(S) \in Nat
           /\ Cardinality(S) <= Cardinality(AllRows)
BY AllRowsCount, FS_Subset, FS_CardinalityType

(* Rows added to others, or taken away from them.                           *)
LEMMA RowsAdded ==
    ASSUME NEW S \in SUBSET AllRows, NEW c \in Callers, NEW n \in 0..RowCap,
           S \cap RowsOf(c, n) = {}
    PROVE  Cardinality(S \cup RowsOf(c, n)) = Cardinality(S) + n
<1>1. PICK T \in SUBSET AllRows : T = RowsOf(c, n) /\ Cardinality(T) = n
  BY RowsOfCount
<1>2. IsFiniteSet(S) /\ IsFiniteSet(T) /\ Cardinality(S) \in Nat /\ S \cap T = {}
  BY <1>1, FiniteRows
<1>3. Cardinality(S \cup T) = Cardinality(S) + Cardinality(T)
  BY <1>2, DisjointUnion
<1> QED BY <1>1, <1>3

(* Rows that are counted apart are no more than all of them.                *)
LEMMA DisjointRows ==
    ASSUME NEW S \in SUBSET AllRows, NEW T \in SUBSET AllRows, S \cap T = {}
    PROVE  /\ Cardinality(S) \in Nat /\ Cardinality(T) \in Nat
           /\ Cardinality(S) + Cardinality(T) <= Cardinality(AllRows)
<1>1. /\ IsFiniteSet(S) /\ Cardinality(S) \in Nat /\ IsFiniteSet(T) /\ Cardinality(T) \in Nat
      /\ Cardinality(S \cup T) <= Cardinality(AllRows)
  BY FiniteRows
<1>2. Cardinality(S \cup T) = Cardinality(S) + Cardinality(T)
  BY <1>1, DisjointUnion
<1> QED BY <1>1, <1>2

LEMMA RowTypes ==
    /\ Cardinality(ExportedRows) \in Nat /\ Cardinality(HeldRows) \in Nat
    /\ Cardinality(ExportedRows) + Cardinality(HeldRows) <= Cardinality(AllRows)
    /\ Cardinality(ExportedRows') + Cardinality(HeldRows') <= Cardinality(AllRows)
<1>1. PICK S, T \in SUBSET AllRows : S = ExportedRows /\ T = HeldRows
  BY DEF ExportedRows, HeldRows, AllRows
<1>2. S \cap T = {}
  BY <1>1 DEF ExportedRows, HeldRows, InPhase
<1>3. PICK U, V \in SUBSET AllRows : U = ExportedRows' /\ V = HeldRows'
  BY DEF ExportedRows, HeldRows, AllRows
<1>4. U \cap V = {}
  BY <1>3 DEF ExportedRows, HeldRows, InPhase
<1> QED BY <1>1, <1>2, <1>3, <1>4, DisjointRows

(* A report enters the phase of building, and leaves it with its rows.      *)
LEMMA RowsMove ==
    ASSUME TypeOK, NEW c \in Callers, NEW p \in Phases, NEW q \in Phases,
           NEW m \in 0..RowCap, NEW n \in 0..RowCap,
           call[c].phase = p, call[c].amount = m,
           call'[c].phase = q, call'[c].amount = n,
           \A d \in Callers \ {c} : call'[d] = call[d]
    PROVE  /\ Cardinality(ExportedRows) \in Nat /\ Cardinality(ExportedRows') \in Nat
           /\ Cardinality(HeldRows) \in Nat /\ Cardinality(HeldRows') \in Nat
           /\ Cardinality(ExportedRows') = Cardinality(ExportedRows)
                 + (IF q = "exported" THEN n ELSE 0) - (IF p = "exported" THEN m ELSE 0)
           /\ Cardinality(HeldRows') = Cardinality(HeldRows)
                 + (IF q = "building" THEN RowCap ELSE 0)
                 - (IF p = "building" THEN RowCap ELSE 0)
<1> DEFINE a == IF p = "exported" THEN m ELSE 0
           b == IF q = "exported" THEN n ELSE 0
           e == IF p = "building" THEN RowCap ELSE 0
           f == IF q = "building" THEN RowCap ELSE 0
<1>1. /\ a \in 0..RowCap /\ b \in 0..RowCap /\ e \in 0..RowCap /\ f \in 0..RowCap
  BY LimitsAssumption
<1>2. PICK S \in SUBSET AllRows :
        /\ S = {row \in ExportedRows : row[1] # c}
        /\ S = {row \in ExportedRows' : row[1] # c}
  BY DEF ExportedRows, AllRows, InPhase
<1>3. PICK T \in SUBSET AllRows :
        /\ T = {row \in HeldRows : row[1] # c}
        /\ T = {row \in HeldRows' : row[1] # c}
  BY DEF HeldRows, AllRows, InPhase
<1>0. ASSUME NEW k \in 0..RowCap
      PROVE  RowsOf(c, k) = {row \in AllRows : row[1] = c /\ row[2] <= k}
  BY LimitsAssumption DEF RowsOf, AllRows
<1>4. ExportedRows = S \cup RowsOf(c, a) /\ ExportedRows' = S \cup RowsOf(c, b)
  <2>1. ExportedRows = S \cup {row \in AllRows : row[1] = c /\ row[2] <= a}
    BY <1>2 DEF ExportedRows, AllRows, InPhase
  <2>2. ExportedRows' = S \cup {row \in AllRows : row[1] = c /\ row[2] <= b}
    BY <1>2 DEF ExportedRows, AllRows, InPhase
  <2> HIDE DEF a, b
  <2> QED BY <1>0, <1>1, <2>1, <2>2
<1>5. HeldRows = T \cup RowsOf(c, e) /\ HeldRows' = T \cup RowsOf(c, f)
  <2>1. HeldRows = T \cup {row \in AllRows : row[1] = c /\ row[2] <= e}
    BY <1>3, LimitsAssumption DEF HeldRows, AllRows, InPhase
  <2>2. HeldRows' = T \cup {row \in AllRows : row[1] = c /\ row[2] <= f}
    BY <1>3, LimitsAssumption DEF HeldRows, AllRows, InPhase
  <2> HIDE DEF e, f
  <2> QED BY <1>0, <1>1, <2>1, <2>2
<1>6. \A k \in 0..RowCap : S \cap RowsOf(c, k) = {} /\ T \cap RowsOf(c, k) = {}
  BY <1>2, <1>3 DEF RowsOf
<1>7. Cardinality(S) \in Nat /\ Cardinality(T) \in Nat
  BY FiniteRows
<1> HIDE DEF a, b, e, f
<1>8. /\ Cardinality(ExportedRows) = Cardinality(S) + a
      /\ Cardinality(ExportedRows') = Cardinality(S) + b
      /\ Cardinality(HeldRows) = Cardinality(T) + e
      /\ Cardinality(HeldRows') = Cardinality(T) + f
  BY <1>1, <1>4, <1>5, <1>6, RowsAdded
<1> QED BY <1>1, <1>7, <1>8, LimitsAssumption DEF a, b, e, f

-----------------------------------------------------------------------------
(* The inductive invariant *)

(* The highest limit of the month is as high as the one now.                *)
LimitsSeen == \A m \in Metrics : Entitlement(m) <= history.highest[m]

(* The calls that passed the plan's limit and are not answered yet are      *)
(* within the bound already; likewise those past the daily quota, and what *)
(* the reports being built may still have.                                 *)
MonthWithin ==
    /\ history.used["ai_requests"]
          = counter["ai_requests"] + Cardinality(InPhases({"completed"}))
            + history.uncounted["ai_requests"]
    /\ history.used["ai_requests"] + Cardinality(InPhases({"ready"}))
          <= Max({1, history.highest["ai_requests"]}) + Others
             + history.unchecked["ai_requests"] + history.uncounted["ai_requests"]

(* Until the quota is reached, every call of the day has its row, will have *)
(* it, or could not have it.                                               *)
DayWithin ==
    /\ history.today + Cardinality(InPhases({"quota", "ready"}))
          <= Max({1, DailyLimit}) + Others + history.unlogged
    /\ rows < DailyLimit =>
          history.today <= rows + Cardinality(InPhases({"completed", "metered"}))
                           + history.unlogged

RowsWithin ==
    /\ history.used["export_rows"]
          = counter["export_rows"] + Cardinality(ExportedRows)
            + history.uncounted["export_rows"]
    /\ history.used["export_rows"] + Cardinality(HeldRows)
          <= Max({1, history.highest["export_rows"]}) - 1 + Cardinality(AllRows)
             + history.unchecked["export_rows"] + history.uncounted["export_rows"]

(* A call in flight was ahead of the switch, or the switch is not on.       *)
SwitchOff ==
    switch["platform"] # "on" /\ (switch["tenant"] = "on" => switch["platform"] = "off")
PassedOrAhead == \A c \in InFlight : c \in history.ahead \/ SwitchOff

IInv ==
    /\ TypeOK
    /\ LimitsSeen
    /\ MonthWithin
    /\ DayWithin
    /\ RowsWithin
    /\ PassedOrAhead

-----------------------------------------------------------------------------
(* What a step changes *)

LEMMA Typed ==
    ASSUME TypeOK
    PROVE  /\ history \in Histories /\ call \in [Callers -> CallRecords]
           /\ counter \in [Metrics -> Nat] /\ rows \in Nat /\ rows <= DailyLimit
           /\ history.used["ai_requests"] \in Nat /\ history.used["export_rows"] \in Nat
           /\ history.unchecked["ai_requests"] \in Nat
           /\ history.unchecked["export_rows"] \in Nat
           /\ history.uncounted["ai_requests"] \in Nat
           /\ history.uncounted["export_rows"] \in Nat
           /\ history.highest["ai_requests"] \in Nat
           /\ history.highest["export_rows"] \in Nat
           /\ history.today \in Nat /\ history.unlogged \in Nat
           /\ counter["ai_requests"] \in Nat /\ counter["export_rows"] \in Nat
           /\ \A m \in Metrics : Entitlement(m) \in Nat /\ Entitlement(m) \in Limits
<1>1. history \in Histories /\ call \in [Callers -> CallRecords]
  BY DEF TypeOK, Histories, CallRecords, Phases
<1>2. PICK h \in Histories : h = history
  BY <1>1
<1>3. /\ h.used \in [Metrics -> Nat] /\ h.unchecked \in [Metrics -> Nat]
      /\ h.uncounted \in [Metrics -> Nat] /\ h.highest \in [Metrics -> Limits]
      /\ h.today \in Nat /\ h.unlogged \in Nat
  BY DEF Histories
<1>4. Limits \subseteq Nat /\ DailyLimit \in Nat
  BY LimitsAssumption
<1>5. \A m \in Metrics : Entitlement(m) \in Limits
  BY DEF TypeOK, Entitlement
<1>6. "ai_requests" \in Metrics /\ "export_rows" \in Metrics
  BY DEF Metrics
<1>7. /\ counter \in [Metrics -> Nat] /\ rows \in Nat /\ rows <= DailyLimit
  BY <1>4 DEF TypeOK
<1>8. \A f \in [Metrics -> Nat] : f["ai_requests"] \in Nat /\ f["export_rows"] \in Nat
  BY <1>6
<1>9. h.highest["ai_requests"] \in Nat /\ h.highest["export_rows"] \in Nat
  BY <1>3, <1>4, <1>6
<1> QED BY <1>1, <1>2, <1>3, <1>4, <1>5, <1>7, <1>8, <1>9

(* One caller goes from a phase to another, with so many rows.              *)
Moves(c, p, q, n) ==
    /\ call[c].phase = p /\ call'[c].phase = q /\ call'[c].amount = n
    /\ \A d \in Callers \ {c} : call'[d] = call[d]
    /\ call' \in [Callers -> CallRecords]
    /\ \A d \in Callers : call'[d].amount # 0 => call'[d].phase = "exported"

LEMMA GoesMoves ==
    ASSUME TypeOK, NEW c \in Callers, NEW p \in Phases \ {"exported"},
           NEW q \in Phases, InPhase(c, p), Goes(c, q)
    PROVE  Moves(c, p, q, 0)
<1>1. PICK r \in CallRecords : r = call[c]
  BY Typed
<1>2. r.phase = p /\ r.amount = 0
  BY <1>1 DEF InPhase, TypeOK
<1>3. call' = [call EXCEPT ![c] = [r EXCEPT !.phase = q]]
  BY <1>1 DEF Goes
<1>4. [r EXCEPT !.phase = q] \in CallRecords /\ [r EXCEPT !.phase = q].phase = q
      /\ [r EXCEPT !.phase = q].amount = 0
  BY <1>2 DEF CallRecords
<1>5. call'[c] = [r EXCEPT !.phase = q] /\ \A d \in Callers \ {c} : call'[d] = call[d]
  BY <1>3, Typed
<1> HIDE DEF CallRecords
<1>6. call' \in [Callers -> CallRecords]
  BY <1>3, <1>4, Typed
<1> QED BY <1>1, <1>2, <1>4, <1>5, <1>6 DEF Moves, TypeOK

LEMMA EndsMoves ==
    ASSUME TypeOK, NEW c \in Callers, NEW p \in Phases, InPhase(c, p), Ends(c)
    PROVE  Moves(c, p, "idle", 0)
<1>1. /\ call'[c] = Idle /\ call' \in [Callers -> CallRecords]
      /\ \A d \in Callers \ {c} : call'[d] = call[d]
  <2>1. Idle \in CallRecords
    BY LimitsAssumption DEF Idle, CallRecords, Phases
  <2> QED BY <2>1, Typed DEF Ends
<1> QED BY <1>1 DEF Moves, Idle, InPhase, TypeOK

LEMMA ExportMoves ==
    ASSUME TypeOK, NEW c \in Callers, NEW p \in Phases, InPhase(c, p),
           NEW n \in 0..RowCap,
           call' = [call EXCEPT ![c] = [phase |-> "exported", amount |-> n]]
    PROVE  Moves(c, p, "exported", n)
<1>1. [phase |-> "exported", amount |-> n] \in CallRecords
  BY DEF CallRecords, Phases
<1>2. /\ call'[c] = [phase |-> "exported", amount |-> n] /\ call' \in [Callers -> CallRecords]
      /\ \A d \in Callers \ {c} : call'[d] = call[d]
  BY <1>1, Typed
<1> QED BY <1>2 DEF Moves, InPhase, TypeOK

(* A number added to one metric.                                            *)
LEMMA Raised ==
    ASSUME NEW f \in [Metrics -> Nat], NEW m \in Metrics, NEW n \in Nat,
           NEW g, g = [f EXCEPT ![m] = f[m] + n]
    PROVE  /\ g \in [Metrics -> Nat]
           /\ g[m] = f[m] + n
           /\ \A k \in Metrics \ {m} : g[k] = f[k]
<1>1. f[m] + n \in Nat
  OBVIOUS
<1> QED BY <1>1

LEMMA TwoMetrics ==
    /\ "ai_requests" \in Metrics /\ "export_rows" \in Metrics
    /\ "ai_requests" # "export_rows" /\ 1 \in Nat
BY DEF Metrics

(* The counters of the hazards stay numbers.                                *)
LEMMA SpendKeeps ==
    ASSUME TypeOK, UNCHANGED spent \/ \E h \in Hazards : Spend(h)
    PROVE  spent' \in [Hazards -> Nat]
BY DEF TypeOK, Spend

LEMMA LogKeeps ==
    ASSUME TypeOK, Log
    PROVE  /\ rows' \in 0..DailyLimit
           /\ rows' < DailyLimit => rows' = rows + 1
BY Typed, MinOfTwo, LimitsAssumption DEF Log

LEMMA TypesKept ==
    ASSUME TypeOK, NEW c, NEW p, NEW q, NEW n, Moves(c, p, q, n),
           UNCHANGED <<switch, flag, limits>>,
           history' \in Histories, counter' \in [Metrics -> Nat],
           rows' \in 0..DailyLimit, spent' \in [Hazards -> Nat]
    PROVE  TypeOK'
BY DEF TypeOK, Moves, Histories, CallRecords, Phases, limits

(* Steps that leave the month's calls alone, the day, or the month's rows.  *)
SameMonth ==
    /\ history'.used["ai_requests"] = history.used["ai_requests"]
    /\ history'.unchecked["ai_requests"] = history.unchecked["ai_requests"]
    /\ history'.uncounted["ai_requests"] = history.uncounted["ai_requests"]
    /\ history'.highest["ai_requests"] = history.highest["ai_requests"]
    /\ counter'["ai_requests"] = counter["ai_requests"]
SameRows ==
    /\ history'.used["export_rows"] = history.used["export_rows"]
    /\ history'.unchecked["export_rows"] = history.unchecked["export_rows"]
    /\ history'.uncounted["export_rows"] = history.uncounted["export_rows"]
    /\ history'.highest["export_rows"] = history.highest["export_rows"]
    /\ counter'["export_rows"] = counter["export_rows"]
SameDay == history'.today = history.today /\ history'.unlogged = history.unlogged

LEMMA SameHistory ==
    ASSUME \/ UNCHANGED history
           \/ /\ TypeOK
              /\ \E S \in SUBSET Callers : history' = [history EXCEPT !.ahead = S]
    PROVE  /\ counter' = counter => SameMonth /\ SameRows
           /\ SameDay
           /\ history'.highest = history.highest
           /\ TypeOK => history' \in Histories
<1>1. CASE UNCHANGED history
  BY <1>1, Typed DEF SameMonth, SameRows, SameDay
<1>2. CASE /\ TypeOK
           /\ \E S \in SUBSET Callers : history' = [history EXCEPT !.ahead = S]
  <2>1. PICK h \in Histories : h = history
    BY <1>2, Typed
  <2>2. PICK S \in SUBSET Callers : history' = [h EXCEPT !.ahead = S]
    BY <1>2, <2>1
  <2>3. /\ history' \in Histories
        /\ history'.used = h.used /\ history'.unchecked = h.unchecked
        /\ history'.uncounted = h.uncounted /\ history'.highest = h.highest
        /\ history'.today = h.today /\ history'.unlogged = h.unlogged
    BY <2>2 DEF Histories
  <2> QED BY <2>1, <2>3 DEF SameMonth, SameRows, SameDay
<1> QED BY <1>1, <1>2

LEMMA QuietMonth ==
    ASSUME TypeOK, MonthWithin, SameMonth,
           NEW c \in Callers, NEW p, NEW q, NEW n, Moves(c, p, q, n),
           p # "completed", q \notin {"completed", "ready"}
    PROVE  MonthWithin'
<1>1. \A d \in Callers \ {c} : call'[d] = call[d]
  BY DEF Moves
<1>2. Cardinality(InPhases({"completed"})') = Cardinality(InPhases({"completed"}))
  BY <1>1, CountsMove DEF Moves
<1>3. /\ Cardinality(InPhases({"ready"})') <= Cardinality(InPhases({"ready"}))
      /\ Cardinality(InPhases({"ready"})') \in Nat
      /\ Cardinality(InPhases({"ready"})) \in Nat
  BY <1>1, CountsMove DEF Moves
<1>4. Max({1, history.highest["ai_requests"]}) \in Nat
  BY Typed, MaxOfTwo
<1> QED BY <1>2, <1>3, <1>4, Typed, OthersType DEF MonthWithin, SameMonth

LEMMA QuietRows ==
    ASSUME TypeOK, RowsWithin, SameRows,
           NEW c \in Callers, NEW p \in Phases, NEW q \in Phases, Moves(c, p, q, 0),
           p # "exported", q \notin {"exported", "building"}
    PROVE  RowsWithin'
<1>1. PICK m \in 0..RowCap : m = call[c].amount
  BY Typed DEF CallRecords
<1>2. 0 \in 0..RowCap /\ RowCap \in Nat
  BY LimitsAssumption
<1>3. /\ Cardinality(ExportedRows') = Cardinality(ExportedRows)
      /\ Cardinality(HeldRows') <= Cardinality(HeldRows)
      /\ Cardinality(HeldRows') \in Nat /\ Cardinality(HeldRows) \in Nat
  <2>1. /\ call[c].phase = p /\ call'[c].phase = q /\ call'[c].amount = 0
        /\ \A d \in Callers \ {c} : call'[d] = call[d]
    BY DEF Moves
  <2>2. /\ Cardinality(ExportedRows) \in Nat
        /\ Cardinality(HeldRows) \in Nat /\ Cardinality(HeldRows') \in Nat
        /\ Cardinality(ExportedRows') = Cardinality(ExportedRows)
              + (IF q = "exported" THEN 0 ELSE 0) - (IF p = "exported" THEN m ELSE 0)
        /\ Cardinality(HeldRows') = Cardinality(HeldRows)
              + (IF q = "building" THEN RowCap ELSE 0)
              - (IF p = "building" THEN RowCap ELSE 0)
    BY <1>1, <1>2, <2>1, RowsMove
  <2> QED BY <1>2, <2>2
<1>4. Max({1, history.highest["export_rows"]}) \in Nat
  <2>1. PICK k \in Nat : k = history.highest["export_rows"]
    BY Typed
  <2>2. Max({1, k}) \in Nat
    BY MaxOfTwo
  <2> QED BY <2>1, <2>2
<1>5. Cardinality(AllRows) \in Nat /\ AllRows' = AllRows
  BY AllRowsCount, FS_CardinalityType DEF AllRows
<1> QED BY <1>3, <1>4, <1>5, Typed DEF RowsWithin, SameRows

LEMMA QuietDay ==
    ASSUME TypeOK, DayWithin, SameDay,
           NEW c \in Callers, NEW p, NEW q, NEW n, Moves(c, p, q, n),
           \/ /\ rows' = rows
              /\ q \in {"quota", "ready"} => p \in {"quota", "ready"}
              /\ p \in {"completed", "metered"} => q \in {"completed", "metered"}
           \/ Log /\ q = "idle"
    PROVE  DayWithin'
<1> DEFINE a == Cardinality(InPhases({"quota", "ready"}))
           b == Cardinality(InPhases({"completed", "metered"}))
<1>1. \A d \in Callers \ {c} : call'[d] = call[d]
  BY DEF Moves
<1>2. a \in Nat /\ a' \in Nat /\ a' <= a
  BY <1>1, CountsMove DEF Moves
<1>3. /\ b \in Nat /\ b' \in Nat /\ b' + 1 >= b
      /\ (p \in {"completed", "metered"} => q \in {"completed", "metered"}) => b' >= b
  BY <1>1, CountsMove DEF Moves
<1>4. Max({1, DailyLimit}) \in Nat
  BY MaxOfTwo, LimitsAssumption
<1>5. rows' < DailyLimit => history.today <= rows' + b' + history.unlogged
  BY <1>3, Typed, LogKeeps, LimitsAssumption DEF DayWithin
<1> QED BY <1>2, <1>4, <1>5, Typed, OthersType DEF DayWithin, SameDay

(* A call in flight stays ahead, or the switch stays off.                   *)
LEMMA QuietSwitch ==
    ASSUME TypeOK, PassedOrAhead, switch' = switch,
           NEW c \in Callers, NEW p, NEW q, NEW n, Moves(c, p, q, n),
           history'.ahead = history.ahead \/ history'.ahead = history.ahead \ {c},
           \/ p \in {"loaded", "quota", "ready"} /\ history'.ahead = history.ahead
           \/ q \notin {"loaded", "quota", "ready"}
           \/ SwitchOff
    PROVE  PassedOrAhead'
<1> SUFFICES ASSUME NEW d \in Callers, call'[d].phase \in {"loaded", "quota", "ready"}
             PROVE  d \in history'.ahead \/ SwitchOff
  BY DEF PassedOrAhead, InFlight, SwitchOff
<1>1. CASE d = c
  BY <1>1 DEF PassedOrAhead, InFlight, Moves
<1>2. CASE d # c
  BY <1>2 DEF PassedOrAhead, InFlight, Moves
<1> QED BY <1>1, <1>2

LEMMA QuietLimits ==
    ASSUME LimitsSeen, UNCHANGED limits, history'.highest = history.highest
    PROVE  LimitsSeen'
BY DEF LimitsSeen, limits, Entitlement

-----------------------------------------------------------------------------
(* The gates *)

(* A refusal is logged; a caller that held a place gives it back.           *)
LEMMA RefuseOK ==
    ASSUME IInv, NEW c \in Callers, NEW p \in {"idle", "loaded", "quota", "ready", "metered"},
           InPhase(c, p), Refuse(c), UNCHANGED <<switch, flag, limits, counter, spent>>
    PROVE  IInv'
<1>1. Moves(c, p, "idle", 0) /\ p \in Phases /\ "idle" \in Phases
  BY EndsMoves DEF IInv, Refuse, Phases
<1>2. /\ SameMonth /\ SameRows /\ SameDay /\ history'.highest = history.highest
      /\ history' \in Histories
  BY SameHistory DEF IInv, Refuse
<1>3. TypeOK'
  BY <1>1, <1>2, TypesKept, LogKeeps, SpendKeeps, Typed DEF IInv, Refuse
<1>4. MonthWithin' /\ RowsWithin'
  BY <1>1, <1>2, QuietMonth, QuietRows DEF IInv
<1>5. DayWithin'
  BY <1>1, <1>2, QuietDay DEF IInv, Refuse
<1>6. PassedOrAhead'
  BY <1>1, QuietSwitch DEF IInv, Refuse
<1> QED BY <1>2, <1>3, <1>4, <1>5, <1>6, QuietLimits DEF IInv

LEMMA LoadControlOK ==
    ASSUME IInv, NEW c \in Callers, LoadControl(c) PROVE IInv'
<1>1. CASE Refuse(c)
  BY <1>1, RefuseOK DEF LoadControl
<1>2. CASE ~Refuse(c)
  <2>1. /\ InPhase(c, "idle") /\ ~KillSwitchEnabled /\ Goes(c, "loaded")
        /\ history' = [history EXCEPT !.ahead = history.ahead \ {c}]
        /\ UNCHANGED <<switch, flag, limits, counter, rows, spent>>
    BY <1>2 DEF LoadControl
  <2>2. Moves(c, "idle", "loaded", 0) /\ "idle" \in Phases /\ "loaded" \in Phases
    BY <2>1, GoesMoves DEF IInv, Phases
  <2>3. PICK h \in Histories : h = history
    BY Typed DEF IInv
  <2>4. PICK S \in SUBSET Callers : S = h.ahead \ {c}
    BY DEF Histories
  <2>5. history' = [h EXCEPT !.ahead = S]
    BY <2>1, <2>3, <2>4
  <2>6. history'.ahead = history.ahead \ {c}
    BY <2>3, <2>4, <2>5 DEF Histories
  <2>7. /\ SameMonth /\ SameRows /\ SameDay /\ history'.highest = history.highest
        /\ history' \in Histories
    BY <2>1, <2>3, <2>5, SameHistory DEF IInv
  <2>8. TypeOK'
    BY <2>1, <2>2, <2>7, TypesKept, Typed DEF IInv, TypeOK
  <2>9. MonthWithin' /\ RowsWithin'
    BY <2>2, <2>7, QuietMonth, QuietRows DEF IInv
  <2>10. DayWithin'
    BY <2>1, <2>2, <2>7, QuietDay DEF IInv
  <2>11. PassedOrAhead'
    <3>1. switch["platform"] \in RowStates
      BY DEF IInv, TypeOK, Scopes
    <3>2. SwitchOff
      BY <2>1, <3>1 DEF KillSwitchEnabled, SwitchOff, RowStates
    <3> QED BY <2>1, <2>2, <2>6, <3>2, QuietSwitch DEF IInv
  <2> QED BY <2>1, <2>7, <2>8, <2>9, <2>10, <2>11, QuietLimits DEF IInv
<1> QED BY <1>1, <1>2

LEMMA ScreenUntrustedOK ==
    ASSUME IInv, NEW c \in Callers, ScreenUntrusted(c) PROVE IInv'
BY RefuseOK DEF ScreenUntrusted

LEMMA DecodeFailsOK ==
    ASSUME IInv, NEW c \in Callers, DecodeFails(c) PROVE IInv'
BY RefuseOK DEF DecodeFails

(* The quota counts the rows: what is not among them is in flight.          *)
LEMMA CheckQuotaOK ==
    ASSUME IInv, NEW c \in Callers, CheckQuota(c) PROVE IInv'
<1>1. CASE Refuse(c)
  BY <1>1, RefuseOK DEF CheckQuota
<1>2. CASE ~Refuse(c)
  <2>1. /\ InPhase(c, "loaded") /\ rows < DailyLimit /\ Goes(c, "quota")
        /\ UNCHANGED <<switch, flag, limits, counter, rows, history, spent>>
    BY <1>2 DEF CheckQuota
  <2>2. Moves(c, "loaded", "quota", 0) /\ "loaded" \in Phases /\ "quota" \in Phases
    BY <2>1, GoesMoves DEF IInv, Phases
  <2>3. /\ SameMonth /\ SameRows /\ SameDay /\ history'.highest = history.highest
        /\ history' \in Histories
    BY <2>1, SameHistory DEF IInv
  <2>4. TypeOK'
    BY <2>1, <2>2, <2>3, TypesKept, Typed DEF IInv, TypeOK
  <2>5. MonthWithin' /\ RowsWithin'
    BY <2>2, <2>3, QuietMonth, QuietRows DEF IInv
  <2>6. DayWithin'
    <3> DEFINE a == Cardinality(InPhases({"quota", "ready"}))
               b == Cardinality(InPhases({"completed", "metered"}))
    <3>1. \A d \in Callers \ {c} : call'[d] = call[d]
      BY <2>2 DEF Moves
    <3>2. a' = a + 1 /\ b' = b
      BY <2>2, <3>1, CountsMove DEF Moves
    <3>3. a \in Nat /\ b \in Nat /\ a + b <= Others
      <4>1. call[c].phase \notin {"quota", "ready"} \cup {"completed", "metered"}
        BY <2>1 DEF InPhase
      <4> QED BY <4>1, DisjointPhases
    <3>4. history.today <= rows + b + history.unlogged
      BY <2>1 DEF IInv, DayWithin
    <3>5. Max({1, DailyLimit}) \in Nat /\ Max({1, DailyLimit}) >= DailyLimit
      BY MaxOfTwo, LimitsAssumption
    <3> HIDE DEF a, b
    <3>6. history.today + a' <= Max({1, DailyLimit}) + Others + history.unlogged
      BY <2>1, <3>2, <3>3, <3>4, <3>5, Typed, OthersType, LimitsAssumption DEF IInv
    <3> QED BY <2>1, <3>2, <3>4, <3>6 DEF DayWithin, a, b
  <2>7. PassedOrAhead'
    BY <2>1, <2>2, QuietSwitch DEF IInv
  <2> QED BY <2>1, <2>3, <2>4, <2>5, <2>6, <2>7, QuietLimits DEF IInv
<1> QED BY <1>1, <1>2

(* A call that passed the plan's limit, checked or not.                     *)
LEMMA PassedMonth ==
    ASSUME IInv, NEW c \in Callers, Moves(c, "quota", "ready", 0),
           UNCHANGED counter,
           history'.used["ai_requests"] = history.used["ai_requests"],
           history'.uncounted["ai_requests"] = history.uncounted["ai_requests"],
           history'.highest["ai_requests"] = history.highest["ai_requests"],
           \/ /\ history'.unchecked["ai_requests"] = history.unchecked["ai_requests"]
              /\ Fits("ai_requests", 1)
           \/ history'.unchecked["ai_requests"] = history.unchecked["ai_requests"] + 1
    PROVE  MonthWithin'
<1> DEFINE a == Cardinality(InPhases({"ready"}))
           b == Cardinality(InPhases({"completed"}))
<1>1. \A d \in Callers \ {c} : call'[d] = call[d]
  BY DEF Moves
<1>2. a' = a + 1 /\ b' = b
  BY <1>1, CountsMove DEF Moves
<1>3. a \in Nat /\ b \in Nat /\ a + b <= Others
  <2>1. call[c].phase \notin {"ready"} \cup {"completed"}
    BY DEF Moves
  <2> QED BY <2>1, DisjointPhases
<1>4. PICK k \in Nat : k = history.highest["ai_requests"]
  BY Typed DEF IInv
<1>5. Max({1, k}) \in Nat /\ Max({1, k}) >= k
  BY MaxOfTwo
<1>6. /\ history.used["ai_requests"]
            = counter["ai_requests"] + b + history.uncounted["ai_requests"]
      /\ history.used["ai_requests"] + a
            <= Max({1, k}) + Others + history.unchecked["ai_requests"]
               + history.uncounted["ai_requests"]
  BY <1>4 DEF IInv, MonthWithin
<1>7. "ai_requests" \in Metrics
  BY DEF Metrics
<1>8. Entitlement("ai_requests") \in Nat /\ Entitlement("ai_requests") <= k
  BY <1>4, <1>7, Typed DEF IInv, LimitsSeen
<1> HIDE DEF a, b
<1>9. Fits("ai_requests", 1) => counter["ai_requests"] + 1 <= k
  BY <1>8, Typed DEF Fits, IInv
<1>10. history'.used["ai_requests"] + a'
         <= Max({1, k}) + Others + history'.unchecked["ai_requests"]
            + history'.uncounted["ai_requests"]
  BY <1>2, <1>3, <1>5, <1>6, <1>9, Typed, OthersType DEF IInv
<1> QED BY <1>2, <1>4, <1>6, <1>10 DEF MonthWithin, a, b

LEMMA CheckLimitOK ==
    ASSUME IInv, NEW c \in Callers, CheckLimit(c) PROVE IInv'
<1>1. CASE Refuse(c) /\ UNCHANGED spent
  BY <1>1, RefuseOK DEF CheckLimit
<1>2. CASE ~(Refuse(c) /\ UNCHANGED spent)
  <2>1. /\ InPhase(c, "quota") /\ Goes(c, "ready")
        /\ UNCHANGED <<switch, flag, limits, counter, rows>>
        /\ \/ Fits("ai_requests", 1) /\ history' = history
           \/ history' = [history EXCEPT !.unchecked["ai_requests"] = @ + 1]
        /\ UNCHANGED spent \/ Spend("fault")
    BY <1>2 DEF CheckLimit, Unlimited
  <2>2. Moves(c, "quota", "ready", 0) /\ "quota" \in Phases /\ "ready" \in Phases
    BY <2>1, GoesMoves DEF IInv, Phases
  <2>3. PICK h \in Histories : h = history
    BY Typed DEF IInv
  <2>4. /\ history' \in Histories /\ history'.highest = h.highest
        /\ history'.used = h.used /\ history'.uncounted = h.uncounted
        /\ history'.today = h.today /\ history'.unlogged = h.unlogged
        /\ history'.ahead = h.ahead
        /\ history'.unchecked["export_rows"] = h.unchecked["export_rows"]
        /\ \/ Fits("ai_requests", 1)
                /\ history'.unchecked["ai_requests"] = h.unchecked["ai_requests"]
           \/ history'.unchecked["ai_requests"] = h.unchecked["ai_requests"] + 1
    <3>1. CASE history' = [h EXCEPT !.unchecked["ai_requests"] = @ + 1]
      <4>1. h.unchecked \in [Metrics -> Nat]
        BY DEF Histories
      <4>2. PICK u : u = [h.unchecked EXCEPT !["ai_requests"] = h.unchecked["ai_requests"] + 1]
        OBVIOUS
      <4>3. /\ u \in [Metrics -> Nat]
            /\ u["ai_requests"] = h.unchecked["ai_requests"] + 1
            /\ u["export_rows"] = h.unchecked["export_rows"]
        BY <4>1, <4>2, Raised, TwoMetrics
      <4>4. history' = [h EXCEPT !.unchecked = u]
        BY <3>1, <4>2
      <4> QED BY <4>3, <4>4 DEF Histories
    <3>2. CASE Fits("ai_requests", 1) /\ history' = h
      BY <3>2
    <3> QED BY <2>1, <2>3, <3>1, <3>2
  <2>5. TypeOK'
    BY <2>1, <2>2, <2>4, TypesKept, SpendKeeps, Typed DEF IInv, TypeOK, Hazards
  <2>6. MonthWithin'
    BY <2>1, <2>2, <2>3, <2>4, PassedMonth
  <2>7. SameRows /\ SameDay
    BY <2>1, <2>3, <2>4 DEF SameRows, SameDay
  <2>8. RowsWithin' /\ DayWithin'
    BY <2>1, <2>2, <2>7, QuietRows, QuietDay DEF IInv
  <2>9. PassedOrAhead'
    BY <2>1, <2>2, <2>3, <2>4, QuietSwitch DEF IInv
  <2> QED BY <2>1, <2>3, <2>4, <2>5, <2>6, <2>8, <2>9, QuietLimits DEF IInv
<1> QED BY <1>1, <1>2

-----------------------------------------------------------------------------
(* The use *)

LEMMA CompleteOK ==
    ASSUME IInv, NEW c \in Callers, Complete(c) PROVE IInv'
<1>1. CASE Refuse(c)
  BY <1>1, RefuseOK DEF Complete
<1>2. CASE ~Refuse(c)
  <2>1. /\ InPhase(c, "ready") /\ Goes(c, "completed")
        /\ UNCHANGED <<switch, flag, limits, counter, rows, spent>>
        /\ history' = [history EXCEPT !.used["ai_requests"] = @ + 1, !.today = @ + 1]
    BY <1>2 DEF Complete
  <2>2. Moves(c, "ready", "completed", 0) /\ "ready" \in Phases /\ "completed" \in Phases
    BY <2>1, GoesMoves DEF IInv, Phases
  <2>3. PICK h \in Histories : h = history
    BY Typed DEF IInv
  <2>4. /\ history' \in Histories /\ history'.highest = h.highest
        /\ history'.unchecked = h.unchecked /\ history'.uncounted = h.uncounted
        /\ history'.today = h.today + 1 /\ history'.unlogged = h.unlogged
        /\ history'.ahead = h.ahead
        /\ history'.used["export_rows"] = h.used["export_rows"]
        /\ history'.used["ai_requests"] = h.used["ai_requests"] + 1
    <3>1. h.used \in [Metrics -> Nat]
      BY DEF Histories
    <3>2. PICK u : u = [h.used EXCEPT !["ai_requests"] = h.used["ai_requests"] + 1]
      OBVIOUS
    <3>3. /\ u \in [Metrics -> Nat]
          /\ u["ai_requests"] = h.used["ai_requests"] + 1
          /\ u["export_rows"] = h.used["export_rows"]
      BY <3>1, <3>2, Raised, TwoMetrics
    <3>4. history' = [h EXCEPT !.used = u, !.today = h.today + 1]
      <4>1. history' = [h EXCEPT !.used["ai_requests"] = @ + 1, !.today = @ + 1]
        BY <2>1, <2>3
      <4> QED BY <3>2, <4>1
    <3>5. h.today + 1 \in Nat
      BY DEF Histories
    <3> QED BY <3>3, <3>4, <3>5 DEF Histories
  <2>5. TypeOK'
    BY <2>1, <2>2, <2>4, TypesKept, Typed DEF IInv, TypeOK
  <2>6. \A d \in Callers \ {c} : call'[d] = call[d]
    BY <2>2 DEF Moves
  <2>7. MonthWithin'
    <3>1. /\ Cardinality(InPhases({"completed"}))' = Cardinality(InPhases({"completed"})) + 1
          /\ Cardinality(InPhases({"ready"}))' = Cardinality(InPhases({"ready"})) - 1
          /\ Cardinality(InPhases({"completed"})) \in Nat
          /\ Cardinality(InPhases({"ready"})) \in Nat
      BY <2>2, <2>6, CountsMove DEF Moves
    <3>2. PICK k \in Nat : k = Max({1, history.highest["ai_requests"]})
      BY Typed, MaxOfTwo DEF IInv
    <3> QED BY <2>1, <2>3, <2>4, <3>1, <3>2, Typed, OthersType DEF IInv, MonthWithin
  <2>8. DayWithin'
    <3>1. /\ Cardinality(InPhases({"completed", "metered"}))'
                = Cardinality(InPhases({"completed", "metered"})) + 1
          /\ Cardinality(InPhases({"quota", "ready"}))'
                = Cardinality(InPhases({"quota", "ready"})) - 1
          /\ Cardinality(InPhases({"completed", "metered"})) \in Nat
          /\ Cardinality(InPhases({"quota", "ready"})) \in Nat
      BY <2>2, <2>6, CountsMove DEF Moves
    <3>2. PICK k \in Nat : k = Max({1, DailyLimit})
      BY MaxOfTwo, LimitsAssumption
    <3> QED BY <2>1, <2>3, <2>4, <3>1, <3>2, Typed, OthersType DEF IInv, DayWithin
  <2>9. RowsWithin'
    <3>1. SameRows
      BY <2>1, <2>3, <2>4 DEF SameRows
    <3> QED BY <2>2, <3>1, QuietRows DEF IInv
  <2>10. PassedOrAhead'
    BY <2>1, <2>2, <2>3, <2>4, QuietSwitch DEF IInv
  <2> QED BY <2>1, <2>3, <2>4, <2>5, <2>7, <2>8, <2>9, <2>10, QuietLimits DEF IInv
<1> QED BY <1>1, <1>2

(* What a use adds to the counter, or to what is not counted.               *)
LEMMA IncrementKeeps ==
    ASSUME TypeOK, NEW m \in Metrics, NEW n \in Nat, IncrementUsage(m, n)
    PROVE  /\ history' \in Histories /\ counter' \in [Metrics -> Nat]
           /\ spent' \in [Hazards -> Nat]
           /\ history'.used = history.used /\ history'.unchecked = history.unchecked
           /\ history'.highest = history.highest /\ history'.today = history.today
           /\ history'.unlogged = history.unlogged /\ history'.ahead = history.ahead
           /\ counter'[m] + history'.uncounted[m] = counter[m] + history.uncounted[m] + n
           /\ history'.uncounted[m] >= history.uncounted[m]
           /\ counter'[m] \in Nat /\ history'.uncounted[m] \in Nat
           /\ \A k \in Metrics \ {m} :
                 counter'[k] = counter[k] /\ history'.uncounted[k] = history.uncounted[k]
<1>1. PICK h \in Histories : h = history
  BY Typed
<1>2. PICK f \in [Metrics -> Nat] : f = counter
  BY Typed
<1>3. h.uncounted \in [Metrics -> Nat] /\ h.uncounted[m] \in Nat /\ f[m] \in Nat
  BY DEF Histories
<1>4. CASE counter' = [counter EXCEPT ![m] = @ + n] /\ UNCHANGED <<history, spent>>
  <2>1. PICK g : g = [f EXCEPT ![m] = f[m] + n]
    OBVIOUS
  <2>2. g \in [Metrics -> Nat] /\ g[m] = f[m] + n /\ \A k \in Metrics \ {m} : g[k] = f[k]
    BY <2>1, Raised
  <2>3. counter' = g /\ history' = h /\ spent' = spent
    BY <1>1, <1>2, <1>4, <2>1
  <2> QED BY <1>1, <1>2, <1>3, <2>2, <2>3 DEF TypeOK
<1>5. CASE /\ Spend("fault") /\ counter' = counter
           /\ history' = [history EXCEPT !.uncounted[m] = @ + n]
  <2>1. PICK g : g = [h.uncounted EXCEPT ![m] = h.uncounted[m] + n]
    OBVIOUS
  <2>2. /\ g \in [Metrics -> Nat] /\ g[m] = h.uncounted[m] + n
        /\ \A k \in Metrics \ {m} : g[k] = h.uncounted[k]
    BY <1>3, <2>1, Raised
  <2>3. history' = [h EXCEPT !.uncounted = g]
    BY <1>1, <1>5, <2>1
  <2>4. /\ history' \in Histories /\ history'.uncounted = g
        /\ history'.used = h.used /\ history'.unchecked = h.unchecked
        /\ history'.highest = h.highest /\ history'.today = h.today
        /\ history'.unlogged = h.unlogged /\ history'.ahead = h.ahead
    BY <2>2, <2>3 DEF Histories
  <2>5. spent' \in [Hazards -> Nat]
    BY <1>5, SpendKeeps DEF Hazards
  <2> QED BY <1>1, <1>2, <1>3, <1>5, <2>2, <2>4, <2>5
<1> QED BY <1>4, <1>5 DEF IncrementUsage

LEMMA MeterCallOK ==
    ASSUME IInv, NEW c \in Callers, MeterCall(c) PROVE IInv'
<1>1. /\ InPhase(c, "completed") /\ Goes(c, "metered") /\ IncrementUsage("ai_requests", 1)
      /\ UNCHANGED <<switch, flag, limits, rows>>
  BY DEF MeterCall
<1>2. Moves(c, "completed", "metered", 0) /\ "completed" \in Phases /\ "metered" \in Phases
  BY <1>1, GoesMoves DEF IInv, Phases
<1>3. /\ history' \in Histories /\ counter' \in [Metrics -> Nat] /\ spent' \in [Hazards -> Nat]
      /\ history'.used = history.used /\ history'.unchecked = history.unchecked
      /\ history'.highest = history.highest /\ history'.today = history.today
      /\ history'.unlogged = history.unlogged /\ history'.ahead = history.ahead
      /\ counter'["ai_requests"] + history'.uncounted["ai_requests"]
            = counter["ai_requests"] + history.uncounted["ai_requests"] + 1
      /\ history'.uncounted["ai_requests"] >= history.uncounted["ai_requests"]
      /\ counter'["ai_requests"] \in Nat /\ history'.uncounted["ai_requests"] \in Nat
      /\ counter'["export_rows"] = counter["export_rows"]
      /\ history'.uncounted["export_rows"] = history.uncounted["export_rows"]
  BY <1>1, TwoMetrics, IncrementKeeps DEF IInv
<1>4. TypeOK'
  BY <1>1, <1>2, <1>3, TypesKept DEF IInv, TypeOK
<1>5. SameRows /\ SameDay
  BY <1>3 DEF SameRows, SameDay
<1>6. MonthWithin'
  <2>1. \A d \in Callers \ {c} : call'[d] = call[d]
    BY <1>2 DEF Moves
  <2>2. /\ Cardinality(InPhases({"completed"}))' = Cardinality(InPhases({"completed"})) - 1
        /\ Cardinality(InPhases({"ready"}))' = Cardinality(InPhases({"ready"}))
        /\ Cardinality(InPhases({"completed"})) \in Nat
        /\ Cardinality(InPhases({"ready"})) \in Nat
    BY <1>2, <2>1, CountsMove DEF Moves
  <2>3. PICK k \in Nat : k = Max({1, history.highest["ai_requests"]})
    BY Typed, MaxOfTwo DEF IInv
  <2> QED BY <1>3, <2>2, <2>3, Typed, OthersType DEF IInv, MonthWithin
<1>7. RowsWithin' /\ DayWithin'
  BY <1>1, <1>2, <1>5, QuietRows, QuietDay DEF IInv
<1>8. PassedOrAhead'
  BY <1>1, <1>2, <1>3, QuietSwitch DEF IInv
<1> QED BY <1>1, <1>3, <1>4, <1>6, <1>7, <1>8, QuietLimits DEF IInv

LEMMA StoreDraftOK ==
    ASSUME IInv, NEW c \in Callers, StoreDraft(c) PROVE IInv'
<1>1. CASE Refuse(c) /\ UNCHANGED spent
  BY <1>1, RefuseOK DEF StoreDraft
<1>2. CASE ~(Refuse(c) /\ UNCHANGED spent)
  <2>1. /\ InPhase(c, "metered") /\ Ends(c) /\ Spend("fault")
        /\ history' = [history EXCEPT !.unlogged = @ + 1]
        /\ UNCHANGED <<switch, flag, limits, counter, rows>>
    BY <1>2 DEF StoreDraft, Refuse
  <2>2. Moves(c, "metered", "idle", 0) /\ "metered" \in Phases /\ "idle" \in Phases
    BY <2>1, EndsMoves DEF IInv, Phases
  <2>3. PICK h \in Histories : h = history
    BY Typed DEF IInv
  <2>4. /\ history' \in Histories /\ history'.highest = h.highest
        /\ history'.used = h.used /\ history'.unchecked = h.unchecked
        /\ history'.uncounted = h.uncounted /\ history'.today = h.today
        /\ history'.unlogged = h.unlogged + 1 /\ history'.ahead = h.ahead
    <3>1. history' = [h EXCEPT !.unlogged = h.unlogged + 1]
      BY <2>1, <2>3
    <3>2. h.unlogged + 1 \in Nat
      BY DEF Histories
    <3> QED BY <3>1, <3>2 DEF Histories
  <2>5. TypeOK'
    BY <2>1, <2>2, <2>4, TypesKept, SpendKeeps, Typed DEF IInv, TypeOK, Hazards
  <2>6. SameMonth /\ SameRows
    BY <2>1, <2>3, <2>4 DEF SameMonth, SameRows
  <2>7. MonthWithin' /\ RowsWithin'
    BY <2>2, <2>6, QuietMonth, QuietRows DEF IInv
  <2>8. DayWithin'
    <3>1. \A d \in Callers \ {c} : call'[d] = call[d]
      BY <2>2 DEF Moves
    <3>2. /\ Cardinality(InPhases({"completed", "metered"}))'
                = Cardinality(InPhases({"completed", "metered"})) - 1
          /\ Cardinality(InPhases({"quota", "ready"}))'
                = Cardinality(InPhases({"quota", "ready"}))
          /\ Cardinality(InPhases({"completed", "metered"})) \in Nat
          /\ Cardinality(InPhases({"quota", "ready"})) \in Nat
      BY <2>2, <3>1, CountsMove DEF Moves
    <3>3. PICK k \in Nat : k = Max({1, DailyLimit})
      BY MaxOfTwo, LimitsAssumption
    <3> QED BY <2>1, <2>3, <2>4, <3>2, <3>3, Typed, OthersType DEF IInv, DayWithin
  <2>9. PassedOrAhead'
    BY <2>1, <2>2, <2>3, <2>4, QuietSwitch DEF IInv
  <2> QED BY <2>1, <2>3, <2>4, <2>5, <2>7, <2>8, <2>9, QuietLimits DEF IInv
<1> QED BY <1>1, <1>2

(* A report is begun while the counter is below the limit: what is not      *)
(* counted yet is in the reports of the others.                            *)
LEMMA CheckRemainingOK ==
    ASSUME IInv, NEW c \in Callers, CheckRemaining(c) PROVE IInv'
<1>1. /\ InPhase(c, "idle")
      /\ UNCHANGED <<switch, flag, limits, counter, rows, history>>
      /\ "idle" \in Phases /\ "building" \in Phases /\ "unbounded" \in Phases
  BY DEF CheckRemaining, Phases
<1>2. /\ SameMonth /\ SameRows /\ SameDay /\ history'.highest = history.highest
      /\ history' \in Histories
  BY <1>1, SameHistory DEF IInv
<1>3. CASE /\ Goes(c, "building") /\ UNCHANGED spent
           /\ counter["export_rows"] < Entitlement("export_rows")
  <2>1. Moves(c, "idle", "building", 0)
    BY <1>1, <1>3, GoesMoves DEF IInv
  <2>2. TypeOK'
    BY <1>1, <1>2, <1>3, <2>1, TypesKept, Typed DEF IInv, TypeOK
  <2>3. MonthWithin' /\ DayWithin'
    BY <1>1, <1>2, <2>1, QuietMonth, QuietDay DEF IInv
  <2>4. RowsWithin'
    <3>1. PICK m \in 0..RowCap : m = call[c].amount
      BY Typed DEF IInv, CallRecords
    <3>2. 0 \in 0..RowCap /\ RowCap \in Nat
      BY LimitsAssumption
    <3>3. /\ call[c].phase = "idle" /\ call'[c].phase = "building" /\ call'[c].amount = 0
          /\ \A d \in Callers \ {c} : call'[d] = call[d]
      BY <2>1 DEF Moves
    <3>4. /\ Cardinality(ExportedRows) \in Nat /\ Cardinality(HeldRows) \in Nat
          /\ Cardinality(HeldRows') \in Nat
          /\ Cardinality(ExportedRows') = Cardinality(ExportedRows) + 0 - 0
          /\ Cardinality(HeldRows') = Cardinality(HeldRows) + RowCap - 0
      BY <1>1, <3>1, <3>2, <3>3, RowsMove DEF IInv
    <3>5. Cardinality(ExportedRows') + Cardinality(HeldRows') <= Cardinality(AllRows)
      BY RowTypes
    <3>6. PICK k \in Nat : k = history.highest["export_rows"]
      BY Typed DEF IInv
    <3>7. Max({1, k}) \in Nat /\ Max({1, k}) >= k
      BY MaxOfTwo
    <3>8. counter["export_rows"] < k
      <4>1. Entitlement("export_rows") \in Nat /\ Entitlement("export_rows") <= k
        BY <3>6, TwoMetrics, Typed DEF IInv, LimitsSeen
      <4> QED BY <1>3, <4>1, Typed DEF IInv
    <3>9. /\ history.used["export_rows"] = counter["export_rows"]
                + Cardinality(ExportedRows) + history.uncounted["export_rows"]
      BY DEF IInv, RowsWithin
    <3>10. Cardinality(AllRows) \in Nat
      BY AllRowsCount, FS_CardinalityType
    <3>11. history.used["export_rows"] + Cardinality(HeldRows')
             <= Max({1, k}) - 1 + Cardinality(AllRows)
                + history.unchecked["export_rows"] + history.uncounted["export_rows"]
      BY <3>2, <3>4, <3>5, <3>7, <3>8, <3>9, <3>10, Typed DEF IInv
    <3> QED BY <1>1, <3>4, <3>6, <3>9, <3>11 DEF RowsWithin, AllRows
  <2>5. PassedOrAhead'
    BY <1>1, <2>1, QuietSwitch DEF IInv
  <2> QED BY <1>1, <1>2, <2>2, <2>3, <2>4, <2>5, QuietLimits DEF IInv
<1>4. CASE Goes(c, "unbounded") /\ Spend("fault")
  <2>1. Moves(c, "idle", "unbounded", 0)
    BY <1>1, <1>4, GoesMoves DEF IInv
  <2>2. TypeOK'
    BY <1>1, <1>2, <1>4, <2>1, TypesKept, SpendKeeps, Typed DEF IInv, TypeOK, Hazards
  <2>3. MonthWithin' /\ DayWithin' /\ RowsWithin'
    BY <1>1, <1>2, <2>1, QuietMonth, QuietDay, QuietRows DEF IInv
  <2>4. PassedOrAhead'
    BY <1>1, <2>1, QuietSwitch DEF IInv
  <2> QED BY <1>1, <1>2, <2>2, <2>3, <2>4, QuietLimits DEF IInv
<1> QED BY <1>3, <1>4 DEF CheckRemaining

(* A finished report has no more rows than were held for it.                *)
LEMMA ExportReportOK ==
    ASSUME IInv, NEW c \in Callers, NEW count \in 0..RowCap, ExportReport(c, count)
    PROVE  IInv'
<1>1. PICK p \in {"building", "unbounded"} : InPhase(c, p)
  BY DEF ExportReport, InPhase
<1>2. /\ UNCHANGED <<switch, flag, limits, counter, rows, spent>>
      /\ p \in Phases /\ "idle" \in Phases /\ "exported" \in Phases
  BY DEF ExportReport, Phases
<1>3. CASE Ends(c) /\ UNCHANGED history
  <2>1. Moves(c, p, "idle", 0)
    BY <1>1, <1>2, <1>3, EndsMoves DEF IInv
  <2>2. /\ SameMonth /\ SameRows /\ SameDay /\ history'.highest = history.highest
        /\ history' \in Histories
    BY <1>2, <1>3, SameHistory DEF IInv
  <2>3. TypeOK'
    BY <1>2, <2>1, <2>2, TypesKept, Typed DEF IInv, TypeOK
  <2>4. MonthWithin' /\ DayWithin' /\ RowsWithin'
    BY <1>2, <2>1, <2>2, QuietMonth, QuietDay, QuietRows DEF IInv
  <2>5. PassedOrAhead'
    BY <1>2, <1>3, <2>1, QuietSwitch DEF IInv
  <2> QED BY <1>2, <2>2, <2>3, <2>4, <2>5, QuietLimits DEF IInv
<1>4. CASE /\ call' = [call EXCEPT ![c] = [phase |-> "exported", amount |-> count]]
           /\ history' = [history EXCEPT !.used["export_rows"] = @ + count,
                 !.unchecked["export_rows"] = IF InPhase(c, "unbounded") THEN @ + count ELSE @]
  <2>1. Moves(c, p, "exported", count)
    BY <1>1, <1>2, <1>4, ExportMoves DEF IInv
  <2>2. PICK h \in Histories : h = history
    BY Typed DEF IInv
  <2>3. PICK extra \in Nat : extra = IF p = "unbounded" THEN count ELSE 0
    BY LimitsAssumption
  <2>4. count \in Nat
    BY LimitsAssumption
  <2>5. /\ history' \in Histories /\ history'.highest = h.highest
        /\ history'.uncounted = h.uncounted /\ history'.today = h.today
        /\ history'.unlogged = h.unlogged /\ history'.ahead = h.ahead
        /\ history'.used["ai_requests"] = h.used["ai_requests"]
        /\ history'.unchecked["ai_requests"] = h.unchecked["ai_requests"]
        /\ history'.used["export_rows"] = h.used["export_rows"] + count
        /\ history'.unchecked["export_rows"] = h.unchecked["export_rows"] + extra
    <3>1. h.used \in [Metrics -> Nat] /\ h.unchecked \in [Metrics -> Nat]
      BY DEF Histories
    <3>2. PICK u : u = [h.used EXCEPT !["export_rows"] = h.used["export_rows"] + count]
      OBVIOUS
    <3>3. PICK v : v = [h.unchecked EXCEPT !["export_rows"] = h.unchecked["export_rows"] + extra]
      OBVIOUS
    <3>4. /\ u \in [Metrics -> Nat]
          /\ u["export_rows"] = h.used["export_rows"] + count
          /\ u["ai_requests"] = h.used["ai_requests"]
      BY <2>4, <3>1, <3>2, Raised, TwoMetrics
    <3>5. /\ v \in [Metrics -> Nat]
          /\ v["export_rows"] = h.unchecked["export_rows"] + extra
          /\ v["ai_requests"] = h.unchecked["ai_requests"]
      BY <3>1, <3>3, Raised, TwoMetrics
    <3>6. history' = [h EXCEPT !.used = u, !.unchecked = v]
      <4>1. h.unchecked["export_rows"] \in Nat
        BY <3>1, TwoMetrics
      <4>2. (IF InPhase(c, "unbounded") THEN h.unchecked["export_rows"] + count
             ELSE h.unchecked["export_rows"]) = h.unchecked["export_rows"] + extra
        BY <1>1, <2>3, <4>1 DEF InPhase
      <4>3. history' = [h EXCEPT !.used["export_rows"] = h.used["export_rows"] + count,
              !.unchecked["export_rows"] = IF InPhase(c, "unbounded")
                    THEN h.unchecked["export_rows"] + count ELSE h.unchecked["export_rows"]]
        BY <1>4, <2>2
      <4> QED BY <3>2, <3>3, <4>2, <4>3
    <3> QED BY <3>4, <3>5, <3>6 DEF Histories
  <2>6. TypeOK'
    BY <1>2, <2>1, <2>5, TypesKept, Typed DEF IInv, TypeOK
  <2>7. SameMonth /\ SameDay
    BY <1>2, <2>2, <2>5 DEF SameMonth, SameDay
  <2>8. MonthWithin' /\ DayWithin'
    BY <1>2, <2>1, <2>7, QuietMonth, QuietDay DEF IInv
  <2>9. RowsWithin'
    <3>1. PICK m \in 0..RowCap : m = call[c].amount
      BY Typed DEF IInv, CallRecords
    <3>2. RowCap \in Nat /\ count <= RowCap
      BY LimitsAssumption
    <3>3. /\ call[c].phase = p /\ call'[c].phase = "exported" /\ call'[c].amount = count
          /\ \A d \in Callers \ {c} : call'[d] = call[d]
      BY <2>1 DEF Moves
    <3>4. /\ Cardinality(ExportedRows) \in Nat /\ Cardinality(HeldRows) \in Nat
          /\ Cardinality(HeldRows') \in Nat
          /\ Cardinality(ExportedRows') = Cardinality(ExportedRows) + count
                - (IF p = "exported" THEN m ELSE 0)
          /\ Cardinality(HeldRows') = Cardinality(HeldRows)
                + 0 - (IF p = "building" THEN RowCap ELSE 0)
      BY <1>2, <3>1, <3>3, RowsMove DEF IInv
    <3>5. PICK k \in Nat : k = Max({1, history.highest["export_rows"]})
      <4>1. PICK j \in Nat : j = history.highest["export_rows"]
        BY Typed DEF IInv
      <4> QED BY <4>1, MaxOfTwo
    <3>6. Cardinality(AllRows) \in Nat
      BY AllRowsCount, FS_CardinalityType
    <3>7. Max({1, history.highest["export_rows"]})' = k /\ AllRows' = AllRows
      BY <2>2, <2>5, <3>5 DEF AllRows
    <3> QED BY <1>2, <2>2, <2>3, <2>4, <2>5, <3>2, <3>4, <3>5, <3>6, <3>7, Typed
            DEF IInv, RowsWithin
  <2>10. PassedOrAhead'
    BY <1>2, <2>1, <2>2, <2>5, QuietSwitch DEF IInv
  <2> QED BY <1>2, <2>2, <2>5, <2>6, <2>8, <2>9, <2>10, QuietLimits DEF IInv
<1> QED BY <1>3, <1>4 DEF ExportReport

LEMMA MeterExportOK ==
    ASSUME IInv, NEW c \in Callers, MeterExport(c) PROVE IInv'
<1>1. PICK m \in 0..RowCap : m = call[c].amount
  BY Typed DEF IInv, CallRecords
<1>2. /\ InPhase(c, "exported") /\ Ends(c) /\ IncrementUsage("export_rows", m)
      /\ UNCHANGED <<switch, flag, limits, rows>>
      /\ m \in Nat /\ RowCap \in Nat /\ 0 \in 0..RowCap
  BY <1>1, LimitsAssumption DEF MeterExport
<1>3. Moves(c, "exported", "idle", 0) /\ "exported" \in Phases /\ "idle" \in Phases
  BY <1>2, EndsMoves DEF IInv, Phases
<1>4. /\ history' \in Histories /\ counter' \in [Metrics -> Nat] /\ spent' \in [Hazards -> Nat]
      /\ history'.used = history.used /\ history'.unchecked = history.unchecked
      /\ history'.highest = history.highest /\ history'.today = history.today
      /\ history'.unlogged = history.unlogged /\ history'.ahead = history.ahead
      /\ counter'["export_rows"] + history'.uncounted["export_rows"]
            = counter["export_rows"] + history.uncounted["export_rows"] + m
      /\ history'.uncounted["export_rows"] >= history.uncounted["export_rows"]
      /\ counter'["export_rows"] \in Nat /\ history'.uncounted["export_rows"] \in Nat
      /\ counter'["ai_requests"] = counter["ai_requests"]
      /\ history'.uncounted["ai_requests"] = history.uncounted["ai_requests"]
  BY <1>2, TwoMetrics, IncrementKeeps DEF IInv
<1>5. TypeOK'
  BY <1>2, <1>3, <1>4, TypesKept DEF IInv, TypeOK
<1>6. SameMonth /\ SameDay
  BY <1>4 DEF SameMonth, SameDay
<1>7. MonthWithin' /\ DayWithin'
  BY <1>2, <1>3, <1>6, QuietMonth, QuietDay DEF IInv
<1>8. RowsWithin'
  <2>1. /\ call[c].phase = "exported" /\ call'[c].phase = "idle" /\ call'[c].amount = 0
        /\ \A d \in Callers \ {c} : call'[d] = call[d]
    BY <1>3 DEF Moves
  <2>2. /\ Cardinality(ExportedRows) \in Nat /\ Cardinality(HeldRows) \in Nat
        /\ Cardinality(ExportedRows') \in Nat
        /\ Cardinality(ExportedRows') = Cardinality(ExportedRows) + 0 - m
        /\ Cardinality(HeldRows') = Cardinality(HeldRows) + 0 - 0
    BY <1>1, <1>2, <1>3, <2>1, RowsMove DEF IInv
  <2>3. PICK k \in Nat : k = Max({1, history.highest["export_rows"]})
    <3>1. PICK j \in Nat : j = history.highest["export_rows"]
      BY Typed DEF IInv
    <3> QED BY <3>1, MaxOfTwo
  <2>4. Cardinality(AllRows) \in Nat
    BY AllRowsCount, FS_CardinalityType
  <2>5. Max({1, history.highest["export_rows"]})' = k /\ AllRows' = AllRows
    BY <1>4, <2>3 DEF AllRows
  <2> QED BY <1>2, <1>4, <2>2, <2>3, <2>4, <2>5, Typed DEF IInv, RowsWithin
<1>9. PassedOrAhead'
  BY <1>2, <1>3, <1>4, QuietSwitch DEF IInv
<1> QED BY <1>2, <1>4, <1>5, <1>7, <1>8, <1>9, QuietLimits DEF IInv

-----------------------------------------------------------------------------
(* The store, its plan, and administrators *)

LEMMA SameCalls ==
    ASSUME UNCHANGED call
    PROVE  /\ \A P : InPhases(P)' = InPhases(P)
           /\ ExportedRows' = ExportedRows /\ HeldRows' = HeldRows
           /\ AllRows' = AllRows /\ InFlight' = InFlight
BY DEF InPhases, ExportedRows, HeldRows, AllRows, InFlight, InPhase

LEMMA CreateOrgOK ==
    ASSUME IInv, CreateOrg PROVE IInv'
<1>1. /\ UNCHANGED <<switch, flag, plan, granted, counter, rows, call, history>>
      /\ store' \in {"subscribed", "unsubscribed"}
  BY DEF CreateOrg
<1>2. spent' \in [Hazards -> Nat]
  BY SpendKeeps DEF IInv, CreateOrg, Hazards
<1>3. TypeOK'
  BY <1>1, <1>2 DEF IInv, TypeOK
<1>4. LimitsSeen'
  BY <1>1 DEF IInv, LimitsSeen, Entitlement
<1>5. MonthWithin' /\ DayWithin' /\ RowsWithin' /\ PassedOrAhead'
  BY <1>1, SameCalls DEF IInv, MonthWithin, DayWithin, RowsWithin, PassedOrAhead, SwitchOff
<1> QED BY <1>3, <1>4, <1>5 DEF IInv

(* The highest limit follows what the plan and the overrides give.          *)
LEMMA LimitsChangeOK ==
    ASSUME IInv, Spend("admin"),
           store' \in {"absent", "unsubscribed", "subscribed"}, plan' \in Limits,
           granted' \in [Metrics -> Limits \cup {NoGrant}],
           UNCHANGED <<switch, flag, counter, rows, call>>,
           history' = [history EXCEPT !.highest = HighestNow]
    PROVE  IInv'
<1>1. PICK h \in Histories : h = history
  BY Typed DEF IInv
<1>2. h.highest \in [Metrics -> Limits]
  BY DEF Histories
<1>3. \A m \in Metrics : Entitlement(m)' \in Limits
  BY DEF Entitlement
<1>4. PICK g : g = HighestNow
  OBVIOUS
<1>5. ASSUME NEW m \in Metrics
      PROVE  /\ g[m] \in Limits /\ g[m] >= h.highest[m] /\ g[m] >= Entitlement(m)'
  <2>1. PICK a, b \in Limits : a = h.highest[m] /\ b = Entitlement(m)'
    BY <1>2, <1>3
  <2>2. a \in Nat /\ b \in Nat
    BY LimitsAssumption
  <2>3. g[m] = Max({a, b})
    BY <1>1, <1>4, <2>1 DEF HighestNow
  <2> QED BY <2>1, <2>2, <2>3, MaxOfTwo
<1>6. g \in [Metrics -> Limits]
  BY <1>4, <1>5 DEF HighestNow
<1>7. /\ history' \in Histories /\ history'.highest = g
      /\ history'.used = h.used /\ history'.unchecked = h.unchecked
      /\ history'.uncounted = h.uncounted /\ history'.today = h.today
      /\ history'.unlogged = h.unlogged /\ history'.ahead = h.ahead
  <2>1. history' = [h EXCEPT !.highest = g]
    BY <1>1, <1>4
  <2> QED BY <1>6, <2>1 DEF Histories
<1>8. TypeOK'
  <2>1. spent' \in [Hazards -> Nat]
    BY SpendKeeps DEF IInv, Hazards
  <2> QED BY <1>7, <2>1 DEF IInv, TypeOK, Histories
<1>9. LimitsSeen'
  <2> SUFFICES ASSUME NEW m \in Metrics PROVE Entitlement(m)' <= history'.highest[m]
    BY DEF LimitsSeen
  <2>1. PICK b \in Nat : b = Entitlement(m)'
    BY <1>3, LimitsAssumption
  <2>2. g[m] \in Nat /\ g[m] >= b
    BY <1>5, <2>1, LimitsAssumption
  <2> QED BY <1>7, <2>1, <2>2
<1>10. \A m \in Metrics :
         /\ Max({1, history.highest[m]}) \in Nat /\ Max({1, history'.highest[m]}) \in Nat
         /\ Max({1, history'.highest[m]}) >= Max({1, history.highest[m]})
  <2> SUFFICES ASSUME NEW m \in Metrics
               PROVE  /\ Max({1, h.highest[m]}) \in Nat /\ Max({1, g[m]}) \in Nat
                      /\ Max({1, g[m]}) >= Max({1, h.highest[m]})
    BY <1>1, <1>7
  <2>1. h.highest[m] \in Nat /\ g[m] \in Nat /\ g[m] >= h.highest[m]
    BY <1>2, <1>5, LimitsAssumption
  <2> QED BY <2>1, MaxOfTwo
<1>11. MonthWithin'
  <2>1. Cardinality(InPhases({"ready"})) \in Nat
    BY FiniteCallers DEF InPhases
  <2>2. PICK j, k \in Nat : /\ j = Max({1, history.highest["ai_requests"]})
                            /\ k = Max({1, history'.highest["ai_requests"]}) /\ k >= j
    BY <1>10, TwoMetrics
  <2> QED BY <1>1, <1>7, <2>1, <2>2, SameCalls, Typed, OthersType DEF IInv, MonthWithin
<1>12. RowsWithin'
  <2>1. PICK j, k \in Nat : /\ j = Max({1, history.highest["export_rows"]})
                            /\ k = Max({1, history'.highest["export_rows"]}) /\ k >= j
    BY <1>10, TwoMetrics
  <2>2. Cardinality(AllRows) \in Nat
    BY AllRowsCount, FS_CardinalityType
  <2> QED BY <1>1, <1>7, <2>1, <2>2, SameCalls, RowTypes, Typed DEF IInv, RowsWithin
<1>13. DayWithin' /\ PassedOrAhead'
  BY <1>1, <1>7, SameCalls DEF IInv, DayWithin, PassedOrAhead, SwitchOff
<1> QED BY <1>8, <1>9, <1>11, <1>12, <1>13 DEF IInv

LEMMA ChangePlanOK ==
    ASSUME IInv, NEW value \in Limits, ChangePlan(value) PROVE IInv'
<1>1. granted \in [Metrics -> Limits \cup {NoGrant}]
  BY DEF IInv, TypeOK
<1> QED BY <1>1, LimitsChangeOK DEF ChangePlan

LEMMA GrantEntitlementOK ==
    ASSUME IInv, NEW m \in Metrics, NEW value \in Limits, GrantEntitlement(m, value)
    PROVE  IInv'
<1>1. /\ granted' \in [Metrics -> Limits \cup {NoGrant}] /\ plan \in Limits
      /\ store \in {"absent", "unsubscribed", "subscribed"}
  BY DEF IInv, TypeOK, GrantEntitlement
<1> QED BY <1>1, LimitsChangeOK DEF GrantEntitlement

(* Whatever is in flight when a switch is turned on is ahead of it.         *)
LEMMA SetKillSwitchOK ==
    ASSUME IInv, NEW scope \in Scopes, NEW state \in {"on", "off"},
           SetKillSwitch(scope, state)
    PROVE  IInv'
<1>1. UNCHANGED <<flag, limits, counter, rows, call>>
  BY DEF SetKillSwitch
<1>2. PICK h \in Histories : h = history
  BY Typed DEF IInv
<1>3. PICK S \in SUBSET Callers : S = IF state = "on" THEN InFlight ELSE h.ahead
  BY DEF Histories, InFlight
<1>4. /\ history' \in Histories /\ history'.ahead = S
      /\ history'.used = h.used /\ history'.unchecked = h.unchecked
      /\ history'.uncounted = h.uncounted /\ history'.today = h.today
      /\ history'.unlogged = h.unlogged /\ history'.highest = h.highest
  <2>1. history' = [h EXCEPT !.ahead = S]
    BY <1>2, <1>3 DEF SetKillSwitch
  <2> QED BY <2>1 DEF Histories
<1>5. TypeOK'
  <2>1. spent' \in [Hazards -> Nat]
    BY SpendKeeps DEF IInv, Hazards, SetKillSwitch
  <2>2. switch' \in [Scopes -> RowStates]
    BY DEF IInv, TypeOK, SetKillSwitch, RowStates
  <2> QED BY <1>1, <1>4, <2>1, <2>2 DEF IInv, TypeOK, Histories, limits
<1>6. LimitsSeen' /\ MonthWithin' /\ DayWithin' /\ RowsWithin'
  BY <1>1, <1>2, <1>4, SameCalls, QuietLimits DEF IInv, MonthWithin, DayWithin, RowsWithin
<1>7. PassedOrAhead'
  <2>1. CASE state = "on"
    BY <1>1, <1>3, <1>4, <2>1, SameCalls DEF PassedOrAhead
  <2>2. CASE state = "off"
    <3>1. switch' = [switch EXCEPT ![scope] = "off"] /\ switch \in [Scopes -> RowStates]
      BY <2>2 DEF SetKillSwitch, IInv, TypeOK
    <3>2. SwitchOff => SwitchOff'
      BY <3>1 DEF SwitchOff, Scopes
    <3> QED BY <1>1, <1>2, <1>3, <1>4, <2>2, <3>2, SameCalls DEF IInv, PassedOrAhead
  <2> QED BY <2>1, <2>2
<1> QED BY <1>5, <1>6, <1>7 DEF IInv

LEMMA SetFeatureFlagOK ==
    ASSUME IInv, NEW state \in {"on", "off"}, SetFeatureFlag(state) PROVE IInv'
<1>1. UNCHANGED <<switch, limits, counter, rows, call, history>>
  BY DEF SetFeatureFlag
<1>2. TypeOK'
  <2>1. spent' \in [Hazards -> Nat]
    BY SpendKeeps DEF IInv, Hazards, SetFeatureFlag
  <2>2. flag' \in [Scopes -> RowStates]
    BY DEF IInv, TypeOK, SetFeatureFlag, RowStates
  <2> QED BY <1>1, <2>1, <2>2 DEF IInv, TypeOK, limits
<1>3. /\ LimitsSeen' /\ MonthWithin' /\ DayWithin' /\ RowsWithin' /\ PassedOrAhead'
  BY <1>1, SameCalls, QuietLimits
     DEF IInv, MonthWithin, DayWithin, RowsWithin, PassedOrAhead, SwitchOff
<1> QED BY <1>2, <1>3 DEF IInv

-----------------------------------------------------------------------------
(* The date *)

(* A new month begins with what is under way.                               *)
LEMMA NewMonthOK ==
    ASSUME IInv, NewMonth PROVE IInv'
<1>1. /\ UNCHANGED <<switch, flag, limits, rows, call>>
      /\ counter' = [m \in Metrics |-> 0]
  BY DEF NewMonth
<1>2. PICK h \in Histories : h = history
  BY Typed DEF IInv
<1>3. PICK u, z, g : /\ u = Uncounted /\ z = [m \in Metrics |-> 0]
                    /\ g = [m \in Metrics |-> Entitlement(m)]
  OBVIOUS
<1>4. /\ u["ai_requests"] = Cardinality(InPhases({"completed"}))
      /\ u["export_rows"] = Cardinality(ExportedRows)
      /\ Cardinality(InPhases({"completed"})) \in Nat
      /\ Cardinality(InPhases({"ready"})) \in Nat
      /\ Cardinality(InPhases({"completed"})) + Cardinality(InPhases({"ready"})) <= Others + 1
  <2>1. {c \in Callers : InPhase(c, "completed")} = InPhases({"completed"})
    BY DEF InPhases, InPhase
  <2>2. {"completed"} \cap {"ready"} = {}
    OBVIOUS
  <2>3. u["ai_requests"] = Cardinality({c \in Callers : InPhase(c, "completed")})
    BY <1>3, TwoMetrics DEF Uncounted
  <2>4. u["export_rows"] = Cardinality(ExportedRows)
    BY <1>3, TwoMetrics DEF Uncounted
  <2> QED BY <2>1, <2>2, <2>3, <2>4, DisjointPhases
<1>5. u \in [Metrics -> Nat] /\ z \in [Metrics -> Nat] /\ g \in [Metrics -> Limits]
  <2>1. \A m \in Metrics : u[m] \in Nat
    BY <1>4, RowTypes DEF Metrics
  <2>2. DOMAIN u = Metrics /\ u = [m \in Metrics |-> u[m]]
    BY <1>3 DEF Uncounted
  <2>3. g \in [Metrics -> Limits]
    BY <1>3, Typed DEF IInv
  <2> QED BY <1>3, <2>1, <2>2, <2>3
<1>6. /\ history' \in Histories /\ history'.used = u
      /\ history'.unchecked = z /\ history'.uncounted = z /\ history'.highest = g
      /\ history'.today = h.today /\ history'.unlogged = h.unlogged
      /\ history'.ahead = h.ahead
  <2>1. history' = [h EXCEPT !.used = u, !.unchecked = z, !.uncounted = z, !.highest = g]
    BY <1>2, <1>3 DEF NewMonth
  <2> QED BY <1>5, <2>1 DEF Histories
<1>7. /\ z["ai_requests"] = 0 /\ z["export_rows"] = 0
      /\ counter'["ai_requests"] = 0 /\ counter'["export_rows"] = 0
  BY <1>1, <1>3, TwoMetrics
<1>8. TypeOK'
  <2>1. spent' \in [Hazards -> Nat]
    BY SpendKeeps DEF IInv, Hazards, NewMonth
  <2> QED BY <1>1, <1>6, <2>1 DEF IInv, TypeOK, Histories, limits
<1>9. LimitsSeen'
  <2> SUFFICES ASSUME NEW m \in Metrics PROVE Entitlement(m)' <= history'.highest[m]
    BY DEF LimitsSeen
  <2>1. Entitlement(m)' = Entitlement(m) /\ Entitlement(m) \in Nat
    BY <1>1, Typed DEF IInv, limits, Entitlement
  <2> QED BY <1>3, <1>6, <2>1
<1>10. PICK a, b \in Nat : /\ a = g["ai_requests"] /\ b = g["export_rows"]
  BY <1>5, TwoMetrics, LimitsAssumption
<1>11. /\ Max({1, a}) \in Nat /\ Max({1, a}) >= 1
       /\ Max({1, b}) \in Nat /\ Max({1, b}) >= 1
  BY MaxOfTwo
<1>12. MonthWithin'
  BY <1>4, <1>6, <1>7, <1>10, <1>11, <1>1, SameCalls, OthersType DEF MonthWithin
<1>13. RowsWithin'
  <2>1. Cardinality(AllRows) \in Nat
    BY AllRowsCount, FS_CardinalityType
  <2> QED BY <1>4, <1>6, <1>7, <1>10, <1>11, <1>1, <2>1, SameCalls, RowTypes DEF RowsWithin
<1>14. DayWithin' /\ PassedOrAhead'
  BY <1>1, <1>2, <1>6, SameCalls DEF IInv, DayWithin, PassedOrAhead, SwitchOff
<1> QED BY <1>8, <1>9, <1>12, <1>13, <1>14 DEF IInv

LEMMA NewDayOK ==
    ASSUME IInv, NewDay PROVE IInv'
<1>1. UNCHANGED <<switch, flag, limits, counter, call>> /\ rows' = 0
  BY DEF NewDay
<1>2. PICK h \in Histories : h = history
  BY Typed DEF IInv
<1>3. /\ Unlogged = Cardinality(InPhases({"completed", "metered"}))
      /\ Cardinality(InPhases({"completed", "metered"})) \in Nat
      /\ Cardinality(InPhases({"quota", "ready"})) \in Nat
      /\ Cardinality(InPhases({"completed", "metered"}))
            + Cardinality(InPhases({"quota", "ready"})) <= Others + 1
  <2>1. {"completed", "metered"} \cap {"quota", "ready"} = {}
    OBVIOUS
  <2> QED BY <2>1, DisjointPhases DEF Unlogged, InPhases
<1>4. PICK n \in Nat : n = Unlogged
  BY <1>3
<1>5. /\ history' \in Histories /\ history'.today = n /\ history'.unlogged = 0
      /\ history'.used = h.used /\ history'.unchecked = h.unchecked
      /\ history'.uncounted = h.uncounted /\ history'.highest = h.highest
      /\ history'.ahead = h.ahead
  <2>1. history' = [h EXCEPT !.today = n, !.unlogged = 0]
    BY <1>2, <1>4 DEF NewDay
  <2> QED BY <2>1 DEF Histories
<1>6. TypeOK'
  <2>1. spent' \in [Hazards -> Nat]
    BY SpendKeeps DEF IInv, Hazards, NewDay
  <2> QED BY <1>1, <1>5, <2>1, LimitsAssumption DEF IInv, TypeOK, Histories, limits
<1>7. DayWithin'
  <2>1. Max({1, DailyLimit}) \in Nat /\ Max({1, DailyLimit}) >= 1
    BY MaxOfTwo, LimitsAssumption
  <2> QED BY <1>1, <1>3, <1>4, <1>5, <2>1, SameCalls, OthersType DEF DayWithin
<1>8. LimitsSeen' /\ MonthWithin' /\ RowsWithin' /\ PassedOrAhead'
  BY <1>1, <1>2, <1>5, SameCalls, QuietLimits
     DEF IInv, MonthWithin, RowsWithin, PassedOrAhead, SwitchOff
<1> QED BY <1>6, <1>7, <1>8 DEF IInv

-----------------------------------------------------------------------------
(* Every behaviour *)

LEMMA InitOK ==
    ASSUME Init PROVE IInv
<1>1. PICK z : z = [m \in Metrics |-> 0]
  OBVIOUS
<1>2. PICK g : g = [m \in Metrics |-> plan]
  OBVIOUS
<1>3. /\ z \in [Metrics -> Nat] /\ z["ai_requests"] = 0 /\ z["export_rows"] = 0
      /\ g \in [Metrics -> Limits] /\ \A m \in Metrics : g[m] = plan
      /\ plan \in Limits /\ plan \in Nat
  BY <1>1, <1>2, TwoMetrics, LimitsAssumption DEF Init
<1>4. /\ counter = z /\ rows = 0
      /\ history = [used |-> z, today |-> 0, unchecked |-> z, uncounted |-> z,
                    unlogged |-> 0, highest |-> g, ahead |-> {}]
  BY <1>1, <1>2 DEF Init
<1>5. \A c \in Callers : call[c].phase = "idle" /\ call[c].amount = 0
  BY DEF Init, Idle
<1>6. TypeOK
  <2>1. history \in Histories
    BY <1>3, <1>4 DEF Histories
  <2>2. call \in [Callers -> CallRecords]
    BY LimitsAssumption DEF Init, Idle, CallRecords, Phases
  <2> QED BY <1>3, <1>4, <1>5, <2>1, <2>2, LimitsAssumption
          DEF Init, TypeOK, Histories, CallRecords, Phases, RowStates
<1>7. LimitsSeen
  BY <1>3, <1>4 DEF Init, LimitsSeen, Entitlement
<1>8. /\ InPhases({"completed"}) = {} /\ InPhases({"ready"}) = {}
      /\ InPhases({"quota", "ready"}) = {} /\ InPhases({"completed", "metered"}) = {}
      /\ ExportedRows = {} /\ HeldRows = {} /\ InFlight = {}
  BY <1>5 DEF InPhases, ExportedRows, HeldRows, InFlight, InPhase
<1>9. Cardinality({}) = 0
  BY FS_EmptySet
<1>10. /\ Max({1, plan}) \in Nat /\ Max({1, plan}) >= 1
       /\ Max({1, DailyLimit}) \in Nat
  BY <1>3, MaxOfTwo, LimitsAssumption
<1>11. Cardinality(AllRows) \in Nat
  BY AllRowsCount, FS_CardinalityType
<1>12. /\ history.used["ai_requests"] = 0 /\ history.used["export_rows"] = 0
       /\ history.unchecked["ai_requests"] = 0 /\ history.unchecked["export_rows"] = 0
       /\ history.uncounted["ai_requests"] = 0 /\ history.uncounted["export_rows"] = 0
       /\ counter["ai_requests"] = 0 /\ counter["export_rows"] = 0
       /\ history.today = 0 /\ history.unlogged = 0 /\ rows = 0
       /\ history.highest["ai_requests"] = plan /\ history.highest["export_rows"] = plan
  BY <1>3, <1>4, TwoMetrics
<1>13. PICK j, k, n \in Nat : /\ j = Max({1, history.highest["ai_requests"]})
                              /\ k = Max({1, history.highest["export_rows"]})
                              /\ n = Max({1, DailyLimit}) /\ k >= 1
  BY <1>10, <1>12
<1>14. /\ Cardinality(InPhases({"completed"})) = 0 /\ Cardinality(InPhases({"ready"})) = 0
       /\ Cardinality(InPhases({"quota", "ready"})) = 0
       /\ Cardinality(InPhases({"completed", "metered"})) = 0
       /\ Cardinality(ExportedRows) = 0 /\ Cardinality(HeldRows) = 0
  BY <1>8, <1>9
<1>15. MonthWithin /\ DayWithin
  BY <1>12, <1>13, <1>14, OthersType DEF MonthWithin, DayWithin
<1>16. RowsWithin
  BY <1>11, <1>12, <1>13, <1>14 DEF RowsWithin
<1>17. PassedOrAhead
  BY <1>8 DEF PassedOrAhead
<1> QED BY <1>6, <1>7, <1>17, <1>15, <1>16 DEF IInv

LEMMA CallsOK ==
    ASSUME IInv, NEW c \in Callers, Calls(c) PROVE IInv'
BY LoadControlOK, ScreenUntrustedOK, CheckQuotaOK, CheckLimitOK, CompleteOK, MeterCallOK,
   DecodeFailsOK, StoreDraftOK, CheckRemainingOK, MeterExportOK, ExportReportOK DEF Calls

LEMMA StutterOK ==
    ASSUME IInv, UNCHANGED vars PROVE IInv'
<1>1. UNCHANGED <<switch, flag, limits, store, plan, granted, counter, rows, call, history, spent>>
  BY DEF vars, limits
<1>2. TypeOK' /\ LimitsSeen'
  BY <1>1, QuietLimits DEF IInv, TypeOK
<1>3. MonthWithin' /\ DayWithin' /\ RowsWithin' /\ PassedOrAhead'
  BY <1>1, SameCalls DEF IInv, MonthWithin, DayWithin, RowsWithin, PassedOrAhead, SwitchOff
<1> QED BY <1>2, <1>3 DEF IInv

LEMMA NextOK ==
    ASSUME IInv, [Next]_vars PROVE IInv'
<1>1. ASSUME NEW c \in Callers, Calls(c) PROVE IInv'
  BY <1>1, CallsOK
<1>2. ASSUME NEW scope \in Scopes, NEW state \in {"on", "off"}, SetKillSwitch(scope, state)
      PROVE  IInv'
  BY <1>2, SetKillSwitchOK
<1>3. ASSUME NEW state \in {"on", "off"}, SetFeatureFlag(state) PROVE IInv'
  BY <1>3, SetFeatureFlagOK
<1>4. ASSUME NEW value \in Limits, ChangePlan(value) PROVE IInv'
  BY <1>4, ChangePlanOK
<1>5. ASSUME NEW m \in Metrics, NEW value \in Limits, GrantEntitlement(m, value) PROVE IInv'
  BY <1>5, GrantEntitlementOK
<1>6. CASE NewMonth \/ NewDay
  BY <1>6, NewMonthOK, NewDayOK
<1>7. CASE CreateOrg
  BY <1>7, CreateOrgOK
<1>8. CASE UNCHANGED vars
  BY <1>8, StutterOK
<1> QED BY <1>1, <1>2, <1>3, <1>4, <1>5, <1>6, <1>7, <1>8 DEF Next

(* The numbers of every period stay in step and within their bounds, and    *)
(* what is in flight is ahead of a switch that is on.                       *)
THEOREM Invariance == Spec => []IInv
<1>1. Init => IInv
  BY InitOK
<1>2. IInv /\ [Next]_vars => IInv'
  BY NextOK
<1> QED BY <1>1, <1>2, PTL DEF Spec

(* Every variable keeps its type; only an exported report has rows to be    *)
(* counted.                                                                *)
THEOREM TypeCorrect == Spec => []TypeOK
<1>1. IInv => TypeOK
  BY DEF IInv
<1> QED BY <1>1, Invariance, PTL

(* Every answered call and every exported row is in the month's counter, on *)
(* its way there, or could not be counted.                                  *)
THEOREM AllUseIsCounted == Spec => []UseIsCounted
<1>1. IInv => UseIsCounted
  <2> SUFFICES ASSUME IInv, NEW m \in Metrics
               PROVE  history.used[m] = counter[m] + Uncounted[m] + history.uncounted[m]
    BY DEF UseIsCounted
  <2>1. CASE m = "ai_requests"
    <3>1. Uncounted[m] = Cardinality(InPhases({"completed"}))
      <4>1. {c \in Callers : InPhase(c, "completed")} = InPhases({"completed"})
        BY DEF InPhases, InPhase
      <4> QED BY <2>1, <4>1 DEF Uncounted
    <3> QED BY <2>1, <3>1 DEF IInv, MonthWithin
  <2>2. CASE m = "export_rows"
    <3>1. Uncounted[m] = Cardinality(ExportedRows)
      BY <2>2 DEF Uncounted
    <3> QED BY <2>2, <3>1 DEF IInv, RowsWithin
  <2> QED BY <2>1, <2>2 DEF Metrics
<1> QED BY <1>1, Invariance, PTL

(* However many callers pass on the same reading, what is used beyond the   *)
(* limit is at most what the others had under way, apart from what was      *)
(* never checked or never counted.                                          *)
THEOREM OverrunsAreBounded == Spec => []OverrunIsBounded
<1>1. IInv => OverrunIsBounded
  <2> SUFFICES ASSUME IInv PROVE OverrunIsBounded
    OBVIOUS
  <2>1. /\ Cardinality(InPhases({"ready"})) \in Nat
        /\ Cardinality(InPhases({"quota", "ready"})) \in Nat
    BY FiniteCallers DEF InPhases
  <2>2. PICK a, b, k \in Nat : /\ a = Max({1, history.highest["ai_requests"]})
                              /\ b = Max({1, history.highest["export_rows"]})
                              /\ k = Max({1, DailyLimit})
    <3>1. PICK i, j \in Nat : /\ i = history.highest["ai_requests"]
                             /\ j = history.highest["export_rows"]
      BY Typed DEF IInv
    <3> QED BY <3>1, MaxOfTwo, LimitsAssumption
  <2>3. PICK n \in Nat : n = (Others + 1) * RowCap /\ n = Cardinality(AllRows)
    BY AllRowsCount, FS_CardinalityType
  <2>4. history.used["ai_requests"]
          <= a + Others + history.unchecked["ai_requests"] + history.uncounted["ai_requests"]
    BY <2>1, <2>2, Typed, OthersType DEF IInv, MonthWithin
  <2>5. history.today <= k + Others + history.unlogged
    BY <2>1, <2>2, Typed, OthersType DEF IInv, DayWithin
  <2>6. history.used["export_rows"]
          <= b - 1 + n + history.unchecked["export_rows"] + history.uncounted["export_rows"]
    BY <2>2, <2>3, RowTypes, Typed DEF IInv, RowsWithin
  <2> QED BY <2>2, <2>3, <2>4, <2>5, <2>6 DEF OverrunIsBounded
<1> QED BY <1>1, Invariance, PTL

(* A kill switch that is on stops every call that was not already past it.  *)
THEOREM SwitchesStop == Spec => SwitchStops
<1>1. IInv /\ [Next]_vars =>
        [\A c \in Callers :
          (InPhase(c, "ready") /\ call'[c].phase = "completed") =>
             \/ c \in history.ahead
             \/ switch["platform"] # "on" /\ (switch["tenant"] = "on" => switch["platform"] = "off")]_vars
  BY DEF IInv, PassedOrAhead, InFlight, InPhase, SwitchOff
<1> QED BY <1>1, Invariance, PTL DEF Spec, SwitchStops
=============================================================================
