--------------------------- MODULE CashLeg_proofs ---------------------------
(***************************************************************************)
(* Theorems about CashLeg, for any accounts, rails, tables and questions.  *)
(*                                                                         *)
(* The gate and the specialist are functions, so the invariant is short: a *)
(* record is what the gate answered to a situation, and what was emitted   *)
(* is what the specialist answers with a decision that the caller holds.   *)
(* The rest is what those two functions can answer.  A function that asks  *)
(* one question after another (FirstOf) is taken apart from its end: an    *)
(* answer that only the last group of questions gives says no to all the   *)
(* groups before it (Falls).                                               *)
(***************************************************************************)
EXTENDS CashLeg, Sums, SequenceTheorems

Tests(A) == \E X : A \in Seq(X)
Some(A) == \E i \in DOMAIN A : A[i][1]
Clear(A) == \A i \in DOMAIN A : ~A[i][1]
NoneProceeds(A) == \A i \in DOMAIN A : A[i][2].decision # "PROCEED"

\* FirstOf answers with the first test that holds.
LEMMA FirstOfIs ==
    ASSUME NEW A, Tests(A), Some(A)
    PROVE  \E i \in DOMAIN A : /\ A[i][1] /\ FirstOf(A) = A[i][2]
                               /\ \A j \in DOMAIN A : j < i => ~A[j][1]
<1> DEFINE H == {i \in DOMAIN A : A[i][1]}
<1>1. H \in SUBSET Nat /\ H # {} /\ DOMAIN A \subseteq Nat
  BY DEF Tests, Some
<1> DEFINE i == Min(H)
<1>2. i \in H /\ \A j \in H : i <= j
  BY <1>1, MinIsLeast
<1>3. FirstOf(A) = A[i][2]
  BY DEF FirstOf
<1> HIDE DEF i
<1>4. \A j \in DOMAIN A : j < i => ~A[j][1]
  <2> SUFFICES ASSUME NEW j \in DOMAIN A, j < i, A[j][1] PROVE FALSE
    OBVIOUS
  <2>1. i <= j /\ i \in Nat /\ j \in Nat
    BY <1>1, <1>2
  <2> QED
    BY <2>1
<1> QED
  BY <1>2, <1>3, <1>4

\* Two groups of tests, one after the other.
Joins(C, A, B) ==
    /\ \A i \in DOMAIN A : i \in DOMAIN C /\ C[i] = A[i]
    /\ \A i \in DOMAIN B : i + Len(A) \in DOMAIN C /\ C[i + Len(A)] = B[i]
    /\ \A k \in DOMAIN C : \/ k \in DOMAIN A /\ C[k] = A[k]
                           \/ \E i \in DOMAIN B : k = i + Len(A) /\ C[k] = B[i]

LEMMA Joined ==
    ASSUME NEW A, NEW B, Tests(A), Tests(B)
    PROVE  Tests(A \o B) /\ Joins(A \o B, A, B)
<1>1. PICK X : A \in Seq(X)
  BY DEF Tests
<1>2. PICK Y : B \in Seq(Y)
  BY DEF Tests
<1>3. A \in Seq(X \cup Y) /\ B \in Seq(X \cup Y)
  <2>1. X \subseteq X \cup Y /\ Y \subseteq X \cup Y
    OBVIOUS
  <2> QED
    BY <1>1, <1>2, <2>1, SeqMonotonic
<1> DEFINE Z == X \cup Y
<1> HIDE DEF Z
<1>4. /\ A \o B \in Seq(Z)
      /\ Len(A \o B) = Len(A) + Len(B)
      /\ \A i \in 1 .. Len(A) + Len(B) :
            (A \o B)[i] = IF i <= Len(A) THEN A[i] ELSE B[i - Len(A)]
  BY <1>3, ConcatProperties DEF Z
<1>5. /\ DOMAIN A = 1..Len(A) /\ DOMAIN B = 1..Len(B) /\ DOMAIN (A \o B) = 1..Len(A \o B)
      /\ Len(A) \in Nat /\ Len(B) \in Nat
  BY <1>1, <1>2, <1>4
<1> DEFINE C == A \o B
<1>6. Tests(C)
  BY <1>4 DEF Tests
<1> HIDE DEF C
<1>7. /\ DOMAIN C = 1..(Len(A) + Len(B))
      /\ \A i \in 1 .. Len(A) + Len(B) : C[i] = IF i <= Len(A) THEN A[i] ELSE B[i - Len(A)]
  BY <1>4, <1>5 DEF C
<1>8. \A i \in DOMAIN A : i \in DOMAIN C /\ C[i] = A[i]
  BY <1>5, <1>7
<1>9. \A i \in DOMAIN B : i + Len(A) \in DOMAIN C /\ C[i + Len(A)] = B[i]
  <2> SUFFICES ASSUME NEW i \in DOMAIN B
               PROVE  i + Len(A) \in DOMAIN C /\ C[i + Len(A)] = B[i]
    OBVIOUS
  <2>1. i + Len(A) \in 1..(Len(A) + Len(B)) /\ ~(i + Len(A) <= Len(A)) /\ i + Len(A) - Len(A) = i
    BY <1>5
  <2> QED
    BY <1>7, <2>1
<1>10. \A k \in DOMAIN C : \/ k \in DOMAIN A /\ C[k] = A[k]
                           \/ \E i \in DOMAIN B : k = i + Len(A) /\ C[k] = B[i]
  <2> SUFFICES ASSUME NEW k \in 1..(Len(A) + Len(B)), ~(k <= Len(A))
               PROVE  \E i \in DOMAIN B : k = i + Len(A) /\ C[k] = B[i]
    BY <1>5, <1>7
  <2>1. k - Len(A) \in DOMAIN B /\ k = (k - Len(A)) + Len(A)
    BY <1>5
  <2>2. C[k] = B[k - Len(A)]
    BY <1>7
  <2> QED
    BY <2>1, <2>2
<1>11. Tests(C) /\ Joins(C, A, B)
  BY <1>6, <1>8, <1>9, <1>10 DEF Joins
<1> QED
  BY <1>11 DEF C

\* An answer that no test of A gives is the first of B.
LEMMA Falls ==
    ASSUME NEW A, NEW B, Tests(A), Tests(B), Some(B),
           \A i \in DOMAIN A : A[i][2] # FirstOf(A \o B)
    PROVE  Clear(A) /\ FirstOf(A \o B) = FirstOf(B)
<1> DEFINE C == A \o B
<1>1. /\ Tests(C)
      /\ \A i \in DOMAIN A : i \in DOMAIN C /\ C[i] = A[i]
      /\ \A i \in DOMAIN B : i + Len(A) \in DOMAIN C /\ C[i + Len(A)] = B[i]
      /\ \A k \in DOMAIN C : \/ k \in DOMAIN A /\ C[k] = A[k]
                             \/ \E i \in DOMAIN B : k = i + Len(A) /\ C[k] = B[i]
  <2>1. Tests(C) /\ Joins(C, A, B)
    BY Joined
  <2> HIDE DEF C
  <2> QED
    BY <2>1 DEF Joins
<1>2. \A i \in DOMAIN A : A[i][2] # FirstOf(C)
  OBVIOUS
<1> HIDE DEF C
<1>3. Some(C)
  BY <1>1 DEF Some
<1>4. PICK k \in DOMAIN C : /\ C[k][1] /\ FirstOf(C) = C[k][2]
                            /\ \A j \in DOMAIN C : j < k => ~C[j][1]
  BY <1>1, <1>3, FirstOfIs
<1>5. PICK i \in DOMAIN B : k = i + Len(A) /\ C[k] = B[i]
  BY <1>1, <1>2, <1>4
<1>6. DOMAIN A = 1..Len(A) /\ DOMAIN B = 1..Len(B) /\ Len(A) \in Nat /\ Len(B) \in Nat
  BY DEF Tests
<1>7. Clear(A)
  <2> SUFFICES ASSUME NEW j \in DOMAIN A PROVE ~A[j][1]
    BY DEF Clear
  <2>1. j < k /\ j \in DOMAIN C /\ C[j] = A[j]
    BY <1>1, <1>5, <1>6
  <2> QED
    BY <1>4, <2>1
<1>8. PICK m \in DOMAIN B : /\ B[m][1] /\ FirstOf(B) = B[m][2]
                            /\ \A j \in DOMAIN B : j < m => ~B[j][1]
  BY FirstOfIs
<1>9. B[i][1] /\ \A j \in DOMAIN B : j < i => ~B[j][1]
  <2> SUFFICES ASSUME NEW j \in DOMAIN B, j < i PROVE ~B[j][1]
    BY <1>4, <1>5
  <2>1. j + Len(A) \in DOMAIN C /\ C[j + Len(A)] = B[j] /\ j + Len(A) < k
    BY <1>1, <1>5, <1>6
  <2> QED
    BY <1>4, <2>1
<1>10. m = i
  <2>1. ~(i < m) /\ ~(m < i) /\ i \in Nat /\ m \in Nat
    BY <1>6, <1>8, <1>9
  <2> QED
    BY <2>1
<1> QED
  BY <1>4, <1>5, <1>7, <1>8, <1>10 DEF C

LEMMA Together ==
    ASSUME NEW A, NEW B, Tests(A), Tests(B)
    PROVE  /\ Tests(A \o B)
           /\ NoneProceeds(A) /\ NoneProceeds(B) => NoneProceeds(A \o B)
           /\ Clear(A \o B) => Clear(A) /\ Clear(B)
<1> DEFINE C == A \o B
<1>1. /\ Tests(C)
      /\ \A i \in DOMAIN A : i \in DOMAIN C /\ C[i] = A[i]
      /\ \A i \in DOMAIN B : i + Len(A) \in DOMAIN C /\ C[i + Len(A)] = B[i]
      /\ \A k \in DOMAIN C : \/ k \in DOMAIN A /\ C[k] = A[k]
                             \/ \E i \in DOMAIN B : k = i + Len(A) /\ C[k] = B[i]
  <2>1. Tests(C) /\ Joins(C, A, B)
    BY Joined
  <2> HIDE DEF C
  <2> QED
    BY <2>1 DEF Joins
<1> HIDE DEF C
<1>2. NoneProceeds(A) /\ NoneProceeds(B) => NoneProceeds(C)
  <2> SUFFICES ASSUME NoneProceeds(A), NoneProceeds(B), NEW k \in DOMAIN C
               PROVE  C[k][2].decision # "PROCEED"
    BY DEF NoneProceeds
  <2>1. CASE k \in DOMAIN A /\ C[k] = A[k]
    BY <2>1 DEF NoneProceeds
  <2>2. CASE \E i \in DOMAIN B : C[k] = B[i]
    BY <2>2 DEF NoneProceeds
  <2> QED
    BY <1>1, <2>1, <2>2 DEF C
<1>3. ASSUME Clear(C) PROVE Clear(A) /\ Clear(B)
  <2>1. Clear(A)
    BY <1>1, <1>3 DEF Clear, C
  <2>2. ASSUME NEW i \in DOMAIN B PROVE ~B[i][1]
    BY <1>1, <1>3 DEF Clear, C
  <2> QED
    BY <2>1, <2>2 DEF Clear
<1> QED
  BY <1>1, <1>2, <1>3 DEF C

-----------------------------------------------------------------------------
\* The checks of the gate, group by group: none of them lets a leg proceed.
StressChecks(op, stress) ==
  << <<Above(stress, OFR_ESCALATE_THRESHOLD), Escalate("SYSTEMIC_STRESS_ESCALATE")>>,
     <<op.material, Hold("MATERIAL_MAGNITUDE_QUORUM_UNAVAILABLE")>> >>
BandChecks(stress) == << <<Above(stress, OFR_HOLD_THRESHOLD), Hold("BROAD_STRESS_HOLD")>> >>
RailChecks(rail) == << <<rail = None, Hold("NO_RAIL_IN_WINDOW")>>, <<TRUE, Cleared>> >>

LEMMA Stops ==
    ASSUME NEW reason
    PROVE  Hold(reason).decision # "PROCEED" /\ Escalate(reason).decision # "PROCEED"
BY DEF Hold, Escalate

LEMMA InputGroup ==
    ASSUME NEW op, NEW rails, NEW stress, NEW age, NEW policy, NEW halted
    PROVE  LET A == InputChecks(op, rails, stress, age, policy, halted)
           IN  /\ Tests(A) /\ NoneProceeds(A)
               /\ Clear(A) => ~halted /\ stress # NotFinite
<1> DEFINE A == InputChecks(op, rails, stress, age, policy, halted)
<1>1. DOMAIN A = 1..4
  BY DEF InputChecks
<1>2. A \in Seq({A[1], A[2], A[3], A[4]})
  BY DEF InputChecks
<1>3. ~A[1][1] => ~halted
  BY DEF InputChecks
<1>4. ~A[3][1] => stress # NotFinite
  BY DEF InputChecks
<1>5. /\ A[1][2] = Hold("HALT_ACTIVE")
      /\ A[2][2] = Hold("INPUT_UNRECOGNISED")
      /\ A[3][2] = Hold("STRESS_READING_UNUSABLE")
      /\ A[4][2] = Hold("MARKET_DATA_STALE")
  BY DEF InputChecks
<1> HIDE DEF A
<1>6. NoneProceeds(A)
  BY <1>1, <1>5, Stops DEF NoneProceeds
<1>7. Clear(A) => ~A[1][1] /\ ~A[3][1]
  BY <1>1 DEF Clear
<1>8. Clear(A) => ~halted /\ stress # NotFinite
  BY <1>3, <1>4, <1>7
<1> QED
  BY <1>2, <1>6, <1>8 DEF Tests, A

LEMMA StressGroup ==
    ASSUME NEW op, NEW stress
    PROVE  Tests(StressChecks(op, stress)) /\ NoneProceeds(StressChecks(op, stress))
<1> DEFINE A == StressChecks(op, stress)
<1>1. DOMAIN A = 1..2 /\ A \in Seq({A[1], A[2]})
  BY DEF StressChecks
<1>2. /\ A[1][2] = Escalate("SYSTEMIC_STRESS_ESCALATE")
      /\ A[2][2] = Hold("MATERIAL_MAGNITUDE_QUORUM_UNAVAILABLE")
  BY DEF StressChecks
<1> HIDE DEF A
<1>3. NoneProceeds(A)
  BY <1>1, <1>2, Stops DEF NoneProceeds
<1> QED
  BY <1>1, <1>3 DEF Tests, A

LEMMA CounterpartyGroup ==
    ASSUME NEW op
    PROVE  Tests(CounterpartyChecks(op)) /\ NoneProceeds(CounterpartyChecks(op))
<1> DEFINE A == CounterpartyChecks(op)
<1>1. DOMAIN A = 1..3 /\ A \in Seq({A[1], A[2], A[3]})
  BY DEF CounterpartyChecks
<1>2. /\ A[1][2] = Hold("COUNTERPARTY_UNASSESSED")
      /\ A[2][2] = Escalate("COUNTERPARTY_UNDER_REVIEW")
      /\ A[3][2] = Hold("COUNTERPARTY_NOT_IN_GOOD_STANDING")
  BY DEF CounterpartyChecks
<1> HIDE DEF A
<1>3. NoneProceeds(A)
  BY <1>1, <1>2, Stops DEF NoneProceeds
<1> QED
  BY <1>1, <1>3 DEF Tests, A

LEMMA FundingGroup ==
    ASSUME NEW funding
    PROVE  LET A == FundingChecks(funding)
           IN  /\ Tests(A) /\ NoneProceeds(A)
               /\ Clear(A) => /\ funding.assertable
                              /\ IsFunded(funding)
                              /\ ~(funding.headroom < 0)
                              /\ funding.clearing
<1> DEFINE A == FundingChecks(funding)
<1>1. DOMAIN A = 1..3 /\ A \in Seq({A[1], A[2], A[3]})
  BY DEF FundingChecks
<1>2. /\ A[1][2] = Hold("FUNDING_INDETERMINATE")
      /\ A[2][2] = Hold("UNFUNDED_AT_SETTLEMENT_INSTANT")
      /\ A[3][2] = Hold("RISK_CONTROL_BREACH")
  BY DEF FundingChecks
<1>3. ~A[1][1] => funding.assertable
  BY DEF FundingChecks
<1>4. ~A[2][1] => IsFunded(funding)
  BY DEF FundingChecks
<1>5. ~A[3][1] => ~(funding.headroom < 0) /\ funding.clearing
  BY DEF FundingChecks
<1> HIDE DEF A
<1>6. NoneProceeds(A)
  BY <1>1, <1>2, Stops DEF NoneProceeds
<1>7. Clear(A) => ~A[1][1] /\ ~A[2][1] /\ ~A[3][1]
  BY <1>1 DEF Clear
<1> QED
  BY <1>1, <1>3, <1>4, <1>5, <1>6, <1>7 DEF Tests, A

LEMMA BandGroup ==
    ASSUME NEW stress
    PROVE  Tests(BandChecks(stress)) /\ NoneProceeds(BandChecks(stress))
<1> DEFINE A == BandChecks(stress)
<1>1. DOMAIN A = 1..1 /\ A \in Seq({A[1]}) /\ A[1][2] = Hold("BROAD_STRESS_HOLD")
  BY DEF BandChecks
<1> HIDE DEF A
<1>2. NoneProceeds(A)
  BY <1>1, Stops DEF NoneProceeds
<1> QED
  BY <1>1, <1>2 DEF Tests, A

LEMMA FinalityGroup ==
    ASSUME NEW op, NEW rails
    PROVE  Tests(FinalityChecks(op, rails)) /\ NoneProceeds(FinalityChecks(op, rails))
<1> DEFINE A == FinalityChecks(op, rails)
<1>1. DOMAIN A = 1..5 /\ A \in Seq({A[1], A[2], A[3], A[4], A[5]})
  BY DEF FinalityChecks
<1>2. /\ A[1][2] = Hold("SETTLEMENT_PERIMETER_UNASSESSED")
      /\ A[2][2] = Hold("NO_RAIL_IN_WINDOW")
      /\ A[3][2] = Hold("UNRESOLVABLE_FINALITY")
      /\ A[4][2] = Hold("DETERMINATION_PENDING")
      /\ A[5][2] = Hold("UNASSESSED_REVOCATION_AUTHORITY")
  BY DEF FinalityChecks
<1> HIDE DEF A
<1>3. NoneProceeds(A)
  BY <1>1, <1>2, Stops DEF NoneProceeds
<1> QED
  BY <1>1, <1>3 DEF Tests, A

LEMMA RailGroup ==
    ASSUME NEW rail
    PROVE  LET A == RailChecks(rail)
           IN  /\ Tests(A) /\ Some(A)
               /\ FirstOf(A).decision = "PROCEED" => rail # None
<1> DEFINE A == RailChecks(rail)
<1>1. DOMAIN A = 1..2 /\ A \in Seq({A[1], A[2]})
  BY DEF RailChecks
<1>2. A[2][1]
  BY DEF RailChecks
<1>3. ~A[1][1] => rail # None
  BY DEF RailChecks
<1>4. A[1][2] = Hold("NO_RAIL_IN_WINDOW")
  BY DEF RailChecks
<1> HIDE DEF A
<1>5. Tests(A) /\ Some(A)
  BY <1>1, <1>2 DEF Tests, Some
<1>6. PICK i \in DOMAIN A : /\ A[i][1] /\ FirstOf(A) = A[i][2]
                            /\ \A j \in DOMAIN A : j < i => ~A[j][1]
  BY <1>5, FirstOfIs
<1>7. FirstOf(A).decision = "PROCEED" => i # 1
  BY <1>4, <1>6, Stops
<1>8. i # 1 => ~A[1][1]
  BY <1>1, <1>6
<1> QED
  BY <1>3, <1>5, <1>7, <1>8 DEF A

\* What a leg that proceeds has behind it: all the checks, and a rail.
Chosen(op, rails, stress) ==
  IF stress = NotFinite THEN None ELSE RecommendRail(rails, op, stress)
AllChecks(op, funding, rails, stress, age, policy, halted) ==
  InputChecks(op, rails, stress, age, policy, halted)
  \o StressChecks(op, stress)
  \o CounterpartyChecks(op)
  \o FundingChecks(funding)
  \o BandChecks(stress)
  \o FinalityChecks(op, rails)

LEMMA Stopping ==
    ASSUME NEW op, NEW funding, NEW rails, NEW stress, NEW age, NEW policy, NEW halted
    PROVE  LET A == AllChecks(op, funding, rails, stress, age, policy, halted)
           IN  /\ Tests(A) /\ NoneProceeds(A)
               /\ Clear(A) => /\ ~halted /\ stress # NotFinite
                              /\ funding.assertable
                              /\ IsFunded(funding)
                              /\ ~(funding.headroom < 0)
                              /\ funding.clearing
<1> DEFINE A1 == InputChecks(op, rails, stress, age, policy, halted)
           A2 == StressChecks(op, stress)
           A3 == CounterpartyChecks(op)
           A4 == FundingChecks(funding)
           A5 == BandChecks(stress)
           A6 == FinalityChecks(op, rails)
           B2 == A1 \o A2
           B3 == B2 \o A3
           B4 == B3 \o A4
           B5 == B4 \o A5
           B6 == B5 \o A6
<1>1. B6 = AllChecks(op, funding, rails, stress, age, policy, halted)
  BY DEF AllChecks
<1>2. /\ Tests(A1) /\ NoneProceeds(A1) /\ Tests(A2) /\ NoneProceeds(A2)
      /\ Clear(A1) => ~halted /\ stress # NotFinite
  BY InputGroup, StressGroup, Zenon
<1>3. /\ Tests(A3) /\ NoneProceeds(A3) /\ Tests(A4) /\ NoneProceeds(A4)
      /\ Clear(A4) => /\ funding.assertable
                      /\ IsFunded(funding)
                      /\ ~(funding.headroom < 0)
                      /\ funding.clearing
  BY CounterpartyGroup, FundingGroup, Zenon
<1>4. Tests(A5) /\ NoneProceeds(A5) /\ Tests(A6) /\ NoneProceeds(A6)
  BY BandGroup, FinalityGroup, Zenon
<1> HIDE DEF A1, A2, A3, A4, A5, A6
<1>5. Tests(B2) /\ NoneProceeds(B2) /\ (Clear(B2) => Clear(A1))
  BY <1>2, Together, Zenon
<1> HIDE DEF B2
<1>6. Tests(B3) /\ NoneProceeds(B3) /\ (Clear(B3) => Clear(B2))
  BY <1>3, <1>5, Together, Zenon
<1> HIDE DEF B3
<1>7. Tests(B4) /\ NoneProceeds(B4) /\ (Clear(B4) => Clear(B3) /\ Clear(A4))
  BY <1>3, <1>6, Together, Zenon
<1> HIDE DEF B4
<1>8. Tests(B5) /\ NoneProceeds(B5) /\ (Clear(B5) => Clear(B4))
  BY <1>4, <1>7, Together, Zenon
<1> HIDE DEF B5
<1>9. Tests(B6) /\ NoneProceeds(B6) /\ (Clear(B6) => Clear(B5))
  BY <1>4, <1>8, Together, Zenon
<1> HIDE DEF B6
<1>10. Clear(B6) => Clear(A1) /\ Clear(A4)
  BY <1>5, <1>6, <1>7, <1>8, <1>9
<1> QED
  BY <1>1, <1>2, <1>3, <1>9, <1>10, Zenon

LEMMA Proceeds ==
    ASSUME NEW op, NEW funding, NEW rails, NEW stress, NEW age, NEW policy, NEW halted,
           evaluate(op, funding, rails, stress, age, policy, halted).decision = "PROCEED"
    PROVE  LET answer == evaluate(op, funding, rails, stress, age, policy, halted)
           IN  /\ ~halted
               /\ funding.assertable /\ IsFunded(funding)
               /\ ~(funding.headroom < 0) /\ funding.clearing
               /\ answer.rail = RecommendRail(rails, op, stress)
               /\ answer.rail # None
<1> DEFINE A == AllChecks(op, funding, rails, stress, age, policy, halted)
           B == RailChecks(Chosen(op, rails, stress))
           answer == evaluate(op, funding, rails, stress, age, policy, halted)
<1>1. /\ answer.decision = FirstOf(A \o B).decision
      /\ answer.decision = "PROCEED" => answer.rail = Chosen(op, rails, stress)
  <2>1. A \o B = InputChecks(op, rails, stress, age, policy, halted)
        \o << <<Above(stress, OFR_ESCALATE_THRESHOLD), Escalate("SYSTEMIC_STRESS_ESCALATE")>>,
              <<op.material, Hold("MATERIAL_MAGNITUDE_QUORUM_UNAVAILABLE")>> >>
        \o CounterpartyChecks(op)
        \o FundingChecks(funding)
        \o << <<Above(stress, OFR_HOLD_THRESHOLD), Hold("BROAD_STRESS_HOLD")>> >>
        \o FinalityChecks(op, rails)
        \o << <<Chosen(op, rails, stress) = None, Hold("NO_RAIL_IN_WINDOW")>>,
              <<TRUE, Cleared>> >>
    BY Zenon DEF AllChecks, RailChecks, StressChecks, BandChecks
  <2> HIDE DEF A, B
  <2> QED
    BY <2>1, Zenon DEF evaluate, Chosen
<1>2. /\ Tests(A) /\ NoneProceeds(A)
      /\ Clear(A) => /\ ~halted /\ stress # NotFinite
                     /\ funding.assertable
                     /\ IsFunded(funding)
                     /\ ~(funding.headroom < 0)
                     /\ funding.clearing
  BY Stopping, Zenon
<1>3. Tests(B) /\ Some(B) /\ (FirstOf(B).decision = "PROCEED" => Chosen(op, rails, stress) # None)
  BY RailGroup, Zenon
<1> HIDE DEF A, B
<1>4. Clear(A) /\ FirstOf(A \o B) = FirstOf(B)
  <2>1. \A i \in DOMAIN A : A[i][2] # FirstOf(A \o B)
    BY <1>1, <1>2, Zenon DEF NoneProceeds
  <2> QED
    BY <1>2, <1>3, <2>1, Falls, Zenon
<1>5. Chosen(op, rails, stress) # None /\ Chosen(op, rails, stress) = RecommendRail(rails, op, stress)
  BY <1>1, <1>2, <1>3, <1>4, Zenon DEF Chosen
<1> QED
  BY <1>1, <1>2, <1>4, <1>5, Zenon

-----------------------------------------------------------------------------
\* The projection: a position is a number, and a leg with the money at its
\* settlement that nothing refuses is funded.
LEMMA TotalIsInt ==
    ASSUME NEW F, IsFiniteSet(F), \A f \in F : f.amount \in Int
    PROVE  Total(F) \in Int
<1>1. Total(F) = Sum(Amounts(F), F)
  BY AmountSum, Zenon DEF Total
<1>2. \A f \in F : Amounts(F)[f] \in Int
  BY DEF Amounts
<1> HIDE DEF Amounts
<1> QED
  BY <1>1, <1>2, SumType

LEMMA NoShortfall ==
    ASSUME NEW in, AccountValid(in), AtSettlement(in) >= in.obligation
    PROVE  /\ Shortfall(in) = 0
           /\ in.opening + Total({f \in in.flows : f.committed /\ f.offset <= in.settles})
                >= in.obligation
<1> DEFINE F == {f \in in.flows : f.committed /\ f.offset <= in.settles}
           S == {0, in.obligation - AtSettlement(in)}
<1>1. AtSettlement(in) = in.opening + Total(F)
  <2>1. {f \in in.flows : f.offset <= in.settles /\ (f.committed \/ ~TRUE)} = F
    OBVIOUS
  <2> HIDE DEF F
  <2> QED
    BY <2>1, Zenon DEF AtSettlement, PositionAt
<1>2. Total(F) \in Int /\ in.opening \in Int /\ in.obligation \in Int
  <2>1. IsFiniteSet(F) /\ \A f \in F : f.amount \in Int
    BY FS_Subset DEF AccountValid
  <2> HIDE DEF F
  <2> QED
    BY <2>1, TotalIsInt DEF AccountValid
<1> HIDE DEF F
<1>3. S \subseteq Int /\ \A x \in S : 0 >= x
  BY <1>1, <1>2
<1>4. Max(S) \in S /\ \A x \in S : Max(S) >= x
  <2>1. \E y \in S : \A x \in S : y >= x
    BY <1>3
  <2> HIDE DEF S
  <2> QED
    BY <2>1, Zenon DEF Max
<1>5. Max(S) = 0
  <2>1. 0 >= Max(S) /\ Max(S) >= 0 /\ Max(S) \in Int
    BY <1>3, <1>4
  <2> HIDE DEF S
  <2> QED
    BY <2>1
<1> QED
  BY <1>1, <1>5, Zenon DEF Shortfall, F

LEMMA RefusalIs ==
    ASSUME NEW in
    PROVE  \/ Refusal(in) = None
           \/ Refusal(in) = "indeterminate"
           \/ Refusal(in) = "clearing_fund_deficient" /\ ~ClearingFundSufficient(in)
           \/ Refusal(in) = "cap_breach" /\ Headroom(in) < 0
<1> DEFINE A == << <<~Recognised(in), "indeterminate">>,
             <<in.finality = "DETERMINATION_DEPENDENT", "indeterminate">>,
             <<~ClearingFundSufficient(in), "clearing_fund_deficient">>,
             <<in.cap # None /\ Headroom(in) < 0, "cap_breach">>,
             <<in.outcome = "awaiting_determination", "indeterminate">>,
             <<in.finality = "CORRESPONDENT_DEPENDENT", "indeterminate">>,
             <<TRUE, None>> >>
<1>1. Refusal(in) = FirstOf(A)
  BY Zenon DEF Refusal
<1>2. DOMAIN A = 1..7 /\ A \in Seq({A[1], A[2], A[3], A[4], A[5], A[6], A[7]})
  OBVIOUS
<1>3. /\ A[1][2] = "indeterminate" /\ A[2][2] = "indeterminate"
      /\ A[3][2] = "clearing_fund_deficient" /\ (A[3][1] => ~ClearingFundSufficient(in))
      /\ A[4][2] = "cap_breach" /\ (A[4][1] => Headroom(in) < 0)
      /\ A[5][2] = "indeterminate" /\ A[6][2] = "indeterminate"
      /\ A[7][2] = None /\ A[7][1]
  OBVIOUS
<1> HIDE DEF A
<1>4. PICK i \in DOMAIN A : A[i][1] /\ FirstOf(A) = A[i][2]
  <2>1. Tests(A) /\ Some(A)
    BY <1>2, <1>3 DEF Tests, Some
  <2> QED
    BY <2>1, FirstOfIs
<1>5. i \in {1, 2, 3, 4, 5, 6, 7}
  BY <1>2
<1> QED
  BY <1>1, <1>3, <1>4, <1>5

LEMMA FundedWhenAllowed ==
    ASSUME NEW in, AccountValid(in),
           ToGateInput(in).assertable, IsFunded(ToGateInput(in)),
           ~(ToGateInput(in).headroom < 0), ToGateInput(in).clearing
    PROVE  /\ Disposition(in) \in {"funded", "funded_qualified"}
           /\ in.opening + Total({f \in in.flows : f.committed /\ f.offset <= in.settles})
                >= in.obligation
<1>1. /\ Disposition(in) # "indeterminate"
      /\ AtSettlement(in) >= in.obligation
      /\ ~(Headroom(in) < 0)
      /\ ClearingFundSufficient(in)
  BY DEF ToGateInput, IsFunded
<1>2. Refusal(in) = None
  BY <1>1, RefusalIs, Zenon DEF Disposition
<1>3. Shortfall(in) = 0
  BY <1>1, NoShortfall
<1>4. Disposition(in) = Funded(in)
  BY <1>2, <1>3, Zenon DEF Disposition
<1> QED
  BY <1>1, <1>4, NoShortfall DEF Funded

-----------------------------------------------------------------------------
\* The rail: whichever way one is recommended, it is open and carries.
Carrying(rail, rails, op) ==
  /\ rail \in DOMAIN rails \ {"ports_wholesale"}
  /\ Usable(rails[rail])
  /\ Carries(rails[rail], op)

\* A choice among sites that ends in None is one of those that pass.
LEMMA OrNone ==
    ASSUME NEW X, NEW Names \in Seq(X), NEW F, DOMAIN F = DOMAIN Names,
           \A i \in DOMAIN Names : F[i][2] = Names[i], Tests(F),
           FirstOf(F \o << <<TRUE, None>> >>) # None
    PROVE  \E i \in DOMAIN Names : /\ F[i][1]
                                   /\ FirstOf(F \o << <<TRUE, None>> >>) = Names[i]
<1> DEFINE L == << <<TRUE, None>> >>
<1>1. DOMAIN L = 1..1 /\ L \in Seq({L[1]}) /\ L[1][1] /\ L[1][2] = None
  OBVIOUS
<1> HIDE DEF L
<1>2. Tests(L)
  BY <1>1 DEF Tests
<1> DEFINE C == F \o L
<1>3. /\ Tests(C)
      /\ \A i \in DOMAIN F : i \in DOMAIN C /\ C[i] = F[i]
      /\ \A i \in DOMAIN L : i + Len(F) \in DOMAIN C /\ C[i + Len(F)] = L[i]
      /\ \A k \in DOMAIN C : \/ k \in DOMAIN F /\ C[k] = F[k]
                             \/ \E i \in DOMAIN L : k = i + Len(F) /\ C[k] = L[i]
  <2>1. Tests(C) /\ Joins(C, F, L)
    BY <1>2, Joined
  <2> HIDE DEF C
  <2> QED
    BY <2>1 DEF Joins
<1>4. FirstOf(C) # None
  BY Zenon DEF L
<1> HIDE DEF C
<1>5. Some(C)
  <2>1. 1 \in DOMAIN L
    BY <1>1
  <2> QED
    BY <1>1, <1>3, <2>1 DEF Some
<1>6. PICK k \in DOMAIN C : C[k][1] /\ FirstOf(C) = C[k][2]
  BY <1>3, <1>5, FirstOfIs
<1>7. k \in DOMAIN F /\ C[k] = F[k]
  BY <1>1, <1>3, <1>4, <1>6
<1>8. F[k][1] /\ FirstOf(C) = Names[k] /\ k \in DOMAIN Names
  BY <1>6, <1>7
<1> QED
  BY <1>8 DEF C, L

LEMMA PreferCarries ==
    ASSUME NEW candidates \in Seq(CashRail \ {"ports_wholesale"}), NEW rails, NEW op,
           Prefer(candidates, rails, op) # None
    PROVE  Carrying(Prefer(candidates, rails, op), rails, op)
<1> DEFINE Open(i) == /\ candidates[i] \in DOMAIN rails /\ Usable(rails[candidates[i]])
                      /\ Carries(rails[candidates[i]], op)
           F == [i \in DOMAIN candidates |-> <<Open(i), candidates[i]>>]
<1>1. Prefer(candidates, rails, op) = FirstOf(F \o << <<TRUE, None>> >>)
  BY Zenon DEF Prefer
<1> HIDE DEF Open
<1>2. /\ DOMAIN F = DOMAIN candidates
      /\ \A i \in DOMAIN candidates : F[i][2] = candidates[i] /\ (F[i][1] => Open(i))
      /\ F \in Seq({F[i] : i \in DOMAIN candidates})
  OBVIOUS
<1> HIDE DEF F
<1>3. Tests(F)
  BY <1>2 DEF Tests
<1>4. PICK i \in DOMAIN candidates :
        F[i][1] /\ FirstOf(F \o << <<TRUE, None>> >>) = candidates[i]
  BY <1>1, <1>2, <1>3, OrNone
<1>5. candidates[i] # "ports_wholesale"
  OBVIOUS
<1> QED
  BY <1>1, <1>2, <1>4, <1>5 DEF Carrying, Open

LEMMA AnyCarries ==
    ASSUME NEW rails, NEW op, AnyServiceable(rails, op) # None
    PROVE  Carrying(AnyServiceable(rails, op), rails, op)
<1> DEFINE Open(i) == ByName[i] # "ports_wholesale" /\ Serviceable(ByName[i], rails, op)
           F == [i \in DOMAIN ByName |-> <<Open(i), ByName[i]>>]
<1>1. AnyServiceable(rails, op) = FirstOf(F \o << <<TRUE, None>> >>)
  BY Zenon DEF AnyServiceable
<1> HIDE DEF Open
<1>2. ByName \in Seq({ByName[1], ByName[2], ByName[3], ByName[4], ByName[5],
                      ByName[6], ByName[7], ByName[8], ByName[9]})
  BY DEF ByName
<1>3. /\ DOMAIN F = DOMAIN ByName
      /\ \A i \in DOMAIN ByName : F[i][2] = ByName[i] /\ (F[i][1] => Open(i))
      /\ F \in Seq({F[i] : i \in DOMAIN ByName})
  BY <1>2
<1> HIDE DEF F
<1>4. Tests(F)
  BY <1>3 DEF Tests
<1>5. PICK i \in DOMAIN ByName :
        F[i][1] /\ FirstOf(F \o << <<TRUE, None>> >>) = ByName[i]
  BY <1>1, <1>2, <1>3, <1>4, OrNone
<1> QED
  BY <1>1, <1>3, <1>5 DEF Carrying, Serviceable, Open

LEMMA RecommendedCarries ==
    ASSUME NEW rails, NEW op, NEW stress, RecommendRail(rails, op, stress) # None
    PROVE  /\ Carrying(RecommendRail(rails, op, stress), rails, op)
           /\ op.linked # None => RecommendRail(rails, op, stress) = op.linked
<1>1. CASE op.linked # None
  <2>1. ~LinkedRailBlocked(rails, op) /\ RecommendRail(rails, op, stress) = op.linked
    BY <1>1, Zenon DEF RecommendRail
  <2> QED
    BY <2>1 DEF LinkedRailBlocked, Serviceable, Carrying
<1>2. CASE op.linked = None
  <2> DEFINE Gross == Prefer(GrossFinal, rails, op)
             Night == Prefer(<<"fednow">>, rails, op)
             Token == Prefer(<<"tokenized_deposit">>, rails, op)
             Wire  == Prefer(<<"fedwire">>, rails, op)
             Any   == AnyServiceable(rails, op)
             A == << <<stress >= OFR_STRESS_PREFERENCE_THRESHOLD /\ Gross # None, Gross>>,
                     <<op.lvps /\ Gross # None, Gross>>,
                     <<~op.inHours /\ Night # None, Night>>,
                     <<op.tokenized /\ Token # None, Token>>,
                     <<TRUE /\ Wire # None, Wire>>,
                     <<TRUE, Any>> >>
  <2>1. /\ GrossFinal \in Seq(CashRail \ {"ports_wholesale"})
        /\ <<"fednow">> \in Seq(CashRail \ {"ports_wholesale"})
        /\ <<"tokenized_deposit">> \in Seq(CashRail \ {"ports_wholesale"})
        /\ <<"fedwire">> \in Seq(CashRail \ {"ports_wholesale"})
    BY DEF GrossFinal, CashRail, RAIL_FINALITY
  <2>2. \A rail \in {Gross, Night, Token, Wire, Any} :
          rail # None => Carrying(rail, rails, op)
    BY <2>1, PreferCarries, AnyCarries
  <2>3. RecommendRail(rails, op, stress) = FirstOf(A)
    BY <1>2, Zenon DEF RecommendRail
  <2> HIDE DEF Gross, Night, Token, Wire, Any
  <2>4. /\ DOMAIN A = 1..6 /\ A \in Seq({A[1], A[2], A[3], A[4], A[5], A[6]})
        /\ A[6][1]
        /\ A[1][2] = Gross /\ A[2][2] = Gross /\ A[3][2] = Night
        /\ A[4][2] = Token /\ A[5][2] = Wire /\ A[6][2] = Any
    OBVIOUS
  <2> HIDE DEF A
  <2>5. PICK i \in DOMAIN A : FirstOf(A) = A[i][2]
    <3>1. Tests(A) /\ Some(A)
      BY <2>4 DEF Tests, Some
    <3> QED
      BY <3>1, FirstOfIs
  <2>6. i \in {1, 2, 3, 4, 5, 6}
    BY <2>4
  <2>7. FirstOf(A) \in {Gross, Night, Token, Wire, Any}
    BY <2>4, <2>5, <2>6
  <2> QED
    BY <1>2, <2>2, <2>3, <2>7
<1> QED
  BY <1>1, <1>2

-----------------------------------------------------------------------------
\* A record is what the gate answered to a situation.
RecordsAreCaptures ==
  \A r \in records : \E s \in Situations, h \in BOOLEAN : r = Capture(s, h)
CallsInv == now \in Situations /\ halt \in BOOLEAN /\ RecordsAreCaptures

LEMMA CaptureIsFunded ==
    ASSUME NEW s \in Situations, NEW h \in BOOLEAN, NEW r, r = Capture(s, h),
           r.answer.decision = "PROCEED"
    PROVE  LET in == r.situation.account
           IN  /\ ~r.halted
               /\ Disposition(in) \in {"funded", "funded_qualified"}
               /\ in.opening + Total({f \in in.flows : f.committed /\ f.offset <= in.settles})
                    >= in.obligation
<1> DEFINE in == s.account
           funding == ToGateInput(in)
           answer == evaluate(s.op, funding, s.rails, s.stress, s.age, s.policy, h)
<1>1. r.situation = s /\ r.halted = h /\ r.answer = answer
  BY DEF Capture
<1>2. AccountValid(in)
  BY SituationsAreValid DEF SituationValid
<1> HIDE DEF in, funding
<1>5. answer.decision = "PROCEED"
  BY <1>1
<1>3. /\ ~h /\ funding.assertable /\ IsFunded(funding)
      /\ ~(funding.headroom < 0) /\ funding.clearing
  BY <1>5, Proceeds
<1>4. /\ Disposition(in) \in {"funded", "funded_qualified"}
      /\ in.opening + Total({f \in in.flows : f.committed /\ f.offset <= in.settles})
           >= in.obligation
  BY <1>2, <1>3, FundedWhenAllowed, Zenon DEF funding
<1> QED
  BY <1>1, <1>3, <1>4, Zenon DEF in

LEMMA CaptureCanCarry ==
    ASSUME NEW s \in Situations, NEW h \in BOOLEAN, NEW r, r = Capture(s, h),
           r.answer.decision = "PROCEED"
    PROVE  /\ Carrying(r.answer.rail, r.situation.rails, r.situation.op)
           /\ r.situation.op.linked # None => r.answer.rail = r.situation.op.linked
<1> DEFINE funding == ToGateInput(s.account)
           answer == evaluate(s.op, funding, s.rails, s.stress, s.age, s.policy, h)
<1>1. r.situation = s /\ r.answer = answer
  BY DEF Capture
<1> HIDE DEF funding
<1>4. answer.decision = "PROCEED"
  BY <1>1
<1>2. answer.rail = RecommendRail(s.rails, s.op, s.stress) /\ answer.rail # None
  BY <1>4, Proceeds
<1> HIDE DEF answer
<1>3. /\ Carrying(answer.rail, s.rails, s.op)
      /\ s.op.linked # None => answer.rail = s.op.linked
  <2> DEFINE rail == RecommendRail(s.rails, s.op, s.stress)
  <2>1. Carrying(rail, s.rails, s.op) /\ (s.op.linked # None => rail = s.op.linked)
    BY <1>2, RecommendedCarries
  <2>2. rail = answer.rail
    BY <1>2
  <2> HIDE DEF rail
  <2> QED
    BY <2>1, <2>2
<1>5. r.answer.rail = answer.rail /\ r.situation.rails = s.rails /\ r.situation.op = s.op
  BY <1>1
<1> QED
  BY <1>3, <1>5, Zenon

LEMMA CapturesKept ==
    (Init => CallsInv) /\ (CallsInv /\ [Next]_vars => CallsInv')
<1>1. Init => CallsInv
  BY DEF Init, CallsInv, RecordsAreCaptures
<1>2. ASSUME CallsInv, [Next]_vars PROVE CallsInv'
  <2>1. CASE Turn
    BY <1>2, <2>1, SituationsAreValid DEF Turn, CallsInv, RecordsAreCaptures
  <2>2. CASE Halt
    BY <1>2, <2>2 DEF Halt, CallsInv, RecordsAreCaptures
  <2>3. CASE Evaluate
    <3>1. /\ records' = records \cup {Capture(now, halt)}
          /\ UNCHANGED <<now, halt>>
      BY <2>3, Zenon DEF Evaluate
    <3>2. ASSUME NEW r \in records'
          PROVE  \E s \in Situations, h \in BOOLEAN : r = Capture(s, h)
      BY <1>2, <3>1, <3>2, Zenon DEF CallsInv, RecordsAreCaptures
    <3> QED
      BY <1>2, <3>1, <3>2 DEF CallsInv, RecordsAreCaptures
  <2>4. CASE Select
    BY <1>2, <2>4 DEF Select, CallsInv, RecordsAreCaptures
  <2>5. CASE Instruct
    BY <1>2, <2>5 DEF Instruct, CallsInv, RecordsAreCaptures
  <2>6. CASE UNCHANGED vars
    BY <1>2, <2>6 DEF vars, CallsInv, RecordsAreCaptures
  <2> QED
    BY <1>2, <2>1, <2>2, <2>3, <2>4, <2>5, <2>6 DEF Next
<1> QED
  BY <1>1, <1>2

\* Whatever the account, the rails, the market and the policies are, a leg the
\* gate lets proceed is one whose money is there at its settlement, with no
\* halt and no refusal of the projection behind it (cato_cash.evaluate,
\* funding_state.to_gate_input).
THEOREM LegsAreFunded == Spec => []ProceedIsFunded
<1>1. CallsInv => ProceedIsFunded
  <2> SUFFICES ASSUME CallsInv, NEW r \in records, r.answer.decision = "PROCEED"
               PROVE  LET in == r.situation.account
                      IN  /\ ~r.halted
                          /\ Disposition(in) \in {"funded", "funded_qualified"}
                          /\ in.opening
                             + Total({f \in in.flows : f.committed /\ f.offset <= in.settles})
                               >= in.obligation
    BY Zenon DEF ProceedIsFunded
  <2>1. PICK s \in Situations, h \in BOOLEAN : r = Capture(s, h)
    BY Zenon DEF CallsInv, RecordsAreCaptures
  <2> QED
    BY <2>1, CaptureIsFunded, Zenon
<1> QED
  BY <1>1, CapturesKept, PTL DEF Spec

\* The rail of a leg that proceeds is there, is open, carries the notional, is
\* not the reserved one, and is the rail the operation is linked to where it is
\* linked to one (cato_cash._recommend_rail).
THEOREM RailsCanCarry == Spec => []RecommendedCanCarry
<1>1. CallsInv => RecommendedCanCarry
  <2> SUFFICES ASSUME CallsInv, NEW r \in records, r.answer.decision = "PROCEED"
               PROVE  LET s == r.situation
                          rail == r.answer.rail
                      IN  /\ rail \in DOMAIN s.rails \ {"ports_wholesale"}
                          /\ s.rails[rail].status = "available"
                          /\ s.rails[rail].cutoff = None \/ s.rails[rail].cutoff > 0
                          /\ s.rails[rail].cap = None \/ s.op.notional <= s.rails[rail].cap
                          /\ s.op.linked # None => rail = s.op.linked
    BY Zenon DEF RecommendedCanCarry
  <2>1. PICK s \in Situations, h \in BOOLEAN : r = Capture(s, h)
    BY Zenon DEF CallsInv, RecordsAreCaptures
  <2>2. /\ Carrying(r.answer.rail, r.situation.rails, r.situation.op)
        /\ r.situation.op.linked # None => r.answer.rail = r.situation.op.linked
    BY <2>1, CaptureCanCarry, Zenon
  <2> QED
    BY <2>2, Zenon DEF Carrying, Usable, Carries
<1> QED
  BY <1>1, CapturesKept, PTL DEF Spec

-----------------------------------------------------------------------------
\* A selection that routes has passed every guard before the last one.
LEMMA SurfaceIsNone ==
    ASSUME NEW a, NEW q, P!MaterialSurface(a, q) = None
    PROVE  /\ a.surface = None
           /\ ~P!IsSanctionedAdjacent(a)
           /\ q.dimension \in DOMAIN P!SurfaceOf =>
                ~P!IsMaterial(P!SurfaceOf[q.dimension], q.currency, a.amount)
<1>1. a.surface = None
  BY Zenon DEF P!MaterialSurface
<1>2. ~P!IsSanctionedAdjacent(a)
  <2>1. P!IsSanctionedAdjacent(a) => P!MaterialSurface(a, q) = "fiat_settlement_material"
    BY <1>1, Zenon DEF P!MaterialSurface
  <2> QED
    BY <2>1, NoneIsNoWord DEF P!OWNED_SURFACES
<1>3. ASSUME q.dimension \in DOMAIN P!SurfaceOf,
             P!IsMaterial(P!SurfaceOf[q.dimension], q.currency, a.amount)
      PROVE  FALSE
  <2>1. P!MaterialSurface(a, q) = P!SurfaceOf[q.dimension]
    BY <1>1, <1>2, <1>3 DEF P!MaterialSurface
  <2>2. P!SurfaceOf[q.dimension] \in P!OWNED_SURFACES
    BY <1>3 DEF P!SurfaceOf, P!OWNED_SURFACES
  <2> QED
    BY <2>1, <2>2, NoneIsNoWord
<1> QED
  BY <1>1, <1>2, <1>3, Zenon

LEMMA SelectionRoutes ==
    ASSUME NEW a, NEW q, NEW candidates, P!Selection(a, q, candidates).kind = "routing"
    PROVE  /\ ~a.halted
           /\ P!MaterialSurface(a, q) = None
           /\ P!verify_eligibility(a.evidence)
           /\ a.jurisdictions # None
           /\ ~P!GateStops(a, q)
           /\ candidates # {}
           /\ P!Selection(a, q, candidates).path = P!FirstPath(candidates)
<1> DEFINE o == P!Selection(a, q, candidates)
<1>1. P!HaltEscalation(a, q).kind = "escalation"
  BY DEF P!HaltEscalation, P!EscalationRequired, P!Output
<1>2. P!EligibilityEscalation(a, q).kind = "escalation"
  BY DEF P!EligibilityEscalation, P!EscalationRequired, P!Output
<1>3. P!AttributionEscalation(a, q).kind = "escalation"
  BY DEF P!AttributionEscalation, P!EscalationRequired, P!Output
<1>4. P!GateEscalation(a, q).kind = "escalation"
  BY DEF P!GateEscalation, P!EscalationRequired, P!Output
<1>5. P!ApprovedPathsEscalation(a, q).kind = "escalation"
  BY DEF P!ApprovedPathsEscalation, P!EscalationRequired, P!Output
<1>6. \A s : P!QuorumAuthorityRequired(a, q, s, candidates).kind # "routing"
  BY DEF P!QuorumAuthorityRequired, P!OperationPackage, P!Output
<1>7. P!RoutingDecision(a, q, candidates).kind = "routing"
        => P!RoutingDecision(a, q, candidates).path = P!FirstPath(candidates)
  BY DEF P!RoutingDecision, P!Output
<1>8. ~a.halted
  BY <1>1 DEF P!Selection
<1>9. P!MaterialSurface(a, q) = None
  BY <1>6, <1>8 DEF P!Selection
<1>10. P!verify_eligibility(a.evidence)
  BY <1>2, <1>8, <1>9 DEF P!Selection
<1>11. a.jurisdictions # None
  BY <1>3, <1>8, <1>9, <1>10 DEF P!Selection
<1>12. ~P!GateStops(a, q)
  BY <1>4, <1>8, <1>9, <1>10, <1>11 DEF P!Selection
<1>13. candidates # {}
  BY <1>5, <1>8, <1>9, <1>10, <1>11, <1>12 DEF P!Selection
<1>14. o = P!RoutingDecision(a, q, candidates)
  BY <1>8, <1>9, <1>10, <1>11, <1>12, <1>13 DEF P!Selection
<1> QED
  BY <1>7, <1>8, <1>9, <1>10, <1>11, <1>12, <1>13, <1>14

\* What a path has that serves a question.
ServesQuestion(p, q) ==
  /\ q.dimension = "rail_routing" \/ q.dimension \in p.dimensions
  /\ q.currency # None => q.dimension = "fx_leg" \/ q.currency \in p.currencies

LEMMA CandidatesServe ==
    ASSUME NEW a, NEW q, QuestionValid(q)
    PROVE  \E candidates \in SUBSET DOMAIN Tables :
             /\ P!Select(a, q) = P!Selection(a, q, candidates)
             /\ \A i \in candidates : ServesQuestion(Tables[i], q)
<1>1. CASE q.dimension = "rail_routing"
  <2>1. P!Select(a, q) = P!Selection(a, q, P!find_rail_paths(q))
    BY <1>1, Zenon DEF P!Select, P!select_multi_currency_rail_routing
  <2>2. P!find_rail_paths(q) \in SUBSET DOMAIN Tables
    BY DEF P!find_rail_paths, P!Having
  <2>3. \A i \in P!find_rail_paths(q) : ServesQuestion(Tables[i], q)
    BY <1>1 DEF P!find_rail_paths, P!Having, ServesQuestion
  <2> QED
    BY <2>1, <2>2, <2>3, Zenon
<1>2. CASE q.dimension = "correspondent"
  <2>1. P!Select(a, q) = P!Selection(a, q, P!find_correspondent_paths(q))
    BY <1>2 DEF P!Select, P!select_correspondent_banking_coordination
  <2>2. P!find_correspondent_paths(q) \in SUBSET DOMAIN Tables
    BY DEF P!find_correspondent_paths, P!Having
  <2>3. \A i \in P!find_correspondent_paths(q) : ServesQuestion(Tables[i], q)
    BY <1>2 DEF P!find_correspondent_paths, P!Having, ServesQuestion
  <2> QED
    BY <2>1, <2>2, <2>3, Zenon
<1>3. CASE q.dimension = "fx_leg"
  <2>1. P!Select(a, q) = P!Selection(a, q, P!find_fx_pvp_paths(q))
    BY <1>3 DEF P!Select, P!select_cross_border_fx_leg
  <2>2. P!find_fx_pvp_paths(q) \in SUBSET DOMAIN Tables
    BY DEF P!find_fx_pvp_paths, P!Having
  <2>3. \A i \in P!find_fx_pvp_paths(q) : ServesQuestion(Tables[i], q)
    BY <1>3 DEF P!find_fx_pvp_paths, P!Having, ServesQuestion
  <2> QED
    BY <2>1, <2>2, <2>3, Zenon
<1>4. CASE q.dimension = "depository"
  <2>1. P!Select(a, q) = P!Selection(a, q, P!find_depository_paths(q))
    BY <1>4 DEF P!Select, P!select_depository_vs_sub_custodian
  <2>2. P!find_depository_paths(q) \in SUBSET DOMAIN Tables
    BY DEF P!find_depository_paths, P!Having
  <2>3. \A i \in P!find_depository_paths(q) : ServesQuestion(Tables[i], q)
    BY <1>4 DEF P!find_depository_paths, P!Having, ServesQuestion, QuestionValid
  <2> QED
    BY <2>1, <2>2, <2>3, Zenon
<1>5. CASE q.dimension = "lvps"
  <2>1. P!Select(a, q) = P!Selection(a, q, P!find_lvps_paths(q))
    BY <1>5 DEF P!Select, P!select_large_value_payment_system
  <2>2. P!find_lvps_paths(q) \in SUBSET DOMAIN Tables
    BY DEF P!find_lvps_paths, P!find_rail_paths, P!Having
  <2>3. \A i \in P!find_lvps_paths(q) : ServesQuestion(Tables[i], q)
    BY <1>5 DEF P!find_lvps_paths, P!find_rail_paths, P!Having, ServesQuestion
  <2> QED
    BY <2>1, <2>2, <2>3, Zenon
<1>6. CASE q.dimension = "fed"
  <2>1. P!Select(a, q) = P!Selection(a, q, P!fed_facility(q))
    BY <1>6 DEF P!Select, P!select_fed_related_operation
  <2>2. P!fed_facility(q) \in SUBSET DOMAIN Tables
    BY DEF P!fed_facility, P!find_path, P!Having
  <2>3. ASSUME NEW i \in P!fed_facility(q) PROVE ServesQuestion(Tables[i], q)
    <3>1. P!is_approved(q.facility, "fed")
      BY <2>3 DEF P!fed_facility
    <3>2. PICK j \in DOMAIN Tables :
            Tables[j].id = q.facility /\ "fed" \in Tables[j].dimensions
      BY <3>1 DEF P!is_approved, P!Having
    <3>3. i \in DOMAIN Tables /\ Tables[i].id = q.facility
      BY <2>3, <3>1 DEF P!fed_facility, P!find_path, P!Having
    <3>4. i = j
      BY <3>2, <3>3, TablesAreValid DEF T!TablesValid
    <3> QED
      BY <1>6, <3>2, <3>4 DEF ServesQuestion, QuestionValid
  <2> QED
    BY <2>1, <2>2, <2>3, Zenon
<1>7. CASE q.dimension = "sweep"
  <2>1. P!Select(a, q) = P!Selection(a, q, P!find_cash_sweep_paths(q))
    BY <1>7 DEF P!Select, P!select_cash_sweep_and_short_term_investment
  <2>2. P!find_cash_sweep_paths(q) \in SUBSET DOMAIN Tables
    BY DEF P!find_cash_sweep_paths, P!Having
  <2>3. \A i \in P!find_cash_sweep_paths(q) : ServesQuestion(Tables[i], q)
    BY <1>7 DEF P!find_cash_sweep_paths, P!Having, ServesQuestion
  <2> QED
    BY <2>1, <2>2, <2>3, Zenon
<1> QED
  BY <1>1, <1>2, <1>3, <1>4, <1>5, <1>6, <1>7 DEF QuestionValid, T!PathSelectionDimension

\* The first path of some candidates, found again by its name.
LEMMA FirstPathFound ==
    ASSUME NEW candidates \in SUBSET DOMAIN Tables, candidates # {}
    PROVE  \E i \in candidates :
             Tables[i] = CHOOSE p \in Range(Tables) : p.id = P!FirstPath(candidates)
<1>1. candidates \in SUBSET Nat
  BY TablesAreValid
<1> DEFINE i == Min(candidates)
<1>2. i \in candidates
  BY <1>1, MinIsLeast
<1>3. P!FirstPath(candidates) = Tables[i].id
  BY DEF P!FirstPath, P!Min, Min
<1> HIDE DEF i
<1>4. Tables[i] \in Range(Tables)
  BY <1>2 DEF Range
<1>5. \A p \in Range(Tables) : p.id = Tables[i].id => p = Tables[i]
  <2> SUFFICES ASSUME NEW p \in Range(Tables), p.id = Tables[i].id PROVE p = Tables[i]
    OBVIOUS
  <2>1. PICK j \in DOMAIN Tables : p = Tables[j]
    BY DEF Range
  <2> QED
    BY <1>2, <2>1, TablesAreValid DEF T!TablesValid
<1> QED
  BY <1>2, <1>3, <1>4, <1>5, Zenon

\* What the five checks of eligibility say of the evidence.
LEMMA Eligible ==
    ASSUME NEW e, e.correspondents \in Seq(Range(e.correspondents)), P!verify_eligibility(e)
    PROVE  /\ e.kyc # None /\ e.kyc >= e.now
           /\ e.needsKyb => e.kyb # None /\ e.kyb >= e.now
           /\ TRUE \notin Range(e.ofac) \cup Range(e.sanctions)
           /\ \A bic \in e.needsBics : \E c \in Range(e.correspondents) :
                c.bic = bic /\ c.expires >= e.now
<1> DEFINE C == P!Checks(e)
<1>1. /\ DOMAIN C = {"kyc", "kyb", "ofac", "sanctions", "correspondents"}
      /\ C.kyc = P!verify_kyc(e) /\ C.kyb = P!verify_kyb(e) /\ C.ofac = P!verify_ofac(e)
      /\ C.sanctions = P!verify_sanctions(e)
      /\ C.correspondents = P!verify_correspondents(e)
  BY DEF P!Checks
<1>2. \A kind \in DOMAIN C : C[kind]
  BY Zenon DEF P!verify_eligibility, P!FailedChecks
<1> HIDE DEF C
<1>3. P!verify_kyc(e) /\ P!verify_kyb(e) /\ P!verify_ofac(e) /\ P!verify_sanctions(e)
      /\ P!verify_correspondents(e)
  BY <1>1, <1>2
<1>4. e.kyc # None /\ e.kyc >= e.now
  BY <1>3 DEF P!verify_kyc, P!InForce
<1>5. e.needsKyb => e.kyb # None /\ e.kyb >= e.now
  BY <1>3 DEF P!verify_kyb, P!InForce
<1>6. TRUE \notin Range(e.ofac) \cup Range(e.sanctions)
  BY <1>3, Zenon DEF P!verify_ofac, P!verify_sanctions, P!Screened, Range
<1>7. ASSUME NEW bic \in e.needsBics
      PROVE  \E c \in Range(e.correspondents) : c.bic = bic /\ c.expires >= e.now
  <2> DEFINE its == {i \in DOMAIN e.correspondents : e.correspondents[i].bic = bic}
             last == Max(its)
  <2>1. its # {} /\ P!InForce(e.correspondents[P!Max(its)].expires, e.now)
    BY <1>3, <1>7 DEF P!verify_correspondents, P!Attested
  <2>2. P!Max(its) = last
    BY DEF P!Max, Max
  <2>3. its \in SUBSET Nat /\ IsFiniteSet(its)
    <3>1. DOMAIN e.correspondents = 1..Len(e.correspondents) /\ Len(e.correspondents) \in Nat
      OBVIOUS
    <3>2. IsFiniteSet(1..Len(e.correspondents))
      BY <3>1, FS_Interval
    <3> QED
      BY <3>1, <3>2, FS_Subset
  <2>4. last \in its
    BY <2>1, <2>3, MaxIsGreatest
  <2> HIDE DEF last
  <2>5. e.correspondents[last] \in Range(e.correspondents) /\ e.correspondents[last].bic = bic
    BY <2>4 DEF Range
  <2> QED
    BY <2>1, <2>2, <2>5 DEF P!InForce
<1> QED
  BY <1>4, <1>5, <1>6, <1>7

\* The gate's answer that a cash dimension asks for is one the caller holds.
LEMMA GateBound ==
    ASSUME NEW a, NEW q, a.gate \in Decisions, ~P!GateStops(a, q)
    PROVE  q.dimension \in {"rail_routing", "fx_leg", "lvps"} =>
             /\ \E r \in records : /\ r.answer.decision = "PROCEED"
                                   /\ r.obligation = a.gate.obligation
             /\ a.gate.obligation # None
<1> SUFFICES ASSUME q.dimension \in {"rail_routing", "fx_leg", "lvps"}
             PROVE  /\ \E r \in records : /\ r.answer.decision = "PROCEED"
                                          /\ r.obligation = a.gate.obligation
                    /\ a.gate.obligation # None
  OBVIOUS
<1>1. a.gate # None /\ a.gate.decision = "PROCEED" /\ a.gate.obligation # None
  BY Zenon DEF P!GateStops, P!GATE_REQUIRED_DIMENSIONS
<1>2. a.gate # Absent
  BY <1>1 DEF Absent, absent_gate_decision
<1>3. PICK r \in records : a.gate = Governing(r)
  BY <1>1, <1>2 DEF Decisions
<1> QED
  BY <1>1, <1>3 DEF Governing

\* What was emitted, if it is a route, answers a question that could be asked
\* with a decision the caller held then and holds still.
EmittedInv ==
  emitted # None /\ emitted.output.kind = "routing" =>
    /\ emitted.output = P!Select(emitted.asked, emitted.question)
    /\ emitted.asked.gate \in Decisions
    /\ QuestionValid(emitted.question)
    /\ emitted.asked.amount # None => emitted.asked.amount \in Int
    /\ emitted.asked.evidence.correspondents
         \in Seq(Range(emitted.asked.evidence.correspondents))

LEMMA EmittedKept ==
    (Init => EmittedInv) /\ (CallsInv /\ EmittedInv /\ [Next]_vars => EmittedInv')
<1>1. Init => EmittedInv
  BY DEF Init, EmittedInv
<1>2. ASSUME CallsInv, EmittedInv, [Next]_vars PROVE EmittedInv'
  <2>1. CASE Turn
    BY <2>1 DEF Turn, EmittedInv
  <2>2. CASE Halt
    BY <2>2 DEF Halt, EmittedInv
  <2>3. CASE Evaluate
    BY <2>3 DEF Evaluate, EmittedInv
  <2>4. CASE Select
    <3>1. PICK gate \in Decisions :
            /\ emitted' = [asked |-> Ask(gate), question |-> now.question,
                           output |-> P!Select(Ask(gate), now.question)]
            /\ UNCHANGED <<now, halt, records>>
      BY <2>4, Zenon DEF Select
    <3>2. /\ emitted'.asked = Ask(gate) /\ emitted'.question = now.question
          /\ emitted'.output = P!Select(Ask(gate), now.question)
      BY <3>1
    <3>3. /\ Ask(gate).gate = gate /\ Ask(gate).amount = now.request.amount
          /\ Ask(gate).evidence = now.request.evidence
      BY DEF Ask
    <3>4. SituationValid(now)
      BY <1>2, SituationsAreValid DEF CallsInv
    <3>5. /\ QuestionValid(now.question)
          /\ now.request.amount # None => now.request.amount \in Int
          /\ now.request.evidence.correspondents
               \in Seq(Range(now.request.evidence.correspondents))
      BY <3>4, Zenon DEF SituationValid
    <3>6. Decisions' = Decisions
      BY <3>1 DEF Decisions
    <3> HIDE DEF Ask
    <3> QED
      BY <3>2, <3>3, <3>5, <3>6, Zenon DEF EmittedInv
  <2>5. CASE Instruct
    <3>1. \A a, q, c : P!DoctrineOverCodeEscalation(a, q, c).kind = "escalation"
      BY DEF P!DoctrineOverCodeEscalation, P!EscalationRequired, P!Output
    <3>2. PICK cascade :
            emitted' = [asked |-> Ask(None), question |-> now.question,
                        output |-> P!DoctrineOverCodeEscalation(Ask(None), now.question, cascade)]
      BY <2>5, Zenon DEF Instruct
    <3>3. emitted'.output.kind # "routing"
      BY <3>1, <3>2
    <3> QED
      BY <3>3 DEF EmittedInv
  <2>6. CASE UNCHANGED vars
    BY <1>2, <2>6 DEF vars, EmittedInv, Decisions
  <2> QED
    BY <1>2, <2>1, <2>2, <2>3, <2>4, <2>5, <2>6 DEF Next
<1> QED
  BY <1>1, <1>2

LEMMA EmittedIsGoverned ==
    ASSUME EmittedInv PROVE RoutedIsGoverned
<1> SUFFICES ASSUME emitted # None, emitted.output.kind = "routing"
             PROVE  RoutedIsGoverned
  BY DEF RoutedIsGoverned
<1> DEFINE a == emitted.asked
           q == emitted.question
           e == a.evidence
           path == CHOOSE p \in Range(Tables) : p.id = emitted.output.path
<1>1. /\ emitted.output = P!Select(a, q)
      /\ a.gate \in Decisions
      /\ QuestionValid(q)
      /\ a.amount # None => a.amount \in Int
      /\ e.correspondents \in Seq(Range(e.correspondents))
  BY Zenon DEF EmittedInv
<1> HIDE DEF a, q, e
<1>2. PICK candidates \in SUBSET DOMAIN Tables :
        /\ P!Select(a, q) = P!Selection(a, q, candidates)
        /\ \A i \in candidates : ServesQuestion(Tables[i], q)
  BY <1>1, CandidatesServe, Zenon
<1>3. P!Selection(a, q, candidates).kind = "routing"
  BY <1>1, <1>2
<1>4. /\ ~a.halted
      /\ P!MaterialSurface(a, q) = None
      /\ P!verify_eligibility(e)
      /\ a.jurisdictions # None
      /\ ~P!GateStops(a, q)
      /\ candidates # {}
      /\ emitted.output.path = P!FirstPath(candidates)
  BY <1>1, <1>2, <1>3, SelectionRoutes DEF e
<1>5. ServesQuestion(path, q)
  BY <1>2, <1>4, FirstPathFound
<1> HIDE DEF path
<1>6. /\ a.surface = None
      /\ ~P!IsSanctionedAdjacent(a)
      /\ q.dimension \in DOMAIN P!SurfaceOf =>
           ~P!IsMaterial(P!SurfaceOf[q.dimension], q.currency, a.amount)
  BY <1>4, SurfaceIsNone
<1>7. a.jurisdictions \cap Sanctioned = {}
  BY <1>4, <1>6 DEF P!IsSanctionedAdjacent
<1>8. /\ e.kyc # None /\ e.kyc >= e.now
      /\ e.needsKyb => e.kyb # None /\ e.kyb >= e.now
      /\ TRUE \notin Range(e.ofac) \cup Range(e.sanctions)
      /\ \A bic \in e.needsBics : \E c \in Range(e.correspondents) :
           c.bic = bic /\ c.expires >= e.now
  BY <1>1, <1>4, Eligible, Zenon
<1>9. q.dimension \in {"rail_routing", "fx_leg", "lvps"} =>
        /\ \E r \in records : /\ r.answer.decision = "PROCEED"
                              /\ r.obligation = a.gate.obligation
        /\ a.gate.obligation # None
  BY <1>1, <1>4, GateBound, Zenon
<1>10. ASSUME a.amount # None, NEW s \in DOMAIN Thresholds,
              q.dimension \in DOMAIN P!SurfaceOf, P!SurfaceOf[q.dimension] = s,
              q.currency \in DOMAIN Thresholds[s]
       PROVE  a.amount < Thresholds[s][q.currency]
  <2>1. ~(a.amount >= Thresholds[s][q.currency])
    BY <1>6, <1>10 DEF P!IsMaterial
  <2>2. a.amount \in Int /\ Thresholds[s][q.currency] \in Int
    BY <1>1, <1>10, TablesAreValid
  <2> QED
    BY <2>1, <2>2
<1> QED
  BY <1>4, <1>5, <1>6, <1>7, <1>8, <1>9, <1>10, Zenon
     DEF RoutedIsGoverned, ServesQuestion, a, q, e, path

\* Whatever is asked of the specialist and in whatever order the world turns, a
\* path comes only after every guard: no halt, no quorum surface, the five
\* checks, an attribution and, in a cash dimension, a bound PROCEED that the
\* caller holds; and it serves what was asked (the seven select_ methods).
THEOREM RoutesAreGoverned == Spec => []RoutedIsGoverned
<1>1. Init => CallsInv /\ EmittedInv
  BY CapturesKept, EmittedKept
<1>2. CallsInv /\ EmittedInv /\ [Next]_vars => CallsInv' /\ EmittedInv'
  BY CapturesKept, EmittedKept
<1>3. EmittedInv => RoutedIsGoverned
  BY EmittedIsGoverned
<1> QED
  BY <1>1, <1>2, <1>3, PTL DEF Spec
=============================================================================
