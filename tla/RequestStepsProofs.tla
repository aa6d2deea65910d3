------------------------- MODULE RequestStepsProofs -------------------------
(***************************************************************************)
(* Lemmas about requests that execute the statements of a plan one by one, *)
(* for the proofs about the modules that extend RequestSteps.              *)
(***************************************************************************)
EXTENDS RequestSteps, SequenceTheorems, TLAPS

\* What is left to do is the end of the plan.
Remaining(todo, plan) ==
    /\ Len(todo) <= Len(plan)
    /\ \A i \in 1..Len(todo) : todo[i] = plan[Len(plan) - Len(todo) + i]

\* No statement occurs twice in a plan.
Distinct(plan) == \A i, j \in 1..Len(plan) : plan[i] = plan[j] => i = j

\* Statement s of todo, or of a plan; t comes before s in plan.
Has(todo, s) == \E i \in DOMAIN todo : todo[i] = s
Before(plan, t, s) == \E i, j \in 1..Len(plan) : i < j /\ plan[i] = t /\ plan[j] = s

\* Tail by its elements.
LEMMA TailOf ==
    ASSUME NEW S, NEW todo \in Seq(S), todo # <<>>
    PROVE  /\ Len(todo) \in Nat \ {0} /\ DOMAIN todo = 1..Len(todo) /\ Head(todo) = todo[1]
           /\ Tail(todo) \in Seq(S) /\ Len(Tail(todo)) = Len(todo) - 1
           /\ DOMAIN Tail(todo) = 1..(Len(todo) - 1)
           /\ \A i \in 1..(Len(todo) - 1) : Tail(todo)[i] = todo[i + 1]
           /\ Len(todo) = 1 <=> Tail(todo) = <<>>
<1>1. /\ Len(todo) \in Nat \ {0} /\ DOMAIN todo = 1..Len(todo) /\ Head(todo) = todo[1]
      /\ Tail(todo) \in Seq(S) /\ Len(Tail(todo)) = Len(todo) - 1
      /\ \A i \in 1..(Len(todo) - 1) : Tail(todo)[i] = todo[i + 1]
  OBVIOUS
<1>2. DOMAIN Tail(todo) = 1..(Len(todo) - 1)
  BY <1>1
<1>3. Len(todo) = 1 <=> Tail(todo) = <<>>
  <2>1. Tail(todo) = <<>> <=> Len(Tail(todo)) = 0
    BY <1>1, EmptySeq
  <2>2. QED
    BY <1>1, <2>1
<1>4. QED
  BY <1>1, <1>2, <1>3

\* Executing a statement leaves the end of the plan.
LEMMA RemainingTail ==
    ASSUME NEW S, NEW todo \in Seq(S), NEW plan \in Seq(S), todo # <<>>, Remaining(todo, plan)
    PROVE  Remaining(Tail(todo), plan)
<1>1. Len(plan) \in Nat
  OBVIOUS
<1>2. ASSUME NEW i \in 1..(Len(todo) - 1)
      PROVE  Tail(todo)[i] = plan[Len(plan) - (Len(todo) - 1) + i]
  <2>1. i + 1 \in 1..Len(todo) /\ Tail(todo)[i] = todo[i + 1]
    BY TailOf
  <2>2. todo[i + 1] = plan[Len(plan) - Len(todo) + (i + 1)]
    BY <2>1 DEF Remaining
  <2>3. Len(plan) - Len(todo) + (i + 1) = Len(plan) - (Len(todo) - 1) + i
    BY <1>1, TailOf
  <2>4. QED
    BY <2>1, <2>2, <2>3
<1>3. QED
  BY <1>1, <1>2, TailOf DEF Remaining

\* A statement that is executed, and only that one, is no longer left.
LEMMA LeftAfter ==
    ASSUME NEW S, NEW todo \in Seq(S), NEW plan \in Seq(S), todo # <<>>, Remaining(todo, plan),
           Distinct(plan), NEW t
    PROVE  Has(Tail(todo), t) <=> Has(todo, t) /\ t # Head(todo)
<1>1. Len(plan) \in Nat
  OBVIOUS
<1>2. ASSUME NEW i \in 1..(Len(todo) - 1)
      PROVE  todo[i + 1] # todo[1]
  <2>1. i + 1 \in 1..Len(todo) /\ 1 \in 1..Len(todo)
    BY TailOf
  <2>2. /\ todo[i + 1] = plan[Len(plan) - Len(todo) + (i + 1)]
        /\ todo[1] = plan[Len(plan) - Len(todo) + 1]
    BY <2>1 DEF Remaining
  <2>3. /\ Len(plan) - Len(todo) + (i + 1) \in 1..Len(plan)
        /\ Len(plan) - Len(todo) + 1 \in 1..Len(plan)
        /\ Len(plan) - Len(todo) + (i + 1) # Len(plan) - Len(todo) + 1
    BY <1>1, TailOf DEF Remaining
  <2>4. QED
    BY <2>2, <2>3 DEF Distinct
<1>3. ASSUME Has(Tail(todo), t) PROVE Has(todo, t) /\ t # Head(todo)
  <2>1. PICK i \in 1..(Len(todo) - 1) : Tail(todo)[i] = t
    BY <1>3, TailOf DEF Has
  <2>2. i + 1 \in DOMAIN todo /\ todo[i + 1] = t
    BY <2>1, TailOf
  <2>3. QED
    BY <1>2, <2>1, <2>2, TailOf DEF Has
<1>4. ASSUME Has(todo, t), t # Head(todo) PROVE Has(Tail(todo), t)
  <2>1. PICK i \in 1..Len(todo) : todo[i] = t
    BY <1>4, TailOf DEF Has
  <2>2. i # 1
    BY <1>4, <2>1, TailOf
  <2>3. i - 1 \in 1..(Len(todo) - 1) /\ Tail(todo)[i - 1] = todo[(i - 1) + 1]
    BY <2>1, <2>2, TailOf
  <2>4. i - 1 \in DOMAIN Tail(todo) /\ Tail(todo)[i - 1] = t
    BY <2>1, <2>3, TailOf
  <2>5. QED
    BY <2>4 DEF Has
<1>5. QED
  BY <1>3, <1>4

\* About to execute s, a request has executed what comes before s in its plan.
LEMMA LeftAt ==
    ASSUME NEW S, NEW todo \in Seq(S), NEW plan \in Seq(S), todo # <<>>, Remaining(todo, plan),
           Distinct(plan), NEW t, Has(plan, t)
    PROVE  /\ Has(plan, Head(todo)) /\ Has(todo, Head(todo))
           /\ ~ Has(todo, t) <=> Before(plan, t, Head(todo))
<1> DEFINE n == Len(plan) - Len(todo)
<1>1. Len(plan) \in Nat /\ DOMAIN plan = 1..Len(plan) /\ n \in Nat /\ n + 1 \in 1..Len(plan)
  BY TailOf DEF Remaining
<1>2. Head(todo) = plan[n + 1] /\ 1 \in DOMAIN todo
  BY TailOf DEF Remaining
<1>3. Has(plan, Head(todo)) /\ Has(todo, Head(todo))
  BY <1>1, <1>2, TailOf DEF Has
<1>4. \A k \in 1..Len(plan) : k > n => k - n \in DOMAIN todo /\ todo[k - n] = plan[k]
  <2> TAKE k \in 1..Len(plan)
  <2> HAVE k > n
  <2>1. k - n \in 1..Len(todo)
    BY <1>1, TailOf
  <2>2. todo[k - n] = plan[n + (k - n)]
    BY <2>1 DEF Remaining
  <2>3. n + (k - n) = k
    BY <1>1
  <2>4. QED
    BY <2>1, <2>2, <2>3, TailOf
<1>5. PICK k \in 1..Len(plan) : plan[k] = t
  BY <1>1 DEF Has
<1>6. ASSUME ~ Has(todo, t) PROVE Before(plan, t, Head(todo))
  <2>1. ~ k > n
    BY <1>4, <1>5, <1>6 DEF Has
  <2>2. k < n + 1
    BY <1>1, <2>1
  <2>3. QED
    BY <1>1, <1>2, <1>5, <2>2 DEF Before
<1>7. ASSUME Before(plan, t, Head(todo)) PROVE ~ Has(todo, t)
  <2>1. PICK i, j \in 1..Len(plan) : i < j /\ plan[i] = t /\ plan[j] = Head(todo)
    BY <1>7 DEF Before
  <2>2. j = n + 1
    BY <1>1, <1>2, <2>1 DEF Distinct
  <2>3. SUFFICES ASSUME NEW m \in 1..Len(todo), todo[m] = t PROVE FALSE
    BY TailOf DEF Has
  <2>4. n + m \in 1..Len(plan) /\ plan[n + m] = t
    BY <1>1, <2>3, TailOf DEF Remaining
  <2>5. n + m = i
    BY <2>1, <2>4 DEF Distinct
  <2>6. QED
    BY <1>1, <2>1, <2>2, <2>5, TailOf
<1>8. QED
  BY <1>3, <1>6, <1>7

\* Statements are executed in the order of the plan.
LEMMA LeftInOrder ==
    ASSUME NEW S, NEW todo \in Seq(S), NEW plan \in Seq(S), Remaining(todo, plan), Distinct(plan),
           NEW s, NEW t, Before(plan, s, t), ~ Has(todo, t)
    PROVE  ~ Has(todo, s)
<1> DEFINE n == Len(plan) - Len(todo)
<1>1. Len(plan) \in Nat /\ Len(todo) \in Nat /\ DOMAIN todo = 1..Len(todo) /\ n \in Nat
  BY DEF Remaining
<1>2. PICK i, j \in 1..Len(plan) : i < j /\ plan[i] = s /\ plan[j] = t
  BY DEF Before
<1>3. ~ n < j
  <2> SUFFICES ASSUME n < j PROVE FALSE
    OBVIOUS
  <2>1. j - n \in 1..Len(todo) /\ n + (j - n) = j
    BY <1>1, <1>2
  <2>2. todo[j - n] = plan[n + (j - n)]
    BY <2>1 DEF Remaining
  <2>3. QED
    BY <1>1, <1>2, <2>1, <2>2 DEF Has
<1>4. SUFFICES ASSUME NEW m \in 1..Len(todo), todo[m] = s PROVE FALSE
  BY <1>1 DEF Has
<1>5. n + m \in 1..Len(plan) /\ plan[n + m] = s
  BY <1>1, <1>4 DEF Remaining
<1>6. n + m = i
  BY <1>2, <1>5 DEF Distinct
<1>7. QED
  BY <1>1, <1>2, <1>3, <1>4, <1>6
=============================================================================
