----------------------------- MODULE LoopProofs -----------------------------
(***************************************************************************)
(* What may be concluded about a loop inside one handler: its equations,   *)
(* that it preserves what its body preserves, and that it reaches a fixed  *)
(* point.  A specification instantiates this module with its loop body.    *)
(***************************************************************************)
EXTENDS Loop

\* Binding the argument does not change what the body computes.
LEMMA ApplyIsBody == \A x : Apply(x) = Body(x)
  BY DEF Apply

\* Induction over the natural numbers, for a property given as a set.  The theorems
\* below take it as a hypothesis, and the module with the instances proves it once.
Induction ==
  \A S : (/\ 0 \in S
          /\ \A n \in Nat : n \in S => n + 1 \in S) => \A n \in Nat : n \in S

\* g records the first n executions of the body.
Runs(g, x, n) ==
  /\ g[0] = x
  /\ \A i \in Nat : i < n => g[i + 1] = Body(g[i])

\* The recursion of Run has a solution for every number of executions.
LEMMA RunsExist ==
  ASSUME Induction, NEW x
  PROVE  \A n \in Nat : \E g : Runs(g, x, n)
<1> DEFINE S == {n \in Nat : \E g : Runs(g, x, n)}
<1>1. 0 \in S
  <2>1. Runs([i \in Nat |-> x], x, 0)
    BY DEF Runs
  <2> QED BY <2>1
<1>2. ASSUME NEW n \in Nat, n \in S PROVE n + 1 \in S
  <2>1. PICK g : Runs(g, x, n)
    BY <1>2
  <2> DEFINE h == [i \in Nat |-> IF i = n + 1 THEN Body(g[n]) ELSE g[i]]
  <2>2. h[0] = x
    BY <2>1 DEF Runs
  <2>3. ASSUME NEW i \in Nat, i < n + 1 PROVE h[i + 1] = Body(h[i])
    <3>1. CASE i = n
      BY <3>1
    <3>2. CASE i < n
      BY <3>2, <2>1 DEF Runs
    <3> QED BY <3>1, <3>2, <2>3
  <2>4. Runs(h, x, n + 1)
    BY <2>2, <2>3 DEF Runs
  <2> QED BY <2>4
<1> HIDE DEF S
<1>3. \A n \in Nat : n \in S
  BY <1>1, <1>2 DEF Induction
<1> QED BY <1>3 DEF S

\* Two records of the same executions agree.
LEMMA RunsAgree ==
  ASSUME Induction, NEW x, NEW n \in Nat, NEW g, NEW h, Runs(g, x, n), Runs(h, x, n)
  PROVE  \A k \in Nat : k <= n => g[k] = h[k]
<1> DEFINE S == {k \in Nat : k <= n => g[k] = h[k]}
<1>1. 0 \in S
  BY DEF Runs
<1>2. ASSUME NEW k \in Nat, k \in S PROVE k + 1 \in S
  BY <1>2 DEF Runs
<1> HIDE DEF S
<1>3. \A k \in Nat : k \in S
  BY <1>1, <1>2 DEF Induction
<1> QED BY <1>3 DEF S

\* The defining equations of Run.
THEOREM RunUnfolds ==
  ASSUME Induction, NEW x
  PROVE  /\ Run(x)[0] = x
         /\ \A n \in Nat : Run(x)[n + 1] = Body(Run(x)[n])
<1> DEFINE run(n) == CHOOSE g : Runs(g, x, n)
<1>1. \A n \in Nat : Runs(run(n), x, n)
  BY RunsExist
<1> DEFINE f == [n \in Nat |-> run(n)[n]]
<1> HIDE DEF run
<1>2. f[0] = x
  BY <1>1 DEF Runs
<1>3. ASSUME NEW n \in Nat PROVE f[n + 1] = Body(f[n])
  <2>1. Runs(run(n + 1), x, n + 1) /\ Runs(run(n + 1), x, n) /\ Runs(run(n), x, n)
    BY <1>1 DEF Runs
  <2>2. run(n + 1)[n] = run(n)[n]
    BY <2>1, RunsAgree
  <2>3. run(n + 1)[n + 1] = Body(run(n + 1)[n])
    BY <2>1 DEF Runs
  <2> QED BY <2>2, <2>3
<1> DEFINE IsRun(g) == g = [n \in Nat |-> IF n = 0 THEN x ELSE Body(g[n - 1])]
<1>4. ASSUME NEW n \in Nat PROVE f[n] = IF n = 0 THEN x ELSE Body(f[n - 1])
  <2>1. CASE n = 0
    BY <2>1, <1>2
  <2>2. CASE n # 0
    <3>1. n - 1 \in Nat /\ (n - 1) + 1 = n
      BY <2>2
    <3>2. f[(n - 1) + 1] = Body(f[n - 1])
      BY <3>1, <1>3
    <3> QED BY <3>1, <3>2, <2>2
  <2> QED BY <2>1, <2>2
<1>5. f = [n \in Nat |-> f[n]]
  OBVIOUS
<1> HIDE DEF f
<1>6. IsRun(f)
  BY <1>4, <1>5
<1>7. Run(x) = CHOOSE g : IsRun(g)
  <2>1. \A g : IsRun(g) <=> g = [n \in Nat |-> IF n = 0 THEN x ELSE Apply(g[n - 1])]
    BY ApplyIsBody
  <2> QED BY <2>1 DEF Run
<1> HIDE DEF IsRun
<1>8. IsRun(Run(x))
  BY <1>6, <1>7
<1>9. \A n \in Nat : Run(x)[n] = IF n = 0 THEN x ELSE Body(Run(x)[n - 1])
  <2> DEFINE J == Run(x)
  <2>1. J = [n \in Nat |-> IF n = 0 THEN x ELSE Body(J[n - 1])]
    BY <1>8 DEF IsRun
  <2> HIDE DEF J
  <2>2. \A n \in Nat : J[n] = IF n = 0 THEN x ELSE Body(J[n - 1])
    BY <2>1
  <2> QED BY <2>2 DEF J
<1>10. ASSUME NEW n \in Nat PROVE Run(x)[n + 1] = Body(Run(x)[n])
  <2>1. n + 1 \in Nat /\ n + 1 # 0 /\ (n + 1) - 1 = n
    OBVIOUS
  <2> QED BY <2>1, <1>9
<1> QED BY <1>9, <1>10

\* What the body preserves, the loop preserves.
THEOREM RunStays ==
  ASSUME Induction, NEW S, \A y \in S : Body(y) \in S, NEW x \in S
  PROVE  \A n \in Nat : Run(x)[n] \in S
<1> DEFINE K == {n \in Nat : Run(x)[n] \in S}
<1>1. 0 \in K  BY RunUnfolds
<1>2. ASSUME NEW n \in Nat, n \in K PROVE n + 1 \in K  BY <1>2, RunUnfolds
<1> HIDE DEF K
<1>3. \A n \in Nat : n \in K  BY <1>1, <1>2 DEF Induction
<1> QED BY <1>3 DEF K

\* A loop whose body stops changing its argument or decreases a measure has
\* reached a fixed point after as many executions as the measure says.
THEOREM RunTerminates ==
  ASSUME Induction, NEW S, \A y \in S : Body(y) \in S,
         NEW f \in [S -> Nat], \A y \in S : Body(y) = y \/ f[Body(y)] < f[y],
         NEW x \in S, NEW m \in Nat, f[x] <= m
  PROVE  Body(Run(x)[m]) = Run(x)[m]
<1> DEFINE R(n) == Run(x)[n]
           K == {n \in Nat : Body(R(n)) = R(n) \/ f[R(n)] + n <= f[x]}
<1>1. \A n \in Nat : R(n) \in S
  BY RunStays
<1>2. R(0) = x /\ \A n \in Nat : R(n + 1) = Body(R(n))
  BY RunUnfolds
<1> HIDE DEF R
<1>3. 0 \in K
  BY <1>2
<1>4. ASSUME NEW n \in Nat, n \in K PROVE n + 1 \in K
  <2>1. CASE Body(R(n)) = R(n)
    BY <2>1, <1>2
  <2>2. CASE Body(R(n)) # R(n)
    <3>1. f[R(n)] + n <= f[x] /\ f[Body(R(n))] < f[R(n)]
      BY <2>2, <1>1, <1>4
    <3>2. f[R(n)] \in Nat /\ f[R(n + 1)] \in Nat /\ f[x] \in Nat
      BY <1>1
    <3>3. f[R(n + 1)] + (n + 1) <= f[x]
      BY <3>1, <3>2, <1>2
    <3> QED BY <3>3
  <2> QED BY <2>1, <2>2
<1>5. m \in K
  <2> HIDE DEF K
  <2> QED BY <1>3, <1>4 DEF Induction
<1>6. CASE f[R(m)] + m <= f[x]
  <2>1. f[R(m)] \in Nat /\ f[x] \in Nat /\ f[Body(R(m))] \in Nat /\ R(m) \in S
    BY <1>1
  <2>2. ~(f[Body(R(m))] < f[R(m)])
    BY <1>6, <2>1
  <2>3. Body(R(m)) = R(m)
    BY <2>1, <2>2
  <2> QED BY <2>3 DEF R
<1> QED BY <1>5, <1>6 DEF R
=============================================================================
