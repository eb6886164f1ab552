--------------------------- MODULE CoapCliProofs ---------------------------
(***************************************************************************)
(* Proofs about the executions of coap_cli.py and the board's pool, for    *)
(* every number of executions, attempts and contexts.                      *)
(***************************************************************************)
EXTENDS CoapCli, FiniteSetTheorems, TLAPS

\* A run that is still connecting has left contexts of its earlier attempts
\* only, at most one for each.
OwnContexts ==
    \A r \in Run : pc[r] = "connect" => \A s \in pool : s[1] = r => s[2] < attempt[r]

CliInv == CliTypeOK /\ OwnContexts

-----------------------------------------------------------------------------
\* The pool is finite, whatever the runs have left in it.
LEMMA PoolFinite ==
  ASSUME NEW p \in SUBSET (Run \X (1..Retries))
  PROVE  IsFiniteSet(p) /\ Cardinality(p) \in Nat
<1>1. IsFiniteSet(1..Retries)
  BY CliAssumption, FS_Interval
<1>2. IsFiniteSet(Run \X (1..Retries))
  BY <1>1, CliAssumption, FS_Product
<1>3. IsFiniteSet(p)
  BY <1>2, FS_Subset
<1> QED
  BY <1>3, FS_CardinalityType

\* A pool with room takes one more context.
LEMMA PoolTakes ==
  ASSUME NEW p \in SUBSET (Run \X (1..Retries)), NEW s, Cardinality(p) < MaxContexts
  PROVE  Cardinality(p \cup {s}) <= MaxContexts
<1>1. IsFiniteSet(p) /\ Cardinality(p) \in Nat
  BY PoolFinite
<1>2. CASE s \in p
  <2>1. p \cup {s} = p
    BY <1>2
  <2> QED
    BY <1>1, <2>1, CliAssumption
<1>3. CASE s \notin p
  <2>1. Cardinality(p \cup {s}) = Cardinality(p) + 1
    BY <1>1, <1>3, FS_AddElement
  <2> QED
    BY <1>1, <2>1, CliAssumption
<1> QED
  BY <1>2, <1>3

\* A pool that gives a context back holds no more than before.
LEMMA PoolShrinks ==
  ASSUME NEW p \in SUBSET (Run \X (1..Retries)), NEW s, Cardinality(p) <= MaxContexts
  PROVE  Cardinality(p \ {s}) <= MaxContexts
<1>1. IsFiniteSet(p) /\ Cardinality(p) \in Nat /\ Cardinality(p \ {s}) \in Nat
  BY PoolFinite
<1>2. Cardinality(p \ {s}) <= Cardinality(p)
  BY <1>1, FS_Subset
<1> QED
  BY <1>1, <1>2, CliAssumption

-----------------------------------------------------------------------------
\* Before the first attempt.
LEMMA CliInitInv == CliInit => CliInv
<1> SUFFICES ASSUME CliInit PROVE CliInv
  OBVIOUS
<1>1. Cardinality(pool) <= MaxContexts
  <2>1. Cardinality(pool) = 0
    BY FS_EmptySet DEF CliInit
  <2> QED
    BY <2>1, CliAssumption
<1>2. 1 \in 1..Retries
  BY CliAssumption
<1> QED
  BY <1>1, <1>2 DEF CliInit, CliInv, CliTypeOK, OwnContexts

\* The handshake, done or failed.
LEMMA ConnectInv ==
  ASSUME CliInv, NEW r \in Run,
         \/ Connect(r)
         \/ \E leftover \in BOOLEAN : ConnectFails(r, leftover) \/ ConnectRaises(r, leftover)
  PROVE  CliInv'
<1> USE DEF CliInv
<1>1. /\ pc \in [Run -> {"connect", "request", "close", "exit"}] /\ attempt \in [Run -> 1..Retries]
      /\ pool \subseteq Run \X (1..Retries) /\ Cardinality(pool) <= MaxContexts
      /\ pc[r] = "connect"
  BY DEF CliTypeOK, Connect, ConnectFails, ConnectRaises
<1>2. Current(r) \in Run \X (1..Retries) /\ Current(r)[1] = r /\ Current(r)[2] = attempt[r]
  BY <1>1 DEF Current
<1>3. pool' = pool \/ (pool' = pool \cup {Current(r)} /\ Room)
  BY DEF Connect, ConnectFails, ConnectRaises
<1>4. pool' \subseteq Run \X (1..Retries) /\ Cardinality(pool') <= MaxContexts
  BY <1>1, <1>2, <1>3, PoolTakes DEF Room
<1>5. \/ pc' = pc /\ attempt[r] < Retries /\ attempt' = [attempt EXCEPT ![r] = @ + 1]
      \/ attempt' = attempt /\ \E to \in {"request", "exit"} : pc' = [pc EXCEPT ![r] = to]
  BY DEF Connect, ConnectFails, ConnectRaises, another_attempt
<1>6. attempt[r] \in Nat /\ \A s \in pool : s[2] \in Nat
  BY <1>1, CliAssumption
<1>7. CliTypeOK'
  <2>1. attempt' \in [Run -> 1..Retries]
    BY <1>1, <1>5, <1>6, CliAssumption
  <2>2. pc' \in [Run -> {"connect", "request", "close", "exit"}]
    BY <1>1, <1>5
  <2> QED
    BY <1>4, <2>1, <2>2 DEF CliTypeOK
<1>8. OwnContexts'
  <2> SUFFICES ASSUME NEW q \in Run, pc'[q] = "connect", NEW s \in pool', s[1] = q
               PROVE  s[2] < attempt'[q]
    BY DEF OwnContexts
  <2>1. CASE q # r
    BY <1>1, <1>2, <1>3, <1>5, <2>1 DEF OwnContexts
  <2>2. CASE q = r
    <3>1. attempt'[r] = attempt[r] + 1
      BY <1>1, <1>5, <2>2
    <3>2. s \in pool => s[2] < attempt[r]
      BY <1>1, <2>2 DEF OwnContexts
    <3> QED
      BY <1>2, <1>3, <1>6, <2>2, <3>1, <3>2
  <2> QED
    BY <2>1, <2>2
<1> QED
  BY <1>7, <1>8

\* The request and the close, and a session that ages out.
LEMMA ReleaseInv ==
  ASSUME CliInv, UNCHANGED attempt,
         pool' = pool \/ \E s : pool' = pool \ {s},
         pc' = pc \/ \E r \in Run, to \in {"close", "exit"} : pc' = [pc EXCEPT ![r] = to]
  PROVE  CliInv'
<1> USE DEF CliInv
<1>1. pool \subseteq Run \X (1..Retries) /\ Cardinality(pool) <= MaxContexts
  BY DEF CliTypeOK
<1>2. pool' \subseteq pool /\ Cardinality(pool') <= MaxContexts
  BY <1>1, PoolShrinks
<1>3. /\ pc' \in [Run -> {"connect", "request", "close", "exit"}]
      /\ \A q \in Run : pc'[q] = "connect" => pc[q] = "connect"
  BY DEF CliTypeOK
<1> QED
  BY <1>2, <1>3 DEF CliTypeOK, OwnContexts

\* CliInv is inductive.
LEMMA CliStepInv == CliInv /\ [CliNext]_cliVars => CliInv'
<1> SUFFICES ASSUME CliInv, [CliNext]_cliVars PROVE CliInv'
  OBVIOUS
<1>1. ASSUME NEW r \in Run, CliStep(r) PROVE CliInv'
  <2>1. CASE \/ Connect(r)
             \/ \E leftover \in BOOLEAN : ConnectFails(r, leftover) \/ ConnectRaises(r, leftover)
    BY <2>1, ConnectInv
  <2>2. CASE RequestEnds(r) \/ \E arrives \in BOOLEAN : Close(r, arrives)
    BY <2>2, ReleaseInv DEF RequestEnds, Close
  <2> QED
    BY <1>1, <2>1, <2>2 DEF CliStep
<1>2. ASSUME NEW s \in pool, AgeOut(s) PROVE CliInv'
  BY <1>2, ReleaseInv DEF AgeOut
<1>3. CASE UNCHANGED cliVars
  BY <1>3, ReleaseInv DEF cliVars
<1> QED
  BY <1>1, <1>2, <1>3 DEF CliNext

\* The inductive invariant of the executions and the pool holds.
THEOREM CliInvariant == CliSpec => []CliInv
<1>1. CliInit => CliInv
  BY CliInitInv
<1>2. CliInv /\ [CliNext]_cliVars => CliInv'
  BY CliStepInv
<1> QED
  BY <1>1, <1>2, PTL DEF CliSpec

\* open_transport() makes no more attempts than --retries, and the board never
\* gives a context that its pool does not have.
THEOREM CliTyped == CliSpec => []CliTypeOK
<1>1. CliInv => CliTypeOK
  BY DEF CliInv
<1> QED
  BY <1>1, CliInvariant, PTL

\* With a pool of as many contexts as attempts, the contexts that the failed
\* attempts of open_transport() left behind never keep its next attempt out.
THEOREM RetryHasRoom == CliSpec => []RetryFindsRoom
<1>1. CliInv => RetryFindsRoom
  <2> SUFFICES ASSUME CliInv, Retries <= MaxContexts, NEW r \in Run, pc[r] = "connect"
               PROVE  Cardinality({s \in pool : s[1] = r}) < MaxContexts
    BY DEF RetryFindsRoom
  <2> DEFINE Own == {s \in pool : s[1] = r}
  <2>1. attempt[r] \in 1..Retries /\ pool \subseteq Run \X (1..Retries)
    BY DEF CliInv, CliTypeOK
  <2>2. PICK n \in Nat : n = attempt[r] - 1 /\ n < Retries
    BY <2>1, CliAssumption
  <2>3. Own \subseteq {r} \X (1..n)
    <3> SUFFICES ASSUME NEW s \in pool, s[1] = r PROVE s \in {r} \X (1..n)
      OBVIOUS
    <3>1. s = <<s[1], s[2]>> /\ s[2] \in 1..Retries /\ s[2] < attempt[r]
      BY <2>1 DEF CliInv, OwnContexts
    <3>2. s[2] \in 1..n
      BY <2>1, <2>2, <3>1, CliAssumption
    <3> QED
      BY <3>1, <3>2
  <2>4. IsFiniteSet(1..n) /\ Cardinality(1..n) = n
    <3>1. 1 \in Int /\ n \in Int
      BY <2>2
    <3>2. IsFiniteSet(1..n) /\ Cardinality(1..n) = IF 1 > n THEN 0 ELSE n - 1 + 1
      BY <3>1, FS_Interval
    <3> QED
      BY <2>2, <3>2
  <2>5. IsFiniteSet({r}) /\ Cardinality({r}) = 1
    BY FS_Singleton
  <2>6. IsFiniteSet({r} \X (1..n)) /\ Cardinality({r} \X (1..n)) = n
    <3>1. /\ IsFiniteSet({r} \X (1..n))
          /\ Cardinality({r} \X (1..n)) = Cardinality({r}) * Cardinality(1..n)
      BY <2>4, <2>5, FS_Product
    <3> QED
      BY <2>2, <2>4, <2>5, <3>1
  <2>7. Cardinality(Own) <= n /\ Cardinality(Own) \in Nat
    BY <2>3, <2>6, FS_Subset, FS_CardinalityType
  <2> QED
    BY <2>2, <2>7, CliAssumption
<1> QED
  BY <1>1, CliInvariant, PTL

=============================================================================
