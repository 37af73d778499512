------------------------ MODULE DeviceHistoryProofs ------------------------
(***************************************************************************)
(* The state and the two counters of a device always say what its whole    *)
(* history says, for histories of every length.                            *)
(***************************************************************************)
EXTENDS DeviceHistory, TLAPS

(* The histories after one more result.                                    *)
LEMMA Longer ==
    ASSUME HistoryTypeOK, NEW ok \in BOOLEAN, polls' = Append(polls, ok)
    PROVE  /\ polls' \in Seq(BOOLEAN)
           /\ Len(polls) \in Nat /\ Len(polls') = Len(polls) + 1
           /\ polls'[Len(polls) + 1] = ok
           /\ \A i \in 1..Len(polls) : polls'[i] = polls[i]
BY DEF HistoryTypeOK

(* Type correctness: the history is a sequence of results, the row holds a *)
(* state of the schema and two natural numbers.                            *)
THEOREM HistoryTypeCorrect == HistorySpec => []HistoryTypeOK
<1>1. HistoryInit => HistoryTypeOK
  BY DEF HistoryInit, HistoryTypeOK, States
<1>2. HistoryTypeOK /\ [HistoryNext]_historyVars => HistoryTypeOK'
  <2> SUFFICES ASSUME HistoryTypeOK, [HistoryNext]_historyVars PROVE HistoryTypeOK'
    OBVIOUS
  <2>1. ASSUME NEW ok \in BOOLEAN, Result(ok) PROVE HistoryTypeOK'
    <3>1. polls' \in Seq(BOOLEAN)
      BY <2>1, Longer DEF Result
    <3>2. row' \in [current_state: States, failures: Nat, successes: Nat]
      BY <2>1 DEF Result, HistoryTypeOK, ComputeTransition, Falls, Rises, Failures, Successes, States
    <3>3. QED
      BY <3>1, <3>2 DEF HistoryTypeOK
  <2>2. CASE UNCHANGED historyVars
    BY <2>2 DEF historyVars, HistoryTypeOK
  <2>3. QED
    BY <2>1, <2>2 DEF HistoryNext
<1>3. QED
  BY <1>1, <1>2, PTL DEF HistorySpec

(* What one result does to the row.                                        *)
LEMMA RowStep ==
    ASSUME HistoryTypeOK, NEW ok \in BOOLEAN, Result(ok)
    PROVE  /\ row'.failures  = IF ok THEN 0 ELSE row.failures + 1
           /\ row'.successes = IF ok THEN row.successes + 1 ELSE 0
           /\ row'.current_state =
                  IF row.current_state # "DOWN" /\ ~ok /\ row.failures + 1 >= 3 THEN "DOWN"
                  ELSE IF row.current_state = "DOWN" /\ ok /\ row.successes + 1 >= 2 THEN "UP"
                  ELSE row.current_state
BY DEF HistoryTypeOK, Result, ComputeTransition, Falls, Rises, Failures, Successes,
       FailThreshold, ClearThreshold

(* The counters are the lengths of the last run of failures and of         *)
(* successes, one of which is empty.                                       *)
THEOREM CountersAreRuns == HistorySpec => []CountersMatchHistory
<1>1. HistoryInit => CountersMatchHistory
  BY DEF HistoryInit, CountersMatchHistory
<1>2. HistoryTypeOK /\ CountersMatchHistory /\ [HistoryNext]_historyVars => CountersMatchHistory'
  <2> SUFFICES ASSUME HistoryTypeOK, CountersMatchHistory, [HistoryNext]_historyVars PROVE CountersMatchHistory'
    OBVIOUS
  <2>1. ASSUME NEW ok \in BOOLEAN, Result(ok) PROVE CountersMatchHistory'
    <3> DEFINE n == Len(polls)
    <3>1. /\ n \in Nat /\ Len(polls') = n + 1
          /\ polls'[n + 1] = ok
          /\ \A i \in 1..n : polls'[i] = polls[i]
      BY <2>1, Longer DEF Result
    <3>2. /\ row.failures \in Nat /\ row.successes \in Nat
          /\ row'.failures  = IF ok THEN 0 ELSE row.failures + 1
          /\ row'.successes = IF ok THEN row.successes + 1 ELSE 0
      BY <2>1, RowStep DEF HistoryTypeOK
    <3>3. /\ row.failures <= n /\ row.successes <= n
          /\ row.failures = 0 \/ row.successes = 0
          /\ n > 0 => row.failures + row.successes > 0
          /\ \A i \in 1..n : /\ i > n - row.failures  => ~polls[i]
                             /\ i > n - row.successes => polls[i]
          /\ row.failures  \in 1..(n - 1) => polls[n - row.failures]
          /\ row.successes \in 1..(n - 1) => ~polls[n - row.successes]
      BY DEF CountersMatchHistory
    <3> HIDE DEF n
    <3>4. /\ row'.failures <= n + 1 /\ row'.successes <= n + 1
          /\ row'.failures = 0 \/ row'.successes = 0
          /\ row'.failures + row'.successes > 0
      BY <3>1, <3>2, <3>3
    <3>5. PICK m \in Nat : m = Len(polls') /\ m = n + 1
      BY <3>1
    <3>6. ASSUME NEW i \in 1..m
          PROVE  /\ i > m - row'.failures  => ~polls'[i]
                 /\ i > m - row'.successes => polls'[i]
      <4>1. CASE i = m
        BY <3>5, <3>1, <3>2, <4>1
      <4>2. CASE i \in 1..n
        <5>1. polls'[i] = polls[i]
          BY <3>1, <4>2
        <5>2. /\ i > n - row.failures  => ~polls[i]
              /\ i > n - row.successes => polls[i]
          BY <3>3, <4>2
        <5>3. CASE ok
          BY <3>5, <3>1, <3>2, <4>2, <5>1, <5>2, <5>3
        <5>4. CASE ~ok
          BY <3>5, <3>1, <3>2, <4>2, <5>1, <5>2, <5>4
        <5>5. QED
          BY <5>3, <5>4
      <4>3. QED
        BY <3>5, <3>1, <4>1, <4>2
    <3>7. row'.failures \in 1..n => polls'[n + 1 - row'.failures]
      <4> SUFFICES ASSUME row'.failures \in 1..n
                   PROVE  polls'[n + 1 - row'.failures]
        OBVIOUS
      <4>1. row.failures \in 0..(n - 1) /\ n + 1 - row'.failures = n - row.failures
        BY <3>1, <3>2
      <4>2. polls[n - row.failures]
        <5>1. CASE row.failures = 0
          <6>1. n \in 1..n /\ n > n - row.successes
            BY <3>1, <3>2, <3>3, <4>1, <5>1
          <6>2. n - row.failures = n
            BY <3>1, <5>1
          <6>3. QED
            BY <3>3, <6>1, <6>2
        <5>2. CASE row.failures \in 1..(n - 1)
          BY <3>3, <5>2
        <5>3. QED
          BY <3>1, <4>1, <5>1, <5>2
      <4>3. n - row.failures \in 1..n
        BY <3>1, <4>1
      <4>4. QED
        BY <3>1, <4>1, <4>2, <4>3
    <3>8. row'.successes \in 1..n => ~polls'[n + 1 - row'.successes]
      <4> SUFFICES ASSUME row'.successes \in 1..n
                   PROVE  ~polls'[n + 1 - row'.successes]
        OBVIOUS
      <4>1. row.successes \in 0..(n - 1) /\ n + 1 - row'.successes = n - row.successes
        BY <3>1, <3>2
      <4>2. ~polls[n - row.successes]
        <5>1. CASE row.successes = 0
          <6>1. n \in 1..n /\ n > n - row.failures
            BY <3>1, <3>2, <3>3, <4>1, <5>1
          <6>2. n - row.successes = n
            BY <3>1, <5>1
          <6>3. QED
            BY <3>3, <6>1, <6>2
        <5>2. CASE row.successes \in 1..(n - 1)
          BY <3>3, <5>2
        <5>3. QED
          BY <3>1, <4>1, <5>1, <5>2
      <4>3. n - row.successes \in 1..n
        BY <3>1, <4>1
      <4>4. QED
        BY <3>1, <4>1, <4>2, <4>3
    <3>9. /\ row'.failures <= m /\ row'.successes <= m
          /\ row'.failures = 0 \/ row'.successes = 0
          /\ m > 0 => row'.failures + row'.successes > 0
          /\ \A i \in 1..m : /\ i > m - row'.failures  => ~polls'[i]
                             /\ i > m - row'.successes => polls'[i]
      <4>1. row'.failures \in Nat /\ row'.successes \in Nat
        BY <3>2
      <4>2. QED
        BY <3>5, <3>4, <3>6, <4>1
    <3>10. /\ row'.failures  \in 1..(m - 1) => polls'[m - row'.failures]
           /\ row'.successes \in 1..(m - 1) => ~polls'[m - row'.successes]
      <4>1. m - 1 = n
        BY <3>5, <3>1
      <4>2. QED
        BY <3>5, <3>7, <3>8, <4>1
    <3>11. QED
      BY <3>5, <3>9, <3>10 DEF CountersMatchHistory
  <2>2. CASE UNCHANGED historyVars
    BY <2>2 DEF historyVars, CountersMatchHistory
  <2>3. QED
    BY <2>1, <2>2 DEF HistoryNext
<1>3. QED
  BY <1>1, <1>2, HistoryTypeCorrect, PTL DEF HistorySpec

(* The counters recognise the two patterns the state depends on.           *)
LEMMA CountersDecide ==
    ASSUME HistoryTypeOK, CountersMatchHistory, NEW n, n = Len(polls)
    PROVE  /\ n \in Nat /\ row.failures \in Nat /\ row.successes \in Nat
           /\ row.failures + 1 >= 3 <=> n >= 2 /\ ~polls[n] /\ ~polls[n - 1]
           /\ row.successes + 1 >= 2 <=> n >= 1 /\ polls[n]
<1>1. n \in Nat /\ row.failures \in Nat /\ row.successes \in Nat
  BY DEF HistoryTypeOK
<1>2. /\ row.failures <= n /\ row.successes <= n
      /\ row.failures = 0 \/ row.successes = 0
      /\ n > 0 => row.failures + row.successes > 0
      /\ \A i \in 1..n : /\ i > n - row.failures  => ~polls[i]
                         /\ i > n - row.successes => polls[i]
      /\ row.failures  \in 1..(n - 1) => polls[n - row.failures]
      /\ row.successes \in 1..(n - 1) => ~polls[n - row.successes]
  BY DEF CountersMatchHistory
<1>3. n >= 1 => /\ polls[n] => row.failures = 0
                /\ ~polls[n] => row.successes = 0
  <2> SUFFICES ASSUME n >= 1
               PROVE  /\ polls[n] => row.failures = 0
                      /\ ~polls[n] => row.successes = 0
    OBVIOUS
  <2>1. /\ n > n - row.failures  => ~polls[n]
        /\ n > n - row.successes => polls[n]
    BY <1>1, <1>2
  <2>2. QED
    BY <1>1, <2>1
<1>4. row.successes + 1 >= 2 <=> n >= 1 /\ polls[n]
  BY <1>1, <1>2, <1>3
<1>5. ASSUME row.failures >= 2 PROVE n >= 2 /\ ~polls[n] /\ ~polls[n - 1]
  <2>1. n >= 2 /\ n \in 1..n /\ n - 1 \in 1..n
    BY <1>1, <1>2, <1>5
  <2>2. n > n - row.failures /\ n - 1 > n - row.failures
    BY <1>1, <1>5
  <2>3. QED
    BY <1>2, <2>1, <2>2
<1>6. ASSUME n >= 2, ~polls[n], ~polls[n - 1] PROVE row.failures >= 2
  <2>1. row.failures # 0
    BY <1>1, <1>2, <1>3, <1>6
  <2>2. row.failures # 1
    BY <1>1, <1>2, <1>6
  <2>3. QED
    BY <1>1, <2>1, <2>2
<1>7. QED
  BY <1>1, <1>4, <1>5, <1>6

(* The state kept in the database is the one the whole history asks for.   *)
THEOREM StateIsHistory == HistorySpec => []StateMatchesHistory
<1>1. HistoryInit => StateMatchesHistory
  BY DEF HistoryInit, StateMatchesHistory, ShouldBeDown, HasFallen
<1>2. HistoryTypeOK /\ CountersMatchHistory /\ StateMatchesHistory /\ [HistoryNext]_historyVars
          => StateMatchesHistory'
  <2> SUFFICES ASSUME HistoryTypeOK, CountersMatchHistory, StateMatchesHistory, [HistoryNext]_historyVars
               PROVE  StateMatchesHistory'
    OBVIOUS
  <2>1. ASSUME NEW ok \in BOOLEAN, Result(ok) PROVE StateMatchesHistory'
    <3>1. PICK n \in Nat : n = Len(polls)
      BY DEF HistoryTypeOK
    <3>2. /\ Len(polls') = n + 1
          /\ polls'[n + 1] = ok
          /\ \A i \in 1..n : polls'[i] = polls[i]
      BY <2>1, <3>1, Longer DEF Result
    <3>3. /\ row.failures + 1 >= 3 <=> n >= 2 /\ ~polls[n] /\ ~polls[n - 1]
          /\ row.successes + 1 >= 2 <=> n >= 1 /\ polls[n]
      BY <3>1, CountersDecide
    <3>4. /\ \A i \in 3..n : ThreeFailuresAt(i)' <=> ThreeFailuresAt(i)
          /\ ThreeFailuresAt(n + 1)' <=> ~ok /\ n >= 2 /\ ~polls[n] /\ ~polls[n - 1]
      BY <3>1, <3>2 DEF ThreeFailuresAt
    <3>5. HasFallen' <=> HasFallen \/ (~ok /\ n >= 2 /\ ~polls[n] /\ ~polls[n - 1])
      BY <3>1, <3>2, <3>4 DEF HasFallen
    <3>6. CASE ~ok
      <4>1. \A i \in 3..(n + 1) : TwoSuccessesAfter(i)' <=> i <= n /\ TwoSuccessesAfter(i)
        BY <3>1, <3>2, <3>6 DEF TwoSuccessesAfter
      <4>2. ShouldBeDown' <=> ShouldBeDown \/ (n >= 2 /\ ~polls[n] /\ ~polls[n - 1])
        BY <3>1, <3>2, <3>4, <3>6, <4>1 DEF ShouldBeDown
      <4>3. row'.current_state = IF row.current_state # "DOWN" /\ row.failures + 1 >= 3
                                 THEN "DOWN" ELSE row.current_state
        BY <2>1, <3>6, RowStep
      <4>4. QED
        BY <3>3, <3>5, <3>6, <4>2, <4>3 DEF StateMatchesHistory
    <3>7. CASE ok
      <4>1. ASSUME NEW i \in 3..n
            PROVE  TwoSuccessesAfter(i)' <=> TwoSuccessesAfter(i) \/ (i + 1 <= n /\ polls[n])
        <5>1. TwoSuccessesAfter(i)' <=>
                  \E j \in (i + 2)..(n + 1) : polls'[j] /\ polls'[j - 1]
          BY <3>2 DEF TwoSuccessesAfter
        <5>2. TwoSuccessesAfter(i) <=> \E j \in (i + 2)..n : polls[j] /\ polls[j - 1]
          BY <3>1 DEF TwoSuccessesAfter
        <5>3. \A j \in (i + 2)..n : polls'[j] = polls[j] /\ polls'[j - 1] = polls[j - 1]
          BY <3>1, <3>2
        <5>4. i + 1 <= n => /\ n + 1 \in (i + 2)..(n + 1)
                            /\ polls'[n + 1] /\ polls'[n] = polls[n]
          BY <3>1, <3>2, <3>7
        <5>5. ASSUME NEW j \in (i + 2)..(n + 1), polls'[j], polls'[j - 1]
              PROVE  TwoSuccessesAfter(i) \/ (i + 1 <= n /\ polls[n])
          <6>1. CASE j = n + 1
            BY <3>1, <5>4, <5>5, <6>1
          <6>2. CASE j \in (i + 2)..n
            BY <5>2, <5>3, <5>5, <6>2
          <6>3. QED
            BY <3>1, <6>1, <6>2
        <5>6. ASSUME TwoSuccessesAfter(i) PROVE TwoSuccessesAfter(i)'
          <6>1. PICK j \in (i + 2)..n : polls[j] /\ polls[j - 1]
            BY <5>2, <5>6
          <6>2. j \in (i + 2)..(n + 1)
            BY <3>1
          <6>3. QED
            BY <5>1, <5>3, <6>1, <6>2
        <5>7. ASSUME i + 1 <= n, polls[n] PROVE TwoSuccessesAfter(i)'
          <6>1. n + 1 - 1 = n
            BY <3>1
          <6>2. polls'[n + 1] /\ polls'[n + 1 - 1] /\ n + 1 \in (i + 2)..(n + 1)
            BY <5>4, <5>7, <6>1
          <6>3. QED
            BY <5>1, <6>2
        <5>8. QED
          BY <5>1, <5>5, <5>6, <5>7
      <4>2. ShouldBeDown' <=> ShouldBeDown /\ ~(n >= 1 /\ polls[n])
        <5>1. ASSUME NEW i \in 3..n, ThreeFailuresAt(i), polls[n] PROVE i + 1 <= n
          BY <3>1, <5>1 DEF ThreeFailuresAt
        <5>2. ~ThreeFailuresAt(n + 1)'
          BY <3>4, <3>7
        <5>3. ShouldBeDown' <=> \E i \in 3..n : ThreeFailuresAt(i)' /\ ~TwoSuccessesAfter(i)'
          BY <3>1, <3>2, <5>2 DEF ShouldBeDown
        <5>4. QED
          BY <3>1, <3>4, <4>1, <5>1, <5>3 DEF ShouldBeDown
      <4>3. row'.current_state = IF row.current_state = "DOWN" /\ row.successes + 1 >= 2
                                 THEN "UP" ELSE row.current_state
        BY <2>1, <3>7, RowStep
      <4>4. ShouldBeDown => HasFallen
        BY DEF ShouldBeDown, HasFallen
      <4>5. QED
        BY <3>3, <3>5, <3>7, <4>2, <4>3, <4>4 DEF StateMatchesHistory
    <3>8. QED
      BY <3>6, <3>7
  <2>2. CASE UNCHANGED historyVars
    BY <2>2 DEF historyVars, StateMatchesHistory, ShouldBeDown, HasFallen, ThreeFailuresAt,
                TwoSuccessesAfter
  <2>3. QED
    BY <2>1, <2>2 DEF HistoryNext
<1>3. QED
  BY <1>1, <1>2, HistoryTypeCorrect, CountersAreRuns, PTL DEF HistorySpec
=============================================================================
