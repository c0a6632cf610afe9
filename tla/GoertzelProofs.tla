--------------------------- MODULE GoertzelProofs ---------------------------
(***************************************************************************)
(* The block-wise filter implements the one-shot one, for every signal,    *)
(* every length, every way to cut it and every arithmetic: no property of  *)
(* Recur is used, so that the two agree to the last bit.                   *)
(***************************************************************************)
EXTENDS FemRawTest, WellFoundedInduction, TLAPS

\* The count runs ahead of the samples by the turns the loop has left.
GoertzelInv ==
  /\ length \in Nat /\ cnt \in Nat /\ fed \in Nat /\ todo \in Nat
  /\ cnt = fed + todo
  /\ op = "none" => todo = 0

LEMMA GoertzelInit == Init => GoertzelInv
  BY DEF Init, GoertzelInv

\* A call of goertzel_init, with or without the samples that follow it.
LEMMA InitStep ==
  ASSUME NEW n \in Nat, NEW signal \in Signals, GoertzelInv, goertzel_init(n, signal)
  PROVE  GoertzelInv'
  BY DEF goertzel_init, GoertzelInv

LEMMA CallStep ==
  ASSUME NEW n \in Nat, GoertzelInv, UpdateCall(n) \/ FinalCall(n)
  PROVE  GoertzelInv' /\ UNCHANGED OneShot!oneVars
  <1>1. CASE UpdateCall(n)
    BY <1>1 DEF UpdateCall, GoertzelInv, OneShot!oneVars
  <1>2. CASE FinalCall(n)
    BY <1>2 DEF FinalCall, GoertzelInv, OneShot!oneVars
  <1>3. QED
    BY <1>1, <1>2

LEMMA InnerStep ==
  ASSUME GoertzelInv, SampleTurn \/ UpdateReturn \/ FinalReturn
  PROVE  GoertzelInv'
  BY DEF SampleTurn, UpdateReturn, FinalReturn, gzl, GoertzelInv

LEMMA StutterStep == ASSUME GoertzelInv, UNCHANGED vars PROVE GoertzelInv'
  BY DEF vars, GoertzelInv

LEMMA GoertzelStep == GoertzelInv /\ [Next]_vars => GoertzelInv'
  <1> SUFFICES ASSUME GoertzelInv, [Next]_vars PROVE GoertzelInv'
    OBVIOUS
  <1>1. ASSUME NEW n \in 0 .. MaxLen, NEW signal \in Signals, goertzel_init(n, signal)
        PROVE  GoertzelInv'
    BY <1>1, InitStep
  <1>2. ASSUME NEW n \in Blocks, UpdateCall(n) \/ FinalCall(n)
        PROVE  GoertzelInv'
    <2>1. n \in Nat
      BY GoertzelAssumption DEF Blocks, GoertzelInv
    <2>2. QED
      BY <1>2, <2>1, CallStep
  <1>3. CASE SampleTurn \/ UpdateReturn \/ FinalReturn
    BY <1>3, InnerStep
  <1>4. CASE UNCHANGED vars
    BY <1>4, StutterStep
  <1>5. QED
    BY <1>1, <1>2, <1>3, <1>4 DEF Next
-----------------------------------------------------------------------------
(* A step of the filter is a step of the one-shot algorithm *)

LEMMA StartsOver ==
  ASSUME NEW n \in 0 .. MaxLen, NEW signal \in Signals, goertzel_init(n, signal)
  PROVE  OneShot!Begin
  BY DEF goertzel_init, OneShot!Begin, Signals, OneShot!Signals

LEMMA TurnIsTurn ==
  ASSUME GoertzelInv, SampleTurn
  PROVE  (fed < length /\ OneShot!Turn) \/ fed' > length
  <1>1. CASE fed < length
    BY <1>1 DEF SampleTurn, OneShot!Turn
  <1>2. CASE ~ (fed < length)
    BY <1>2 DEF SampleTurn, GoertzelInv
  <1>3. QED
    BY <1>1, <1>2

LEMMA ReturnIsEnd ==
  ASSUME GoertzelInv, FinalReturn
  PROVE  OneShot!End \/ UNCHANGED OneShot!oneVars
  <1>1. fed = cnt
    BY DEF GoertzelInv, FinalReturn
  <1>2. CASE cnt = length
    BY <1>1, <1>2 DEF FinalReturn, gzl, OneShot!End
  <1>3. CASE cnt # length
    BY <1>3 DEF FinalReturn, gzl, OneShot!oneVars
  <1>4. QED
    BY <1>2, <1>3

LEMMA StartIsStart == Init => OneShot!OneInit
  BY DEF Init, OneShot!OneInit, Signals, OneShot!Signals

LEMMA OneShotStep ==
  GoertzelInv /\ [Next]_vars => [OneShot!OneNext \/ fed' > length]_(OneShot!oneVars)
  <1> SUFFICES ASSUME GoertzelInv, [Next]_vars
               PROVE  OneShot!OneNext \/ fed' > length \/ UNCHANGED OneShot!oneVars
    OBVIOUS
  <1>1. ASSUME NEW n \in 0 .. MaxLen, NEW signal \in Signals, goertzel_init(n, signal)
        PROVE  OneShot!OneNext
    BY <1>1, StartsOver DEF OneShot!OneNext
  <1>2. ASSUME NEW n \in Blocks, UpdateCall(n) \/ FinalCall(n)
        PROVE  UNCHANGED OneShot!oneVars
    <2>1. n \in Nat
      BY GoertzelAssumption DEF Blocks, GoertzelInv
    <2>2. QED
      BY <1>2, <2>1, CallStep
  <1>3. CASE SampleTurn
    BY <1>3, TurnIsTurn DEF OneShot!OneNext
  <1>4. CASE UpdateReturn
    BY <1>4 DEF UpdateReturn, gzl, OneShot!oneVars
  <1>5. CASE FinalReturn
    BY <1>5, ReturnIsEnd DEF OneShot!OneNext
  <1>6. CASE UNCHANGED vars
    BY <1>6 DEF vars, OneShot!oneVars
  <1>7. QED
    BY <1>1, <1>2, <1>3, <1>4, <1>5, <1>6 DEF Next

(***************************************************************************)
(* goertzel_init, goertzel_update and goertzel_final implement             *)
(* fast_goertzel_algorithm until more samples are fed than were announced. *)
(***************************************************************************)
THEOREM GoertzelImplementsOneShot == Spec => ImplementsOneShot
  BY GoertzelInit, GoertzelStep, StartIsStart, OneShotStep, PTL DEF Spec, ImplementsOneShot
-----------------------------------------------------------------------------
(* fem_raw_test *)

\* What is counted and what is left make up the signal, from its first block on.
FemInv ==
  /\ GoertzelInv
  /\ l \in Nat
  /\ op \in {"none", "update", "final"}
  /\ op = "update" => stage = "feed"
  /\ op = "final" => stage = "final"
  /\ stage \in {"read", "feed", "final", "done"}
  /\ stage = "feed" => cnt + l = length
  /\ stage # "feed" => cnt = length

LEMMA FemStart == FemInit => FemInv
  BY GoertzelInit DEF FemInit, Init, FemInv

LEMMA FemStep == FemInv /\ [FemNext]_femVars => FemInv'
  <1> SUFFICES ASSUME FemInv, [FemNext]_femVars PROVE FemInv'
    OBVIOUS
  <1>1. CASE Start
    <2>1. PICK n \in 1 .. MaxLen : \E signal \in Signals : goertzel_init(n, signal) /\ l' = n
      BY <1>1 DEF Start
    <2>2. PICK signal \in Signals : goertzel_init(n, signal) /\ l' = n
      BY <2>1
    <2>3. GoertzelInv'
      BY <2>2, InitStep DEF FemInv
    <2>4. QED
      BY <1>1, <2>2, <2>3 DEF Start, goertzel_init, FemInv
  <1>2. CASE FeedBlock
    <2>1. PICK rand \in 0 .. l - 1 : UpdateCall(rand) /\ l' = l - rand
      BY <1>2 DEF FeedBlock
    <2>2. l \in Nat /\ rand \in Nat /\ rand < l /\ cnt < length
      BY <1>2, TailAssumption DEF FeedBlock, FemInv, GoertzelInv
    <2>3. GoertzelInv'
      BY <2>1, <2>2, CallStep DEF FemInv
    <2>4. cnt' = cnt + rand /\ op' = "update" /\ length' = length
      BY <2>1, <2>2 DEF UpdateCall, FemInv, GoertzelInv
    <2>5. stage = "feed" /\ stage' = "feed" /\ cnt + l = length /\ l' = l - rand
      BY <1>2, <2>1 DEF FeedBlock, FemInv
    <2>6. cnt' + l' = length' /\ l' \in Nat
      BY <2>2, <2>4, <2>5 DEF FemInv, GoertzelInv
    <2>7. QED
      BY <2>3, <2>4, <2>5, <2>6 DEF FemInv
  <1>3. CASE FeedTail
    <2>1. GoertzelInv'
      BY <1>3, CallStep DEF FeedTail, FemInv
    <2>2. QED
      BY <1>3, <2>1 DEF FeedTail, FinalCall, FemInv, GoertzelInv
  <1>4. CASE InCall
    <2>1. GoertzelInv'
      BY <1>4, InnerStep DEF InCall, FemInv
    <2>2. QED
      BY <1>4, <2>1 DEF InCall, SampleTurn, UpdateReturn, gzl, FemInv
  <1>5. CASE Finish
    <2>1. GoertzelInv'
      BY <1>5, InnerStep DEF Finish, FemInv
    <2>2. QED
      BY <1>5, <2>1 DEF Finish, FinalReturn, gzl, FemInv
  <1>6. CASE UNCHANGED femVars
    BY <1>6, StutterStep DEF femVars, vars, FemInv
  <1>7. QED
    BY <1>1, <1>2, <1>3, <1>4, <1>5, <1>6 DEF FemNext

LEMMA FemInductive == FemSpec => []FemInv
  BY FemStart, FemStep, PTL DEF FemSpec

\* The samples taken, those in the loop and those left make up the signal.
THEOREM NothingIsSkipped == FemSpec => []NothingSkipped
  <1>1. FemInv => NothingSkipped
    BY DEF FemInv, GoertzelInv, NothingSkipped
  <1>2. QED
    BY <1>1, FemInductive, PTL

LEMMA StrictStep == FemInv /\ [FemNext]_femVars => [OneShot!OneNext]_(OneShot!oneVars)
  <1> SUFFICES ASSUME FemInv, [FemNext]_femVars
               PROVE  OneShot!OneNext \/ UNCHANGED OneShot!oneVars
    OBVIOUS
  <1>1. CASE Start
    BY <1>1, StartsOver DEF Start, OneShot!OneNext
  <1>2. CASE FeedBlock
    BY <1>2, CallStep DEF FeedBlock, FemInv
  <1>3. CASE FeedTail
    BY <1>3, CallStep DEF FeedTail, FemInv
  <1>4. CASE SampleTurn
    <2>1. fed < length
      BY <1>4 DEF SampleTurn, FemInv, GoertzelInv
    <2>2. OneShot!Turn
      BY <1>4, <2>1 DEF SampleTurn, OneShot!Turn
    <2>3. QED
      BY <2>2 DEF OneShot!OneNext
  <1>5. CASE UpdateReturn
    BY <1>5 DEF UpdateReturn, gzl, OneShot!oneVars
  <1>6. CASE Finish
    BY <1>6, ReturnIsEnd DEF Finish, FemInv, OneShot!OneNext
  <1>7. CASE UNCHANGED femVars
    BY <1>7 DEF femVars, vars, OneShot!oneVars
  <1>8. QED
    BY <1>1, <1>2, <1>3, <1>4, <1>5, <1>6, <1>7 DEF FemNext, InCall

(***************************************************************************)
(* However fem_raw_test cuts a signal, the filter does what one call of    *)
(* fast_goertzel_algorithm does, with no reservation about its length.     *)
(***************************************************************************)
THEOREM FemImplementsOneShot == FemSpec => StrictOneShot
  <1>1. FemInit => OneShot!OneInit
    BY StartIsStart DEF FemInit
  <1>2. QED
    BY <1>1, FemInductive, StrictStep, PTL DEF FemSpec, StrictOneShot
-----------------------------------------------------------------------------
(* The loop that cuts the signal *)

\* Steps of fem_raw_test, at most, not counting empty blocks: three for a sample
\* that has not been handed over, one for each in the block at work.
StepsLeft ==
  CASE stage = "read" -> 3 * MaxLen + 3
    [] stage = "feed" -> 3 * l + todo + 2 + (IF op = "none" THEN 0 ELSE 1)
    [] stage = "final" -> todo + 1
    [] OTHER -> 0

StepsInRange == StepsLeft \in Nat /\ (StepsLeft = 0 <=> stage = "done")

EmptyBlock == FeedBlock /\ l' = l
Advances == IF EmptyBlock THEN StepsLeft' = StepsLeft + 1 ELSE StepsLeft' < StepsLeft

LEMMA StepsRange == FemInv => StepsInRange
  <1> SUFFICES ASSUME FemInv PROVE StepsInRange
    OBVIOUS
  <1>1. MaxLen \in Nat /\ l \in Nat /\ todo \in Nat /\ stage \in {"read", "feed", "final", "done"}
    BY GoertzelAssumption DEF FemInv, GoertzelInv
  <1>2. QED
    BY <1>1 DEF StepsInRange, StepsLeft

LEMMA CutStep == ASSUME FemInv, FemNext PROVE Advances
  <1>1. /\ MaxLen \in Nat /\ TAIL \in Nat /\ l \in Nat /\ todo \in Nat
        /\ stage \in {"read", "feed", "final", "done"} /\ op \in {"none", "update", "final"}
        /\ op = "none" => todo = 0
        /\ op = "update" => stage = "feed"
        /\ op = "final" => stage = "final"
    BY GoertzelAssumption, TailAssumption DEF FemInv, GoertzelInv
  <1>2. CASE FeedBlock
    <2>1. PICK rand \in 0 .. l - 1 : UpdateCall(rand) /\ l' = l - rand
      BY <1>2 DEF FeedBlock
    <2>2. stage = "feed" /\ stage' = "feed" /\ op = "none" /\ cnt < length
      BY <1>1, <1>2, <2>1 DEF FeedBlock, UpdateCall, FemInv, GoertzelInv
    <2>3. op' = "update" /\ todo' = rand /\ rand \in Nat
      BY <2>1, <2>2 DEF UpdateCall, FemInv, GoertzelInv
    <2>4. StepsLeft = 3 * l + 2 /\ StepsLeft' = 3 * (l - rand) + rand + 2 + 1
      BY <1>1, <2>1, <2>2, <2>3 DEF StepsLeft
    <2>5. EmptyBlock <=> rand = 0
      BY <1>1, <1>2, <2>1 DEF EmptyBlock
    <2>6. QED
      BY <1>1, <2>3, <2>4, <2>5 DEF Advances
  <1>3. CASE ~FeedBlock
    <2>1. ~EmptyBlock
      BY <1>3 DEF EmptyBlock
    <2>2. CASE Start
      BY <1>1, <2>1, <2>2 DEF Start, goertzel_init, StepsLeft, Advances, FemInv, GoertzelInv
    <2>3. CASE FeedTail
      BY <1>1, <2>1, <2>3 DEF FeedTail, FinalCall, StepsLeft, Advances
    <2>4. CASE InCall
      <3>1. CASE SampleTurn
        <4>1. todo > 0 /\ todo' = todo - 1 /\ UNCHANGED <<op, l, stage>> /\ stage \in {"feed", "final"}
          BY <1>1, <2>4, <3>1 DEF InCall, SampleTurn
        <4>2. QED
          BY <1>1, <2>1, <4>1 DEF StepsLeft, Advances
      <3>2. CASE UpdateReturn
        <4>1. /\ op = "update" /\ op' = "none" /\ UNCHANGED <<todo, l, stage>> /\ stage = "feed"
          BY <1>1, <2>4, <3>2 DEF InCall, UpdateReturn
        <4>2. QED
          BY <1>1, <2>1, <4>1 DEF StepsLeft, Advances
      <3>3. QED
        BY <2>4, <3>1, <3>2 DEF InCall
    <2>5. CASE Finish
      BY <1>1, <2>1, <2>5 DEF Finish, FinalReturn, StepsLeft, Advances
    <2>6. QED
      BY <1>3, <2>2, <2>3, <2>4, <2>5 DEF FemNext
  <1>4. QED
    BY <1>2, <1>3

(***************************************************************************)
(* The loop of fem-fft.c:206-218 is over after 3 * cnt + 2 steps and two   *)
(* for each empty block: only `random() % l` answering 0 for ever keeps it *)
(* from its end, which is what the fairness of FemSpec excludes.           *)
(***************************************************************************)
THEOREM CutAdvances == FemSpec => []StepsInRange /\ [][Advances]_femVars
  <1>1. FemInv /\ [FemNext]_femVars => [Advances]_femVars
    BY CutStep
  <1>2. QED
    BY <1>1, StepsRange, FemInductive, PTL DEF FemSpec
-----------------------------------------------------------------------------
(* The recurrence from its definition.  The library's induction theorems    *)
(* take the formula to prove as an operator, which no backend instantiates; *)
(* its least-element theorem takes a set, and gives induction over a set.   *)

Less == {p \in Nat \X Nat : p[1] < p[2]}

LEMMA LessWellFounded == IsWellFoundedOn(Less, Nat)
  <1>1. IsWellFoundedOn(OpToRel(<, Nat), Nat)
    BY NatLessThanWellFounded
  <1>2. OpToRel(<, Nat) = Less
    BY Zenon DEF OpToRel, Less
  <1>3. QED
    BY <1>1, <1>2, Zenon

\* A set that holds 0 and the successor of all it holds, holds every number.
LEMMA SetInduction ==
  ASSUME NEW S, 0 \in S, \A n \in Nat : n \in S => n + 1 \in S
  PROVE  Nat \subseteq S
  <1> DEFINE T == Nat \ S
  <1> SUFFICES ASSUME T # {} PROVE FALSE
    OBVIOUS
  <1>1. T \subseteq Nat
    OBVIOUS
  <1> HIDE DEF T
  <1>2. PICK x \in T : \A y \in T : ~ (<<y, x>> \in Less)
    BY <1>1, LessWellFounded, WFMin, Zenon
  <1> USE DEF T
  <1>3. x \in Nat /\ x # 0 /\ x - 1 \in Nat /\ x - 1 < x
    BY <1>2
  <1>4. <<x - 1, x>> \in Less
    BY <1>3 DEF Less
  <1>5. x - 1 \in S
    BY <1>2, <1>3, <1>4
  <1>6. x - 1 + 1 \in S
    BY <1>3, <1>5
  <1>7. QED
    BY <1>2, <1>3, <1>6

\* f is the recurrence over the first n samples of d.
Follows(f, d, n) ==
  /\ f \in [0 .. n -> Value \X Value]
  /\ f[0] = <<Zero, Zero>>
  /\ \A k \in 1 .. n : f[k] = <<Recur(d[k], f[k - 1][1], f[k - 1][2]), f[k - 1][1]>>

\* Every signal has its recurrence.
LEMMA FollowsExists ==
  ASSUME NEW d \in Signals
  PROVE  \E f : Follows(f, d, MaxLen)
  <1> DEFINE S == {n \in Nat : n <= MaxLen => \E f : Follows(f, d, n)}
  <1>1. 0 \in S
    <2>1. Follows([k \in 0 .. 0 |-> <<Zero, Zero>>], d, 0)
      BY GoertzelAssumption DEF Follows
    <2>2. QED
      BY <2>1
  <1>2. ASSUME NEW n \in Nat, n \in S PROVE n + 1 \in S
    <2> SUFFICES ASSUME n + 1 <= MaxLen PROVE \E f : Follows(f, d, n + 1)
      OBVIOUS
    <2>1. PICK f : Follows(f, d, n)
      BY <1>2, GoertzelAssumption
    <2>2. PICK v : v = <<Recur(d[n + 1], f[n][1], f[n][2]), f[n][1]>>
      OBVIOUS
    <2>3. v \in Value \X Value
      <3>1. d[n + 1] \in Sample
        BY GoertzelAssumption DEF Signals
      <3>2. f[n] \in Value \X Value
        BY <2>1 DEF Follows
      <3>3. QED
        BY <2>2, <3>1, <3>2, GoertzelAssumption
    <2>4. PICK g : g = [k \in 0 .. n + 1 |-> IF k = n + 1 THEN v ELSE f[k]]
      OBVIOUS
    <2>5. g \in [0 .. n + 1 -> Value \X Value]
      BY <2>1, <2>3, <2>4 DEF Follows
    <2>6. ASSUME NEW k \in 1 .. n + 1
          PROVE  g[k] = <<Recur(d[k], g[k - 1][1], g[k - 1][2]), g[k - 1][1]>>
      <3>1. g[k - 1] = f[k - 1]
        BY <2>4
      <3>2. CASE k = n + 1
        BY <2>2, <2>4, <3>1, <3>2
      <3>3. CASE k # n + 1
        BY <2>1, <2>4, <3>1, <3>3 DEF Follows
      <3>4. QED
        BY <3>2, <3>3
    <2>7. g[0] = <<Zero, Zero>>
      BY <2>1, <2>4 DEF Follows
    <2>8. QED
      BY <2>5, <2>6, <2>7 DEF Follows
  <1> HIDE DEF S
  <1>3. Nat \subseteq S
    BY <1>1, <1>2, SetInduction
  <1>4. MaxLen \in S
    BY <1>3, GoertzelAssumption
  <1>5. QED
    BY <1>4, GoertzelAssumption DEF S

\* W is the recurrence over the caller's signal.
LEMMA WFollows == dat \in Signals => Follows(W, dat, MaxLen)
  <1> SUFFICES ASSUME dat \in Signals PROVE Follows(W, dat, MaxLen)
    OBVIOUS
  <1> DEFINE Rule(g, n) ==
        IF n = 0 THEN <<Zero, Zero>>
                 ELSE <<Recur(dat[n], g[n - 1][1], g[n - 1][2]), g[n - 1][1]>>
  <1>1. PICK f : Follows(f, dat, MaxLen)
    BY FollowsExists
  <1>2. f = [n \in 0 .. MaxLen |-> Rule(f, n)]
    BY <1>1, GoertzelAssumption DEF Follows
  <1>3. W = CHOOSE g : g = [n \in 0 .. MaxLen |-> Rule(g, n)]
    BY DEF W
  <1>4. W = [n \in 0 .. MaxLen |-> Rule(W, n)]
    <2> HIDE DEF Rule
    <2>1. QED
      BY <1>2, <1>3, Zenon
  <1> DEFINE S == {n \in Nat : n <= MaxLen => W[n] = f[n]}
  <1>5. 0 \in S
    BY <1>2, <1>4, GoertzelAssumption
  <1>6. ASSUME NEW n \in Nat, n \in S PROVE n + 1 \in S
    BY <1>2, <1>4, <1>6, GoertzelAssumption
  <1> HIDE DEF S
  <1>7. Nat \subseteq S
    BY <1>5, <1>6, SetInduction
  <1>8. \A n \in 0 .. MaxLen : W[n] = f[n]
    BY <1>7, GoertzelAssumption DEF S
  <1>9. W = f
    BY <1>2, <1>4, <1>8
  <1>10. QED
    BY <1>1, <1>9
-----------------------------------------------------------------------------
(* Types, and results *)

LEMMA TypesInit == Init => GoertzelTypeOK
  BY GoertzelAssumption DEF Init, GoertzelTypeOK

LEMMA TypesStep == GoertzelTypeOK /\ GoertzelInv /\ [Next]_vars => GoertzelTypeOK'
  <1> SUFFICES ASSUME GoertzelTypeOK, GoertzelInv, [Next]_vars PROVE GoertzelTypeOK'
    OBVIOUS
  <1> USE GoertzelAssumption DEF GoertzelTypeOK, GoertzelInv
  <1>1. ASSUME NEW n \in 0 .. MaxLen, NEW signal \in Signals, goertzel_init(n, signal)
        PROVE  GoertzelTypeOK'
    BY <1>1 DEF goertzel_init
  <1>2. ASSUME NEW n \in Blocks, UpdateCall(n) PROVE GoertzelTypeOK'
    BY <1>2 DEF UpdateCall, gzl, Blocks
  <1>3. ASSUME NEW n \in Blocks, FinalCall(n) PROVE GoertzelTypeOK'
    BY <1>3 DEF FinalCall, gzl, Blocks
  <1>4. CASE SampleTurn
    <2>1. dat[fed + 1] \in Sample
      BY <1>4 DEF SampleTurn, Signals
    <2>2. Recur(dat[fed + 1], q1, q2) \in Value
      BY <2>1
    <2>3. QED
      BY <1>4, <2>2 DEF SampleTurn
  <1>5. CASE UpdateReturn
    BY <1>5 DEF UpdateReturn, gzl
  <1>6. CASE FinalReturn
    BY <1>6 DEF FinalReturn, gzl
  <1>7. CASE UNCHANGED vars
    BY <1>7 DEF vars
  <1>8. QED
    BY <1>1, <1>2, <1>3, <1>4, <1>5, <1>6, <1>7 DEF Next

\* What the filter has computed is the recurrence as far as it was fed.
StateExact == <<q1, q2>> = W[fed] /\ AnswerExact

LEMMA ExactInit == Init => StateExact
  <1> SUFFICES ASSUME Init PROVE StateExact
    OBVIOUS
  <1>1. W[0] = <<Zero, Zero>>
    BY WFollows DEF Init, Follows
  <1>2. QED
    BY <1>1 DEF Init, StateExact, AnswerExact

LEMMA SameSignal == ASSUME dat' = dat PROVE W' = W
  BY DEF W

LEMMA ExactStep ==
  ASSUME GoertzelTypeOK, GoertzelInv, Follows(W, dat, MaxLen), Follows(W, dat, MaxLen)',
         StateExact, [Next]_vars
  PROVE  StateExact'
  <1> USE DEF StateExact, AnswerExact
  <1>1. ASSUME NEW n \in 0 .. MaxLen, NEW signal \in Signals, goertzel_init(n, signal)
        PROVE  StateExact'
    <2>1. (W')[0] = <<Zero, Zero>>
      BY DEF Follows
    <2>2. QED
      BY <1>1, <2>1 DEF goertzel_init
  <1>2. ASSUME NEW n \in Blocks, UpdateCall(n) PROVE StateExact'
    BY <1>2, SameSignal DEF UpdateCall, gzl
  <1>3. ASSUME NEW n \in Blocks, FinalCall(n) PROVE StateExact'
    BY <1>3, SameSignal DEF FinalCall, gzl
  <1>4. CASE SampleTurn
    <2>1. W' = W /\ fed + 1 \in 1 .. MaxLen /\ fed' = fed + 1
      BY <1>4, SameSignal, GoertzelAssumption DEF SampleTurn, GoertzelTypeOK, GoertzelInv
    <2>2. W[fed + 1] = <<Recur(dat[fed + 1], W[fed][1], W[fed][2]), W[fed][1]>>
      BY <2>1 DEF Follows, GoertzelTypeOK
    <2>3. W[fed][1] = q1 /\ W[fed][2] = q2
      OBVIOUS
    <2>4. QED
      BY <1>4, <2>1, <2>2, <2>3 DEF SampleTurn
  <1>5. CASE UpdateReturn
    BY <1>5, SameSignal DEF UpdateReturn, gzl
  <1>6. CASE FinalReturn
    <2>1. cnt = fed
      BY <1>6 DEF FinalReturn, GoertzelInv
    <2>2. QED
      BY <1>6, <2>1, SameSignal DEF FinalReturn, gzl
  <1>7. CASE UNCHANGED vars
    BY <1>7, SameSignal DEF vars
  <1>8. QED
    BY <1>1, <1>2, <1>3, <1>4, <1>5, <1>6, <1>7 DEF Next

\* The state of the filter keeps its types.
THEOREM GoertzelTypes == Spec => []GoertzelTypeOK
  BY GoertzelInit, GoertzelStep, TypesInit, TypesStep, PTL DEF Spec

(***************************************************************************)
(* A result is that of the recurrence over exactly the announced samples,  *)
(* for every signal, every length and every sequence of calls.             *)
(***************************************************************************)
THEOREM AnswersExact == Spec => []AnswerExact
  <1>1. GoertzelTypeOK => Follows(W, dat, MaxLen)
    BY WFollows DEF GoertzelTypeOK
  <1>2. StateExact => AnswerExact
    BY DEF StateExact
  <1>3. /\ GoertzelTypeOK /\ GoertzelInv /\ Follows(W, dat, MaxLen)
        /\ Follows(W, dat, MaxLen)' /\ StateExact /\ [Next]_vars
        => StateExact'
    BY ExactStep
  <1>4. Spec => []GoertzelInv
    BY GoertzelInit, GoertzelStep, PTL DEF Spec
  <1>5. QED
    BY <1>1, <1>2, <1>3, <1>4, GoertzelTypes, ExactInit, PTL DEF Spec
-----------------------------------------------------------------------------
\* fem_raw_test calls the filter the way its interface asks for.
LEMMA FemIsNext == FemInv /\ GoertzelTypeOK /\ [FemNext]_femVars => [Next]_vars
  <1> SUFFICES ASSUME FemInv, GoertzelTypeOK, [FemNext]_femVars PROVE Next \/ UNCHANGED vars
    OBVIOUS
  <1>1. CASE Start
    BY <1>1 DEF Start, Next
  <1>2. CASE FeedBlock
    <2>1. PICK rand \in 0 .. l - 1 : UpdateCall(rand)
      BY <1>2 DEF FeedBlock
    <2>2. cnt + l = length /\ todo = 0 /\ l \in Nat
      BY <1>2, <2>1 DEF FeedBlock, UpdateCall, FemInv, GoertzelInv
    <2>3. rand \in Blocks
      BY <2>1, <2>2, GoertzelAssumption DEF FemInv, GoertzelInv, GoertzelTypeOK, Blocks
    <2>4. QED
      BY <2>1, <2>3 DEF Next
  <1>3. CASE FeedTail
    <2>1. FinalCall(l) /\ cnt + l = length /\ todo = 0 /\ l \in Nat
      BY <1>3 DEF FeedTail, FinalCall, FemInv, GoertzelInv
    <2>2. l \in Blocks
      BY <2>1, GoertzelAssumption DEF FemInv, GoertzelInv, GoertzelTypeOK, Blocks
    <2>3. QED
      BY <2>1, <2>2 DEF Next
  <1>4. CASE InCall \/ Finish
    BY <1>4 DEF InCall, Finish, Next
  <1>5. CASE UNCHANGED femVars
    BY <1>5 DEF femVars
  <1>6. QED
    BY <1>1, <1>2, <1>3, <1>4, <1>5 DEF FemNext

\* What fem_raw_test has been told.
Answered ==
  /\ ret = 0
  /\ stage = "done" => fed = length /\ answer # None

LEMMA AnsweredStep ==
  FemInv /\ GoertzelTypeOK /\ Answered /\ [FemNext]_femVars => Answered'
  <1> SUFFICES ASSUME FemInv, GoertzelTypeOK, Answered, [FemNext]_femVars PROVE Answered'
    OBVIOUS
  <1> USE DEF Answered, FemInv, GoertzelInv
  <1>1. CASE Start
    BY <1>1 DEF Start, goertzel_init
  <1>2. CASE FeedBlock
    <2>1. PICK rand \in 0 .. l - 1 : UpdateCall(rand)
      BY <1>2 DEF FeedBlock
    <2>2. cnt < length
      BY <1>2, TailAssumption DEF FeedBlock
    <2>3. QED
      BY <1>2, <2>1, <2>2 DEF FeedBlock, UpdateCall
  <1>3. CASE FeedTail
    BY <1>3 DEF FeedTail, FinalCall
  <1>4. CASE InCall
    <2>1. stage # "done"
      BY <1>4 DEF InCall, SampleTurn, UpdateReturn
    <2>2. QED
      BY <1>4, <2>1 DEF InCall, SampleTurn, UpdateReturn
  <1>5. CASE Finish
    <2>1. cnt = length /\ fed = length
      BY <1>5 DEF Finish, FinalReturn
    <2>2. ret' = 0 /\ answer' = <<q1, q2>> /\ fed' = fed /\ length' = length
      BY <1>5, <2>1 DEF Finish, FinalReturn, gzl
    <2>3. <<q1, q2>> # None
      BY GoertzelAssumption DEF GoertzelTypeOK
    <2>4. QED
      BY <2>1, <2>2, <2>3
  <1>6. CASE UNCHANGED femVars
    BY <1>6 DEF femVars, vars
  <1>7. QED
    BY <1>1, <1>2, <1>3, <1>4, <1>5, <1>6 DEF FemNext

(***************************************************************************)
(* However the signal is cut, no block is refused and the result is that   *)
(* of the whole signal.                                                    *)
(***************************************************************************)
THEOREM WholeSignalExact == FemSpec => []WholeSignal
  <1>1. GoertzelTypeOK => Follows(W, dat, MaxLen)
    BY WFollows DEF GoertzelTypeOK
  <1>2. FemInit => GoertzelTypeOK /\ StateExact /\ Answered
    BY TypesInit, ExactInit DEF FemInit, Init, Answered
  <1>3. FemInv => GoertzelInv
    BY DEF FemInv
  <1>4. FemSpec => []GoertzelTypeOK
    BY <1>2, <1>3, FemInductive, FemIsNext, TypesStep, PTL DEF FemSpec
  <1>5. /\ GoertzelTypeOK /\ GoertzelInv /\ Follows(W, dat, MaxLen)
        /\ Follows(W, dat, MaxLen)' /\ StateExact /\ [Next]_vars
        => StateExact'
    BY ExactStep
  <1>6. FemSpec => []StateExact
    BY <1>1, <1>2, <1>3, <1>4, <1>5, FemInductive, FemIsNext, PTL DEF FemSpec
  <1>7. FemSpec => []Answered
    BY <1>2, <1>4, FemInductive, AnsweredStep, PTL DEF FemSpec
  <1>8. StateExact /\ Answered => WholeSignal
    BY DEF StateExact, AnswerExact, Answered, WholeSignal
  <1>9. QED
    BY <1>6, <1>7, <1>8, PTL
=============================================================================
