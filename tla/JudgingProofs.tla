---------------------------- MODULE JudgingProofs ----------------------------
(* What the judges of Judging come to, for any number of bars: their loops   *)
(* exist, and keep to an invariant that says where they stand after n bars.  *)
EXTENDS Judging, NaturalsInduction, WellFoundedInduction, TLAPS

Precedes == {ss \in Nat \X Nat : ss[1] < ss[2]}

\* A set of numbers that is not empty has a least one.
LEMMA LeastOfAll ==
  ASSUME NEW S, S \subseteq Nat, S # {}
  PROVE  \E x \in S : \A y \in S : x <= y
<1>1. IsWellFoundedOn(Precedes, Nat)
  BY NatLessThanWellFounded DEF OpToRel, Precedes
<1>2. PICK x \in S : \A y \in S : ~ (<<y, x>> \in Precedes)
  BY <1>1, WFMin
<1>3. ASSUME NEW y \in S PROVE x <= y
  <2>1. x \in Nat /\ y \in Nat
    OBVIOUS
  <2>2. <<y, x>> \in Nat \X Nat /\ <<y, x>>[1] = y /\ <<y, x>>[2] = x
    BY <2>1
  <2>3. ~ (y < x)
    BY <1>2, <2>2 DEF Precedes
  <2> QED
    BY <2>1, <2>3
<1> QED
  BY <1>3

\* Induction over the bars: a set of numbers with 0 and with every next one.
LEMMA UpToTheLast ==
  ASSUME NEW N \in Nat, NEW G, 0 \in G, \A n \in 0..N : n \in G /\ n < N => n + 1 \in G
  PROVE  \A n \in 0..N : n \in G
<1> DEFINE Bad == {n \in 0..N : n \notin G}
<1>1. SUFFICES ASSUME Bad # {} PROVE FALSE
  OBVIOUS
<1>2. Bad \subseteq Nat
  OBVIOUS
<1> HIDE DEF Bad
<1>3. PICK x \in Bad : \A y \in Bad : x <= y
  BY <1>1, <1>2, LeastOfAll
<1>4. x \in 0..N /\ x \notin G
  BY DEF Bad
<1>5. x # 0
  BY <1>4
<1>6. x - 1 \in 0..N /\ x - 1 < N /\ (x - 1) + 1 = x
  BY <1>4, <1>5
<1>7. x - 1 \notin Bad
  BY <1>3, <1>6, <1>2
<1>8. x - 1 \in G
  BY <1>6, <1>7 DEF Bad
<1> QED
  BY <1>4, <1>6, <1>8

-----------------------------------------------------------------------------
(* Loops.                                                                    *)

\* f is what a loop of N rounds makes of s0, its rounds given by F.
Loops(f, N, s0, F) == f = [n \in 0..N |-> IF n = 0 THEN s0 ELSE F[<<n, f[n-1]>>]]

LEMMA LoopExists ==
  ASSUME NEW N \in Nat, NEW S, NEW s0 \in S, NEW F \in [(1..N) \X S -> S]
  PROVE  \E f \in [0..N -> S] : Loops(f, N, s0, F)
<1> DEFINE G == {n \in Nat : \E f \in [0..n -> S] : Loops(f, n, s0, F)}
<1>1. 0 \in G
  <2>1. [n \in 0..0 |-> s0] \in [0..0 -> S]
    OBVIOUS
  <2>2. Loops([n \in 0..0 |-> s0], 0, s0, F)
    BY DEF Loops
  <2> QED
    BY <2>1, <2>2
<1>2. ASSUME NEW n \in 0..N, n \in G, n < N PROVE n + 1 \in G
  <2>1. PICK f \in [0..n -> S] : Loops(f, n, s0, F)
    BY <1>2
  <2>2. n + 1 \in 1..N /\ n \in 0..n
    BY <1>2
  <2>3. <<n + 1, f[n]>> \in (1..N) \X S
    BY <2>1, <2>2
  <2>4. F[<<n + 1, f[n]>>] \in S
    BY <2>3
  <2> DEFINE g == [m \in 0..(n + 1) |-> IF m = n + 1 THEN F[<<n + 1, f[n]>>] ELSE f[m]]
  <2>5. g \in [0..(n + 1) -> S]
    BY <2>1, <2>4
  <2>6. \A m \in 0..(n + 1) : g[m] = IF m = n + 1 THEN F[<<n + 1, f[n]>>] ELSE f[m]
    OBVIOUS
  <2>7. \A m \in 0..n : g[m] = f[m]
    BY <2>6
  <2>8. \A m \in 0..n : f[m] = IF m = 0 THEN s0 ELSE F[<<m, f[m-1]>>]
    BY <2>1 DEF Loops
  <2> HIDE DEF g
  <2>9. ASSUME NEW m \in 0..(n + 1) PROVE g[m] = IF m = 0 THEN s0 ELSE F[<<m, g[m-1]>>]
    <3>1. CASE m = n + 1
      <4>1. g[m - 1] = f[n] /\ m # 0
        BY <2>2, <2>7, <3>1
      <4> QED
        BY <2>6, <3>1, <4>1
    <3>2. CASE m # n + 1 /\ m # 0
      <4>1. m \in 0..n /\ m - 1 \in 0..n
        BY <3>2
      <4> QED
        BY <2>7, <2>8, <3>2, <4>1
    <3>3. CASE m # n + 1 /\ m = 0
      <4>1. m \in 0..n
        BY <3>3
      <4> QED
        BY <2>7, <2>8, <3>3, <4>1
    <3> QED
      BY <3>1, <3>2, <3>3
  <2>10. Loops(g, n + 1, s0, F)
    BY <2>5, <2>9 DEF Loops
  <2>11. n + 1 \in Nat
    OBVIOUS
  <2> QED
    BY <2>5, <2>10, <2>11
<1> HIDE DEF G
<1>3. N \in G
  <2>1. \A n \in 0..N : n \in G
    BY <1>1, <1>2, UpToTheLast
  <2> QED
    BY <2>1
<1> QED
  BY <1>3 DEF G

-----------------------------------------------------------------------------
(* The loops of the judges.                                                  *)

Statuses == Final \cup {"open"}
Verdicts == [status : Statuses, gain : Int]
States == [active : BOOLEAN, entry : Int, days : Nat, waited : Nat, verdict : Verdicts]

LEMMA VerdictsAreTyped ==
  ASSUME NEW st \in Statuses, NEW g \in Int
  PROVE  /\ Verdict(st, g) \in Verdicts
         /\ Verdict(st, g).status = st /\ Verdict(st, g).gain = g
BY DEF Verdict, Verdicts

LEMMA NamesAreStatuses ==
  /\ "open" \in Statuses /\ "open" \notin Final /\ \A st \in Final : st \in Statuses
  /\ "target_hit" \in Final /\ "stop_hit" \in Final /\ "expired" \in Final /\ "not_triggered" \in Final
BY DEF Statuses, Final

\* The ways a bar changes the state.
LEMMA StateEnds ==
  ASSUME NEW s \in States, NEW v \in Verdicts, NEW u, u = [s EXCEPT !.verdict = v]
  PROVE  u \in States /\ u.verdict = v /\ u.active = s.active /\ u.entry = s.entry
BY DEF States

LEMMA StateAges ==
  ASSUME NEW s \in States, NEW v \in Verdicts, NEW u, u = [s EXCEPT !.days = @ + 1, !.verdict = v]
  PROVE  /\ u \in States /\ u.verdict = v /\ u.active = s.active /\ u.entry = s.entry
         /\ u.days = s.days + 1
<1>1. s.days + 1 \in Nat
  BY DEF States
<1>2. u \in States
  BY <1>1 DEF States
<1>3. u.verdict = v /\ u.active = s.active /\ u.entry = s.entry /\ u.days = s.days + 1
  BY DEF States
<1> QED
  BY <1>2, <1>3

LEMMA StateWaits ==
  ASSUME NEW s \in States, NEW v \in Verdicts, NEW u, u = [s EXCEPT !.waited = @ + 1, !.verdict = v]
  PROVE  u \in States /\ u.verdict = v /\ u.active = s.active /\ u.waited = s.waited + 1
<1>1. s.waited + 1 \in Nat
  BY DEF States
<1>2. u \in States
  BY <1>1 DEF States
<1>3. u.verdict = v /\ u.active = s.active /\ u.waited = s.waited + 1
  BY DEF States
<1> QED
  BY <1>2, <1>3

LEMMA StateFills ==
  ASSUME NEW s \in States, NEW v \in Verdicts, NEW c \in Int, NEW u,
         u = [s EXCEPT !.active = TRUE, !.entry = c, !.days = 1, !.verdict = v]
  PROVE  u \in States
BY DEF States

\* The journal's judge is the other one with a wait of Horizon days.
LEMMA OneJudge ==
  ASSUME NEW p, Propositional(p), NEW s, NEW b \in Candles
  PROVE  JudgeBar(p, s, b) = CloseFillBar(p, Horizon, s, b)
<1>1. b.close \in Int /\ p.trigger \in Int
  BY DEF Candles, Propositional
<1> DEFINE late == b.close < p.trigger
           reached == b.close >= p.trigger
<1>3. late <=> ~reached
  BY <1>1
<1> HIDE DEF late, reached
<1>4. CASE s.verdict.status \in Final
  BY <1>4, Zenon DEF JudgeBar, CloseFillBar
<1>5. CASE s.verdict.status \notin Final /\ s.active
  BY <1>5, Zenon DEF JudgeBar, CloseFillBar
<1>6. CASE s.verdict.status \notin Final /\ ~s.active /\ reached
  <2>1. JudgeBar(p, s, b) = WaitingBar(p, s, b)
    BY <1>6, Zenon DEF JudgeBar
  <2>2. WaitingBar(p, s, b) = FillBar(p, s, b)
    BY <1>6, Zenon DEF WaitingBar, FillBar, reached
  <2>3. CloseFillBar(p, Horizon, s, b) = FillBar(p, s, b)
    BY <1>3, <1>6, Zenon DEF CloseFillBar, late, reached
  <2> QED
    BY <2>1, <2>2, <2>3
<1>7. CASE s.verdict.status \notin Final /\ ~s.active /\ late
  <2>1. JudgeBar(p, s, b) = WaitingBar(p, s, b)
    BY <1>7, Zenon DEF JudgeBar
  <2>2. CloseFillBar(p, Horizon, s, b) = WaitingBar(p, s, b)
    BY <1>3, <1>7, Zenon DEF CloseFillBar, WaitingBar, late, reached
  <2> QED
    BY <2>1, <2>2
<1> QED
  BY <1>3, <1>4, <1>5, <1>6, <1>7

LEMMA BeginsAsState == ASSUME NEW p, Propositional(p) PROVE Begun(p) \in States
<1>1. Verdict("open", 0) \in Verdicts
  BY VerdictsAreTyped, NamesAreStatuses
<1> QED
  BY <1>1 DEF Begun, States, Propositional

\* What a bar makes of an active proposition.
Moves(p, s, b, t) ==
  /\ t \in States /\ t.active = s.active /\ t.entry = s.entry
  /\ b.low <= p.stop => t.verdict = Verdict("stop_hit", p.stop - s.entry)
  /\ b.low > p.stop /\ b.high >= p.target => t.verdict = Verdict("target_hit", p.target - s.entry)
  /\ b.low > p.stop /\ b.high < p.target =>
       /\ t.days = s.days + 1
       /\ s.days + 1 >= Horizon => t.verdict = Verdict("expired", b.close - s.entry)
       /\ ~(s.days + 1 >= Horizon) => t.verdict = Verdict("open", b.close - s.entry)

LEMMA ActiveBarMoves ==
  ASSUME NEW p, Propositional(p), NEW s \in States, NEW b \in Candles
  PROVE  Moves(p, s, b, ActiveBar(p, s, b))
<1>1. b.close \in Int /\ b.low \in Int /\ b.high \in Int /\ p.stop \in Int /\ p.target \in Int
  BY DEF Candles, Propositional
<1>2. s.entry \in Int
  BY DEF States
<1> DEFINE fell == b.low <= p.stop
           above == b.low > p.stop
           rose == b.high >= p.target
           below == b.high < p.target
           end == IF s.days + 1 >= Horizon THEN "expired" ELSE "open"
           t == ActiveBar(p, s, b)
<1>3. (above <=> ~fell) /\ (below <=> ~rose)
  BY <1>1
<1>4. end \in Statuses
  BY NamesAreStatuses
<1>5. Verdict("stop_hit", p.stop - s.entry) \in Verdicts /\ Verdict("target_hit", p.target - s.entry) \in Verdicts
  BY <1>1, <1>2, VerdictsAreTyped, NamesAreStatuses
<1>6. Verdict(end, b.close - s.entry) \in Verdicts
  <2> HIDE DEF end
  <2> QED
    BY <1>1, <1>2, <1>4, VerdictsAreTyped
<1>9. /\ s.days + 1 >= Horizon => Verdict(end, b.close - s.entry) = Verdict("expired", b.close - s.entry)
      /\ ~(s.days + 1 >= Horizon) => Verdict(end, b.close - s.entry) = Verdict("open", b.close - s.entry)
  OBVIOUS
<1> HIDE DEF fell, above, rose, below, end, t
<1>10. CASE fell
  <2>0. ~above
    BY <1>3, <1>10
  <2>1. t = [s EXCEPT !.verdict = Verdict("stop_hit", p.stop - s.entry)]
    BY <1>10, <2>0, Zenon DEF ActiveBar, fell, above, t
  <2>2. /\ t \in States /\ t.verdict = Verdict("stop_hit", p.stop - s.entry)
        /\ t.active = s.active /\ t.entry = s.entry
    BY <1>5, <2>1, StateEnds
  <2> QED
    BY <2>0, <2>2, Zenon DEF above, t, Moves
<1>11. CASE above /\ rose
  <2>0. ~fell /\ ~below
    BY <1>3, <1>11
  <2>1. t = [s EXCEPT !.verdict = Verdict("target_hit", p.target - s.entry)]
    BY <1>11, <2>0, Zenon DEF ActiveBar, fell, above, rose, t
  <2>2. /\ t \in States /\ t.verdict = Verdict("target_hit", p.target - s.entry)
        /\ t.active = s.active /\ t.entry = s.entry
    BY <1>5, <2>1, StateEnds
  <2> QED
    BY <2>0, <2>2, Zenon DEF fell, below, t, Moves
<1>12. CASE above /\ below
  <2>0. ~fell /\ ~rose
    BY <1>3, <1>12
  <2>1. t = [s EXCEPT !.days = @ + 1, !.verdict = Verdict(end, b.close - s.entry)]
    BY <1>12, <2>0, Zenon DEF ActiveBar, fell, above, rose, end, t
  <2>2. /\ t \in States /\ t.verdict = Verdict(end, b.close - s.entry)
        /\ t.active = s.active /\ t.entry = s.entry /\ t.days = s.days + 1
    BY <1>6, <2>1, StateAges
  <2> QED
    BY <1>9, <2>0, <2>2, Zenon DEF fell, rose, t, Moves
<1> QED
  BY <1>3, <1>10, <1>11, <1>12 DEF t

\* What a bar makes of one that is final, holds, fills or waits.
LEMMA FinalStays ==
  ASSUME NEW p, NEW wait, NEW s, NEW b, s.verdict.status \in Final
  PROVE  CloseFillBar(p, wait, s, b) = s
BY Zenon DEF CloseFillBar

LEMMA HeldMoves ==
  ASSUME NEW p, NEW wait, NEW s, NEW b, s.verdict.status = "open", s.active
  PROVE  CloseFillBar(p, wait, s, b) = ActiveBar(p, s, b)
BY NamesAreStatuses, Zenon DEF CloseFillBar

Fills(t, b) ==
  /\ t \in States /\ t.active = TRUE /\ t.entry = b.close /\ t.days = 1
  /\ t.verdict = Verdict("open", 0)
WaitsOn(s, wait, t) ==
  /\ t \in States /\ t.active = FALSE /\ t.waited = s.waited + 1
  /\ s.waited + 1 >= wait => t.verdict = Verdict("not_triggered", 0)
  /\ ~(s.waited + 1 >= wait) => t.verdict = Verdict("open", 0)

LEMMA CloseFills ==
  ASSUME NEW p, Propositional(p), NEW wait, NEW s \in States, NEW b \in Candles,
         s.verdict.status = "open", ~s.active, b.close >= p.trigger, NEW t, t = CloseFillBar(p, wait, s, b)
  PROVE  Fills(t, b)
<1>1. b.close \in Int /\ p.trigger \in Int /\ Verdict("open", 0) \in Verdicts
  BY VerdictsAreTyped, NamesAreStatuses DEF Candles, Propositional
<1>2. ~(b.close < p.trigger)
  BY <1>1
<1>3. t = FillBar(p, s, b)
  BY <1>2, NamesAreStatuses, Zenon DEF CloseFillBar
<1>4. t = [s EXCEPT !.active = TRUE, !.entry = b.close, !.days = 1, !.verdict = Verdict("open", 0)]
  BY <1>3, Zenon DEF FillBar
<1> DEFINE c == b.close
           v == Verdict("open", 0)
<1>5. c \in Int /\ v \in Verdicts /\ t = [s EXCEPT !.active = TRUE, !.entry = c, !.days = 1, !.verdict = v]
  BY <1>1, <1>4
<1> HIDE DEF c, v
<1>6. t \in States
  BY <1>5, StateFills
<1>7. t.active = TRUE /\ t.entry = c /\ t.days = 1 /\ t.verdict = v
  BY <1>5 DEF States
<1> QED
  BY <1>6, <1>7 DEF c, v, Fills

LEMMA OrderWaits ==
  ASSUME NEW p, Propositional(p), NEW wait, NEW s \in States, NEW b \in Candles,
         s.verdict.status = "open", ~s.active, ~(b.close >= p.trigger),
         NEW t, t = CloseFillBar(p, wait, s, b)
  PROVE  WaitsOn(s, wait, t)
<1> DEFINE end == IF s.waited + 1 >= wait THEN "not_triggered" ELSE "open"
<1>1. b.close \in Int /\ p.trigger \in Int
  BY DEF Candles, Propositional
<1>2. b.close < p.trigger
  BY <1>1
<1>3. t = [s EXCEPT !.waited = @ + 1, !.verdict = Verdict(end, 0)]
  BY <1>2, NamesAreStatuses, Zenon DEF CloseFillBar
<1>4. end \in Statuses
  BY NamesAreStatuses
<1>5. /\ s.waited + 1 >= wait => end = "not_triggered"
      /\ ~(s.waited + 1 >= wait) => end = "open"
  OBVIOUS
<1> HIDE DEF end
<1>6. Verdict(end, 0) \in Verdicts
  BY <1>4, VerdictsAreTyped
<1>7. t \in States /\ t.verdict = Verdict(end, 0) /\ t.active = s.active /\ t.waited = s.waited + 1
  BY <1>3, <1>6, StateWaits
<1>8. s.active = FALSE
  BY DEF States
<1> QED
  BY <1>5, <1>7, <1>8, Zenon DEF WaitsOn

LEMMA CloseFillIsTyped ==
  ASSUME NEW p, Propositional(p), NEW wait, NEW s \in States, NEW b \in Candles
  PROVE  CloseFillBar(p, wait, s, b) \in States
<1>1. s.verdict.status \in Statuses
  BY DEF States, Verdicts
<1>2. ActiveBar(p, s, b) \in States
  BY ActiveBarMoves DEF Moves
<1>3. CASE s.verdict.status \in Final
  BY <1>3, FinalStays
<1>4. CASE s.verdict.status = "open" /\ s.active
  BY <1>2, <1>4, HeldMoves
<1>5. CASE s.verdict.status = "open" /\ ~s.active /\ b.close >= p.trigger
  BY <1>5, CloseFills DEF Fills
<1>6. CASE s.verdict.status = "open" /\ ~s.active /\ ~(b.close >= p.trigger)
  BY <1>6, OrderWaits DEF WaitsOn
<1> QED
  BY <1>1, <1>3, <1>4, <1>5, <1>6 DEF Statuses

\* f is the run of a judge over bars.
Judges(f, bars, p, wait) ==
  /\ f \in [0..Len(bars) -> States] /\ f[0] = Begun(p)
  /\ \A n \in 1..Len(bars) : f[n] = CloseFillBar(p, wait, f[n-1], bars[n])

\* The function JudgeCloseFill chooses.
Rounds(f, bars, p, wait) ==
  f = [n \in 0..Len(bars) |-> IF n = 0 THEN Begun(p) ELSE CloseFillBar(p, wait, f[n-1], bars[n])]

LEMMA AJudgeExists ==
  ASSUME NEW bars \in Seq(Candles), NEW p, Propositional(p), NEW wait
  PROVE  \E f : Judges(f, bars, p, wait) /\ Rounds(f, bars, p, wait)
<1> DEFINE N == Len(bars)
           F == [x \in (1..N) \X States |-> CloseFillBar(p, wait, x[2], bars[x[1]])]
<1>1. N \in Nat /\ \A n \in 1..N : bars[n] \in Candles
  OBVIOUS
<1> HIDE DEF N
<1>2. F \in [(1..N) \X States -> States]
  <2>1. ASSUME NEW x \in (1..N) \X States PROVE CloseFillBar(p, wait, x[2], bars[x[1]]) \in States
    BY <1>1, <2>1, CloseFillIsTyped
  <2> QED
    BY <2>1
<1>3. \A n \in 1..N, s \in States : F[<<n, s>>] = CloseFillBar(p, wait, s, bars[n])
  OBVIOUS
<1> HIDE DEF F
<1>4. PICK f \in [0..N -> States] : Loops(f, N, Begun(p), F)
  BY <1>1, <1>2, BeginsAsState, LoopExists
<1>5. \A n \in 0..N : f[n] = IF n = 0 THEN Begun(p) ELSE F[<<n, f[n-1]>>]
  BY <1>4 DEF Loops
<1>6. 0 \in 0..N /\ \A n \in 1..N : n \in 0..N /\ n # 0 /\ n - 1 \in 0..N
  BY <1>1
<1>7. f[0] = Begun(p) /\ \A n \in 1..N : f[n] = CloseFillBar(p, wait, f[n-1], bars[n])
  BY <1>3, <1>4, <1>5, <1>6
<1>8. Judges(f, bars, p, wait)
  BY <1>4, <1>7 DEF Judges, N
<1>9. \A n \in 0..N : f[n] = IF n = 0 THEN Begun(p) ELSE CloseFillBar(p, wait, f[n-1], bars[n])
  BY <1>1, <1>7
<1>10. Rounds(f, bars, p, wait)
  BY <1>4, <1>9 DEF Rounds, N
<1> QED
  BY <1>8, <1>10

\* Two runs of one judge are the same.
LEMMA JudgesAgree ==
  ASSUME NEW bars \in Seq(Candles), NEW p, NEW wait, NEW f, NEW g,
         Judges(f, bars, p, wait), Judges(g, bars, p, wait)
  PROVE  f = g
<1> DEFINE G == {n \in 0..Len(bars) : f[n] = g[n]}
<1>1. Len(bars) \in Nat
  OBVIOUS
<1>2. 0 \in G
  BY <1>1 DEF Judges
<1>3. ASSUME NEW n \in 0..Len(bars), n \in G, n < Len(bars) PROVE n + 1 \in G
  <2>1. n + 1 \in 1..Len(bars) /\ (n + 1) - 1 = n
    BY <1>3
  <2>2. f[n+1] = CloseFillBar(p, wait, f[n], bars[n+1]) /\ g[n+1] = CloseFillBar(p, wait, g[n], bars[n+1])
    BY <2>1, Zenon DEF Judges
  <2> QED
    BY <1>3, <2>1, <2>2
<1> HIDE DEF G
<1>4. \A n \in 0..Len(bars) : n \in G
  BY <1>1, <1>2, <1>3, UpToTheLast
<1> QED
  BY <1>4 DEF G, Judges

LEMMA OutcomeIsJudged ==
  ASSUME NEW bars \in Seq(Candles), NEW p, Propositional(p)
  PROVE  \E f : Judges(f, bars, p, Horizon) /\ JudgeOutcome(bars, p) = f[Len(bars)].verdict
<1> DEFINE Runs(f) == f = [n \in 0..Len(bars) |->
                             IF n = 0 THEN Begun(p) ELSE JudgeBar(p, f[n-1], bars[n])]
           judge == CHOOSE f : Runs(f)
<1>1. JudgeOutcome(bars, p) = judge[Len(bars)].verdict
  BY DEF JudgeOutcome
<1>2. \A n \in 1..Len(bars) : bars[n] \in Candles
  OBVIOUS
<1>3. PICK g : Judges(g, bars, p, Horizon)
  BY AJudgeExists
<1>4. \A s : \A n \in 1..Len(bars) : JudgeBar(p, s, bars[n]) = CloseFillBar(p, Horizon, s, bars[n])
  BY <1>2, OneJudge
<1>5. \A n \in 0..Len(bars) : g[n] = IF n = 0 THEN Begun(p) ELSE JudgeBar(p, g[n-1], bars[n])
  <2>1. \A n \in 0..Len(bars) : n # 0 => n \in 1..Len(bars)
    OBVIOUS
  <2> QED
    BY <1>3, <1>4, <2>1, Zenon DEF Judges
<1>6. Runs(g)
  BY <1>3, <1>5, Zenon DEF Judges
<1>7. Runs(judge)
  <2> HIDE DEF Runs
  <2> QED
    BY <1>6, Zenon
<1> HIDE DEF judge
<1>8. \A n \in 0..Len(bars) : judge[n] = IF n = 0 THEN Begun(p) ELSE JudgeBar(p, judge[n-1], bars[n])
  BY <1>7, Zenon
<1>9. judge = g
  <2> DEFINE G == {n \in 0..Len(bars) : judge[n] = g[n]}
  <2>1. Len(bars) \in Nat /\ 0 \in 0..Len(bars)
    OBVIOUS
  <2>2. 0 \in G
    BY <1>5, <1>8, <2>1
  <2>3. ASSUME NEW n \in 0..Len(bars), n \in G, n < Len(bars) PROVE n + 1 \in G
    <3>1. n + 1 \in 0..Len(bars) /\ n + 1 # 0 /\ (n + 1) - 1 = n
      BY <2>3
    <3>2. judge[n+1] = JudgeBar(p, judge[n], bars[n+1]) /\ g[n+1] = JudgeBar(p, g[n], bars[n+1])
      BY <1>5, <1>8, <3>1, Zenon
    <3> QED
      BY <2>3, <3>1, <3>2
  <2> HIDE DEF G
  <2>4. \A n \in 0..Len(bars) : n \in G
    BY <2>1, <2>2, <2>3, UpToTheLast
  <2>5. \A n \in 0..Len(bars) : judge[n] = g[n]
    BY <2>4 DEF G
  <2> QED
    BY <1>3, <1>7, <2>5 DEF Judges
<1> QED
  BY <1>1, <1>3, <1>9

LEMMA CloseFillIsJudged ==
  ASSUME NEW bars \in Seq(Candles), NEW p, Propositional(p), p.trigger # NoTrigger, NEW wait
  PROVE  \E f : Judges(f, bars, p, wait) /\ JudgeCloseFill(bars, p, wait) = f[Len(bars)].verdict
<1> DEFINE judge == CHOOSE f : Rounds(f, bars, p, wait)
<1>1. JudgeCloseFill(bars, p, wait) = judge[Len(bars)].verdict
  BY Zenon DEF JudgeCloseFill, Rounds
<1>3. PICK g : Judges(g, bars, p, wait) /\ Rounds(g, bars, p, wait)
  BY AJudgeExists
<1>2. Rounds(judge, bars, p, wait)
  BY <1>3, Zenon
<1> HIDE DEF judge
<1>4. judge = g
  <2> DEFINE G == {n \in 0..Len(bars) : judge[n] = g[n]}
  <2>1. Len(bars) \in Nat /\ 0 \in 0..Len(bars)
    OBVIOUS
  <2>2. 0 \in G
    BY <1>2, <1>3, <2>1 DEF Rounds
  <2>3. ASSUME NEW n \in 0..Len(bars), n \in G, n < Len(bars) PROVE n + 1 \in G
    <3>1. n + 1 \in 0..Len(bars) /\ n + 1 # 0 /\ (n + 1) - 1 = n
      BY <2>3
    <3>2. /\ judge[n+1] = CloseFillBar(p, wait, judge[n], bars[n+1])
          /\ g[n+1] = CloseFillBar(p, wait, g[n], bars[n+1])
      BY <1>2, <1>3, <3>1, Zenon DEF Rounds
    <3> QED
      BY <2>3, <3>1, <3>2
  <2> HIDE DEF G
  <2>4. \A n \in 0..Len(bars) : n \in G
    BY <2>1, <2>2, <2>3, UpToTheLast
  <2>5. \A n \in 0..Len(bars) : judge[n] = g[n]
    BY <2>4 DEF G
  <2> QED
    BY <1>2, <1>3, <2>5, Zenon DEF Rounds
<1> QED
  BY <1>1, <1>3, <1>4

-----------------------------------------------------------------------------
(* Where a judge stands after n bars.                                        *)

\* Bar k activates the proposition: none does that begins as an active one.
Activates(bars, p, k) ==
  \/ k = 0 /\ p.trigger = NoTrigger
  \/ /\ k \in 1..Len(bars) /\ p.trigger # NoTrigger /\ bars[k].close >= p.trigger
     /\ \A j \in 1..(k-1) : bars[j].close < p.trigger

EntryAt(bars, p, k) == IF k = 0 THEN p.entry ELSE bars[k].close
LastBar(k) == IF k = 0 THEN Horizon ELSE k + Horizon - 1
Stops(bars, p, j) == bars[j].low <= p.stop
Rises(bars, p, j) == bars[j].high >= p.target
EndsAt(bars, p, k, j) == Stops(bars, p, j) \/ Rises(bars, p, j) \/ j >= LastBar(k)

EndVerdict(bars, p, k, j) ==
  IF Stops(bars, p, j) THEN Verdict("stop_hit", p.stop - EntryAt(bars, p, k))
  ELSE IF Rises(bars, p, j) THEN Verdict("target_hit", p.target - EntryAt(bars, p, k))
  ELSE Verdict("expired", bars[j].close - EntryAt(bars, p, k))

Waits(s, bars, p, wait, n) ==
  /\ s.verdict.status = "open" /\ ~s.active /\ p.trigger # NoTrigger
  /\ s.waited = n /\ n < wait /\ \A j \in 1..n : bars[j].close < p.trigger

Holds(s, bars, p, wait, n, k) ==
  /\ s.verdict.status = "open" /\ s.active /\ Activates(bars, p, k) /\ k \in 0..n /\ k <= wait
  /\ s.entry = EntryAt(bars, p, k) /\ s.days = IF k = 0 THEN n ELSE n - k + 1
  /\ \A j \in (k+1)..n : ~EndsAt(bars, p, k, j)

EndedAt(s, bars, p, wait, n, k, j) ==
  /\ Activates(bars, p, k) /\ k <= wait /\ j \in (k+1)..n /\ k \in 0..n
  /\ EndsAt(bars, p, k, j) /\ \A i \in (k+1)..(j-1) : ~EndsAt(bars, p, k, i)
  /\ s.verdict = EndVerdict(bars, p, k, j)

Lapsed(s, bars, p, wait, n) ==
  /\ s.verdict = Verdict("not_triggered", 0) /\ p.trigger # NoTrigger
  /\ n >= wait /\ \A j \in 1..wait : bars[j].close < p.trigger

Stands(s, bars, p, wait, n) ==
  \/ Waits(s, bars, p, wait, n) \/ Lapsed(s, bars, p, wait, n)
  \/ \E k \in 0..n : Holds(s, bars, p, wait, n, k)
  \/ \E k \in 0..n : \E j \in (k+1)..n : EndedAt(s, bars, p, wait, n, k, j)

LEMMA EndVerdictIsFinal ==
  ASSUME NEW bars \in Seq(Candles), NEW p, Propositional(p),
         NEW k \in 0..Len(bars), NEW j \in 1..Len(bars)
  PROVE  /\ EntryAt(bars, p, k) \in Int
         /\ EndVerdict(bars, p, k, j).status =
              IF Stops(bars, p, j) THEN "stop_hit" ELSE IF Rises(bars, p, j) THEN "target_hit" ELSE "expired"
         /\ EndVerdict(bars, p, k, j).gain =
              (IF Stops(bars, p, j) THEN p.stop ELSE IF Rises(bars, p, j) THEN p.target ELSE bars[j].close)
                - EntryAt(bars, p, k)
         /\ EndVerdict(bars, p, k, j).status \in Final
<1>1. EntryAt(bars, p, k) \in Int
  <2>1. p.entry \in Int
    BY DEF Propositional
  <2>2. k # 0 => bars[k] \in Candles
    OBVIOUS
  <2>3. k # 0 => bars[k].close \in Int
    BY <2>2 DEF Candles
  <2> QED
    BY <2>1, <2>3 DEF EntryAt
<1> QED
  BY <1>1 DEF EndVerdict, Verdict, Final

LEMMA BeginsAndStands ==
  ASSUME NEW bars, NEW p, Propositional(p), NEW wait \in Nat \ {0}
  PROVE  Stands(Begun(p), bars, p, wait, 0)
<1>0. /\ Begun(p).verdict.status = "open" /\ Begun(p).entry = p.entry
      /\ Begun(p).days = 0 /\ Begun(p).waited = 0
  BY DEF Begun, Verdict
<1>1. CASE p.trigger = NoTrigger
  <2>0. Begun(p).active
    BY <1>1, Zenon DEF Begun
  <2>1. Holds(Begun(p), bars, p, wait, 0, 0)
    BY <1>0, <1>1, <2>0 DEF Holds, Activates, EntryAt
  <2> QED
    BY <2>1 DEF Stands
<1>2. CASE p.trigger # NoTrigger
  <2>0. ~Begun(p).active
    BY <1>2, Zenon DEF Begun
  <2>1. Waits(Begun(p), bars, p, wait, 0)
    BY <1>0, <1>2, <2>0 DEF Waits
  <2> QED
    BY <2>1 DEF Stands
<1> QED
  BY <1>1, <1>2

LEMMA HoldingStands ==
  ASSUME HorizonAssumption, NEW bars \in Seq(Candles), NEW p, Propositional(p), NEW wait \in Nat \ {0},
         NEW s \in States, NEW n \in 0..Len(bars), n < Len(bars),
         NEW k \in 0..n, Holds(s, bars, p, wait, n, k), NEW t, t = ActiveBar(p, s, bars[n+1])
  PROVE  Stands(t, bars, p, wait, n + 1)
<1> DEFINE m == n + 1
           b == bars[m]
<1>1. m \in 1..Len(bars) /\ m \in (k+1)..m /\ k \in 0..m /\ m - 1 = n /\ m \in Nat
  OBVIOUS
<1>2. b \in Candles
  BY <1>1
<1>3. /\ Activates(bars, p, k) /\ k <= wait /\ s.entry = EntryAt(bars, p, k) /\ s.active
      /\ s.days = (IF k = 0 THEN n ELSE n - k + 1)
      /\ \A j \in (k+1)..n : ~EndsAt(bars, p, k, j)
  BY DEF Holds
<1>4. /\ Stops(bars, p, m) <=> b.low <= p.stop
      /\ Rises(bars, p, m) <=> b.high >= p.target
      /\ b.low > p.stop <=> ~Stops(bars, p, m)
      /\ b.high < p.target <=> ~Rises(bars, p, m)
  <2>1. b.low \in Int /\ b.high \in Int
    BY <1>2 DEF Candles
  <2>2. p.stop \in Int /\ p.target \in Int
    BY DEF Propositional
  <2>3. (Stops(bars, p, m) <=> b.low <= p.stop) /\ (Rises(bars, p, m) <=> b.high >= p.target)
    BY Zenon DEF Stops, Rises
  <2> HIDE DEF b
  <2> QED
    BY <2>1, <2>2, <2>3
<1>5. s.days + 1 >= Horizon <=> m >= LastBar(k)
  BY <1>3 DEF LastBar, HorizonAssumption
<1>6. s.days + 1 = (IF k = 0 THEN m ELSE m - k + 1)
  BY <1>3
<1> HIDE DEF b
<1>7. Moves(p, s, b, t)
  BY <1>2, ActiveBarMoves DEF b
<1> HIDE DEF m
<1>8. ASSUME t.verdict = EndVerdict(bars, p, k, m), EndsAt(bars, p, k, m)
      PROVE  Stands(t, bars, p, wait, m)
  <2>1. EndedAt(t, bars, p, wait, m, k, m)
    BY <1>1, <1>3, <1>8 DEF EndedAt
  <2> QED
    BY <1>1, <2>1 DEF Stands
<1>9. CASE Stops(bars, p, m)
  <2>1. t.verdict = EndVerdict(bars, p, k, m)
    BY <1>3, <1>4, <1>7, <1>9, Zenon DEF EndVerdict, Moves
  <2> QED
    BY <1>8, <1>9, <2>1 DEF EndsAt, m
<1>10. CASE ~Stops(bars, p, m) /\ Rises(bars, p, m)
  <2>1. t.verdict = EndVerdict(bars, p, k, m)
    BY <1>3, <1>4, <1>7, <1>10, Zenon DEF EndVerdict, Moves
  <2> QED
    BY <1>8, <1>10, <2>1 DEF EndsAt, m
<1>11. CASE ~Stops(bars, p, m) /\ ~Rises(bars, p, m) /\ m >= LastBar(k)
  <2>1. t.verdict = EndVerdict(bars, p, k, m)
    BY <1>3, <1>4, <1>5, <1>7, <1>11, Zenon DEF EndVerdict, Moves, b
  <2> QED
    BY <1>8, <1>11, <2>1 DEF EndsAt, m
<1>12. CASE ~Stops(bars, p, m) /\ ~Rises(bars, p, m) /\ ~(m >= LastBar(k))
  <2>1. ~EndsAt(bars, p, k, m)
    BY <1>12 DEF EndsAt
  <2>2. t.verdict = Verdict("open", b.close - s.entry) /\ t.days = s.days + 1
    BY <1>4, <1>5, <1>7, <1>12, Zenon DEF Moves
  <2>3. t.verdict.status = "open" /\ t.active = s.active /\ t.entry = s.entry
    BY <1>7, <2>2 DEF Moves, Verdict
  <2>4. \A j \in (k+1)..m : ~EndsAt(bars, p, k, j)
    BY <1>1, <1>3, <2>1
  <2>5. Holds(t, bars, p, wait, m, k)
    BY <1>1, <1>3, <1>6, <2>2, <2>3, <2>4 DEF Holds
  <2> QED
    BY <1>1, <2>5 DEF Stands, m
<1> QED
  BY <1>9, <1>10, <1>11, <1>12

LEMMA WaitingStands ==
  ASSUME NEW bars \in Seq(Candles), NEW p, Propositional(p), NEW wait \in Nat \ {0},
         NEW s \in States, NEW n \in 0..Len(bars), n < Len(bars), Waits(s, bars, p, wait, n),
         NEW t, t = CloseFillBar(p, wait, s, bars[n+1])
  PROVE  Stands(t, bars, p, wait, n + 1)
<1> DEFINE m == n + 1
           b == bars[m]
<1>1. m \in 1..Len(bars) /\ m \in 0..m /\ m # 0 /\ (m+1)..m = {} /\ m \in Nat
  OBVIOUS
<1>2. b \in Candles
  BY <1>1
<1>3. b.close \in Int /\ p.trigger \in Int
  BY <1>2 DEF Candles, Propositional
<1>4. /\ s.verdict.status = "open" /\ ~s.active /\ p.trigger # NoTrigger
      /\ s.waited = n /\ n < wait /\ \A j \in 1..n : bars[j].close < p.trigger
  BY DEF Waits
<1>5. s.waited + 1 = m /\ m <= wait /\ m - 1 = n
  BY <1>4
<1> HIDE DEF b
<1>8. t = CloseFillBar(p, wait, s, b)
  BY DEF b
<1>6. CASE b.close >= p.trigger
  <2>0. Fills(t, b)
    BY <1>2, <1>4, <1>6, <1>8, CloseFills
  <2>1. t.active = TRUE /\ t.entry = b.close /\ t.days = 1 /\ t.verdict = Verdict("open", 0)
    BY <2>0 DEF Fills
  <2> HIDE DEF m
  <2>2. Activates(bars, p, m)
    BY <1>1, <1>4, <1>5, <1>6 DEF Activates, b
  <2>3. t.days = (IF m = 0 THEN m ELSE m - m + 1) /\ t.entry = EntryAt(bars, p, m)
    BY <1>1, <2>1 DEF EntryAt, b
  <2>4. t.verdict.status = "open"
    BY <2>1 DEF Verdict
  <2>5. Holds(t, bars, p, wait, m, m)
    BY <1>1, <1>5, <2>1, <2>2, <2>3, <2>4 DEF Holds
  <2>6. Stands(t, bars, p, wait, m)
    BY <1>1, <2>5 DEF Stands
  <2> QED
    BY <2>6 DEF m
<1>7. CASE ~(b.close >= p.trigger)
  <2>0. WaitsOn(s, wait, t)
    BY <1>2, <1>4, <1>7, <1>8, OrderWaits
  <2>1. /\ t.active = FALSE /\ t.waited = s.waited + 1
        /\ s.waited + 1 >= wait => t.verdict = Verdict("not_triggered", 0)
        /\ ~(s.waited + 1 >= wait) => t.verdict = Verdict("open", 0)
    BY <2>0 DEF WaitsOn
  <2>2. \A j \in 1..m : bars[j].close < p.trigger
    BY <1>3, <1>4, <1>7 DEF b
  <2> HIDE DEF m
  <2>3. CASE s.waited + 1 >= wait
    <3>1. m >= wait /\ \A j \in 1..wait : j \in 1..m
      BY <1>1, <1>5, <2>3
    <3>2. Lapsed(t, bars, p, wait, m)
      BY <1>4, <2>1, <2>2, <2>3, <3>1 DEF Lapsed
    <3> QED
      BY <3>2 DEF Stands, m
  <2>4. CASE ~(s.waited + 1 >= wait)
    <3>1. t.verdict.status = "open" /\ m < wait
      BY <1>1, <1>5, <2>1, <2>4 DEF Verdict
    <3>2. Waits(t, bars, p, wait, m)
      BY <1>4, <1>5, <2>1, <2>2, <3>1 DEF Waits
    <3> QED
      BY <3>2 DEF Stands, m
  <2> QED
    BY <2>3, <2>4
<1> QED
  BY <1>6, <1>7

LEMMA JudgesStand ==
  ASSUME HorizonAssumption, NEW bars \in Seq(Candles), NEW p, Propositional(p), NEW wait \in Nat \ {0},
         NEW f, Judges(f, bars, p, wait)
  PROVE  \A n \in 0..Len(bars) : f[n] \in States /\ Stands(f[n], bars, p, wait, n)
<1> DEFINE G == {n \in 0..Len(bars) : Stands(f[n], bars, p, wait, n)}
<1>0. \A n \in 0..Len(bars) : f[n] \in States
  BY DEF Judges
<1>1. Len(bars) \in Nat /\ \A n \in 1..Len(bars) : bars[n] \in Candles
  OBVIOUS
<1>2. 0 \in G
  BY <1>1, BeginsAndStands DEF Judges
<1>3. ASSUME NEW n \in 0..Len(bars), n \in G, n < Len(bars) PROVE n + 1 \in G
  <2>1. n + 1 \in 0..Len(bars) /\ n + 1 \in 1..Len(bars) /\ (n + 1) - 1 = n
    BY <1>3
  <2>2. f[n+1] = CloseFillBar(p, wait, f[n], bars[n+1])
    BY <2>1, Zenon DEF Judges
  <2>3. bars[n+1] \in Candles /\ f[n] \in States
    BY <1>0, <1>1, <2>1
  <2>4. Stands(f[n], bars, p, wait, n)
    BY <1>3
  <2>5. CASE Waits(f[n], bars, p, wait, n)
    BY <1>3, <2>1, <2>2, <2>3, <2>5, WaitingStands
  <2>6. ASSUME NEW k \in 0..n, Holds(f[n], bars, p, wait, n, k) PROVE n + 1 \in G
    <3>1. f[n+1] = ActiveBar(p, f[n], bars[n+1])
      BY <2>2, <2>6, HeldMoves DEF Holds
    <3>2. Stands(f[n+1], bars, p, wait, n + 1)
      BY <1>3, <2>3, <2>6, <3>1, HoldingStands
    <3> QED
      BY <2>1, <3>2
  <2>7. CASE Lapsed(f[n], bars, p, wait, n)
    <3>1. f[n].verdict.status \in Final
      BY <2>7 DEF Lapsed, Verdict, Final
    <3>2. f[n+1] = f[n]
      BY <2>2, <3>1, FinalStays
    <3>3. Lapsed(f[n+1], bars, p, wait, n+1)
      BY <2>7, <3>2 DEF Lapsed
    <3> QED
      BY <2>1, <3>3 DEF Stands
  <2>8. ASSUME NEW k \in 0..n, NEW j \in (k+1)..n, EndedAt(f[n], bars, p, wait, n, k, j)
        PROVE  n + 1 \in G
    <3>1. f[n].verdict.status \in Final
      BY <2>8, EndVerdictIsFinal DEF EndedAt
    <3>2. f[n+1] = f[n]
      BY <2>2, <3>1, FinalStays
    <3>3. k \in 0..(n+1) /\ j \in (k+1)..(n+1)
      OBVIOUS
    <3>4. EndedAt(f[n+1], bars, p, wait, n+1, k, j)
      BY <2>8, <3>2, <3>3 DEF EndedAt
    <3> QED
      BY <2>1, <3>3, <3>4 DEF Stands
  <2> QED
    BY <2>4, <2>5, <2>6, <2>7, <2>8 DEF Stands
<1> HIDE DEF G
<1>4. \A n \in 0..Len(bars) : n \in G
  BY <1>1, <1>2, <1>3, UpToTheLast
<1> QED
  BY <1>0, <1>4 DEF G

-----------------------------------------------------------------------------
(* What the judges come to.                                                  *)

LEMMA BeginsIs ==
  ASSUME NEW bars \in Seq(Candles), NEW p, Propositional(p), p.trigger # NoTrigger,
         NEW k, k = Begins(bars, p)
  PROVE  /\ k \in 1..(Len(bars) + 1)
         /\ k <= Len(bars) => bars[k].close >= p.trigger
         /\ \A j \in 1..(k-1) : bars[j].close < p.trigger
<1> DEFINE S == {i \in 1..(Len(bars) + 1) : i <= Len(bars) => bars[i].close >= p.trigger}
           First(i) == /\ i <= Len(bars) => bars[i].close >= p.trigger
                       /\ \A j \in 1..(i-1) : bars[j].close < p.trigger
<1>1. Len(bars) \in Nat /\ \A j \in 1..Len(bars) : bars[j] \in Candles
  OBVIOUS
<1>2. p.trigger \in Int /\ \A j \in 1..Len(bars) : bars[j].close \in Int
  BY <1>1 DEF Candles, Propositional
<1>3. S \subseteq Nat /\ Len(bars) + 1 \in S
  BY <1>1
<1>4. PICK i \in S : \A y \in S : i <= y
  <2> HIDE DEF S
  <2> QED
    BY <1>3, LeastOfAll
<1>5. i \in 1..(Len(bars) + 1) /\ (i <= Len(bars) => bars[i].close >= p.trigger)
  OBVIOUS
<1>6. ASSUME NEW j \in 1..(i-1) PROVE bars[j].close < p.trigger
  <2>1. j \notin S /\ j \in 1..Len(bars) /\ j \in 1..(Len(bars) + 1)
    BY <1>1, <1>4, <1>5
  <2>2. ~(bars[j].close >= p.trigger)
    BY <2>1
  <2> QED
    BY <1>2, <2>1, <2>2
<1>7. First(i)
  BY <1>5, <1>6
<1> HIDE DEF First
<1>8. k = CHOOSE x \in 1..(Len(bars) + 1) : First(x)
  BY Zenon DEF Begins, First
<1>9. k \in 1..(Len(bars) + 1) /\ First(k)
  BY <1>5, <1>7, <1>8, Zenon
<1> QED
  BY <1>9 DEF First

LEMMA ActivatesWhereItBegins ==
  ASSUME NEW bars \in Seq(Candles), NEW p, Propositional(p), NEW k, Activates(bars, p, k)
  PROVE  Begins(bars, p) = k /\ (k = 0 <=> p.trigger = NoTrigger) /\ k \in 0..Len(bars)
<1>1. CASE p.trigger = NoTrigger
  BY <1>1 DEF Activates, Begins
<1>2. CASE p.trigger # NoTrigger
  <2> DEFINE i == Begins(bars, p)
  <2>1. /\ i \in 1..(Len(bars) + 1)
        /\ i <= Len(bars) => bars[i].close >= p.trigger
        /\ \A j \in 1..(i-1) : bars[j].close < p.trigger
    BY <1>2, BeginsIs
  <2> HIDE DEF i
  <2>2. /\ k \in 1..Len(bars) /\ bars[k].close >= p.trigger
        /\ \A j \in 1..(k-1) : bars[j].close < p.trigger
    BY <1>2 DEF Activates
  <2>3. \A j \in 1..Len(bars) : bars[j] \in Candles
    OBVIOUS
  <2>4. p.trigger \in Int /\ \A j \in 1..Len(bars) : bars[j].close \in Int
    BY <2>3 DEF Candles, Propositional
  <2>5. Len(bars) \in Nat
    OBVIOUS
  <2>6. ~(i < k)
    <3>1. i < k => i \in 1..(k-1) /\ i \in 1..Len(bars) /\ i <= Len(bars)
      BY <2>1, <2>2, <2>5
    <3> QED
      BY <2>1, <2>2, <2>4, <3>1
  <2>7. ~(k < i)
    <3>1. k < i => k \in 1..(i-1)
      BY <2>1, <2>2, <2>5
    <3> QED
      BY <2>1, <2>2, <2>4, <3>1
  <2>8. i = k
    BY <2>1, <2>2, <2>5, <2>6, <2>7
  <2> QED
    BY <1>2, <2>2, <2>8 DEF i
<1> QED
  BY <1>1, <1>2

LEMMA EndsAre ==
  ASSUME NEW bars, NEW p, NEW k
  PROVE  Ends(bars, p, k) = {j \in (k+1)..Len(bars) : EndsAt(bars, p, k, j)}
BY Zenon DEF Ends, EndsAt, LastBar, Stops, Rises

\* A verdict is what the bars say, without a loop: the bar that activates the
\* proposition, and the first bar after it that ends it (papertrade.py
\* judge_outcome).
THEOREM JudgeFollowsReference ==
  ASSUME HorizonAssumption, NEW bars \in Seq(Candles), NEW p, Propositional(p)
  PROVE  JudgeOutcome(bars, p).status = Reference(bars, p)
<1> DEFINE N == Len(bars)
<1>0. Horizon \in Nat \ {0} /\ N \in Nat /\ N \in 0..N
  BY DEF HorizonAssumption
<1>1. PICK f : Judges(f, bars, p, Horizon) /\ JudgeOutcome(bars, p) = f[N].verdict
  BY OutcomeIsJudged
<1> DEFINE s == f[N]
<1>2. Stands(s, bars, p, Horizon, N)
  BY <1>0, <1>1, JudgesStand
<1> DEFINE k == Begins(bars, p)
           ends == Ends(bars, p, k)
           j == CHOOSE x \in ends : \A y \in ends : x <= y
<1>3. Reference(bars, p) =
        IF k > Horizon \/ (k > N /\ k # 0)
        THEN IF N >= Horizon THEN "not_triggered" ELSE "open"
        ELSE IF ends = {} THEN "open"
             ELSE IF Stops(bars, p, j) THEN "stop_hit"
             ELSE IF Rises(bars, p, j) THEN "target_hit" ELSE "expired"
  BY Zenon DEF Reference, Stops, Rises
<1> HIDE DEF N, s, k, j, ends
<1>4. CASE Waits(s, bars, p, Horizon, N)
  <2>1. k \in 1..(N + 1) /\ (k <= N => bars[k].close >= p.trigger)
    BY <1>4, BeginsIs DEF Waits, N, k
  <2>2. s.verdict.status = "open" /\ N < Horizon /\ \A i \in 1..N : bars[i].close < p.trigger
    BY <1>4 DEF Waits
  <2>3. \A i \in 1..N : bars[i] \in Candles
    BY DEF N
  <2>4. p.trigger \in Int /\ \A i \in 1..N : bars[i].close \in Int
    BY <2>3 DEF Propositional, Candles
  <2>5. ~(k <= N)
    <3>1. k <= N => k \in 1..N
      BY <1>0, <2>1
    <3> QED
      BY <2>1, <2>2, <2>4, <3>1
  <2>6. k > N /\ k # 0 /\ ~(N >= Horizon)
    BY <1>0, <2>1, <2>2, <2>5
  <2> QED
    BY <1>1, <1>3, <2>2, <2>6 DEF s
<1>5. CASE Lapsed(s, bars, p, Horizon, N)
  <2>1. k \in 1..(N + 1) /\ (k <= N => bars[k].close >= p.trigger)
    BY <1>5, BeginsIs DEF Lapsed, N, k
  <2>2. N >= Horizon /\ \A i \in 1..Horizon : bars[i].close < p.trigger
    BY <1>5 DEF Lapsed
  <2>3. \A i \in 1..N : bars[i] \in Candles
    BY DEF N
  <2>4. p.trigger \in Int /\ \A i \in 1..N : bars[i].close \in Int
    BY <2>3 DEF Propositional, Candles
  <2>5. k > Horizon
    <3>1. k <= Horizon => k \in 1..N /\ k \in 1..Horizon /\ k <= N
      BY <1>0, <2>1, <2>2
    <3>2. ~(k <= Horizon)
      BY <2>1, <2>2, <2>4, <3>1
    <3> QED
      BY <1>0, <2>1, <3>2
  <2>6. s.verdict.status = "not_triggered"
    BY <1>5 DEF Lapsed, Verdict
  <2> QED
    BY <1>1, <1>3, <2>2, <2>5, <2>6 DEF s
<1>6. ASSUME NEW i \in 0..N, Activates(bars, p, i), i <= Horizon
      PROVE  /\ k = i /\ ends = {x \in (i+1)..N : EndsAt(bars, p, i, x)}
             /\ Reference(bars, p) = IF ends = {} THEN "open"
                  ELSE IF Stops(bars, p, j) THEN "stop_hit"
                  ELSE IF Rises(bars, p, j) THEN "target_hit" ELSE "expired"
  <2>1. k = i
    BY <1>6, ActivatesWhereItBegins DEF k
  <2>2. ends = {x \in (i+1)..N : EndsAt(bars, p, i, x)}
    BY <2>1, EndsAre DEF ends, N
  <2>3. ~(k > Horizon \/ (k > N /\ k # 0))
    BY <1>0, <1>6, <2>1
  <2> QED
    BY <1>3, <2>1, <2>2, <2>3, Zenon
<1>7. ASSUME NEW i \in 0..N, Holds(s, bars, p, Horizon, N, i)
      PROVE  Reference(bars, p) = s.verdict.status
  <2>1. /\ Activates(bars, p, i) /\ i <= Horizon /\ s.verdict.status = "open"
        /\ \A x \in (i+1)..N : ~EndsAt(bars, p, i, x)
    BY <1>7 DEF Holds
  <2>2. ends = {}
    BY <1>6, <2>1
  <2> QED
    BY <1>6, <2>1, <2>2
<1>8. ASSUME NEW i \in 0..N, NEW x \in (i+1)..N, EndedAt(s, bars, p, Horizon, N, i, x)
      PROVE  Reference(bars, p) = s.verdict.status
  <2>1. /\ Activates(bars, p, i) /\ i <= Horizon /\ s.verdict = EndVerdict(bars, p, i, x)
        /\ EndsAt(bars, p, i, x) /\ \A y \in (i+1)..(x-1) : ~EndsAt(bars, p, i, y)
    BY <1>8 DEF EndedAt
  <2>2. ends = {y \in (i+1)..N : EndsAt(bars, p, i, y)}
    BY <1>6, <2>1
  <2>3. x \in ends
    BY <2>1, <2>2
  <2>4. ASSUME NEW y \in ends PROVE x <= y
    <3>1. y \in (i+1)..N /\ EndsAt(bars, p, i, y)
      BY <2>2
    <3> QED
      BY <1>0, <2>1, <3>1
  <2>5. \A y \in ends : y \in Int
    BY <2>2
  <2>6. j \in ends /\ \A y \in ends : j <= y
    BY <2>3, <2>4, Zenon DEF j
  <2>7. j = x
    BY <2>3, <2>4, <2>5, <2>6
  <2>8. x \in 1..Len(bars) /\ i \in 0..Len(bars)
    BY <1>0 DEF N
  <2>9. s.verdict.status =
          IF Stops(bars, p, x) THEN "stop_hit" ELSE IF Rises(bars, p, x) THEN "target_hit" ELSE "expired"
    BY <2>1, <2>8, EndVerdictIsFinal
  <2> QED
    BY <1>6, <2>1, <2>3, <2>7, <2>9
<1> QED
  BY <1>1, <1>2, <1>4, <1>5, <1>7, <1>8 DEF Stands, s

\* With a wait of the horizon the back-test's judge is the journal's: the journal
\* too fills at a close (backtest.py judge_close_fill, papertrade.py judge_outcome).
THEOREM CloseFillIsTheJournals ==
  ASSUME NEW bars \in Seq(Candles), NEW p, Propositional(p)
  PROVE  JudgeCloseFill(bars, p, Horizon) = JudgeOutcome(bars, p)
<1>1. CASE p.trigger = NoTrigger
  BY <1>1, Zenon DEF JudgeCloseFill
<1>2. CASE p.trigger # NoTrigger
  <2>1. PICK f : Judges(f, bars, p, Horizon) /\ JudgeOutcome(bars, p) = f[Len(bars)].verdict
    BY OutcomeIsJudged
  <2>2. PICK g : Judges(g, bars, p, Horizon) /\ JudgeCloseFill(bars, p, Horizon) = g[Len(bars)].verdict
    BY <1>2, CloseFillIsJudged
  <2>3. f = g
    BY <2>1, <2>2, JudgesAgree
  <2> QED
    BY <2>1, <2>2, <2>3
<1> QED
  BY <1>1, <1>2

\* Where neither wait is over, a bar does the same.
LEMMA WaitIsNotOver ==
  ASSUME NEW p, NEW s, NEW b, NEW w, NEW v, ~(s.waited + 1 >= w), ~(s.waited + 1 >= v)
  PROVE  CloseFillBar(p, w, s, b) = CloseFillBar(p, v, s, b)
<1> DEFINE over(x) == s.waited + 1 >= x
<1>1. ~over(w) /\ ~over(v)
  OBVIOUS
<1> HIDE DEF over
<1>2. (IF over(w) THEN "not_triggered" ELSE "open") = (IF over(v) THEN "not_triggered" ELSE "open")
  BY <1>1
<1> QED
  BY <1>2, Zenon DEF CloseFillBar, over

\* An order that may wait longer keeps every fill of the shorter wait
\* (backtest.py judge_close_fill).
THEOREM PatienceKeepsFills ==
  ASSUME NEW bars \in Seq(Candles), NEW p, Propositional(p), NEW w \in Nat, NEW v \in Nat, w <= v,
         JudgeCloseFill(bars, p, w).status # "not_triggered"
  PROVE  JudgeCloseFill(bars, p, v) = JudgeCloseFill(bars, p, w)
<1>1. CASE p.trigger = NoTrigger
  BY <1>1, Zenon DEF JudgeCloseFill
<1>2. CASE p.trigger # NoTrigger
  <2> DEFINE N == Len(bars)
  <2>1. PICK f : Judges(f, bars, p, w) /\ JudgeCloseFill(bars, p, w) = f[N].verdict
    BY <1>2, CloseFillIsJudged
  <2>2. PICK g : Judges(g, bars, p, v) /\ JudgeCloseFill(bars, p, v) = g[N].verdict
    BY <1>2, CloseFillIsJudged
  <2> DEFINE G == {n \in 0..N : f[n].verdict.status = "not_triggered" \/ f[n] = g[n]}
  <2>3. N \in Nat /\ 0 \in 0..N /\ N \in 0..N
    OBVIOUS
  <2>4. 0 \in G
    BY <2>1, <2>2, <2>3 DEF Judges
  <2>5. ASSUME NEW n \in 0..N, n \in G, n < N PROVE n + 1 \in G
    <3>1. n + 1 \in 1..N /\ n + 1 \in 0..N /\ (n + 1) - 1 = n
      BY <2>5
    <3> DEFINE s == f[n]
               b == bars[n+1]
               t == f[n+1]
    <3>2. t = CloseFillBar(p, w, s, b) /\ g[n+1] = CloseFillBar(p, v, g[n], b)
      BY <2>1, <2>2, <3>1, Zenon DEF Judges
    <3>3. s \in States /\ b \in Candles
      BY <2>1, <3>1 DEF Judges
    <3>4. b.close \in Int /\ p.trigger \in Int /\ s.waited \in Nat /\ s.verdict.status \in Statuses
      BY <3>3 DEF Candles, Propositional, States, Verdicts
    <3>5. SUFFICES t.verdict.status = "not_triggered" \/ t = g[n+1]
      BY <3>1
    <3> HIDE DEF s, b, t
    <3>6. CASE s.verdict.status = "not_triggered"
      BY <3>2, <3>6, FinalStays, NamesAreStatuses
    <3>7. CASE s.verdict.status # "not_triggered"
      <4>1. g[n] = s
        BY <2>5, <3>7 DEF s
      <4>2. CASE s.verdict.status \in Final
        BY <3>2, <4>1, <4>2, FinalStays
      <4>3. CASE s.verdict.status = "open" /\ s.active
        BY <3>2, <4>1, <4>3, HeldMoves
      <4>4. CASE s.verdict.status = "open" /\ ~s.active /\ b.close >= p.trigger
        <5>1. ~(b.close < p.trigger)
          BY <3>4, <4>4
        <5>2. \A x : CloseFillBar(p, x, s, b) = FillBar(p, s, b)
          BY <4>4, <5>1, NamesAreStatuses, Zenon DEF CloseFillBar
        <5> QED
          BY <3>2, <4>1, <5>2
      <4>5. CASE s.verdict.status = "open" /\ ~s.active /\ ~(b.close >= p.trigger)
        <5>1. WaitsOn(s, w, t)
          BY <3>2, <3>3, <4>5, OrderWaits
        <5>2. CASE s.waited + 1 >= w
          BY <5>1, <5>2 DEF WaitsOn, Verdict
        <5>3. CASE ~(s.waited + 1 >= w)
          <6>1. ~(s.waited + 1 >= v)
            BY <3>4, <5>3
          <6> QED
            BY <3>2, <4>1, <5>3, <6>1, WaitIsNotOver
        <5> QED
          BY <5>2, <5>3
      <4> QED
        BY <3>4, <4>2, <4>3, <4>4, <4>5 DEF Statuses
    <3> QED
      BY <3>6, <3>7
  <2> HIDE DEF G, N
  <2>6. \A n \in 0..N : n \in G
    BY <2>3, <2>4, <2>5, UpToTheLast
  <2>7. f[N] = g[N]
    BY <2>1, <2>3, <2>6 DEF G
  <2> QED
    BY <2>1, <2>2, <2>7
<1> QED
  BY <1>1, <1>2

\* A verdict that was reached stays when more bars are known (papertrade.py
\* judge_outcome, on whose outcome backtest.py evaluate_point rests).
THEOREM DecidedStays ==
  ASSUME NEW bars \in Seq(Candles), NEW more \in Seq(Candles), NEW p, Propositional(p),
         Len(bars) <= Len(more), \A n \in 1..Len(bars) : more[n] = bars[n],
         JudgeOutcome(bars, p).status \in Final
  PROVE  JudgeOutcome(more, p) = JudgeOutcome(bars, p)
<1> DEFINE N == Len(bars)
           M == Len(more)
<1>1. PICK f : Judges(f, bars, p, Horizon) /\ JudgeOutcome(bars, p) = f[N].verdict
  BY OutcomeIsJudged
<1>2. PICK g : Judges(g, more, p, Horizon) /\ JudgeOutcome(more, p) = g[M].verdict
  BY OutcomeIsJudged
<1> DEFINE G == {n \in 0..M : g[n] = IF n <= N THEN f[n] ELSE f[N]}
<1>3. N \in Nat /\ M \in Nat /\ N <= M /\ N \in 0..N /\ M \in 0..M /\ 0 \in 0..M
  OBVIOUS
<1>4. 0 \in G
  BY <1>1, <1>2, <1>3 DEF Judges
<1>5. ASSUME NEW n \in 0..M, n \in G, n < M PROVE n + 1 \in G
  <2>1. n + 1 \in 1..M /\ n + 1 \in 0..M /\ (n + 1) - 1 = n
    BY <1>5
  <2>2. g[n+1] = CloseFillBar(p, Horizon, g[n], more[n+1])
    BY <1>2, <2>1, Zenon DEF Judges
  <2>3. CASE n < N
    <3>1. n + 1 \in 1..N /\ n <= N
      BY <1>3, <2>1, <2>3
    <3>2. f[n+1] = CloseFillBar(p, Horizon, f[n], bars[n+1])
      BY <1>1, <2>1, <3>1, Zenon DEF Judges
    <3> QED
      BY <1>5, <2>1, <2>2, <3>1, <3>2
  <2>4. CASE ~(n < N)
    <3>1. g[n] = f[N]
      BY <1>3, <1>5, <2>4
    <3>2. g[n+1] = f[N]
      BY <1>1, <2>2, <3>1, FinalStays
    <3>3. ~(n + 1 <= N)
      BY <1>3, <2>4
    <3> QED
      BY <2>1, <3>2, <3>3
  <2> QED
    BY <2>3, <2>4
<1> HIDE DEF G, N, M
<1>6. \A n \in 0..M : n \in G
  BY <1>3, <1>4, <1>5, UpToTheLast
<1>7. g[M] = f[N]
  BY <1>3, <1>6 DEF G
<1> QED
  BY <1>1, <1>2, <1>7

\* An order that was filled was filled while it could wait.
LEMMA FilledInTime ==
  ASSUME HorizonAssumption, NEW bars \in Seq(Candles), NEW p, Propositional(p),
         p.trigger # NoTrigger, Len(bars) >= Horizon, JudgeOutcome(bars, p).status # "not_triggered"
  PROVE  \E k \in 1..Horizon : k <= Len(bars) /\ bars[k].close >= p.trigger
<1> DEFINE N == Len(bars)
<1>0. Horizon \in Nat \ {0} /\ N \in Nat /\ N \in 0..N
  BY DEF HorizonAssumption
<1>1. PICK f : Judges(f, bars, p, Horizon) /\ JudgeOutcome(bars, p) = f[N].verdict
  BY OutcomeIsJudged
<1>2. Stands(f[N], bars, p, Horizon, N)
  BY <1>0, <1>1, JudgesStand
<1>3. ~Waits(f[N], bars, p, Horizon, N)
  BY <1>0 DEF Waits
<1>4. ~Lapsed(f[N], bars, p, Horizon, N)
  BY <1>1 DEF Lapsed, Verdict
<1>5. PICK k \in 0..N : Activates(bars, p, k) /\ k <= Horizon
  <2> HIDE DEF N
  <2> QED
    BY <1>2, <1>3, <1>4 DEF Stands, Holds, EndedAt
<1> QED
  BY <1>0, <1>5 DEF Activates

\* What a verdict says of the gain.
LEMMA VerdictsGain ==
  ASSUME HorizonAssumption, NEW bars \in Seq(Candles), NEW p, InOrder(p), NEW v, v = JudgeOutcome(bars, p)
  PROVE  /\ v \in Verdicts
         /\ v.status = "stop_hit" => v.gain <= 0
         /\ v.status = "not_triggered" => v.gain = 0
         /\ v.status = "target_hit" /\ v.gain <= 0 /\ p.entry < p.target =>
              \E k \in 1..(Len(bars) - 1) : bars[k].close >= p.trigger /\ bars[k].close >= p.target
<1> DEFINE N == Len(bars)
<1>0. Horizon \in Nat \ {0} /\ N \in Nat /\ N \in 0..N /\ Propositional(p)
  BY DEF HorizonAssumption, InOrder
<1>1. PICK f : Judges(f, bars, p, Horizon) /\ v = f[N].verdict
  BY <1>0, OutcomeIsJudged
<1>2. Stands(f[N], bars, p, Horizon, N) /\ f[N] \in States
  BY <1>0, <1>1, JudgesStand
<1>3. v \in Verdicts
  BY <1>1, <1>2 DEF States
<1>4. CASE v.status = "open"
  BY <1>3, <1>4
<1>5. CASE Lapsed(f[N], bars, p, Horizon, N)
  BY <1>1, <1>3, <1>5 DEF Lapsed, Verdict
<1>6. ASSUME NEW k \in 0..N, NEW j \in (k+1)..N, EndedAt(f[N], bars, p, Horizon, N, k, j)
      PROVE  /\ v.status = "stop_hit" => v.gain <= 0
             /\ v.status # "not_triggered"
             /\ v.status = "target_hit" /\ v.gain <= 0 /\ p.entry < p.target =>
                  \E i \in 1..(N - 1) : bars[i].close >= p.trigger /\ bars[i].close >= p.target
  <2> DEFINE e == EntryAt(bars, p, k)
  <2>1. v = EndVerdict(bars, p, k, j) /\ Activates(bars, p, k)
    BY <1>1, <1>6 DEF EndedAt
  <2>2. k \in 0..Len(bars) /\ j \in 1..Len(bars) /\ k <= N - 1
    BY <1>0
  <2>3. e \in Int
    BY <1>0, <2>2, EndVerdictIsFinal
  <2>4. /\ v.status \in {"stop_hit", "target_hit", "expired"}
        /\ v.status = "stop_hit" => v.gain = p.stop - e
        /\ v.status = "target_hit" => v.gain = p.target - e
    BY <2>1 DEF EndVerdict, Verdict
  <2>5. /\ p.stop \in Int /\ p.target \in Int /\ p.entry \in Int /\ p.trigger \in Int
        /\ p.stop < p.entry
        /\ p.trigger # NoTrigger => p.stop < p.trigger
    BY DEF InOrder, Propositional
  <2>6. CASE k = 0
    <3>1. e = p.entry
      BY <2>6 DEF EntryAt
    <3> HIDE DEF e
    <3>2. v.status = "stop_hit" => v.gain <= 0
      BY <2>4, <2>5, <3>1
    <3>3. v.status = "target_hit" /\ p.entry < p.target => ~(v.gain <= 0)
      BY <2>4, <2>5, <3>1
    <3> QED
      BY <2>4, <3>2, <3>3
  <2>7. CASE k # 0
    <3>1. e = bars[k].close /\ e >= p.trigger /\ p.trigger # NoTrigger
      BY <2>1, <2>7 DEF EntryAt, Activates
    <3>2. k \in 1..(N - 1)
      BY <2>2, <2>7
    <3> HIDE DEF e
    <3>3. v.status = "stop_hit" => v.gain <= 0
      BY <2>3, <2>4, <2>5, <3>1
    <3>4. v.status = "target_hit" /\ v.gain <= 0 => e >= p.target
      BY <2>3, <2>4, <2>5
    <3> QED
      BY <2>4, <3>1, <3>2, <3>3, <3>4
  <2> QED
    BY <2>6, <2>7
<1> QED
  BY <1>1, <1>2, <1>3, <1>4, <1>5, <1>6 DEF Stands, Waits, Holds
=============================================================================
