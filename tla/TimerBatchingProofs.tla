------------------------ MODULE TimerBatchingProofs ------------------------
(* Proofs about TimerBatching, for every byte width, sampling rate, clock,  *)
(* program and number of owed cycles.                                       *)
EXTENDS TimerBatching, TimersProofs, SequenceTheorems

-----------------------------------------------------------------------------
(* The buzzer: time retired in two pieces sounds like time retired at once. *)

Level == {"rest", "high", "low"}

LEMMA AudioTyped ==
  ASSUME NEW au \in AudioState, NEW c \in Nat
  PROVE  /\ au.clock_hz \in Nat \ {0} /\ au.freq \in Nat
         /\ au.phase \in Nat /\ au.frac \in Nat
         /\ au.phase \in 0 .. Unit - 1 /\ au.frac \in 0 .. Unit - 1
         /\ Samples(au, c) \in Nat
         /\ Samples(au, c) \div Unit \in Nat
         /\ Samples(au, c) % Unit \in 0 .. Unit - 1
<1> DEFINE K == Unit \div au.clock_hz
<1>1. /\ au.clock_hz \in Nat \ {0} /\ au.freq \in Nat
      /\ au.phase \in 0 .. Unit - 1 /\ au.frac \in 0 .. Unit - 1
  BY DEF AudioState
<1>2. Unit \in Nat \ {0} /\ Rate \in Nat
  BY AudioConstants
<1>3. au.phase \in Nat /\ au.frac \in Nat
  BY <1>1, <1>2
<1>4. K \in Nat
  BY <1>1, <1>2, DivNat
<1> HIDE DEF K
<1>5. c * Rate \in Nat
  BY <1>2
<1>6. c * Rate * K \in Nat
  BY <1>4, <1>5
<1>7. Samples(au, c) \in Nat
  BY <1>3, <1>6 DEF Samples, K
<1>8. Samples(au, c) \div Unit \in Nat
  BY <1>2, <1>7, DivNat
<1>9. Samples(au, c) % Unit \in 0 .. Unit - 1
  <2> DEFINE s == Samples(au, c)
  <2>1. s \in Int BY <1>7
  <2> HIDE DEF s
  <2>2. s % Unit \in 0 .. Unit - 1 BY <1>2, <2>1, DivMod
  <2> QED BY <2>2 DEF s
<1> QED BY <1>1, <1>3, <1>7, <1>8, <1>9

LEMMA AudioTickType ==
  ASSUME NEW au \in AudioState, NEW c \in Nat
  PROVE  AudioTick(au, c) \in AudioState
<1>1. /\ Samples(au, c) \div Unit \in Nat /\ Samples(au, c) % Unit \in 0 .. Unit - 1
      /\ au.phase \in Nat /\ au.freq \in Nat
  BY AudioTyped
<1> DEFINE n == Samples(au, c) \div Unit
<1>2. au.phase + n * au.freq \in Int
  <2> HIDE DEF n
  <2>1. n \in Nat BY <1>1 DEF n
  <2>2. n * au.freq \in Nat BY <1>1, <2>1
  <2> QED BY <1>1, <2>2
<1>3. PhaseAfter(au, n) \in 0 .. Unit - 1
  BY <1>2, DivMod, AudioConstants DEF PhaseAfter
<1> QED BY <1>1, <1>3 DEF AudioTick, AudioState

LEMMA AudioFields ==
  ASSUME NEW au \in AudioState, NEW c \in Nat, NEW t, t = AudioTick(au, c)
  PROVE  /\ t.clock_hz = au.clock_hz /\ t.audible_ceiling_hz = au.audible_ceiling_hz
         /\ t.freq = au.freq /\ t.duty = au.duty
         /\ t.frac = Samples(au, c) % Unit
         /\ t.phase = PhaseAfter(au, Samples(au, c) \div Unit)
BY DEF AudioTick, AudioState

LEMMA SamplesAdd ==
  ASSUME NEW au \in AudioState, NEW a \in Nat, NEW b \in Nat,
         NEW t, t = AudioTick(au, a)
  PROVE  /\ Samples(t, b) % Unit = Samples(au, a + b) % Unit
         /\ (Samples(au, a) \div Unit) + (Samples(t, b) \div Unit)
              = Samples(au, a + b) \div Unit
<1> DEFINE K == Unit \div au.clock_hz
           x == Samples(au, a)
           y == b * Rate * K
<1>1. Unit \in Nat \ {0} /\ Rate \in Nat
  BY AudioConstants
<1>2. K \in Nat
  BY <1>1, AudioTyped, DivNat
<1>3. x \in Nat /\ au.frac \in Nat
  BY AudioTyped
<1>4. Samples(t, b) = y + (x % Unit)
  BY AudioFields DEF Samples
<1>5. x = a * Rate * K + au.frac /\ Samples(au, a + b) = (a + b) * Rate * K + au.frac
  BY DEF Samples
<1> HIDE DEF K
<1>6. b * Rate \in Nat /\ a * Rate \in Nat
  BY <1>1
<1>7. b * Rate * K \in Nat /\ a * Rate * K \in Nat
  BY <1>2, <1>6
<1>8. (a + b) * Rate = a * Rate + b * Rate
  BY <1>1
<1>9. (a * Rate + b * Rate) * K = a * Rate * K + b * Rate * K
  BY <1>2, <1>6
<1>10. y \in Nat
  BY <1>7
<1>11. (a + b) * Rate * K = a * Rate * K + y
  BY <1>8, <1>9
<1> HIDE DEF x, y
<1>12. Samples(au, a + b) = x + y
  BY <1>3, <1>5, <1>7, <1>10, <1>11
<1>13. x % Unit \in Int
  BY <1>1, <1>3, DivMod
<1>14. Samples(t, b) = (x % Unit) + y
  BY <1>4, <1>10, <1>13
<1>15. x \in Int /\ y \in Int
  BY <1>3, <1>10 DEF x
<1>16. /\ ((x % Unit) + y) % Unit = (x + y) % Unit
       /\ (x \div Unit) + (((x % Unit) + y) \div Unit) = (x + y) \div Unit
  BY ONLY <1>1, <1>15, DivSplit
<1> QED BY <1>12, <1>14, <1>16 DEF x

LEMMA PhaseAdds ==
  ASSUME NEW au \in AudioState, NEW a \in Nat, NEW k \in Nat,
         NEW t, t = AudioTick(au, a)
  PROVE  PhaseAfter(t, k) = PhaseAfter(au, (Samples(au, a) \div Unit) + k)
<1> DEFINE n == Samples(au, a) \div Unit
           f == au.freq
<1>1. /\ n \in Nat /\ f \in Nat /\ au.phase \in Nat /\ Unit \in Nat \ {0}
  BY AudioTyped, AudioConstants
<1>2. PhaseAfter(t, k) = (((au.phase + n * f) % Unit) + k * f) % Unit
  BY AudioFields DEF PhaseAfter
<1>3. PhaseAfter(au, n + k) = (au.phase + (n + k) * f) % Unit
  BY DEF PhaseAfter
<1> HIDE DEF n, f
<1>4. n * f \in Nat /\ k * f \in Nat /\ (n + k) * f = n * f + k * f
  BY <1>1
<1> DEFINE z == n * f
           w == k * f
<1>5. z \in Nat /\ w \in Nat /\ (n + k) * f = z + w
  BY <1>4
<1>6. PhaseAfter(t, k) = (((au.phase + z) % Unit) + w) % Unit
  BY <1>2
<1> HIDE DEF z, w
<1>7. (((au.phase + z) % Unit) + w) % Unit = (au.phase + z + w) % Unit
  <2> DEFINE x == au.phase + z
  <2>1. x \in Int /\ w \in Int
    BY <1>1, <1>5
  <2> HIDE DEF x
  <2>2. ((x % Unit) + w) % Unit = (x + w) % Unit
    BY ONLY <1>1, <2>1, DivSplit
  <2> QED BY <2>2 DEF x
<1>8. au.phase + z + w = au.phase + (z + w)
  BY <1>1, <1>5
<1>9. PhaseAfter(au, n + k) = (au.phase + (z + w)) % Unit
  BY <1>3, <1>5
<1>10. PhaseAfter(t, k) = PhaseAfter(au, n + k)
  BY <1>6, <1>7, <1>8, <1>9
<1> QED BY <1>10 DEF n

LEMMA AudioAdds ==
  ASSUME NEW au \in AudioState, NEW a \in Nat, NEW b \in Nat
  PROVE  AudioTick(AudioTick(au, a), b) = AudioTick(au, a + b)
<1> DEFINE t == AudioTick(au, a)
           u == AudioTick(t, b)
           v == AudioTick(au, a + b)
           m == Samples(t, b) \div Unit
<1>1. t \in AudioState /\ u \in AudioState /\ v \in AudioState
  BY AudioTickType
<1>2. m \in Nat
  BY <1>1, AudioTyped
<1>3. u.frac = v.frac
  BY <1>1, AudioFields, SamplesAdd
<1>4. u.phase = PhaseAfter(t, m)
  BY <1>1, AudioFields
<1>5. PhaseAfter(t, m) = PhaseAfter(au, (Samples(au, a) \div Unit) + m)
  <2> HIDE DEF m
  <2> QED BY <1>2, PhaseAdds
<1>6. (Samples(au, a) \div Unit) + m = Samples(au, a + b) \div Unit
  BY SamplesAdd
<1>7. v.phase = PhaseAfter(au, Samples(au, a + b) \div Unit)
  BY AudioFields
<1>8. u.phase = v.phase
  BY <1>4, <1>5, <1>6, <1>7
<1>9. /\ u.clock_hz = v.clock_hz /\ u.audible_ceiling_hz = v.audible_ceiling_hz
      /\ u.freq = v.freq /\ u.duty = v.duty
  BY <1>1, AudioFields
<1> HIDE DEF u, v
<1>10. u = v
  BY <1>1, <1>3, <1>8, <1>9 DEF AudioState
<1> QED BY <1>10 DEF u, v

LEMMA RenderedType ==
  ASSUME NEW au \in AudioState, NEW c \in Nat, NEW n, n = Samples(au, c) \div Unit
  PROVE  /\ Rendered(au, c) \in Seq(Level)
         /\ Len(Rendered(au, c)) = n
         /\ \A k \in 1 .. n : Rendered(au, c)[k] = Sample(au, k)
         /\ n \in Nat
<1>1. n \in Nat
  BY AudioTyped
<1>2. \A k \in 1 .. n : Sample(au, k) \in Level
  BY DEF Sample, Level
<1>3. Rendered(au, c) = [k \in 1 .. n |-> Sample(au, k)]
  BY DEF Rendered
<1> DEFINE s == Rendered(au, c)
<1> HIDE DEF s
<1>4. s = [k \in 1 .. n |-> Sample(au, k)]
  BY <1>3 DEF s
<1>5. s \in Seq(Level)
  <2>1. s \in [1 .. n -> Level]
    BY <1>2, <1>4
  <2> QED BY <1>1, <2>1
<1>6. Len(s) = n
  BY <1>1, <1>4, <1>5, LenProperties
<1> QED BY <1>1, <1>4, <1>5, <1>6 DEF s

LEMMA RenderedAdds ==
  ASSUME NEW au \in AudioState, NEW a \in Nat, NEW b \in Nat,
         NEW t, t = AudioTick(au, a)
  PROVE  Rendered(au, a) \o Rendered(t, b) = Rendered(au, a + b)
<1> DEFINE n == Samples(au, a) \div Unit
           m == Samples(t, b) \div Unit
           k == Samples(au, a + b) \div Unit
           p == Rendered(au, a)
           q == Rendered(t, b)
           r == Rendered(au, a + b)
<1>1. t \in AudioState /\ a + b \in Nat
  BY AudioTickType
<1>2. n + m = k
  BY SamplesAdd
<1>3. \A i \in 1 .. m : Sample(t, i) = Sample(au, n + i)
  <2> SUFFICES ASSUME NEW i \in 1 .. m PROVE Sample(t, i) = Sample(au, n + i)
    OBVIOUS
  <2>1. i \in Nat
    OBVIOUS
  <2>2. PhaseAfter(t, i) = PhaseAfter(au, n + i)
    BY <2>1, PhaseAdds
  <2>3. t.freq = au.freq /\ t.duty = au.duty
    BY AudioFields
  <2> QED BY <2>2, <2>3 DEF Sample
<1> HIDE DEF n, m, k
<1>4. /\ p \in Seq(Level) /\ Len(p) = n /\ n \in Nat
      /\ \A i \in 1 .. n : p[i] = Sample(au, i)
  BY RenderedType DEF n
<1>5. /\ q \in Seq(Level) /\ Len(q) = m /\ m \in Nat
      /\ \A i \in 1 .. m : q[i] = Sample(t, i)
  BY <1>1, RenderedType DEF m
<1>6. /\ r \in Seq(Level) /\ Len(r) = k /\ k \in Nat
      /\ \A i \in 1 .. k : r[i] = Sample(au, i)
  BY <1>1, RenderedType DEF k
<1> HIDE DEF p, q, r
<1>7. /\ p \o q \in Seq(Level) /\ Len(p \o q) = n + m
      /\ \A i \in 1 .. n + m : (p \o q)[i] = IF i <= n THEN p[i] ELSE q[i - n]
  BY <1>4, <1>5, ConcatProperties
<1>8. ASSUME NEW i \in 1 .. n + m PROVE (p \o q)[i] = r[i]
  <2>1. r[i] = Sample(au, i)
    BY <1>2, <1>6
  <2>2. CASE i <= n
    BY <1>4, <1>7, <2>1, <2>2
  <2>3. CASE i > n
    <3>1. i - n \in 1 .. m /\ n + (i - n) = i
      BY <1>4, <1>5, <2>3
    <3>2. q[i - n] = Sample(au, i)
      BY <1>3, <1>5, <3>1
    <3>3. (p \o q)[i] = q[i - n]
      <4>1. ~(i <= n)
        BY <1>4, <2>3
      <4> QED BY <1>7, <4>1
    <3> QED BY <2>1, <3>2, <3>3
  <2>4. i \in Int
    BY <1>4, <1>5
  <2>5. n \in Int
    BY <1>4
  <2>6. i <= n \/ i > n
    BY ONLY <2>4, <2>5
  <2> QED BY <2>2, <2>3, <2>6
<1>9. Len(p \o q) = Len(r)
  BY <1>2, <1>6, <1>7
<1>10. p \o q = r
  BY <1>6, <1>7, <1>8, <1>9, SeqEqual
<1> QED BY <1>10 DEF p, q, r

-----------------------------------------------------------------------------
(* Both at once.                                                            *)

EngineState == [tm : TimerState, au : AudioState, pcm : Seq(Level)]

LEMMA RetiredType ==
  ASSUME NEW e \in EngineState, NEW r \in Registers, NEW c \in Nat
  PROVE  Retired(e, r, c) \in EngineState
<1>1. e.tm \in TimerState /\ e.au \in AudioState /\ e.pcm \in Seq(Level)
  BY DEF EngineState
<1>2. /\ Tick(e.tm, r, c) \in TimerState /\ AudioTick(e.au, c) \in AudioState
      /\ Rendered(e.au, c) \in Seq(Level)
  BY <1>1, TickType, AudioTickType, RenderedType
<1>3. e.pcm \o Rendered(e.au, c) \in Seq(Level)
  BY <1>1, <1>2, ConcatProperties
<1> QED BY <1>2, <1>3 DEF Retired, EngineState

\* Cycles that are retired in two calls of vmu_rt_tick do to the timers, the
\* buzzer and the captured sound what they do when one call retires them all
\* (emit.c:8-11, flush_cycles).
THEOREM RetiredAdds ==
  ASSUME NEW e \in EngineState, NEW r \in Registers, NEW a \in Nat, NEW b \in Nat
  PROVE  Retired(Retired(e, r, a), r, b) = Retired(e, r, a + b)
<1> DEFINE f == Retired(e, r, a)
           p == Rendered(e.au, a)
           q == Rendered(AudioTick(e.au, a), b)
<1>1. e.tm \in TimerState /\ e.au \in AudioState /\ e.pcm \in Seq(Level)
  BY DEF EngineState
<1>2. /\ f.tm = Tick(e.tm, r, a) /\ f.au = AudioTick(e.au, a)
      /\ f.pcm = e.pcm \o p
  BY DEF Retired
<1>3. Tick(f.tm, r, b) = Tick(e.tm, r, a + b)
  BY <1>1, <1>2, TickAdds
<1>4. AudioTick(f.au, b) = AudioTick(e.au, a + b)
  BY <1>1, <1>2, AudioAdds
<1>5. p \o q = Rendered(e.au, a + b)
  BY <1>1, RenderedAdds
<1>6. p \in Seq(Level) /\ q \in Seq(Level)
  BY <1>1, AudioTickType, RenderedType
<1>7. f.pcm \o Rendered(f.au, b) = e.pcm \o Rendered(e.au, a + b)
  <2>1. f.pcm \o Rendered(f.au, b) = (e.pcm \o p) \o q
    BY <1>2
  <2> DEFINE s == e.pcm
  <2> HIDE DEF p, q, s
  <2>2. s \in Seq(Level) /\ p \in Seq(Level) /\ q \in Seq(Level)
    BY <1>1, <1>6 DEF s
  <2>3. (s \o p) \o q = s \o (p \o q)
    <3>1. ASSUME NEW S PROVE \A x, y, z \in Seq(S) : (x \o y) \o z = x \o (y \o z)
      BY ConcatAssociative
    <3>2. \A x, y, z \in Seq(Level) : (x \o y) \o z = x \o (y \o z)
      BY ONLY <3>1
    <3> QED BY ONLY <2>2, <3>2
  <2>4. (e.pcm \o p) \o q = e.pcm \o (p \o q)
    BY <2>3 DEF s
  <2> QED BY <1>5, <2>1, <2>4
<1> HIDE DEF f
<1>8. Retired(f, r, b) = Retired(e, r, a + b)
  BY <1>3, <1>4, <1>7 DEF Retired
<1> QED BY <1>8 DEF f

\* Time that has been retired is settled: retiring none of it again changes
\* nothing, whatever part of the capture is left.
LEMMA RetiredSettles ==
  ASSUME NEW e \in EngineState, NEW r \in Registers, NEW c \in Nat,
         NEW f, f = [Retired(e, r, c) EXCEPT !.pcm = <<>>]
  PROVE  Retired(f, r, 0) = f
<1> DEFINE g == Retired(e, r, c)
<1>1. g \in EngineState /\ g.tm \in TimerState /\ g.au \in AudioState
  BY RetiredType DEF EngineState
<1>2. Retired(g, r, 0) = g
  <2>1. 0 \in Nat /\ c + 0 = c
    OBVIOUS
  <2>2. Retired(g, r, 0) = Retired(e, r, c + 0)
    BY <2>1, RetiredAdds
  <2> QED BY <2>1, <2>2
<1> HIDE DEF g
<1>3. f = [g EXCEPT !.pcm = <<>>]
  BY DEF g
<1>4. f.tm = g.tm /\ f.au = g.au /\ f.pcm = <<>> /\ f = [tm |-> g.tm, au |-> g.au, pcm |-> <<>>]
  BY <1>1, <1>3 DEF EngineState
<1>5. Tick(g.tm, r, 0) = g.tm /\ AudioTick(g.au, 0) = g.au
  BY <1>2 DEF Retired
<1>6. Rendered(g.au, 0) = <<>>
  <2> DEFINE au == g.au
             n == Samples(au, 0) \div Unit
  <2>1. au \in AudioState /\ au.frac \in 0 .. Unit - 1 /\ Unit \in Nat \ {0} /\ Rate \in Nat
    BY <1>1, AudioTyped, AudioConstants
  <2> HIDE DEF au
  <2>2. Unit \div au.clock_hz \in Nat
    BY <2>1, AudioTyped, DivNat
  <2>3. Samples(au, 0) = au.frac
    BY <2>1, <2>2 DEF Samples
  <2>4. n = 0
    BY <2>1, <2>3, DivSmall
  <2> HIDE DEF n
  <2>5. Rendered(au, 0) \in Seq(Level) /\ Len(Rendered(au, 0)) = n
    BY <2>1, RenderedType DEF n
  <2>6. Rendered(au, 0) = <<>>
    BY <2>4, <2>5, EmptySeq
  <2> QED BY <2>6 DEF au
<1>7. <<>> \o <<>> = <<>>
  BY EmptySeq, ConcatEmptySeq
<1> QED BY <1>4, <1>5, <1>6, <1>7 DEF Retired

\* What the comparison leaves of two captures.
Common(e, b) == IF IsPrefix(b.pcm, e.pcm) THEN Len(b.pcm) ELSE 0
Rest(e, n) == [e EXCEPT !.pcm = SubSeq(@, n + 1, Len(@))]

LEMMA RestType ==
  ASSUME NEW e \in EngineState, NEW b \in EngineState
  PROVE  /\ Common(e, b) \in Nat
         /\ \A n \in Nat : /\ Rest(e, n) \in EngineState
                           /\ Rest(e, n).tm = e.tm /\ Rest(e, n).au = e.au
<1>1. e.tm \in TimerState /\ e.au \in AudioState /\ e.pcm \in Seq(Level) /\ b.pcm \in Seq(Level)
  BY DEF EngineState
<1>2. Common(e, b) \in Nat
  BY <1>1, LenProperties DEF Common
<1>3. ASSUME NEW n \in Nat
      PROVE  Rest(e, n) \in EngineState /\ Rest(e, n).tm = e.tm /\ Rest(e, n).au = e.au
  <2> DEFINE s == e.pcm
             k == Len(s)
             lo == n + 1
  <2>1. s \in Seq(Level) /\ k \in Nat
    BY <1>1, LenProperties
  <2> HIDE DEF s
  <2>2. \A i \in lo .. k : s[i] \in Level
    BY <2>1, ElementOfSeq
  <2>3. lo \in Int /\ k \in Int
    BY <2>1
  <2> HIDE DEF k, lo
  <2>4. SubSeq(s, lo, k) \in Seq(Level)
    BY ONLY <2>2, <2>3, SubSeqProperties
  <2> DEFINE p == SubSeq(s, lo, k)
  <2>5. Rest(e, n) = [e EXCEPT !.pcm = p]
    BY DEF Rest, s, lo, k
  <2>6. p \in Seq(Level)
    BY <2>4
  <2> HIDE DEF p
  <2> QED BY <1>1, <2>5, <2>6 DEF EngineState
<1> QED BY <1>2, <1>3

LEMMA RestOfSame ==
  ASSUME NEW e \in EngineState
  PROVE  Rest(e, Common(e, e)) = [e EXCEPT !.pcm = <<>>]
<1> DEFINE s == e.pcm
           k == Len(s)
<1>1. s \in Seq(Level) /\ k \in Nat
  BY LenProperties DEF EngineState
<1>2. Common(e, e) = k
  BY <1>1 DEF Common, IsPrefix
<1> HIDE DEF s, k
<1>3. SubSeq(s, k + 1, k) = <<>>
  BY <1>1, SubSeqEmpty
<1> QED BY <1>2, <1>3 DEF Rest, s, k

LEMMA RestOfEmpty ==
  ASSUME NEW e \in EngineState, NEW b \in EngineState, b.pcm = <<>>
  PROVE  Rest(e, Common(e, b)) = e /\ Rest(b, Common(e, b)) = b
<1>1. e.pcm \in Seq(Level) /\ b.pcm \in Seq(Level) /\ Len(b.pcm) = 0
  BY EmptySeq DEF EngineState
<1>2. Common(e, b) = 0
  BY <1>1 DEF Common
<1>3. ASSUME NEW f \in EngineState PROVE Rest(f, 0) = f
  <2>1. f.pcm \in Seq(Level)
    BY DEF EngineState
  <2>2. SubSeq(f.pcm, 0 + 1, Len(f.pcm)) = f.pcm
    BY <2>1, SubSeqFull
  <2> QED BY <2>2 DEF Rest, EngineState
<1> QED BY <1>2, <1>3

-----------------------------------------------------------------------------
(* Tuning.                                                                  *)

LEMMA QuotientAtMost ==
  ASSUME NEW n \in Nat \ {0}, NEW h \in Nat, h <= n, NEW u \in Nat
  PROVE  (h * u) \div n \in 0 .. u
<1> DEFINE x == h * u
           q == x \div n
<1>1. x \in Nat /\ x <= n * u
  <2>1. (n - h) * u >= 0
    <3>1. n - h \in Nat OBVIOUS
    <3> DEFINE d == n - h
    <3>2. d * u \in Nat BY <3>1
    <3> QED BY <3>2
  <2>2. (n - h) * u = n * u - h * u
    OBVIOUS
  <2>3. n * u \in Nat /\ h * u \in Nat
    OBVIOUS
  <2> QED BY <2>1, <2>2, <2>3
<1> HIDE DEF x
<1>2. q \in Nat
  BY <1>1, DivNat
<1>3. q >= u + 1 <=> x >= (u + 1) * n
  BY <1>1, DivAtLeast
<1>4. (u + 1) * n = n * u + n /\ n * u \in Nat
  OBVIOUS
<1>5. ~(q >= u + 1)
  BY <1>1, <1>3, <1>4
<1> HIDE DEF q
<1>6. q \in 0 .. u
  BY <1>2, <1>5
<1> QED BY <1>6 DEF q, x

LEMMA RetuneType ==
  ASSUME NEW au \in AudioState, NEW r \in Registers
  PROVE  Retune(au, r) \in AudioState
<1>1. r.t1lr \in Byte /\ r.t1lc \in Byte
  BY DEF Registers
<1>2. /\ ToneLength(r) \in Nat \ {0} /\ High(r) \in Nat /\ High(r) <= ToneLength(r)
  BY <1>1, TimerConstants DEF ToneLength, High, Byte
<1>3. Unit \in Nat /\ Rate \in Nat \ {0}
  BY AudioConstants
<1>4. Duty(r) \in 0 .. Unit
  BY <1>2, <1>3, QuotientAtMost DEF Duty
<1>5. (au.clock_hz * Unit) \div (ToneLength(r) * Rate) \in Nat
  <2> DEFINE x == au.clock_hz * Unit
             n == ToneLength(r) * Rate
  <2>1. au.clock_hz \in Nat
    BY DEF AudioState
  <2>2. x \in Nat
    BY <1>3, <2>1
  <2>3. n \in Nat \ {0}
    BY <1>2, <1>3
  <2> HIDE DEF x, n
  <2>4. x \div n \in Nat
    BY <2>2, <2>3, DivNat
  <2> QED BY <2>4 DEF x, n
<1> QED BY <1>4, <1>5 DEF Retune, AudioState

\* Tuning again, and retiring time, keep an engine in tune.
LEMMA RetuneKeeps ==
  ASSUME NEW au \in AudioState, NEW r \in Registers, NEW c
  PROVE  /\ Retune(Retune(au, r), r) = Retune(au, r)
         /\ au = Retune(au, r) => AudioTick(au, c) = Retune(AudioTick(au, c), r)
<1> DEFINE x == Retune(au, r)
           y == AudioTick(au, c)
<1>1. /\ x.clock_hz = au.clock_hz /\ x.audible_ceiling_hz = au.audible_ceiling_hz
      /\ x.duty = IF Oscillates(r) THEN Duty(r) ELSE au.duty
      /\ x.freq = IF Audible(au, r)
                  THEN (au.clock_hz * Unit) \div (ToneLength(r) * Rate) ELSE 0
  BY DEF Retune, AudioState
<1>2. Audible(x, r) = Audible(au, r)
  BY <1>1 DEF Audible
<1>3. Retune(x, r) = x
  BY <1>1, <1>2 DEF Retune, AudioState
<1>4. /\ y.clock_hz = au.clock_hz /\ y.audible_ceiling_hz = au.audible_ceiling_hz
      /\ y.duty = au.duty /\ y.freq = au.freq
  BY DEF AudioTick, AudioState
<1>5. Audible(y, r) = Audible(au, r)
  BY <1>4 DEF Audible
<1>6. ASSUME au = x PROVE y = Retune(y, r)
  <2>1. /\ y.duty = IF Oscillates(r) THEN Duty(r) ELSE y.duty
        /\ y.freq = IF Audible(y, r)
                    THEN (y.clock_hz * Unit) \div (ToneLength(r) * Rate) ELSE 0
    BY <1>1, <1>4, <1>5, <1>6
  <2>2. y = [y EXCEPT !.duty = y.duty, !.freq = y.freq]
    BY DEF AudioTick, AudioState
  <2> QED BY <2>1, <2>2 DEF Retune
<1> QED BY <1>3, <1>6

\* Only three registers matter to the buzzer.
LEMMA RetuneSame ==
  ASSUME NEW au, NEW r, NEW s,
         r.t1cnt = s.t1cnt, r.t1lr = s.t1lr, r.t1lc = s.t1lc
  PROVE  Retune(au, r) = Retune(au, s)
<1>1. /\ ToneLength(r) = ToneLength(s) /\ Duty(r) = Duty(s)
      /\ Oscillates(r) = Oscillates(s)
  BY DEF ToneLength, High, Duty, Oscillates
<1>2. Audible(au, r) = Audible(au, s)
  BY <1>1 DEF Audible
<1> QED BY <1>1, <1>2 DEF Retune

-----------------------------------------------------------------------------
(* The two engines.                                                         *)

RegisterWrite(op) ==
  /\ op.kind \in DOMAIN ZeroRegisters
  /\ [ZeroRegisters EXCEPT ![op.kind] = op.value] \in Registers

\* The program's writes are part of the type: they come from Sessions.
TypeOK ==
  /\ exact \in EngineState /\ batched \in EngineState
  /\ owed \in Nat /\ reg \in Registers /\ midBlock \in BOOLEAN
  /\ \A op \in program : RegisterWrite(op)

\* Before a write in the middle of a block the engines differ by the owed
\* cycles, by nothing at all when none are owed, which is when a write is
\* harmless, and the generated code's capture has nothing the interpreter's
\* has not.
Together ==
  ~midBlock =>
    /\ exact = Retired(batched, reg, owed)
    /\ owed = 0 => exact = batched
    /\ batched.pcm = <<>>

IInv == TypeOK /\ Together /\ PitchFollowsRegisters

LEMMA EffectType ==
  ASSUME TypeOK, NEW op \in Ops, NEW e \in EngineState
  PROVE  /\ RegisterEffect(op) \in Registers
         /\ Effect(op, e) \in EngineState
         /\ ~Writes(op) => RegisterEffect(op) = reg /\ Effect(op, e) = e
<1>1. /\ e.tm \in TimerState /\ e.au \in AudioState /\ e.pcm \in Seq(Level)
      /\ reg \in Registers
  BY DEF EngineState, TypeOK
<1>2. CASE op.kind = "other"
  <2>1. RegisterEffect(op) = reg
    BY <1>2 DEF RegisterEffect
  <2>2. Effect(op, e) = e
    BY <1>2 DEF Effect, RetunedBy, EngineState
  <2> QED BY <1>1, <2>1, <2>2
<1>3. CASE op.kind # "other"
  <2>1. RegisterWrite(op)
    BY <1>3 DEF TypeOK, Ops
  <2>2. RegisterEffect(op) = [reg EXCEPT ![op.kind] = op.value]
    BY <1>3 DEF RegisterEffect
  <2>3. RegisterEffect(op) \in Registers
    BY <1>1, <2>1, <2>2 DEF RegisterWrite, ZeroRegisters, Registers
  <2>4. /\ \A x \in AudioState : Retune(x, RegisterEffect(op)) \in AudioState
    BY <2>3, RetuneType
  <2>5. \A bits : /\ WriteT0CON(e.tm, reg, bits) \in TimerState
                  /\ WriteT1CNT(e.tm, reg, bits) \in TimerState
    BY <1>1 DEF WriteT0CON, WriteT1CNT, TimerState, Registers
  <2>6. Effect(op, e) \in EngineState
    BY <1>1, <2>4, <2>5 DEF Effect, EngineState
  <2> QED BY <1>3, <2>3, <2>6 DEF Writes
<1> QED BY <1>2, <1>3

\* A write leaves the buzzer in tune with the registers.
LEMMA EffectTunes ==
  ASSUME TypeOK, NEW op \in Ops, NEW e \in EngineState, e.au = Retune(e.au, reg)
  PROVE  Effect(op, e).au = Retune(Effect(op, e).au, RegisterEffect(op))
<1> DEFINE r == RegisterEffect(op)
<1>1. e.au \in AudioState /\ r \in Registers
  BY EffectType DEF EngineState
<1>2. CASE op.kind \in RetunedBy
  <2>1. Effect(op, e).au = Retune(e.au, r)
    BY <1>2 DEF Effect, EngineState
  <2> QED BY <1>1, <2>1, RetuneKeeps
<1>3. CASE op.kind \notin RetunedBy
  <2>1. Effect(op, e).au = e.au
    BY <1>3 DEF Effect, EngineState
  <2>2. r.t1cnt = reg.t1cnt /\ r.t1lr = reg.t1lr /\ r.t1lc = reg.t1lc
    BY <1>3 DEF RegisterEffect, RetunedBy, TypeOK, Registers
  <2>3. Retune(e.au, r) = Retune(e.au, reg)
    BY <2>2, RetuneSame
  <2> QED BY <2>1, <2>3
<1> QED BY <1>2, <1>3

LEMMA InitTypes ==
  ASSUME NEW hz \in Nat, NEW ceiling \in Nat, NEW e, e = Engine(hz, ceiling)
  PROVE  /\ e \in EngineState /\ ZeroRegisters \in Registers
         /\ e.pcm = <<>>
         /\ e.au = Retune(e.au, ZeroRegisters)
         /\ Retired(e, ZeroRegisters, 0) = e
<1>1. 0 \in Byte /\ 0 \in 0 .. CountMod - 1 /\ 0 \in 0 .. Unit /\ 0 \in 0 .. Unit - 1
  BY TimerConstants, AudioConstants DEF Byte
<1>2. ZeroRegisters \in Registers
  BY <1>1 DEF ZeroRegisters, Registers
<1>3. ResetState \in TimerState
  BY <1>1, TimerConstants DEF ResetState, TimerState
<1>4. /\ e.au \in AudioState
      /\ e.au.freq = 0 /\ e.au.phase = 0 /\ e.au.frac = 0 /\ e.au.duty = 0
  <2> DEFINE clock == IF hz > 0 THEN hz ELSE DefaultClock
             top == IF ceiling > 0 THEN ceiling ELSE DefaultCeiling
  <2>1. clock \in Nat \ {0} /\ top \in Nat \ {0}
    BY AudioConstants
  <2>2. e.au = [clock_hz |-> clock, audible_ceiling_hz |-> top,
                freq |-> 0, duty |-> 0, phase |-> 0, frac |-> 0]
    BY DEF Engine, SetAudibleCeiling, SetClock, ResetAudio
  <2> HIDE DEF clock, top
  <2> QED BY <1>1, <2>1, <2>2 DEF AudioState
<1>5. e = [tm |-> ResetState, au |-> e.au, pcm |-> <<>>]
  BY DEF Engine
<1>6. e \in EngineState
  <2>1. <<>> \in Seq(Level)
    BY EmptySeq
  <2> DEFINE au == e.au
  <2>2. au \in AudioState /\ e = [tm |-> ResetState, au |-> au, pcm |-> <<>>]
    BY <1>4, <1>5
  <2> HIDE DEF au
  <2> QED BY <1>3, <2>1, <2>2 DEF EngineState
<1>7. e.au = Retune(e.au, ZeroRegisters)
  <2>1. ~Oscillates(ZeroRegisters) /\ ~Audible(e.au, ZeroRegisters)
    BY DEF Oscillates, Audible, ZeroRegisters
  <2>2. Retune(e.au, ZeroRegisters) = [e.au EXCEPT !.duty = @, !.freq = 0]
    BY <2>1 DEF Retune
  <2> DEFINE au == e.au
  <2>3. au \in AudioState /\ au.freq = 0
    BY <1>4
  <2> HIDE DEF au
  <2>4. [au EXCEPT !.duty = @, !.freq = 0] = au
    BY <2>3 DEF AudioState
  <2> QED BY <2>2, <2>4 DEF au
<1>8. Tick(ResetState, ZeroRegisters, 0) = ResetState
  <2> DEFINE s == ResetState
             z == ZeroRegisters
  <2>1. \A n \in Nat \ {0} : (0 + 0) \div n = 0 /\ (0 + 0) % n = 0
    BY DivSmall
  <2>2. BaseTicks(s, 0) = 0 /\ T0Ticks(s, z, 0) = 0
    BY <2>1, <1>2, <1>3, Typed DEF BaseTicks, T0Ticks, ResetState
  <2>3. /\ T0LSteps(s, z, 0) = 0 /\ T0HSteps(s, z, 0) = 0
        /\ T1LSteps(z, 0) = 0 /\ T1HSteps(z, 0) = 0
    BY DEF T0LSteps, T0HSteps, T1LSteps, T1HSteps, Gated, ZeroRegisters
  <2>4. Stepped(0, 0, 0) = 0 /\ Overflows(0, 0, 0) = 0
    BY TimerConstants DEF Stepped, Overflows
  <2>5. Raised(s, z, 0) = {}
    <3>1. ~z.btcr
      BY DEF ZeroRegisters
    <3>2. /\ Overflows(s.t0l, z.t0lr, T0LSteps(s, z, 0)) = 0
          /\ Overflows(s.t0h, z.t0hr, T0HSteps(s, z, 0)) = 0
          /\ Overflows(s.t1l, z.t1lr, T1LSteps(z, 0)) = 0
          /\ Overflows(s.t1h, z.t1hr, T1HSteps(z, 0)) = 0
      BY <2>3, <2>4 DEF ResetState, ZeroRegisters
    <3>3. ~(0 > 0)
      OBVIOUS
    <3> QED BY <3>1, <3>2, <3>3 DEF Raised
  <2>6. (0 + 0) % CountMod = 0 /\ (0 + 0) % Period(z) = 0 /\ (0 + 0) % s.base_divisor = 0
    BY <2>1, <1>2, <1>3, Typed, TimerConstants
  <2> DEFINE t == Tick(s, z, 0)
  <2>7. /\ t.base_accum = 0 /\ t.base_count = 0 /\ t.prescale_accum = 0
        /\ t.t0l = 0 /\ t.t0h = 0 /\ t.t1l = 0 /\ t.t1h = 0
        /\ t.base_divisor = DefaultDivisor /\ t.pending = {}
    <3>1. /\ t.base_accum = (0 + 0) % s.base_divisor
          /\ t.base_count = (0 + 0) % CountMod
          /\ t.prescale_accum = (0 + 0) % Period(z)
          /\ t.t0l = Stepped(0, 0, 0) /\ t.t0h = Stepped(0, 0, 0)
          /\ t.t1l = Stepped(0, 0, 0) /\ t.t1h = Stepped(0, 0, 0)
      BY <1>2, <1>3, <2>2, <2>3, TickFields DEF ResetState, ZeroRegisters
    <3>2. t.base_divisor = DefaultDivisor /\ t.pending = {}
      BY <2>5 DEF Tick, ResetState
    <3> QED BY <2>4, <2>6, <3>1, <3>2
  <2>8. t \in TimerState
    BY <1>2, <1>3, TickType
  <2> HIDE DEF t
  <2>9. t = ResetState
    BY <2>7, <2>8 DEF TimerState, ResetState
  <2> QED BY <2>9 DEF t
<1>9. AudioTick(e.au, 0) = e.au /\ Rendered(e.au, 0) = <<>>
  <2> DEFINE au == e.au
  <2>1. /\ au \in AudioState /\ Unit \in Nat \ {0} /\ Rate \in Nat
        /\ au.freq = 0 /\ au.phase = 0 /\ au.frac = 0
    BY <1>4, AudioConstants
  <2> HIDE DEF au
  <2>2. Unit \div au.clock_hz \in Nat
    BY <2>1, AudioTyped, DivNat
  <2>3. Samples(au, 0) = 0
    BY <2>1, <2>2 DEF Samples
  <2>4. 0 \div Unit = 0 /\ 0 % Unit = 0
    BY <1>1, <2>1, DivSmall
  <2>5. PhaseAfter(au, 0) = 0
    BY <2>1, <2>4 DEF PhaseAfter
  <2>6. AudioTick(au, 0) = au
    BY <2>1, <2>3, <2>4, <2>5 DEF AudioTick, AudioState
  <2>7. Rendered(au, 0) \in Seq(Level) /\ Len(Rendered(au, 0)) = 0
    BY <2>1, <2>3, <2>4, RenderedType
  <2> QED BY <2>6, <2>7, EmptySeq DEF au
<1>10. <<>> \o <<>> = <<>>
  BY EmptySeq, ConcatEmptySeq
<1>11. Retired(e, ZeroRegisters, 0) = e
  <2> DEFINE au == e.au
  <2>1. e = [tm |-> ResetState, au |-> au, pcm |-> <<>>]
    BY <1>5
  <2>2. AudioTick(au, 0) = au /\ Rendered(au, 0) = <<>>
    BY <1>9
  <2>3. e.tm = ResetState /\ e.pcm = <<>> /\ e.au = au
    BY <1>5
  <2> HIDE DEF au
  <2> QED BY <2>1, <2>2, <2>3, <1>8, <1>10 DEF Retired
<1> QED BY <1>2, <1>5, <1>6, <1>7, <1>11

LEMMA InitHolds == Init => IInv
<1> SUFFICES ASSUME Init PROVE IInv
  OBVIOUS
<1>1. PICK s \in Sessions :
        /\ program = s.program
        /\ exact = Engine(s.clock, s.ceiling)
        /\ batched = Engine(s.clock, s.ceiling)
        /\ owed = 0 /\ reg = ZeroRegisters
        /\ midBlock = FALSE
  BY DEF Init
<1>2. s.clock \in Nat /\ s.ceiling \in Nat /\ \A op \in program : RegisterWrite(op)
  BY <1>1, BatchingConstants DEF RegisterWrite
<1>3. /\ exact \in EngineState /\ reg \in Registers /\ exact.pcm = <<>>
      /\ exact.au = Retune(exact.au, reg) /\ Retired(exact, reg, 0) = exact
  BY <1>1, <1>2, InitTypes
<1>4. exact = batched
  BY <1>1
<1>5. TypeOK
  BY <1>1, <1>2, <1>3, <1>4 DEF TypeOK
<1>6. Together
  BY <1>1, <1>3, <1>4 DEF Together
<1>7. PitchFollowsRegisters
  BY <1>3, <1>4 DEF PitchFollowsRegisters
<1> QED BY <1>5, <1>6, <1>7 DEF IInv

\* Retiring time keeps the type and the tune of an engine.
LEMMA RetiredTunes ==
  ASSUME NEW e \in EngineState, NEW r \in Registers, NEW c \in Nat,
         e.au = Retune(e.au, r)
  PROVE  Retired(e, r, c).au = Retune(Retired(e, r, c).au, r)
<1>1. e.au \in AudioState /\ Retired(e, r, c).au = AudioTick(e.au, c)
  BY DEF EngineState, Retired
<1> QED BY <1>1, RetuneKeeps

LEMMA StraightKeeps ==
  ASSUME IInv, ~midBlock, UNCHANGED program,
         NEW op \in Ops, NEW c \in 1 .. MaxInsn, Straight(op, c)
  PROVE  IInv'
<1> DEFINE r == RegisterEffect(op)
           x == Effect(op, exact)
           e == Retired(x, r, c)
           b == Effect(op, batched)
           n == Common(e, b)
<1>1. /\ TypeOK /\ Together /\ exact \in EngineState /\ batched \in EngineState
      /\ owed \in Nat /\ c \in Nat \ {0}
      /\ exact.au = Retune(exact.au, reg) /\ batched.au = Retune(batched.au, reg)
  BY BatchingConstants DEF IInv, TypeOK, PitchFollowsRegisters
<1>2. r \in Registers /\ x \in EngineState /\ b \in EngineState
  BY <1>1, EffectType
<1>3. e \in EngineState
  BY <1>1, <1>2, RetiredType
<1>4. x.au = Retune(x.au, r) /\ b.au = Retune(b.au, r)
  BY <1>1, EffectTunes
<1>5. e.au = Retune(e.au, r)
  BY <1>1, <1>2, <1>4, RetiredTunes
<1>6. /\ exact' = Rest(e, n) /\ batched' = Rest(b, n)
      /\ owed' = owed + c /\ reg' = r
      /\ midBlock' = (midBlock \/ (Writes(op) /\ owed > 0))
  BY DEF Straight, Both, Interpreted, Rest, Common
<1> HIDE DEF e, b, r, x, n
<1>7. n \in Nat
  BY <1>2, <1>3, RestType DEF n
<1>8. /\ exact' \in EngineState /\ batched' \in EngineState
      /\ exact'.au = e.au /\ batched'.au = b.au
  BY <1>2, <1>3, <1>6, <1>7, RestType
<1>9. TypeOK'
  <2>1. owed' \in Nat
    BY <1>1, <1>6
  <2>2. midBlock' \in BOOLEAN
    BY <1>6
  <2>3. \A o \in program' : RegisterWrite(o)
    BY <1>1 DEF TypeOK
  <2> QED BY <1>2, <1>6, <1>8, <2>1, <2>2, <2>3 DEF TypeOK, RegisterWrite
<1>10. PitchFollowsRegisters'
  BY <1>4, <1>5, <1>6, <1>8 DEF PitchFollowsRegisters
<1>11. Together'
  <2> SUFFICES ASSUME ~midBlock'
               PROVE  /\ exact' = Retired(batched', reg', owed')
                      /\ owed' # 0 /\ batched'.pcm = <<>>
    BY DEF Together
  <2>1. /\ exact = Retired(batched, reg, owed)
        /\ owed = 0 => exact = batched
        /\ batched.pcm = <<>>
    BY <1>1 DEF Together
  <2>2. b.pcm = <<>>
    BY <1>1, <2>1 DEF b, Effect, EngineState
  <2>3. exact' = e /\ batched' = b
    BY <1>2, <1>3, <1>6, <2>2, RestOfEmpty DEF n
  <2>4. ~Writes(op) \/ owed = 0
    <3>1. ~(Writes(op) /\ owed > 0)
      BY ONLY <1>6, ~midBlock', Zenon
    <3>2. owed > 0 \/ owed = 0
      BY <1>1
    <3> QED BY <3>1, <3>2
  <2>5. e = Retired(b, r, owed + c)
    <3>1. CASE owed = 0
      <4>1. x = b /\ owed + c = c
        BY <1>1, <2>1, <3>1 DEF x, b
      <4> QED BY <4>1 DEF e
    <3>2. CASE ~Writes(op)
      <4>1. r = reg /\ x = exact /\ b = batched
        BY <1>1, <3>2, EffectType DEF r, x, b
      <4>2. Retired(Retired(batched, reg, owed), reg, c) = Retired(batched, reg, owed + c)
        BY <1>1, <1>2, <4>1, RetiredAdds
      <4> QED BY <2>1, <4>1, <4>2 DEF e
    <3> QED BY <2>4, <3>1, <3>2
  <2>6. owed' # 0
    BY <1>1, <1>6
  <2> QED BY <1>6, <2>2, <2>3, <2>5, <2>6
<1> QED BY <1>9, <1>10, <1>11 DEF IInv

LEMMA TransferKeeps ==
  ASSUME IInv, ~midBlock, UNCHANGED program,
         NEW op \in Ops, NEW c \in 1 .. MaxInsn, Transfer(op, c)
  PROVE  IInv'
<1> DEFINE r == RegisterEffect(op)
           x == Effect(op, exact)
           e == Retired(x, r, c)
           k == owed + c
           y == Retired(batched, reg, k)
           b == Effect(op, y)
           n == Common(e, b)
<1>1. /\ TypeOK /\ Together /\ exact \in EngineState /\ batched \in EngineState
      /\ owed \in Nat /\ c \in Nat /\ k \in Nat /\ reg \in Registers
      /\ exact.au = Retune(exact.au, reg) /\ batched.au = Retune(batched.au, reg)
  BY BatchingConstants DEF IInv, TypeOK, PitchFollowsRegisters
<1>2. y \in EngineState /\ y.au = Retune(y.au, reg)
  <2> HIDE DEF k
  <2> QED BY <1>1, RetiredType, RetiredTunes
<1>3. r \in Registers /\ x \in EngineState /\ b \in EngineState
  <2> HIDE DEF y
  <2> QED BY <1>1, <1>2, EffectType
<1>4. e \in EngineState
  BY <1>1, <1>3, RetiredType
<1>5. x.au = Retune(x.au, r) /\ b.au = Retune(b.au, r)
  <2> HIDE DEF y
  <2> QED BY <1>1, <1>2, EffectTunes
<1>6. e.au = Retune(e.au, r)
  BY <1>1, <1>3, <1>5, RetiredTunes
<1>7. /\ exact' = Rest(e, n) /\ batched' = Rest(b, n)
      /\ owed' = 0 /\ reg' = r /\ midBlock' = (midBlock \/ Writes(op))
  BY DEF Transfer, Flushed, Both, Interpreted, Rest, Common
<1> HIDE DEF e, b, r, x, y, n, k
<1>8. n \in Nat
  BY <1>3, <1>4, RestType DEF n
<1>9. /\ exact' \in EngineState /\ batched' \in EngineState
      /\ exact'.au = e.au /\ batched'.au = b.au
  BY <1>3, <1>4, <1>7, <1>8, RestType
<1>10. TypeOK'
  <2>1. owed' \in Nat /\ midBlock' \in BOOLEAN
    BY <1>7
  <2>2. \A o \in program' : RegisterWrite(o)
    BY <1>1 DEF TypeOK
  <2> QED BY <1>3, <1>7, <1>9, <2>1, <2>2 DEF TypeOK, RegisterWrite
<1>11. PitchFollowsRegisters'
  BY <1>5, <1>6, <1>7, <1>9 DEF PitchFollowsRegisters
<1>12. Together'
  <2> SUFFICES ASSUME ~midBlock'
               PROVE  /\ exact' = Retired(batched', reg', owed')
                      /\ exact' = batched' /\ batched'.pcm = <<>>
    BY DEF Together
  <2>1. exact = Retired(batched, reg, owed) /\ ~Writes(op)
    BY <1>1, <1>7 DEF Together
  <2>2. r = reg /\ x = exact /\ b = y
    BY <1>1, <1>2, <2>1, EffectType DEF r, x, b
  <2>3. e = y
    BY <1>1, <2>1, <2>2, RetiredAdds DEF e, y, k
  <2> DEFINE f == [y EXCEPT !.pcm = <<>>]
  <2>4. exact' = f /\ batched' = f
    BY <1>2, <1>7, <2>2, <2>3, RestOfSame DEF n
  <2>5. Retired(f, reg, 0) = f
    BY <1>1, RetiredSettles DEF y
  <2>6. f.pcm = <<>>
    BY <1>2 DEF EngineState
  <2> HIDE DEF f
  <2> QED BY <1>7, <2>2, <2>4, <2>5, <2>6
<1> QED BY <1>10, <1>11, <1>12 DEF IInv

LEMMA LabelKeeps ==
  ASSUME IInv, ~midBlock, UNCHANGED program, Label
  PROVE  IInv'
<1> DEFINE b == Retired(batched, reg, owed)
           n == Common(exact, b)
<1>1. /\ TypeOK /\ Together /\ exact \in EngineState /\ batched \in EngineState
      /\ owed \in Nat /\ reg \in Registers /\ exact = b
      /\ exact.au = Retune(exact.au, reg)
  BY DEF IInv, TypeOK, Together, PitchFollowsRegisters
<1>2. /\ exact' = Rest(exact, n) /\ batched' = Rest(b, n)
      /\ owed' = 0 /\ reg' = reg /\ midBlock' = midBlock
  BY DEF Label, Both, Rest, Common
<1> DEFINE f == [exact EXCEPT !.pcm = <<>>]
<1> HIDE DEF b, n
<1>3. exact' = f /\ batched' = f
  BY <1>1, <1>2, RestOfSame DEF n
<1>4. f \in EngineState /\ f.au = exact.au /\ f.pcm = <<>>
  BY <1>1, EmptySeq DEF EngineState
<1>5. Retired(f, reg, 0) = f
  BY <1>1, RetiredSettles DEF b
<1> HIDE DEF f
<1>6. TypeOK'
  <2>1. \A o \in program' : RegisterWrite(o)
    BY <1>1 DEF TypeOK
  <2> QED BY <1>1, <1>2, <1>3, <1>4, <2>1 DEF TypeOK, RegisterWrite
<1>7. PitchFollowsRegisters'
  BY <1>1, <1>2, <1>3, <1>4 DEF PitchFollowsRegisters
<1>8. Together'
  BY <1>2, <1>3, <1>4, <1>5 DEF Together
<1> QED BY <1>6, <1>7, <1>8 DEF IInv

\* Every step keeps the engines typed, together and in tune.
THEOREM Invariance == Spec => []IInv
<1>1. Init => IInv
  BY InitHolds
<1>2. IInv /\ [Next]_vars => IInv'
  <2>1. CASE Next
    <3> SUFFICES ASSUME IInv, Next PROVE IInv'
      BY <2>1
    <3>1. ~midBlock /\ UNCHANGED program
      BY DEF Next
    <3>2. \/ \E op \in Ops, c \in 1 .. MaxInsn : Straight(op, c) \/ Transfer(op, c)
          \/ Label
      BY DEF Next
    <3>3. CASE Label
      BY <3>1, <3>3, LabelKeeps
    <3>4. CASE \E op \in Ops, c \in 1 .. MaxInsn : Straight(op, c) \/ Transfer(op, c)
      <4>1. PICK op \in Ops, c \in 1 .. MaxInsn : Straight(op, c) \/ Transfer(op, c)
        BY <3>4
      <4>2. CASE Straight(op, c)
        BY <3>1, <4>2, StraightKeeps
      <4>3. CASE Transfer(op, c)
        BY <3>1, <4>3, TransferKeeps
      <4> QED BY <4>1, <4>2, <4>3
    <3> QED BY <3>2, <3>3, <3>4
  <2>2. CASE UNCHANGED vars
    BY <2>2 DEF IInv, TypeOK, Together, PitchFollowsRegisters, vars, RegisterWrite
  <2> QED BY <2>1, <2>2
<1> QED BY <1>1, <1>2, PTL DEF Spec

\* For every program, as long as it writes no timer register in the middle of
\* a block, the generated code's timers, requests and sound are the
\* interpreter's once the owed cycles are in (emit.c:8-11, flush_cycles).
THEOREM Lags == Spec => []LagsByTheBlock
<1>1. IInv => LagsByTheBlock
  BY DEF IInv, Together, LagsByTheBlock
<1> QED BY <1>1, Invariance, PTL

\* The buzzer is always in tune with the registers, in both engines, whichever
\* of the three registers was written last (mem.c:90-91, audio.h:18).
THEOREM InTune == Spec => []PitchFollowsRegisters
<1>1. IInv => PitchFollowsRegisters
  BY DEF IInv
<1> QED BY <1>1, Invariance, PTL
=============================================================================
