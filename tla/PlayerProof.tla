------------------------------ MODULE PlayerProof ------------------------------
(***************************************************************************)
(* Proofs about the player, for any callers, commands, show, queue length    *)
(* and bounds: first the frame buffer it draws from, under any mixture of    *)
(* resets, seeks and ticks, then its event loop, its resources, its types    *)
(* and how its state, clock, timer and LEDs agree.                           *)
(*                                                                          *)
(* HandleFrames is a recursive function over the turns of a loop.  Nothing   *)
(* about it can be proved without induction on the number of turns, which   *)
(* is done on sets: a set of numbers that has 0 and, with a number, the      *)
(* next one, has them all (SetInduction), because a set of numbers has a     *)
(* least one.  From it follow that the recursive function exists (TurnsOf)   *)
(* and that a set of results that is closed under Turn has the result of     *)
(* the loop (FramesInduction); every fact about the loop is then a fact      *)
(* about one turn.                                                           *)
(***************************************************************************)
EXTENDS Player, Playback, WellFoundedInduction, TLAPS

-----------------------------------------------------------------------------
(* Induction *)
Below == {pair \in Nat \X Nat : pair[1] < pair[2]}

LEMMA BelowWellFounded == IsWellFoundedOn(Below, Nat)
<1>1. Below = OpToRel(<, Nat)
  BY DEF Below, OpToRel
<1> QED
  BY <1>1, NatLessThanWellFounded

(* A set of numbers that is not empty has a least one. *)
LEMMA LeastOne ==
  ASSUME NEW T \in SUBSET Nat, T # {}
  PROVE  \E n \in T : \A m \in T : n <= m
<1>1. T \subseteq Nat /\ T # {}
  OBVIOUS
<1>2. \A R, S : IsWellFoundedOn(R, S) =>
        \A U : U \subseteq S /\ U # {} => \E x \in U : \A y \in U : ~(<<y, x>> \in R)
  BY WFMin, Zenon
<1>3. PICK n \in T : \A m \in T : ~(<<m, n>> \in Below)
  BY <1>1, <1>2, BelowWellFounded, Zenon
<1>4. ASSUME NEW m \in T PROVE n <= m
  <2>1. n \in Nat /\ m \in Nat
    OBVIOUS
  <2>2. m < n => <<m, n>> \in Below
    BY <2>1 DEF Below
  <2> QED
    BY <1>3, <2>1, <2>2
<1> QED
  BY <1>4

(* A set that has 0 and, with every number, the next one has every number. *)
LEMMA SetInduction ==
  ASSUME NEW S, 0 \in S, \A n \in Nat : n \in S => n + 1 \in S
  PROVE  Nat \subseteq S
<1> SUFFICES ASSUME Nat \ S # {} PROVE FALSE
  OBVIOUS
<1>1. PICK n \in Nat \ S : \A m \in Nat \ S : n <= m
  BY LeastOne
<1>2. n # 0 /\ n - 1 \in Nat
  BY <1>1
<1>3. n - 1 \in S
  BY <1>1, <1>2
<1>4. (n - 1) + 1 \in S
  BY <1>2, <1>3
<1> QED
  BY <1>1, <1>4

Iterates(f, first, F, N) == f = [k \in 0 .. N |-> IF k = 0 THEN first ELSE F[f[k - 1]]]

(* A function that iterates F for N steps exists. *)
LEMMA TurnsOf ==
  ASSUME NEW S, NEW first \in S, NEW F \in [S -> S], NEW N \in Nat
  PROVE  \E f \in [0 .. N -> S] : Iterates(f, first, F, N)
<1> DEFINE Has(n, f) == f = [k \in 0 .. n |-> IF k = 0 THEN first ELSE F[f[k - 1]]]
           Done == {n \in Nat : \E f \in [0 .. n -> S] : Has(n, f)}
<1>1. 0 \in Done
  <2>1. [k \in 0 .. 0 |-> first] \in [0 .. 0 -> S]
    OBVIOUS
  <2>2. Has(0, [k \in 0 .. 0 |-> first])
    OBVIOUS
  <2> QED
    BY <2>1, <2>2
<1>2. ASSUME NEW n \in Nat, n \in Done PROVE n + 1 \in Done
  <2>1. PICK f \in [0 .. n -> S] : Has(n, f)
    BY <1>2
  <2> DEFINE g == [k \in 0 .. n + 1 |-> IF k = n + 1 THEN F[f[n]] ELSE f[k]]
  <2>2. g \in [0 .. n + 1 -> S]
    <3>1. n \in 0 .. n /\ F[f[n]] \in S
      OBVIOUS
    <3> QED
      BY <3>1
  <2>3. ASSUME NEW k \in 0 .. n + 1 PROVE g[k] = IF k = 0 THEN first ELSE F[g[k - 1]]
    <3>1. CASE k = n + 1
      BY <3>1
    <3>2. CASE k \in 0 .. n
      <4>1. f[k] = IF k = 0 THEN first ELSE F[f[k - 1]]
        BY <2>1, <3>2
      <4>2. g[k] = f[k] /\ (k # 0 => g[k - 1] = f[k - 1])
        BY <3>2
      <4> HIDE DEF g
      <4> QED
        BY <4>1, <4>2
    <3> QED
      BY <3>1, <3>2
  <2>4. Has(n + 1, g)
    <3>1. g = [k \in 0 .. n + 1 |-> g[k]]
      OBVIOUS
    <3> HIDE DEF g
    <3> QED
      BY <2>3, <3>1
  <2>5. n + 1 \in Nat
    OBVIOUS
  <2> HIDE DEF g, Has
  <2> QED
    BY <2>2, <2>4, <2>5
<1>3. \E f \in [0 .. N -> S] : Has(N, f)
  <2>0. N \in Done => \E f \in [0 .. N -> S] : Has(N, f)
    OBVIOUS
  <2>1. \A n \in Nat : n \in Done => n + 1 \in Done
    BY <1>2
  <2> HIDE DEF Done
  <2>2. Nat \subseteq Done
    BY <1>1, <2>1, SetInduction
  <2> HIDE DEF Has
  <2> QED
    BY <2>0, <2>2
<1> QED
  BY <1>3 DEF Iterates

(* Results that contain the loop's start and are closed under a turn that loops contain
   the loop's result; the loop is not entered before the current frame's time. *)
LEMMA FramesInduction ==
  ASSUME NEW tbl, Len(tbl) \in Nat, NEW buf, NEW at_us, NEW G,
         [fb |-> buf, status |-> "LOOP"] \in G,
         \A s \in G : s.status = "LOOP" => Turn(tbl, s, at_us) \in G
  PROVE  \/ HandleFrames(tbl, buf, at_us) \in G
         \/ /\ HandleFrames(tbl, buf, at_us) = [fb |-> buf, status |-> "HOLD"]
            /\ at_us < Stamp(tbl, buf.cur)
<1> DEFINE N == Len(tbl) + 1
           first == [fb |-> buf, status |-> "LOOP"]
           F == [s \in G |-> IF s.status = "LOOP" THEN Turn(tbl, s, at_us) ELSE s]
           turns == CHOOSE t : t = [k \in 0 .. N |->
                      IF k = 0 THEN first
                      ELSE LET s == t[k - 1]
                           IN IF s.status = "LOOP" THEN Turn(tbl, s, at_us) ELSE s]
<1>1. N \in Nat /\ F \in [G -> G] /\ first \in G
  OBVIOUS
<1>2. PICK f \in [0 .. N -> G] : Iterates(f, first, F, N)
  <2> HIDE DEF F, first, N
  <2> QED
    BY <1>1, TurnsOf
<1>3. f = [k \in 0 .. N |->
            IF k = 0 THEN first
            ELSE LET s == f[k - 1] IN IF s.status = "LOOP" THEN Turn(tbl, s, at_us) ELSE s]
  <2>1. ASSUME NEW k \in 0 .. N, k # 0
        PROVE  F[f[k - 1]] = LET s == f[k - 1]
                             IN IF s.status = "LOOP" THEN Turn(tbl, s, at_us) ELSE s
    <3>1. f[k - 1] \in G
      BY <1>1, <2>1
    <3> QED
      BY <3>1
  <2> HIDE DEF F, first, N
  <2> QED
    BY <1>2, <2>1 DEF Iterates
<1>4. turns = [k \in 0 .. N |->
            IF k = 0 THEN first
            ELSE LET s == turns[k - 1] IN IF s.status = "LOOP" THEN Turn(tbl, s, at_us) ELSE s]
  BY <1>3, Zenon
<1>5. \A n \in 0 .. N : turns[n] \in G
  <2> DEFINE D == {n \in Nat : n \in 0 .. N => turns[n] \in G}
  <2> HIDE DEF turns
  <2>1. 0 \in D
    BY <1>1, <1>4
  <2>2. ASSUME NEW n \in Nat, n \in D PROVE n + 1 \in D
    <3> SUFFICES ASSUME n + 1 \in 0 .. N PROVE turns[n + 1] \in G
      OBVIOUS
    <3>1. turns[n] \in G
      BY <1>1, <2>2
    <3>2. turns[n + 1] = LET s == turns[n] IN IF s.status = "LOOP" THEN Turn(tbl, s, at_us) ELSE s
      BY <1>1, <1>4
    <3> QED
      BY <3>1, <3>2
  <2> HIDE DEF D
  <2>3. Nat \subseteq D
    BY <2>1, <2>2, SetInduction
  <2> QED
    BY <1>1, <2>3 DEF D
<1>6. turns[N] \in G
  BY <1>1, <1>5
<1>7. HandleFrames(tbl, buf, at_us) = IF at_us < Stamp(tbl, buf.cur) THEN [fb |-> buf, status |-> "HOLD"]
                                   ELSE turns[N]
  BY DEF HandleFrames
<1> QED
  BY <1>6, <1>7

-----------------------------------------------------------------------------
FrameSet == [at : Nat, ok : BOOLEAN]
FbSet    == [cur : Nat, nxt : Nat, pos : Nat, eof : BOOLEAN, test : BOOLEAN]

(* The maximum of numbers up to n is one of them, and none is above it. *)
LEMMA MaxIsMax ==
  ASSUME NEW n \in Nat, NEW S \in SUBSET (0 .. n), S # {}
  PROVE  Max(S) \in S /\ \A x \in S : x <= Max(S)
<1> DEFINE T == {n - x : x \in S}
<1>0. S \subseteq 0 .. n
  OBVIOUS
<1>1. T \in SUBSET Nat /\ T # {}
  <2>1. \A x \in S : n - x \in Nat
    BY <1>0
  <2>2. PICK x \in S : TRUE
    OBVIOUS
  <2> QED
    BY <2>1, <2>2
<1>2. PICK m \in T : \A d \in T : m <= d
  <2> HIDE DEF T
  <2> QED
    BY <1>1, LeastOne
<1>3. PICK x \in S : m = n - x
  BY <1>2
<1>4. \A y \in S : x >= y
  <2> TAKE y \in S
  <2>1. n - y \in T
    OBVIOUS
  <2>2. x \in 0 .. n /\ y \in 0 .. n
    BY <1>0
  <2>3. n - x <= n - y
    BY <1>2, <1>3, <2>1
  <2> HIDE DEF T
  <2> QED
    BY <2>2, <2>3
<1>5. Max(S) \in S /\ \A y \in S : Max(S) >= y
  BY <1>4, Zenon DEF Max
<1> QED
  BY <1>5

(* Swapping, reading and turning keep the frame buffer one, and in its test mode. *)
LEMMA SwapKeeps ==
  ASSUME NEW buf \in FbSet
  PROVE  Swap(buf) \in FbSet /\ Swap(buf).test = buf.test /\ Swap(buf).eof = buf.eof
         /\ Swap(buf).cur = buf.nxt /\ Swap(buf).nxt = buf.cur /\ Swap(buf).pos = buf.pos
BY DEF Swap, FbSet

LEMMA ReadKeeps ==
  ASSUME NEW s, NEW buf \in FbSet
  PROVE  /\ ReadNext(s, buf) \in FbSet /\ ReadNext(s, buf).test = buf.test
         /\ ReadNext(s, buf).eof = buf.eof /\ ReadNext(s, buf).cur = buf.cur
         /\ ReadStatus(s, buf.pos) = "OK" =>
              ReadNext(s, buf).nxt = buf.pos /\ ReadNext(s, buf).pos = buf.pos + 1
         /\ ReadStatus(s, buf.pos) # "OK" => ReadNext(s, buf) = buf
<1>1. CASE ReadStatus(s, buf.pos) = "OK"
  <2>1. ReadNext(s, buf) = [buf EXCEPT !.nxt = buf.pos, !.pos = buf.pos + 1]
    BY <1>1 DEF ReadNext
  <2>2. PICK p \in Nat : p = buf.pos + 1
    BY DEF FbSet
  <2> QED
    BY <1>1, <2>1, <2>2 DEF FbSet
<1>2. CASE ReadStatus(s, buf.pos) # "OK"
  BY <1>2 DEF ReadNext
<1> QED
  BY <1>1, <1>2

LEMMA ReadBothKeeps ==
  ASSUME NEW s, NEW buf \in FbSet
  PROVE  ReadBoth(s, buf) \in FbSet /\ ReadBoth(s, buf).test = buf.test
BY SwapKeeps, ReadKeeps DEF ReadBoth

LEMMA ResetKeeps ==
  ASSUME NEW s
  PROVE  ResetFb(s) \in FbSet /\ ~ResetFb(s).test
<1>1. ZeroFb(1) \in FbSet /\ ~ZeroFb(1).test
  BY DEF ZeroFb, FbSet
<1> QED
  BY <1>1, ReadBothKeeps DEF ResetFb

(* A seek goes to a frame of the show with one after it, where there are two, and not
   past the frame due. *)
LEMMA SeekFrameIs ==
  ASSUME NEW s \in Seq(FrameSet), s # <<>>, NEW t
  PROVE  /\ SeekFrame(s, t) \in 1 .. Len(s)
         /\ Len(s) >= 2 => SeekFrame(s, t) <= Len(s) - 1
         /\ SeekFrame(s, t) = 1 \/ s[SeekFrame(s, t)].at <= t
<1> DEFINE S == {i \in 1 .. Len(s) : \A j \in 2 .. i : s[j].at <= t}
<1>1. 1 \in S /\ S \in SUBSET (0 .. Len(s)) /\ Len(s) \in Nat
  OBVIOUS
<1>2. Max(S) \in S
  <2> HIDE DEF S
  <2> QED
    BY <1>1, MaxIsMax
<1>3. SeekFrame(s, t) = IF Len(s) >= 2 /\ Max(S) = Len(s) THEN Len(s) - 1 ELSE Max(S)
  BY DEF SeekFrame
<1>4. PICK m \in S : m = Max(S)
  BY <1>2
<1>5. m \in 1 .. Len(s) /\ \A j \in 2 .. m : s[j].at <= t
  OBVIOUS
<1>6. Len(s) \in Nat /\ Len(s) >= 1 /\ \A i \in 1 .. Len(s) : s[i].at \in Nat
  <2>1. \A i \in 1 .. Len(s) : s[i] \in FrameSet
    OBVIOUS
  <2> QED
    BY <2>1 DEF FrameSet
<1> HIDE DEF S
<1>7. CASE Len(s) >= 2 /\ m = Len(s)
  <2>1. SeekFrame(s, t) = Len(s) - 1
    BY <1>3, <1>4, <1>7
  <2>2. Len(s) - 1 = 1 \/ Len(s) - 1 \in 2 .. m
    BY <1>6, <1>7
  <2> QED
    BY <1>5, <1>6, <1>7, <2>1, <2>2
<1>8. CASE ~(Len(s) >= 2 /\ m = Len(s))
  <2>1. SeekFrame(s, t) = m
    BY <1>3, <1>4, <1>8
  <2>2. m = 1 \/ m \in 2 .. m
    BY <1>5
  <2> QED
    BY <1>5, <1>6, <1>8, <2>1, <2>2
<1> QED
  BY <1>7, <1>8

LEMMA SeekKeeps ==
  ASSUME NEW s \in Seq(FrameSet), NEW buf \in FbSet, NEW t
  PROVE  SeekFb(s, buf, t) \in FbSet /\ SeekFb(s, buf, t).test = buf.test
<1>1. CASE s = <<>>
  BY <1>1, ReadBothKeeps DEF SeekFb
<1>2. CASE s # <<>>
  <2>1. PICK p \in Nat : p = SeekFrame(s, t)
    BY <1>2, SeekFrameIs
  <2>2. [buf EXCEPT !.pos = p] \in FbSet /\ [buf EXCEPT !.pos = p].test = buf.test
    BY DEF FbSet
  <2> QED
    BY <1>2, <2>1, <2>2, ReadBothKeeps DEF SeekFb
<1> QED
  BY <1>1, <1>2

Results == [fb : FbSet, status : {"LOOP", "OK", "HOLD", "EOF_REACHED", "ERROR"}]

(* What one turn does, case by case *)
Kept(r)    == [r EXCEPT !.status = "OK"]
Over(buf)   == [fb |-> [buf EXCEPT !.eof = TRUE],
               status |-> IF buf.eof THEN "HOLD" ELSE "EOF_REACHED"]
Bad(buf)    == [fb |-> buf, status |-> "ERROR"]
Read(s, b) == [fb |-> b, status |-> IF Stamp(s, b.nxt) <= Stamp(s, b.cur) THEN "ERROR" ELSE "LOOP"]

LEMMA TurnIs ==
  ASSUME NEW s, NEW t, NEW r, NEW buf, buf = Swap(r.fb), NEW due, due = (t >= Stamp(s, r.fb.nxt)),
         NEW kind, kind = ReadStatus(s, buf.pos), NEW read, read = ReadNext(s, buf)
  PROVE  /\ Turn(s, r, t) \in {Kept(r), Over(buf), Bad(buf), Read(s, read)}
         /\ t < Stamp(s, r.fb.nxt) /\ ~due => Turn(s, r, t) = Kept(r)
         /\ ~(t < Stamp(s, r.fb.nxt)) /\ due =>
              /\ kind = "NOT_FOUND" => Turn(s, r, t) = Over(buf)
              /\ kind = "INVALID" => Turn(s, r, t) = Bad(buf)
              /\ kind \notin {"NOT_FOUND", "INVALID"} => Turn(s, r, t) = Read(s, read)
<1>1. Turn(s, r, t) = CASE t < Stamp(s, r.fb.nxt) -> Kept(r)
                        [] t >= Stamp(s, r.fb.nxt) /\ ReadStatus(s, Swap(r.fb).pos) = "NOT_FOUND" -> Over(Swap(r.fb))
                        [] t >= Stamp(s, r.fb.nxt) /\ ReadStatus(s, Swap(r.fb).pos) = "INVALID" -> Bad(Swap(r.fb))
                        [] OTHER -> Read(s, ReadNext(s, Swap(r.fb)))
  BY Zenon DEF Turn, Kept, Over, Bad, Read
<1> DEFINE early == t < Stamp(s, r.fb.nxt)
<1>2. Turn(s, r, t) = CASE early -> Kept(r)
                        [] due /\ kind = "NOT_FOUND" -> Over(buf)
                        [] due /\ kind = "INVALID" -> Bad(buf)
                        [] OTHER -> Read(s, read)
  BY <1>1
<1> HIDE DEF early
<1>3. "NOT_FOUND" # "INVALID"
  OBVIOUS
<1>4. /\ Turn(s, r, t) \in {Kept(r), Over(buf), Bad(buf), Read(s, read)}
      /\ early /\ ~due => Turn(s, r, t) = Kept(r)
      /\ ~early /\ due =>
              /\ kind = "NOT_FOUND" => Turn(s, r, t) = Over(buf)
              /\ kind = "INVALID" => Turn(s, r, t) = Bad(buf)
              /\ kind \notin {"NOT_FOUND", "INVALID"} => Turn(s, r, t) = Read(s, read)
  BY <1>2, <1>3
<1> QED
  BY <1>4 DEF early

LEMMA TurnKeeps ==
  ASSUME NEW s, NEW t, NEW r \in Results, ~r.fb.test
  PROVE  Turn(s, r, t) \in Results /\ ~Turn(s, r, t).fb.test
<1> DEFINE buf == Swap(r.fb)
           read == ReadNext(s, buf)
           end == [buf EXCEPT !.eof = TRUE]
<1>1. buf \in FbSet /\ ~buf.test /\ read \in FbSet /\ ~read.test /\ r.fb \in FbSet
  <2>1. r.fb \in FbSet
    BY DEF Results
  <2>2. buf \in FbSet /\ ~buf.test
    BY <2>1, SwapKeeps
  <2> HIDE DEF buf
  <2> QED
    BY <2>1, <2>2, ReadKeeps
<1>2. end \in FbSet /\ ~end.test
  <2> HIDE DEF buf
  <2> QED
    BY <1>1 DEF FbSet
<1>3. [r EXCEPT !.status = "OK"] = [fb |-> r.fb, status |-> "OK"]
  BY DEF Results
<1>4. Turn(s, r, t) \in {Kept(r), Over(buf), Bad(buf), Read(s, read)}
  <2>1. PICK due : due = (t >= Stamp(s, r.fb.nxt))
    OBVIOUS
  <2> HIDE DEF read
  <2> QED
    BY <2>1, TurnIs DEF read
<1>5. /\ Kept(r) \in Results /\ ~Kept(r).fb.test
      /\ Over(buf) \in Results /\ ~Over(buf).fb.test
      /\ Bad(buf) \in Results /\ ~Bad(buf).fb.test
      /\ Read(s, read) \in Results /\ ~Read(s, read).fb.test
  <2> HIDE DEF buf, read, end
  <2> QED
    BY <1>1, <1>2, <1>3 DEF Results, Kept, Over, Bad, Read, end
<1> HIDE DEF buf, read, end
<1> QED
  BY <1>4, <1>5

(* compute keeps the frame buffer one, and in or out of its test mode. *)
LEMMA ComputeKeeps ==
  ASSUME NEW s, Len(s) \in Nat, NEW buf \in FbSet, NEW t
  PROVE  Compute(s, buf, t).fb \in FbSet /\ Compute(s, buf, t).fb.test = buf.test
<1>1. CASE buf.test
  BY <1>1 DEF Compute
<1>2. CASE ~buf.test
  <2> DEFINE G == {r \in Results : ~r.fb.test}
  <2>1. [fb |-> buf, status |-> "LOOP"] \in G /\ [fb |-> buf, status |-> "HOLD"] \in G
    BY <1>2 DEF Results
  <2>2. \A r \in G : Turn(s, r, t) \in G
    BY TurnKeeps
  <2>3. HandleFrames(s, buf, t) \in G
    <3> HIDE DEF G
    <3> QED
      BY <2>1, <2>2, FramesInduction
  <2> QED
    BY <1>2, <2>3 DEF Compute, Results, FbSet
<1> QED
  BY <1>1, <1>2

-----------------------------------------------------------------------------
(* The frames of a show that plays: in order of time, and none damaged *)
Good(s) ==
  /\ \A i \in 1 .. Len(s) - 1 : s[i].at < s[i + 1].at
  /\ \A i \in 1 .. Len(s) : s[i].ok

LEMMA StampIs ==
  ASSUME NEW s \in Seq(FrameSet)
  PROVE  /\ Len(s) \in Nat /\ Stamp(s, 0) = 0
         /\ \A i \in 1 .. Len(s) : Stamp(s, i) = s[i].at /\ s[i].at \in Nat
<1>1. \A i \in 1 .. Len(s) : s[i] \in FrameSet
  OBVIOUS
<1> QED
  BY <1>1 DEF Stamp, FrameSet

(* The order of neighbours is the order of all frames. *)
LEMMA Ascending ==
  ASSUME NEW s \in Seq(FrameSet), Good(s), NEW i \in 1 .. Len(s), NEW j \in 1 .. Len(s), i < j
  PROVE  s[i].at < s[j].at
<1> DEFINE D == {d \in Nat : \A k \in 1 .. Len(s) : k = i + d + 1 => s[i].at < s[k].at}
<1>1. 0 \in D
  BY DEF Good
<1>2. ASSUME NEW d \in Nat, d \in D PROVE d + 1 \in D
  <2> SUFFICES ASSUME NEW k \in 1 .. Len(s), k = i + (d + 1) + 1 PROVE s[i].at < s[k].at
    OBVIOUS
  <2>1. PICK h \in 1 .. Len(s) - 1 : h = i + d + 1 /\ k = h + 1
    BY StampIs
  <2>2. s[h].at < s[k].at
    BY <2>1 DEF Good
  <2>3. s[i].at < s[h].at
    BY <1>2, <2>1, StampIs
  <2>4. s[i].at \in Nat /\ s[h].at \in Nat /\ s[k].at \in Nat
    <3>1. h \in 1 .. Len(s)
      BY <2>1, StampIs
    <3> QED
      BY <3>1, StampIs, Zenon
  <2> QED
    BY <2>2, <2>3, <2>4
<1>3. Nat \subseteq D
  <2> HIDE DEF D
  <2> QED
    BY <1>1, <1>2, SetInduction
<1>4. PICK d \in Nat : j = i + d + 1
  <2>1. j - i - 1 \in Nat /\ j = i + (j - i - 1) + 1
    OBVIOUS
  <2> QED
    BY <2>1
<1>5. d \in D
  BY <1>3, Zenon
<1> QED
  BY <1>4, <1>5

(* Where the pair can stand at time t, in a show that plays. *)
Following(s, buf, t) ==
  /\ buf.cur \in 1 .. Len(s) - 1 /\ buf.nxt = buf.cur + 1 /\ buf.pos = buf.cur + 2
  /\ buf.cur = 1 \/ Stamp(s, buf.cur) <= t
Ended(s, buf, t) ==
  /\ Len(s) >= 2 /\ buf.pos = Len(s) + 1 /\ buf.eof /\ Stamp(s, Len(s)) <= t
  /\ \/ buf.cur = Len(s) /\ buf.nxt = Len(s) - 1
     \/ buf.nxt = Len(s) /\ buf.cur = Len(s) - 1
Single(s, buf, t) ==
  /\ Len(s) = 1 /\ buf.pos = 2 /\ buf.nxt \in {0, 1}
  /\ buf.cur = 1 \/ (buf.cur = 0 /\ buf.nxt = 1 /\ Stamp(s, 1) <= t)
Empty(s, buf) == Len(s) = 0 /\ buf.cur = 0 /\ buf.nxt = 0 /\ buf.pos >= 1

Pair(s, buf, t) == Following(s, buf, t) \/ Ended(s, buf, t) \/ Single(s, buf, t) \/ Empty(s, buf)

LEMMA PairStays ==
  ASSUME NEW s \in Seq(FrameSet), NEW buf \in FbSet, NEW t \in Nat, NEW u \in Nat, t <= u,
         Pair(s, buf, t)
  PROVE  Pair(s, buf, u)
<1>1. Len(s) \in Nat /\ \A i \in 1 .. Len(s) : Stamp(s, i) \in Nat
  BY StampIs
<1>2. ASSUME Following(s, buf, t) PROVE Following(s, buf, u)
  BY <1>1, <1>2 DEF Following
<1>3. ASSUME Ended(s, buf, t) PROVE Ended(s, buf, u)
  BY <1>1, <1>3 DEF Ended
<1>4. ASSUME Single(s, buf, t) PROVE Single(s, buf, u)
  BY <1>1, <1>4 DEF Single
<1> QED
  BY <1>2, <1>3, <1>4, Zenon DEF Pair

LEMMA GoodReads ==
  ASSUME NEW s \in Seq(FrameSet), Good(s), NEW pos \in Nat, pos >= 1
  PROVE  ReadStatus(s, pos) = IF pos > Len(s) THEN "NOT_FOUND" ELSE "OK"
<1>1. Len(s) \in Nat
  BY StampIs
<1>2. CASE pos > Len(s)
  BY <1>1, <1>2 DEF ReadStatus
<1>3. CASE ~(pos > Len(s))
  <2>1. pos \in 1 .. Len(s) /\ pos <= Len(s)
    BY <1>1, <1>3
  <2>2. s[pos].ok
    BY <2>1 DEF Good
  <2> QED
    BY <1>3, <2>1, <2>2 DEF ReadStatus
<1> QED
  BY <1>2, <1>3

LEMMA TurnCases ==
  ASSUME NEW s, NEW t \in Nat, NEW r, Stamp(s, r.fb.nxt) \in Nat, NEW buf, buf = Swap(r.fb)
  PROVE  /\ t < Stamp(s, r.fb.nxt) => Turn(s, r, t) = Kept(r)
         /\ ~(t < Stamp(s, r.fb.nxt)) =>
              /\ ReadStatus(s, buf.pos) = "NOT_FOUND" => Turn(s, r, t) = Over(buf)
              /\ ReadStatus(s, buf.pos) = "OK" => Turn(s, r, t) = Read(s, ReadNext(s, buf))
<1>1. PICK kind, read, due : /\ kind = ReadStatus(s, buf.pos) /\ read = ReadNext(s, buf)
                             /\ due = (t >= Stamp(s, r.fb.nxt))
  OBVIOUS
<1>2. /\ t < Stamp(s, r.fb.nxt) /\ ~due => Turn(s, r, t) = Kept(r)
      /\ ~(t < Stamp(s, r.fb.nxt)) /\ due =>
           /\ kind = "NOT_FOUND" => Turn(s, r, t) = Over(buf)
           /\ kind \notin {"NOT_FOUND", "INVALID"} => Turn(s, r, t) = Read(s, read)
  BY <1>1, TurnIs
<1>3. due <=> t >= Stamp(s, r.fb.nxt)
  BY <1>1
<1>4. due <=> ~(t < Stamp(s, r.fb.nxt))
  BY <1>3
<1> QED
  BY <1>1, <1>2, <1>4

(* Reading both frames from pos *)
LEMMA BothRead ==
  ASSUME NEW s \in Seq(FrameSet), Good(s), NEW buf \in FbSet, buf.pos >= 1,
         NEW b, b = ReadBoth(s, buf)
  PROVE  /\ buf.pos < Len(s) => b.cur = buf.pos /\ b.nxt = buf.pos + 1 /\ b.pos = buf.pos + 2
         /\ buf.pos = Len(s) => b.cur = buf.pos /\ b.nxt = buf.nxt /\ b.pos = buf.pos + 1
         /\ buf.pos > Len(s) => b.cur = buf.cur /\ b.nxt = buf.nxt /\ b.pos = buf.pos
<1> DEFINE b1 == Swap(buf)
           b2 == ReadNext(s, b1)
           b3 == Swap(b2)
           b4 == ReadNext(s, b3)
<1>0. Len(s) \in Nat /\ buf.pos \in Nat /\ buf.cur \in Nat /\ buf.nxt \in Nat
  BY StampIs DEF FbSet
<1>1. b1 \in FbSet /\ b1.pos = buf.pos /\ b1.nxt = buf.cur /\ b1.cur = buf.nxt
  BY SwapKeeps
<1> HIDE DEF b1
<1>2. /\ b2 \in FbSet /\ b2.cur = buf.nxt
      /\ buf.pos <= Len(s) => b2.nxt = buf.pos /\ b2.pos = buf.pos + 1
      /\ buf.pos > Len(s) => b2.nxt = buf.cur /\ b2.pos = buf.pos
  <2>1. ReadStatus(s, b1.pos) = IF buf.pos > Len(s) THEN "NOT_FOUND" ELSE "OK"
    BY <1>0, <1>1, GoodReads
  <2> QED
    BY <1>0, <1>1, <2>1, ReadKeeps
<1> HIDE DEF b2
<1>3. b3 \in FbSet /\ b3.pos = b2.pos /\ b3.nxt = b2.cur /\ b3.cur = b2.nxt
  BY <1>2, SwapKeeps
<1> HIDE DEF b3
<1>4. /\ b4.cur = b3.cur
      /\ b3.pos <= Len(s) => b4.nxt = b3.pos /\ b4.pos = b3.pos + 1
      /\ b3.pos > Len(s) => b4 = b3
  <2>0. b3.pos \in Nat /\ b3.pos >= 1
    BY <1>0, <1>2, <1>3
  <2>1. ReadStatus(s, b3.pos) = IF b3.pos > Len(s) THEN "NOT_FOUND" ELSE "OK"
    BY <2>0, GoodReads
  <2> QED
    BY <1>0, <1>3, <2>0, <2>1, ReadKeeps
<1>5. ReadBoth(s, buf) = b4
  BY DEF ReadBoth, b1, b2, b3
<1> HIDE DEF b4
<1> QED
  BY <1>0, <1>1, <1>2, <1>3, <1>4, <1>5

LEMMA ResetIsPair ==
  ASSUME NEW s \in Seq(FrameSet), Good(s)
  PROVE  Pair(s, ResetFb(s), 0)
<1> DEFINE z == ZeroFb(1)
           b == ReadBoth(s, z)
<1>1. z \in FbSet /\ z.pos = 1 /\ z.cur = 0 /\ z.nxt = 0
  BY DEF ZeroFb, FbSet
<1>2. b = ResetFb(s)
  BY DEF ResetFb
<1>3. Len(s) \in Nat /\ z.pos >= 1
  BY <1>1, StampIs
<1> HIDE DEF z, b
<1>4. /\ z.pos < Len(s) => b.cur = z.pos /\ b.nxt = z.pos + 1 /\ b.pos = z.pos + 2
      /\ z.pos = Len(s) => b.cur = z.pos /\ b.nxt = z.nxt /\ b.pos = z.pos + 1
      /\ z.pos > Len(s) => b.cur = z.cur /\ b.nxt = z.nxt /\ b.pos = z.pos
  BY <1>1, <1>3, BothRead, Zenon DEF b
<1>5. /\ 1 < Len(s) => b.cur = 1 /\ b.nxt = 2 /\ b.pos = 3
      /\ 1 = Len(s) => b.cur = 1 /\ b.nxt = 0 /\ b.pos = 2
      /\ 1 > Len(s) => b.cur = 0 /\ b.nxt = 0 /\ b.pos = 1
  BY <1>1, <1>3, <1>4
<1>6. Pair(s, b, 0)
  <2>1. CASE 1 < Len(s)
    <3>1. Following(s, b, 0)
      BY <1>3, <1>5, <2>1 DEF Following
    <3> QED
      BY <3>1 DEF Pair
  <2>2. CASE Len(s) = 1
    <3>1. Single(s, b, 0)
      BY <1>5, <2>2 DEF Single
    <3> QED
      BY <3>1 DEF Pair
  <2>3. CASE Len(s) = 0
    <3>1. Empty(s, b)
      BY <1>5, <2>3 DEF Empty
    <3> QED
      BY <3>1 DEF Pair
  <2>4. \A n \in Nat : 1 < n \/ n = 1 \/ n = 0
    OBVIOUS
  <2> QED
    BY <1>3, <2>1, <2>2, <2>3, <2>4, Zenon
<1> QED
  BY <1>2, <1>6

LEMMA SeekIsPair ==
  ASSUME NEW s \in Seq(FrameSet), Good(s), NEW buf \in FbSet, NEW t \in Nat, NEW u \in Nat,
         Pair(s, buf, u)
  PROVE  Pair(s, SeekFb(s, buf, t), t)
<1>1. Len(s) \in Nat /\ buf.pos \in Nat
  BY StampIs DEF FbSet
<1>2. CASE s = <<>>
  <2>1. Len(s) = 0
    BY <1>2
  <2>2. Empty(s, buf)
    BY <2>1 DEF Pair, Following, Ended, Single
  <2>3. PICK b : b = ReadBoth(s, buf) /\ b = SeekFb(s, buf, t)
    BY <1>2 DEF SeekFb
  <2>4. b.cur = buf.cur /\ b.nxt = buf.nxt /\ b.pos = buf.pos
    <3>1. buf.pos >= 1 /\ buf.pos > Len(s)
      BY <1>1, <2>1, <2>2 DEF Empty
    <3> QED
      BY <2>3, <3>1, BothRead, Zenon
  <2> QED
    BY <2>2, <2>3, <2>4 DEF Pair, Empty
<1>3. CASE s # <<>>
  <2>1. PICK p \in 1 .. Len(s) : p = SeekFrame(s, t)
    BY <1>3, SeekFrameIs
  <2>2. (Len(s) >= 2 => p <= Len(s) - 1) /\ (p = 1 \/ s[p].at <= t)
    BY <1>3, <2>1, SeekFrameIs
  <2> DEFINE g == [buf EXCEPT !.pos = p]
             b == ReadBoth(s, g)
  <2>3. g \in FbSet /\ g.pos = p /\ g.nxt = buf.nxt
    BY <2>1 DEF FbSet
  <2>4. b = SeekFb(s, buf, t)
    BY <1>3, <2>1 DEF SeekFb
  <2> HIDE DEF g, b
  <2>5. /\ p < Len(s) => b.cur = p /\ b.nxt = p + 1 /\ b.pos = p + 2
        /\ p = Len(s) => b.cur = p /\ b.nxt = buf.nxt /\ b.pos = p + 1
    <3>1. g.pos >= 1
      BY <2>1, <2>3
    <3>2. /\ g.pos < Len(s) => b.cur = g.pos /\ b.nxt = g.pos + 1 /\ b.pos = g.pos + 2
          /\ g.pos = Len(s) => b.cur = g.pos /\ b.nxt = g.nxt /\ b.pos = g.pos + 1
      BY <2>3, <3>1, BothRead, Zenon DEF b
    <3> QED
      BY <2>3, <3>2
  <2>6. CASE Len(s) >= 2
    <3>1. Following(s, b, t)
      BY <1>1, <2>1, <2>2, <2>5, <2>6, StampIs DEF Following
    <3> QED
      BY <2>4, <3>1 DEF Pair
  <2>7. CASE Len(s) = 1
    <3>1. Single(s, buf, u)
      BY <2>7 DEF Pair, Following, Ended, Empty
    <3>2. Single(s, b, t)
      BY <2>1, <2>5, <2>7, <3>1 DEF Single
    <3> QED
      BY <2>4, <3>2 DEF Pair
  <2> QED
    <3>1. \A n \in Nat : n >= 2 \/ n = 1 \/ n = 0
      OBVIOUS
    <3>2. Len(s) >= 2 \/ Len(s) = 1
      <4>1. Len(s) # 0
        BY <2>1
      <4> QED
        BY <1>1, <3>1, <4>1, Zenon
    <3> QED
      BY <2>6, <2>7, <3>2
<1> QED
  BY <1>2, <1>3

(* What each report of compute says of the pair it leaves. *)
Due(s, buf, report, t) ==
  /\ report \in {"LOOP", "OK"} => Stamp(s, buf.cur) <= t
  /\ report = "OK" => t < Stamp(s, buf.nxt)
  /\ report = "EOF_REACHED" =>
       (\A i \in 1 .. Len(s) : s[i].at <= t) /\ (Len(s) # 1 => buf.cur = Len(s))
  /\ report = "HOLD" => buf.eof \/ (buf.cur = 1 /\ t < s[1].at)
  /\ report # "ERROR"

LEMMA FollowingTurns ==
  ASSUME NEW s \in Seq(FrameSet), Good(s), NEW t \in Nat, NEW r \in Results,
         ~r.fb.test, r.status = "LOOP", Following(s, r.fb, t), Due(s, r.fb, r.status, t)
  PROVE  LET q == Turn(s, r, t) IN Pair(s, q.fb, t) /\ Due(s, q.fb, q.status, t)
<1>0. /\ Len(s) \in Nat /\ r.fb \in FbSet /\ r.fb.cur \in Nat
      /\ \A i \in 1 .. Len(s) : Stamp(s, i) \in Nat /\ Stamp(s, i) = s[i].at
  BY StampIs DEF Results, FbSet
<1>1. PICK buf \in FbSet : /\ buf = Swap(r.fb) /\ buf.cur = r.fb.nxt /\ buf.nxt = r.fb.cur
                           /\ buf.pos = r.fb.pos /\ buf.eof = r.fb.eof
  BY <1>0, SwapKeeps
<1>2. PICK c \in 1 .. Len(s) - 1 : c = r.fb.cur /\ r.fb.nxt = c + 1 /\ r.fb.pos = c + 2
  BY DEF Following
<1>3. c + 1 \in 1 .. Len(s) /\ c \in 1 .. Len(s) /\ c + 2 \in Nat /\ c + 2 >= 1
  BY <1>0, <1>2
<1>5. CASE t < Stamp(s, c + 1)
  <2>1. Turn(s, r, t) = Kept(r)
    BY SMTT(30), <1>0, <1>2, <1>3, <1>5, TurnCases
  <2>2. Kept(r).fb = r.fb /\ Kept(r).status = "OK"
    BY DEF Kept, Results
  <2>3. Due(s, r.fb, "OK", t)
    BY <1>2, <1>5 DEF Due
  <2> QED
    BY <2>1, <2>2, <2>3 DEF Pair
<1>6. CASE ~(t < Stamp(s, c + 1)) /\ c + 1 = Len(s)
  <2>1. ReadStatus(s, buf.pos) = "NOT_FOUND"
    BY <1>0, <1>1, <1>2, <1>3, <1>6, GoodReads
  <2>2. Turn(s, r, t) = Over(buf)
    <3>1. Stamp(s, r.fb.nxt) \in Nat /\ ~(t < Stamp(s, r.fb.nxt))
      BY <1>0, <1>2, <1>3, <1>6
    <3> QED
      BY <1>1, <2>1, <3>1, TurnCases
  <2>3. PICK end : end = [buf EXCEPT !.eof = TRUE]
    OBVIOUS
  <2>4. end.cur = c + 1 /\ end.nxt = c /\ end.pos = c + 2 /\ end.eof
    BY <1>1, <1>2, <2>3 DEF FbSet
  <2>5. Over(buf).fb = end /\ Over(buf).status \in {"HOLD", "EOF_REACHED"}
    BY <2>3 DEF Over
  <2>6. Pair(s, end, t)
    BY <1>0, <1>2, <1>3, <1>6, <2>4 DEF Pair, Ended
  <2>7. \A i \in 1 .. Len(s) : s[i].at <= t
    <3>1. s[c + 1].at <= t /\ c + 1 = Len(s)
      BY <1>0, <1>3, <1>6
    <3>2. \A i \in 1 .. Len(s) : i = c + 1 \/ s[i].at < s[c + 1].at
      BY <1>3, <1>6, Ascending
    <3> QED
      BY <1>0, <1>3, <3>1, <3>2
  <2>8. Due(s, end, Over(buf).status, t)
    BY <1>6, <2>4, <2>5, <2>7 DEF Due
  <2> QED
    BY <2>2, <2>5, <2>6, <2>8
<1>7. CASE ~(t < Stamp(s, c + 1)) /\ c + 1 # Len(s)
  <2>0. c + 2 \in 1 .. Len(s) /\ c + 2 \in Nat
    BY <1>0, <1>2, <1>7
  <2>1. ReadStatus(s, buf.pos) = "OK"
    BY <1>0, <1>1, <1>2, <1>3, <2>0, GoodReads
  <2>2. PICK b : b = ReadNext(s, buf)
    OBVIOUS
  <2>3. b \in FbSet /\ b.nxt = c + 2 /\ b.pos = c + 3 /\ b.cur = c + 1
    BY <1>1, <1>2, <2>1, <2>2, ReadKeeps
  <2>4. Turn(s, r, t) = Read(s, b)
    BY SMTT(30), <1>0, <1>1, <1>2, <1>3, <1>7, <2>1, <2>2, TurnCases
  <2>5. Stamp(s, c + 1) < Stamp(s, c + 2)
    <3>1. c + 1 < c + 2
      BY <1>2
    <3>2. s[c + 1].at < s[c + 2].at
      BY <1>3, <2>0, <3>1, Ascending
    <3> QED
      BY <1>0, <1>3, <2>0, <3>2
  <2>6. Read(s, b).fb = b /\ Read(s, b).status = "LOOP"
    <3>1. ~(Stamp(s, b.nxt) <= Stamp(s, b.cur))
      BY <1>0, <1>3, <2>0, <2>3, <2>5
    <3> QED
      BY <3>1 DEF Read
  <2>7. Stamp(s, c + 1) <= t
    BY <1>0, <1>3, <1>7
  <2>8. Following(s, b, t)
    BY SMTT(30), <1>0, <1>2, <2>0, <2>3, <2>7 DEF Following
  <2>9. Due(s, b, "LOOP", t)
    BY <2>3, <2>7 DEF Due
  <2> QED
    BY <2>4, <2>6, <2>8, <2>9 DEF Pair
<1> QED
  BY <1>5, <1>6, <1>7

(* Past the last frame, a turn swaps the two frames and holds. *)
LEMMA EndTurns ==
  ASSUME NEW s \in Seq(FrameSet), Good(s), NEW t \in Nat, NEW r \in Results,
         ~r.fb.test, r.status = "LOOP", Due(s, r.fb, r.status, t),
         Ended(s, r.fb, t) \/ Single(s, r.fb, t) \/ Empty(s, r.fb)
  PROVE  LET q == Turn(s, r, t) IN Pair(s, q.fb, t) /\ Due(s, q.fb, q.status, t)
<1>0. /\ Len(s) \in Nat /\ r.fb \in FbSet /\ r.fb.cur \in Nat /\ r.fb.pos \in Nat
      /\ Stamp(s, 0) = 0
      /\ \A i \in 1 .. Len(s) : Stamp(s, i) \in Nat /\ Stamp(s, i) = s[i].at
  BY StampIs DEF Results, FbSet
<1>1. PICK buf \in FbSet : /\ buf = Swap(r.fb) /\ buf.cur = r.fb.nxt /\ buf.nxt = r.fb.cur
                           /\ buf.pos = r.fb.pos /\ buf.eof = r.fb.eof
  BY <1>0, SwapKeeps
<1>2. PICK end : end = [buf EXCEPT !.eof = TRUE]
  OBVIOUS
<1>3. end.cur = r.fb.nxt /\ end.nxt = r.fb.cur /\ end.pos = r.fb.pos /\ end.eof
  BY <1>1, <1>2 DEF FbSet
<1>4. Over(buf).fb = end /\ Over(buf).status = IF r.fb.eof THEN "HOLD" ELSE "EOF_REACHED"
  BY <1>1, <1>2 DEF Over
<1>5. r.fb.pos > Len(s) /\ r.fb.pos >= 1
  BY <1>0 DEF Ended, Single, Empty
<1>6. ReadStatus(s, buf.pos) = "NOT_FOUND"
  BY <1>0, <1>1, <1>5, GoodReads
<1>7. Stamp(s, r.fb.nxt) \in Nat /\ ~(t < Stamp(s, r.fb.nxt)) /\ t >= Stamp(s, r.fb.nxt)
  <2>1. CASE Ended(s, r.fb, t)
    <3>1. Len(s) \in 1 .. Len(s) /\ Len(s) - 1 \in 1 .. Len(s) /\ Len(s) - 1 < Len(s)
      BY <1>0, <2>1 DEF Ended
    <3>2. Stamp(s, Len(s) - 1) < Stamp(s, Len(s)) /\ Stamp(s, Len(s)) <= t
      BY <1>0, <2>1, <3>1, Ascending DEF Ended
    <3>3. r.fb.nxt \in {Len(s), Len(s) - 1}
      BY <2>1 DEF Ended
    <3> QED
      BY <1>0, <3>1, <3>2, <3>3
  <2>2. CASE Single(s, r.fb, t)
    <3>1. 1 \in 1 .. Len(s)
      BY <2>2 DEF Single
    <3>2. Stamp(s, 1) <= t
      BY <2>2, <3>1 DEF Single, Due
    <3>3. r.fb.nxt \in {0, 1}
      BY <2>2 DEF Single
    <3> QED
      BY <1>0, <3>1, <3>2, <3>3
  <2>3. CASE Empty(s, r.fb)
    BY <1>0, <2>3 DEF Empty
  <2> QED
    BY <2>1, <2>2, <2>3
<1>8. Turn(s, r, t) = Over(buf)
  BY <1>1, <1>6, <1>7, TurnCases
<1>9. Pair(s, end, t)
  <2>1. CASE Ended(s, r.fb, t)
    <3>1. Ended(s, end, t)
      BY <2>1, <1>3 DEF Ended
    <3> QED
      BY <3>1 DEF Pair
  <2>2. CASE Single(s, r.fb, t)
    <3>1. Stamp(s, 1) <= t
      BY <2>2 DEF Single, Due
    <3>2. Single(s, end, t)
      BY <2>2, <3>1, <1>3 DEF Single
    <3> QED
      BY <3>2 DEF Pair
  <2>3. CASE Empty(s, r.fb)
    BY <2>3, <1>3 DEF Empty, Pair
  <2> QED
    BY <2>1, <2>2, <2>3
<1>10. Due(s, end, Over(buf).status, t)
  <2>1. CASE r.fb.eof
    BY <1>3, <1>4, <2>1 DEF Due
  <2>2. CASE ~r.fb.eof
    <3>1. Single(s, r.fb, t) \/ Empty(s, r.fb)
      BY <2>2 DEF Ended
    <3>2. \A i \in 1 .. Len(s) : s[i].at <= t
      <4>1. CASE Single(s, r.fb, t)
        <5>1. 1 \in 1 .. Len(s) /\ Len(s) = 1 /\ Stamp(s, 1) <= t
          BY <4>1 DEF Single, Due
        <5> QED
          BY <1>0, <5>1
      <4>2. CASE Empty(s, r.fb)
        BY <4>2 DEF Empty
      <4> QED
        BY <3>1, <4>1, <4>2
    <3>3. Len(s) # 1 => end.cur = Len(s)
      BY <1>3, <3>1 DEF Single, Empty
    <3> QED
      BY <1>4, <2>2, <3>2, <3>3 DEF Due
  <2> QED
    BY <2>1, <2>2
<1> QED
  BY <1>4, <1>8, <1>9, <1>10

LEMMA TurnIsDue ==
  ASSUME NEW s \in Seq(FrameSet), Good(s), NEW t \in Nat, NEW r \in Results,
         ~r.fb.test, r.status = "LOOP", Pair(s, r.fb, t), Due(s, r.fb, r.status, t)
  PROVE  LET q == Turn(s, r, t) IN Pair(s, q.fb, t) /\ Due(s, q.fb, q.status, t)
BY FollowingTurns, EndTurns, Zenon DEF Pair

(* What compute reports at t, from a pair that was due at t or before. *)
LEMMA ComputeIsDue ==
  ASSUME NEW s \in Seq(FrameSet), Good(s), NEW t \in Nat, NEW buf \in FbSet, ~buf.test,
         Pair(s, buf, t), NEW q, q = Compute(s, buf, t)
  PROVE  Pair(s, q.fb, t) /\ Due(s, q.fb, q.status, t)
<1> DEFINE G == {r \in Results : ~r.fb.test /\ Pair(s, r.fb, t) /\ Due(s, r.fb, r.status, t)}
<1>0. /\ q = HandleFrames(s, buf, t) /\ Len(s) \in Nat /\ buf.cur \in Nat /\ Stamp(s, 0) = 0
      /\ \A i \in 1 .. Len(s) : Stamp(s, i) \in Nat /\ Stamp(s, i) = s[i].at
  BY StampIs DEF Compute, FbSet
<1>1. CASE t < Stamp(s, buf.cur)
  <2>1. q = [fb |-> buf, status |-> "HOLD"]
    BY <1>0, <1>1 DEF HandleFrames
  <2>2. buf.eof \/ (buf.cur = 1 /\ t < s[1].at)
    <3>1. CASE Following(s, buf, t)
      <4>1. buf.cur \in 1 .. Len(s)
        BY <1>0, <3>1 DEF Following
      <4>2. buf.cur = 1
        BY <1>0, <1>1, <3>1, <4>1 DEF Following
      <4> QED
        BY <1>0, <1>1, <4>1, <4>2
    <3>2. CASE Ended(s, buf, t)
      BY <3>2 DEF Ended
    <3>3. CASE Single(s, buf, t)
      <4>1. 1 \in 1 .. Len(s)
        BY <3>3 DEF Single
      <4> QED
        BY <1>0, <1>1, <3>3, <4>1 DEF Single
    <3>4. CASE Empty(s, buf)
      BY <1>0, <1>1, <3>4 DEF Empty
    <3> QED
      BY <3>1, <3>2, <3>3, <3>4, Zenon DEF Pair
  <2>3. Due(s, buf, "HOLD", t)
    BY <2>2 DEF Due
  <2> QED
    BY <2>1, <2>3
<1>2. CASE ~(t < Stamp(s, buf.cur))
  <2>1. Stamp(s, buf.cur) \in Nat
    <3>1. buf.cur \in 1 .. Len(s) \/ buf.cur = 0
      <4>1. Following(s, buf, t) => buf.cur \in 1 .. Len(s)
        BY <1>0 DEF Following
      <4>2. Ended(s, buf, t) => buf.cur \in 1 .. Len(s)
        BY <1>0 DEF Ended
      <4>3. Single(s, buf, t) => buf.cur \in 1 .. Len(s) \/ buf.cur = 0
        BY <1>0 DEF Single
      <4>4. Empty(s, buf) => buf.cur = 0
        BY DEF Empty
      <4> QED
        BY <4>1, <4>2, <4>3, <4>4, Zenon DEF Pair
    <3> QED
      BY <1>0, <3>1
  <2>2. Due(s, buf, "LOOP", t)
    BY <1>2, <2>1 DEF Due
  <2>3. [fb |-> buf, status |-> "LOOP"] \in G
    BY <2>2 DEF Results
  <2>4. \A r \in G : r.status = "LOOP" => Turn(s, r, t) \in G
    BY TurnKeeps, TurnIsDue, Zenon
  <2>5. HandleFrames(s, buf, t) \in G
    <3> HIDE DEF G
    <3> QED
      BY <1>0, <1>2, <2>3, <2>4, FramesInduction, Zenon
  <2> QED
    BY <1>0, <2>5
<1> QED
  BY <1>1, <1>2

-----------------------------------------------------------------------------
(* The inductive invariant: the pair stands where it can, and the last report agrees
   with it. *)
PInv ==
  /\ ts \in Seq(FrameSet) /\ now_us \in Nat
  /\ frames \in FbSet /\ ~frames.test
  /\ Playable => Pair(ts, frames, now_us) /\ Due(ts, frames, status, now_us)

LEMMA PlayableIs == Playable <=> Good(ts)
BY Zenon DEF Playable, Increasing, Good

LEMMA StartIs ==
  ASSUME ts \in Seq(FrameSet)
  PROVE  Good(ts) => Pair(ts, ResetFb(ts), 0) /\ Due(ts, ResetFb(ts), "RESET", 0)
BY ResetIsPair DEF Due

LEMMA PInvInit == PlaybackInit => PInv
<1> SUFFICES ASSUME PlaybackInit PROVE PInv
  OBVIOUS
<1>1. ts \in Seq(FrameSet) /\ now_us = 0 /\ frames = ResetFb(ts) /\ status = "RESET"
  BY TimelinesAssumption DEF PlaybackInit, FrameSet
<1> QED
  BY <1>1, ResetKeeps, StartIs, PlayableIs DEF PInv

LEMMA ComputedKeeps ==
  ASSUME PInv, NEW buf \in FbSet, NEW t \in Nat, ~buf.test, Good(ts) => Pair(ts, buf, t),
         Computed(buf, t)
  PROVE  PInv'
<1>1. PICK r : r = Compute(ts, buf, t)
  OBVIOUS
<1>2. frames' = r.fb /\ status' = r.status /\ now_us' = t /\ ts' = ts
  BY <1>1 DEF Computed
<1>3. ts \in Seq(FrameSet) /\ Len(ts) \in Nat
  BY StampIs DEF PInv
<1>4. r.fb \in FbSet /\ ~r.fb.test
  BY <1>1, <1>3, ComputeKeeps
<1>5. Good(ts) => Pair(ts, r.fb, t) /\ Due(ts, r.fb, r.status, t)
  BY <1>1, <1>3, ComputeIsDue
<1>6. Playable' <=> Good(ts)
  BY <1>2, Zenon DEF Playable, Increasing, Good
<1> QED
  BY <1>2, <1>3, <1>4, <1>5, <1>6 DEF PInv

LEMMA PInvStep == PInv /\ [PlaybackNext]_playbackVars => PInv'
<1> SUFFICES ASSUME PInv, [PlaybackNext]_playbackVars PROVE PInv'
  OBVIOUS
<1>0. ts \in Seq(FrameSet) /\ now_us \in Nat /\ frames \in FbSet /\ ~frames.test
      /\ (Good(ts) => Pair(ts, frames, now_us) /\ Due(ts, frames, status, now_us))
  BY PlayableIs DEF PInv
<1>1. CASE PlaybackReset
  <2>1. frames' = ResetFb(ts) /\ now_us' = 0 /\ status' = "RESET" /\ ts' = ts
    BY <1>1 DEF PlaybackReset
  <2>2. Playable' <=> Good(ts)
    BY <2>1, Zenon DEF Playable, Increasing, Good
  <2> QED
    BY <1>0, <2>1, <2>2, ResetKeeps, StartIs DEF PInv
<1>2. ASSUME NEW t \in 0 .. LastTime, PlaybackSeek(t) PROVE PInv'
  <2>1. t \in Nat
    BY LastTimeAssumption
  <2>2. SeekFb(ts, frames, t) \in FbSet /\ ~SeekFb(ts, frames, t).test
    BY <1>0, SeekKeeps
  <2>3. Good(ts) => Pair(ts, SeekFb(ts, frames, t), t)
    BY <1>0, <2>1, SeekIsPair
  <2>4. Computed(SeekFb(ts, frames, t), t)
    BY <1>2 DEF PlaybackSeek
  <2> QED
    BY <2>1, <2>2, <2>3, <2>4, ComputedKeeps
<1>3. ASSUME NEW t \in 0 .. LastTime, PlaybackTick(t) PROVE PInv'
  <2>1. t \in Nat /\ now_us <= t /\ Computed(frames, t)
    BY <1>0, <1>3, LastTimeAssumption DEF PlaybackTick
  <2>2. Good(ts) => Pair(ts, frames, t)
    BY <1>0, <2>1, PairStays
  <2> QED
    BY <1>0, <2>1, <2>2, ComputedKeeps
<1>4. CASE UNCHANGED playbackVars
  <2>1. ts' = ts /\ frames' = frames /\ now_us' = now_us /\ status' = status
    BY <1>4, Zenon DEF playbackVars
  <2>2. Playable' <=> Playable
    BY <2>1, Zenon DEF Playable, Increasing
  <2> QED
    BY <2>1, <2>2 DEF PInv
<1> QED
  BY <1>1, <1>2, <1>3, <1>4, Zenon DEF PlaybackNext

LEMMA PInvAlways == PlaybackSpec => []PInv
BY PInvInit, PInvStep, PTL DEF PlaybackSpec

(* The pair that is neither early nor late is the frame due and its follower. *)
LEMMA DuePair ==
  ASSUME NEW s \in Seq(FrameSet), Good(s), NEW buf \in FbSet, NEW t \in Nat, Pair(s, buf, t),
         Stamp(s, buf.cur) <= t, t < Stamp(s, buf.nxt)
  PROVE  /\ buf.cur \in 1 .. Len(s) /\ buf.nxt = buf.cur + 1
         /\ buf.cur = Max({1} \cup {i \in 1 .. Len(s) : s[i].at <= t})
<1>0. /\ Len(s) \in Nat /\ Stamp(s, 0) = 0
      /\ \A i \in 1 .. Len(s) : Stamp(s, i) \in Nat /\ Stamp(s, i) = s[i].at
  BY StampIs
<1>1. Following(s, buf, t)
  <2>1. ASSUME Ended(s, buf, t) PROVE FALSE
    <3>1. Len(s) \in 1 .. Len(s) /\ Len(s) - 1 \in 1 .. Len(s) /\ Len(s) - 1 < Len(s)
      BY <1>0, <2>1 DEF Ended
    <3>2. Stamp(s, Len(s) - 1) < Stamp(s, Len(s)) /\ Stamp(s, Len(s)) <= t
      BY <1>0, <2>1, <3>1, Ascending DEF Ended
    <3>3. buf.nxt \in {Len(s), Len(s) - 1}
      BY <2>1 DEF Ended
    <3> QED
      BY <1>0, <3>1, <3>2, <3>3
  <2>2. ASSUME Single(s, buf, t) PROVE FALSE
    <3>1. 1 \in 1 .. Len(s)
      BY <2>2 DEF Single
    <3>2. Stamp(s, 1) <= t
      BY <2>2, <3>1 DEF Single
    <3>3. buf.nxt \in {0, 1}
      BY <2>2 DEF Single
    <3> QED
      BY <1>0, <3>1, <3>2, <3>3
  <2>3. ASSUME Empty(s, buf) PROVE FALSE
    BY <1>0, <2>3 DEF Empty
  <2> QED
    BY <2>1, <2>2, <2>3, Zenon DEF Pair
<1>2. PICK c \in 1 .. Len(s) - 1 : c = buf.cur /\ buf.nxt = c + 1
  BY <1>1 DEF Following
<1>3. c \in 1 .. Len(s) /\ c + 1 \in 1 .. Len(s)
  BY <1>0, <1>2
<1> DEFINE S == {1} \cup {i \in 1 .. Len(s) : s[i].at <= t}
<1>4. c \in S /\ S \in SUBSET (0 .. Len(s))
  BY <1>0, <1>2, <1>3
<1>5. \A x \in S : x <= c
  <2>1. ASSUME NEW x \in 1 .. Len(s), s[x].at <= t PROVE x <= c
    <3>1. CASE x = c + 1
      BY <1>0, <1>2, <1>3, <2>1, <3>1
    <3>2. CASE c + 1 < x
      <4>1. s[c + 1].at < s[x].at
        BY <1>3, <3>2, Ascending
      <4> QED
        BY <1>0, <1>2, <1>3, <2>1, <4>1
    <3> QED
      BY <1>2, <3>1, <3>2
  <2> QED
    BY <1>2, <2>1
<1> HIDE DEF S
<1>6. Max(S) \in S /\ \A x \in S : x <= Max(S)
  BY <1>0, <1>4, MaxIsMax
<1>7. Max(S) = c
  <2>1. Max(S) <= c /\ c <= Max(S)
    BY <1>4, <1>5, <1>6, Zenon
  <2>2. Max(S) \in 0 .. Len(s)
    BY <1>4, <1>6, Zenon
  <2> QED
    BY <1>2, <2>1, <2>2
<1> QED
  BY <1>2, <1>3, <1>7 DEF S

(* Whatever seeks, resets and ticks came before, the two frames interpolated between are
   the frame due at the playback time and the one after it, in a show of any length
   (framebuffer.cpp:172-235, control_reader.c:206-216). *)
THEOREM PairIsAlwaysDue == PlaybackSpec => []PairIsDue
<1>1. PInv => PairIsDue
  <2> SUFFICES ASSUME PInv, Playable, status = "OK"
               PROVE  frames.cur = FrameAt(now_us) /\ frames.nxt = frames.cur + 1
    BY DEF PairIsDue
  <2>1. /\ ts \in Seq(FrameSet) /\ Good(ts) /\ frames \in FbSet /\ now_us \in Nat
        /\ Pair(ts, frames, now_us)
        /\ Stamp(ts, frames.cur) <= now_us /\ now_us < Stamp(ts, frames.nxt)
    BY PlayableIs DEF PInv, Due
  <2> QED
    BY <2>1, DuePair DEF FrameAt
<1> QED
  BY <1>1, PInvAlways, PTL

(* compute() reports the end at the end, holds only before the first frame or after the
   end was reported, and fails only on a malformed show (framebuffer.cpp:172-235). *)
THEOREM ReportsAlwaysHaveCause == PlaybackSpec => []ReportsHaveCause
<1>1. PInv => ReportsHaveCause
  BY Zenon DEF PInv, Due, ReportsHaveCause, EndIsTheEnd
<1> QED
  BY <1>1, PInvAlways, PTL

-----------------------------------------------------------------------------
(* The event loop *)

(* The control points from which the player looks at its queue again, without
   a notification, before it sleeps, or never sleeps again. *)
Awake ==
  \/ pc \in {"events", "release", "delete", "null", "flag", "dead"}
  \/ pc = "delay" /\ after = "events"

Notifying == \E c \in Callers : call[c].at = "notify"

(* NoStrandedEvents, strengthened to the control points before the wait: an
   event may not be left behind by the steps that lead there either. *)
Heard == eventQueue # <<>> => "EVENT" \in notified \/ Notifying \/ Awake

CallType ==
  call \in [Callers -> [at : {"idle", "send", "notify"},
                        event : Requests \cup {Event("STOP")}]]

USE DEF deviceVars, queueVars, loopVars, callVars

-----------------------------------------------------------------------------
(* Whatever an event makes the player do, it goes on at back, or after a delay
   at back. *)
LEMMA ProcessEventReturns ==
  ASSUME NEW e, NEW back, ProcessEvent(e, back)
  PROVE  pc' = back \/ (pc' = "delay" /\ after' = back)
<1>1. ASSUME Load(back)
      PROVE  pc' = back \/ (pc' = "delay" /\ after' = back)
  BY <1>1, Zenon DEF Load, EnterReady, DelayThenSend
<1>2. ASSUME EnterUnloaded(back)
      PROVE  pc' = back \/ (pc' = "delay" /\ after' = back)
  BY <1>2, Zenon DEF EnterUnloaded, DelayThenSend
<1> QED
  BY <1>1, <1>2, Zenon
     DEF ProcessEvent, Ignore, Play, Pause, EnterReady, Test, Seek

(* The player's own send leaves the queue alone, or notifies. *)
LEMMA PostNotifies ==
  ASSUME NEW type, Post(type)
  PROVE  \/ "EVENT" \in notified'
         \/ eventQueue' = eventQueue /\ notified' = notified
BY Zenon DEF Post, HasRoom

-----------------------------------------------------------------------------
LEMMA CallTypeStep == CallType /\ [Next]_vars => CallType'
<1> SUFFICES ASSUME CallType, [Next]_vars PROVE CallType'
  OBVIOUS
<1>1. CASE call' = call
  BY <1>1 DEF CallType, Requests, Event
<1>2. ASSUME NEW c \in Callers, NEW e \in Requests, CallCheck(c, e)
      PROVE  CallType'
  BY <1>2 DEF CallType, CallCheck, Requests, Event
<1>3. ASSUME NEW c \in Callers, Caller(c) PROVE CallType'
  BY <1>3 DEF CallType, Caller, CallSend, CallNotify, Idle, Requests, Event
<1>4. ASSUME PlayerTask \/ CreateTask \/ Tick \/ Elapse \/ UNCHANGED vars
      PROVE  call' = call
  BY <1>4, Zenon DEF PlayerTask, Boot, DelayOver, Wait, Receive, Drained, Update,
     ExitRelease, ExitStep, CreateTask, Tick, Elapse, vars
<1> QED
  BY <1>1, <1>2, <1>3, <1>4 DEF Next

-----------------------------------------------------------------------------
(* No step of the player's own strands an event. *)
LEMMA HeardPlayerTask == Heard /\ PlayerTask => Heard'
<1> SUFFICES ASSUME Heard, PlayerTask PROVE Heard'
  OBVIOUS
<1> USE DEF Heard, Awake
<1>0. Notifying' <=> Notifying
  BY Zenon DEF Notifying, PlayerTask, Boot, DelayOver, Wait, Receive, Drained,
     Update, ExitRelease, ExitStep
<1>1. CASE Boot
  BY <1>0, <1>1, Zenon DEF Boot
<1>2. CASE DelayOver
  <2>1. \/ "EVENT" \in notified'
        \/ eventQueue' = eventQueue /\ notified' = notified
    BY <1>2, PostNotifies, Zenon DEF DelayOver
  <2>2. pc = "delay" /\ pc' = after
    BY <1>2, Zenon DEF DelayOver
  <2> QED
    BY <1>0, <2>1, <2>2
<1>3. CASE Wait
  BY <1>0, <1>3 DEF Wait
<1>4. CASE Receive
  <2>1. pc' \in {"events", "release"} \/ (pc' = "delay" /\ after' = "events")
    <3>1. CASE Head(eventQueue).type = "EXIT"
      BY <1>4, <3>1, Zenon DEF Receive
    <3>2. CASE Head(eventQueue).type # "EXIT"
      <4>1. ProcessEvent(Head(eventQueue), "events")
        BY <1>4, <3>2, Zenon DEF Receive
      <4> QED
        BY <4>1, ProcessEventReturns
    <3> QED
      BY <3>1, <3>2
  <2> QED
    BY <2>1
<1>5. CASE Drained
  BY <1>5 DEF Drained
<1>6. CASE Update
  <2>1. \/ "EVENT" \in notified'
        \/ eventQueue' = eventQueue /\ notified' = notified
    BY <1>6, PostNotifies, Zenon DEF Update
  <2>2. pc = "update"
    BY <1>6, Zenon DEF Update
  <2> QED
    BY <1>0, <2>1, <2>2
<1>7. CASE ExitRelease
  BY <1>7, Zenon DEF ExitRelease
<1>8. CASE ExitStep
  BY <1>8, Zenon DEF ExitStep
<1> QED
  BY <1>1, <1>2, <1>3, <1>4, <1>5, <1>6, <1>7, <1>8 DEF PlayerTask

(* Nor does a step of anyone else: a caller notifies after it sends. *)
LEMMA HeardStep == CallType /\ Heard /\ [Next]_vars => Heard'
<1> SUFFICES ASSUME CallType, Heard, [Next]_vars PROVE Heard'
  OBVIOUS
<1> USE DEF Heard, Awake, Notifying
<1>1. CASE PlayerTask
  BY <1>1, HeardPlayerTask
<1>2. CASE CreateTask
  BY <1>2, Zenon DEF CreateTask
<1>3. CASE Tick
  BY <1>3, Zenon DEF Tick
<1>4. CASE Elapse
  BY <1>4, Zenon DEF Elapse
<1>5. ASSUME NEW c \in Callers, NEW e \in Requests, CallCheck(c, e)
      PROVE  Heard'
  BY <1>5 DEF CallCheck, CallType
<1>6. ASSUME NEW c \in Callers, CallSend(c)
      PROVE  Heard'
  <2>1. CASE Len(eventQueue) < QueueLen
    <3>1. call'[c].at = "notify"
      BY <1>6, <2>1 DEF CallSend, CallType
    <3> QED
      BY <3>1
  <2>2. CASE ~(Len(eventQueue) < QueueLen)
    BY <1>6, <2>2 DEF CallSend, CallType
  <2> QED
    BY <2>1, <2>2
<1>7. ASSUME NEW c \in Callers, CallNotify(c)
      PROVE  Heard'
  BY <1>7, Zenon DEF CallNotify
<1>8. CASE UNCHANGED vars
  BY <1>8, Zenon DEF vars
<1> QED
  BY <1>1, <1>2, <1>3, <1>4, <1>5, <1>6, <1>7, <1>8 DEF Next, Caller

(* A player about to sleep has been, or will be, notified of every event in
   its queue. *)
THEOREM NoEventStranded == Spec => []NoStrandedEvents
<1>1. Init => CallType /\ Heard
  BY DEF Init, CallType, Heard, Idle
<1>2. Heard => NoStrandedEvents
  BY DEF Heard, Awake, Notifying, NoStrandedEvents
<1> QED
  BY <1>1, <1>2, CallTypeStep, HeardStep, PTL DEF Spec

-----------------------------------------------------------------------------
(* Resources that are acquired are all there, and a player that has left UNLOADED has
   them until its task ends. *)
Ending  == {"delete", "null", "flag", "dead"}
Owned   == resources_acquired => clock # "UNINIT" /\ timer # "none" /\ bus = "held"
Holding == m_state # "UNLOADED" => resources_acquired
Looping == pc \notin Ending /\ after \notin Ending
Resources == Owned /\ after \notin Ending /\ (pc \in Ending \/ Holding)

LEMMA EventHolds ==
  ASSUME Owned, Holding, Looping, NEW e, NEW back, back \notin Ending, ProcessEvent(e, back)
  PROVE  Owned' /\ Holding' /\ Looping'
<1> USE DEF Owned, Holding, Looping, Ending, Fault, NoFault, DelayThenSend, MetronomeStop,
        ResetPlayback
<1>1. CASE Ignore(back)
  BY <1>1, Zenon DEF Ignore
<1>2. CASE Load(back)
  BY <1>2 DEF Load, EnterReady, AcquireFails
<1>3. CASE EnterUnloaded(back)
  BY <1>3 DEF EnterUnloaded, ReleaseResources
<1>4. ASSUME resources_acquired,
             Play(back) \/ Pause(back) \/ EnterReady(back) \/ Test(back) \/ Seek(e.data, back)
      PROVE  Owned' /\ Holding' /\ Looping'
  BY <1>4 DEF Play, StartClock, Pause, EnterReady, Test, Seek
<1>5. e.type \in Handled[m_state] /\ e.type \notin {"LOAD", "RELEASE"} => resources_acquired
  BY DEF Handled
<1> QED
  BY <1>1, <1>2, <1>3, <1>4, <1>5, Zenon DEF ProcessEvent

LEMMA ResourcesStep == Resources /\ [Next]_vars => Resources'
<1> SUFFICES ASSUME Resources, [Next]_vars PROVE Resources'
  OBVIOUS
<1> USE DEF Resources, Owned, Holding, Looping, Ending
<1>1. CASE Boot
  BY <1>1, EventHolds DEF Boot
<1>2. CASE Receive
  <2>1. CASE Head(eventQueue).type = "EXIT"
    BY <1>2, <2>1, Zenon DEF Receive
  <2>2. CASE Head(eventQueue).type # "EXIT"
    BY <1>2, <2>2, EventHolds DEF Receive
  <2> QED
    BY <2>1, <2>2
<1>3. CASE ExitRelease
  <2>1. Owned'
    BY <1>3 DEF ExitRelease, ReleaseResources, Fault, NoFault
  <2> QED
    BY <1>3, <2>1 DEF ExitRelease
<1>4. CASE DelayOver
  BY <1>4 DEF DelayOver
<1>5. CASE Wait \/ Drained \/ Update \/ ExitStep
  BY <1>5 DEF Wait, Drained, Update, ExitStep
<1>6. CASE CreateTask \/ Tick
  BY <1>6 DEF CreateTask, Tick
<1>7. CASE Elapse
  BY <1>7 DEF Elapse
<1>8. ASSUME NEW c \in Callers, Caller(c) \/ \E e \in Requests : CallCheck(c, e)
      PROVE  Resources'
  BY <1>8 DEF Caller, CallCheck, CallSend, CallNotify
<1>9. CASE UNCHANGED vars
  BY <1>9 DEF vars
<1> QED
  BY <1>1, <1>2, <1>3, <1>4, <1>5, <1>6, <1>7, <1>8, <1>9, Zenon DEF Next, PlayerTask

(* Outside UNLOADED the player owns its clock, its timer and its controller, whichever
   driver calls failed and whichever retries are queued (player.cpp:253-279,
   player_fsm.cpp:65-82, 128-143). *)
THEOREM ResourcesAlwaysHeld == Spec => []ResourcesHeld
<1>1. Init => Resources
  BY DEF Init, Resources, Owned, Holding, Ending
<1>2. Resources => ResourcesHeld
  BY DEF Resources, Owned, Holding, Ending, ResourcesHeld
<1> QED
  BY <1>1, <1>2, ResourcesStep, PTL DEF Spec

-----------------------------------------------------------------------------
(* Types *)
PcSet == {"boot", "wait", "events", "update", "delay", "release", "delete", "null", "flag",
          "dead"}

DeviceType ==
  /\ m_state \in States /\ resources_acquired \in BOOLEAN
  /\ clock \in {"UNINIT", "STOPPED", "RUNNING", "PAUSED"}
  /\ time \in 0 .. MaxTime
  /\ timer \in {"none", "created", "enabled", "running"}
  /\ bus \in {"free", "held"} /\ lit \in BOOLEAN /\ fb \in FbSet
  /\ faults \in 0 .. MaxFaults

EventSet == [type : Types, data : 0 .. MaxTime]

QueueType ==
  /\ eventQueue \in Seq(EventSet) /\ Len(eventQueue) <= QueueLen
  /\ queue_handle \in {"live", "dangling", "null"} /\ taskAlive \in BOOLEAN
  /\ notified \subseteq {"EVENT", "UPDATE"} /\ woken \subseteq {"EVENT", "UPDATE"}

LoopType ==
  pc \in PcSet /\ after \in {"wait", "events"} /\ pending \in {"LOAD", "RELEASE"}

CountType == calls \in 0 .. MaxCalls

LEMMA ShowIs == Show \in Seq(FrameSet) /\ Len(Show) \in Nat
BY TimelineAssumption DEF Show, FrameSet

LEMMA FramesKept ==
  ASSUME NEW b \in FbSet, NEW t
  PROVE  /\ Compute(Show, b, t).fb \in FbSet /\ Compute(Show, b, t).fb.test = b.test
         /\ SeekFb(Show, b, t) \in FbSet /\ SeekFb(Show, b, t).test = b.test
         /\ InitFb(Show, b) \in FbSet
         /\ StartFb \in FbSet /\ ~StartFb.test
         /\ [StartFb EXCEPT !.test = TRUE] \in FbSet
<1>1. /\ Compute(Show, b, t).fb \in FbSet /\ Compute(Show, b, t).fb.test = b.test
      /\ SeekFb(Show, b, t) \in FbSet /\ SeekFb(Show, b, t).test = b.test
  BY ShowIs, ComputeKeeps, SeekKeeps
<1>2. ZeroFb(b.pos) \in FbSet
  BY DEF ZeroFb, FbSet
<1>3. InitFb(Show, b) \in FbSet
  BY <1>2, ReadBothKeeps DEF InitFb
<1>4. StartFb \in FbSet /\ ~StartFb.test
  BY ResetKeeps DEF StartFb
<1>5. [StartFb EXCEPT !.test = TRUE] \in FbSet
  BY <1>4 DEF FbSet
<1> QED
  BY <1>1, <1>3, <1>4, <1>5

LEMMA ShiftIn ==
  ASSUME NEW S, NEW q \in Seq(S), NEW x \in S
  PROVE  Append(q, x) \in Seq(S) /\ Len(Append(q, x)) = Len(q) + 1 /\ Len(q) \in Nat
OBVIOUS

LEMMA ShiftOut ==
  ASSUME NEW S, NEW q \in Seq(S), q # <<>>
  PROVE  Head(q) \in S /\ Tail(q) \in Seq(S) /\ Len(Tail(q)) = Len(q) - 1 /\ Len(q) \in Nat
OBVIOUS

LEMMA EventIs ==
  ASSUME NEW type \in Types
  PROVE  Event(type) \in EventSet
BY MaxTimeAssumption DEF Event, EventSet

LEMMA RequestIs == Requests \cup {Event("STOP")} \subseteq EventSet
BY CommandsAssumption, MaxTimeAssumption, EventIs DEF Requests, Event, EventSet, Types

LEMMA ReleaseTypes ==
  ASSUME DeviceType, NEW ok \in BOOLEAN, ReleaseResources(ok), m_state' \in States
  PROVE  DeviceType'
<1>0. /\ faults \in Nat /\ 0 \in 0 .. MaxTime
      /\ (faults < MaxFaults /\ faults' = faults + 1) \/ faults' = faults => faults' \in 0 .. MaxFaults
  BY CountsAssumption, MaxTimeAssumption DEF DeviceType
<1> QED
  BY <1>0 DEF ReleaseResources, DeviceType, Fault, NoFault

LEMMA EventTypes ==
  ASSUME DeviceType, NEW e \in EventSet, NEW back, ProcessEvent(e, back)
  PROVE  DeviceType'
<1> USE DEF DeviceType, States, Fault, NoFault, DelayThenSend, MetronomeStop, ResetPlayback
<1>0. faults \in Nat /\ MaxFaults \in Nat /\ MaxTime \in Nat /\ 0 \in 0 .. MaxTime
  BY CountsAssumption, MaxTimeAssumption
<1>a. (faults < MaxFaults /\ faults' = faults + 1) \/ faults' = faults => faults' \in 0 .. MaxFaults
  BY <1>0
<1>1. CASE Ignore(back)
  BY <1>1, Zenon DEF Ignore
<1>2. ASSUME EnterReady(back) PROVE DeviceType'
  BY <1>0, <1>a, <1>2, FramesKept DEF EnterReady
<1>3. ASSUME AcquireFails, UNCHANGED <<m_state, resources_acquired, clock, time, lit>>
      PROVE  DeviceType'
  BY <1>0, <1>a, <1>3, FramesKept DEF AcquireFails
<1>4. CASE Load(back)
  BY <1>0, <1>a, <1>2, <1>3, <1>4, FramesKept DEF Load
<1>5. CASE EnterUnloaded(back)
  BY <1>5, ReleaseTypes DEF EnterUnloaded
<1>6. CASE Play(back)
  BY <1>0, <1>a, <1>6 DEF Play, StartClock
<1>7. CASE Pause(back)
  BY <1>0, <1>a, <1>7 DEF Pause
<1>8. CASE Test(back)
  BY <1>0, <1>a, <1>8, FramesKept DEF Test
<1>9. CASE Seek(e.data, back)
  <2>1. e.data \in 0 .. MaxTime
    BY DEF EventSet
  <2>2. fb' \in FbSet
    BY <1>9, FramesKept DEF Seek
  <2> QED
    BY <1>9, <2>1, <2>2 DEF Seek
<1> QED
  BY <1>1, <1>2, <1>4, <1>5, <1>6, <1>7, <1>8, <1>9, Zenon DEF ProcessEvent

LEMMA EventLoop ==
  ASSUME LoopType, NEW e, NEW back \in {"wait", "events"}, ProcessEvent(e, back)
  PROVE  LoopType'
<1> USE DEF LoopType, PcSet, DelayThenSend
<1>1. ASSUME Load(back) PROVE LoopType'
  BY <1>1 DEF Load, EnterReady
<1>2. ASSUME EnterUnloaded(back) PROVE LoopType'
  BY <1>2 DEF EnterUnloaded
<1>3. ASSUME pc' = back, UNCHANGED <<after, pending>> PROVE LoopType'
  BY <1>3
<1> QED
  BY <1>1, <1>2, <1>3, Zenon DEF ProcessEvent, Ignore, Play, Pause, EnterReady, Test, Seek

LEMMA PostTypes ==
  ASSUME QueueType, NEW type \in Types, Post(type), UNCHANGED <<queue_handle, taskAlive, woken>>
  PROVE  QueueType'
<1>0. QueueLen \in Nat
  BY QueueLenAssumption
<1>1. CASE HasRoom
  <2>1. eventQueue' = Append(eventQueue, Event(type)) /\ notified' = notified \cup {"EVENT"}
        /\ Len(eventQueue) < QueueLen
    BY <1>1 DEF Post, HasRoom
  <2>2. eventQueue' \in Seq(EventSet) /\ Len(eventQueue') = Len(eventQueue) + 1
        /\ Len(eventQueue) \in Nat
    BY <2>1, EventIs, ShiftIn DEF QueueType
  <2> QED
    BY <1>0, <2>1, <2>2 DEF QueueType
<1>2. CASE ~HasRoom
  BY <1>2 DEF Post, QueueType
<1> QED
  BY <1>1, <1>2

Typed == DeviceType /\ QueueType /\ LoopType /\ CallType /\ CountType

LEMMA PlayerTaskTypes == Typed /\ PlayerTask => DeviceType' /\ QueueType' /\ LoopType'
<1> SUFFICES ASSUME DeviceType, QueueType, LoopType, PlayerTask
             PROVE  DeviceType' /\ QueueType' /\ LoopType'
  BY DEF Typed
<1>1. ASSUME UNCHANGED <<m_state, deviceVars, faults>> PROVE DeviceType'
  BY <1>1 DEF DeviceType
<1>2. ASSUME UNCHANGED <<queueVars, notified, woken>> PROVE QueueType'
  BY <1>2 DEF QueueType
<1>3. CASE Boot
  <2>1. Event("LOAD") \in EventSet
    BY EventIs DEF Types
  <2>2. ProcessEvent(Event("LOAD"), "wait") /\ UNCHANGED <<queueVars, notified, woken>>
    BY <1>3, Zenon DEF Boot
  <2> QED
    BY <1>2, <2>1, <2>2, EventTypes, EventLoop, Zenon
<1>4. CASE DelayOver
  <2>1. pending \in Types
    BY DEF LoopType, Types
  <2>2. Post(pending) /\ UNCHANGED <<queue_handle, taskAlive, woken>>
    BY <1>4 DEF DelayOver
  <2>3. QueueType'
    BY <2>1, <2>2, PostTypes
  <2>4. LoopType'
    BY <1>4 DEF DelayOver, LoopType, PcSet
  <2> QED
    BY <1>1, <1>4, <2>3, <2>4, Zenon DEF DelayOver
<1>5. CASE Wait
  <2>1. QueueType'
    BY <1>5 DEF Wait, QueueType
  <2>2. LoopType'
    BY <1>5 DEF Wait, LoopType, PcSet
  <2> QED
    BY <1>1, <1>5, <2>1, <2>2, Zenon DEF Wait
<1>6. CASE Receive
  <2>1. /\ Head(eventQueue) \in EventSet /\ Tail(eventQueue) \in Seq(EventSet)
        /\ Len(Tail(eventQueue)) = Len(eventQueue) - 1 /\ Len(eventQueue) \in Nat
    BY <1>6, ShiftOut DEF Receive, QueueType
  <2>2. eventQueue' = Tail(eventQueue) /\ UNCHANGED <<queue_handle, taskAlive, notified, woken>>
    BY <1>6 DEF Receive
  <2>3. QueueType'
    BY <2>1, <2>2, QueueLenAssumption DEF QueueType
  <2>4. CASE Head(eventQueue).type = "EXIT"
    <3>1. UNCHANGED <<m_state, deviceVars, after, pending, faults>> /\ pc' = "release"
      BY <1>6, <2>4, Zenon DEF Receive
    <3> QED
      BY <1>1, <2>3, <3>1 DEF LoopType, PcSet
  <2>5. CASE Head(eventQueue).type # "EXIT"
    <3>1. ProcessEvent(Head(eventQueue), "events")
      BY <1>6, <2>5, Zenon DEF Receive
    <3> QED
      BY <2>1, <2>3, <3>1, EventTypes, EventLoop
  <2> QED
    BY <2>4, <2>5
<1>7. CASE Drained
  <2>1. QueueType'
    BY <1>7 DEF Drained, QueueType
  <2>2. LoopType'
    BY <1>7 DEF Drained, LoopType, PcSet
  <2> QED
    BY <1>1, <1>7, <2>1, <2>2, Zenon DEF Drained
<1>8. CASE Update
  <2>1. pc' = "wait" /\ UNCHANGED <<m_state, resources_acquired, clock, time, timer, bus,
           queue_handle, taskAlive, woken, after, pending, faults>>
    BY <1>8, Zenon DEF Update
  <2>2. CASE m_state \in {"PLAYING", "TEST"}
    <3> DEFINE r == Compute(Show, fb, time)
    <3>1. /\ fb' = r.fb
          /\ lit' = (lit \/ r.status # "ERROR" \/ HasRoom)
          /\ IF r.status \in {"ERROR", "EOF_REACHED"} THEN Post("STOP")
             ELSE UNCHANGED <<eventQueue, notified>>
      BY <1>8, <2>2, Zenon DEF Update
    <3>2. fb' \in FbSet
      BY <3>1, FramesKept DEF DeviceType
    <3>3. lit' \in BOOLEAN
      BY <3>1, Zenon
    <3>4. QueueType'
      <4>1. CASE Post("STOP")
        <5>1. "STOP" \in Types
          BY DEF Types
        <5> QED
          BY <2>1, <4>1, <5>1, PostTypes, Zenon
      <4>2. CASE UNCHANGED <<eventQueue, notified>>
        BY <1>2, <2>1, <4>2
      <4> QED
        BY <3>1, <4>1, <4>2, Zenon
    <3>5. DeviceType'
      BY <2>1, <3>2, <3>3 DEF DeviceType
    <3> QED
      BY <2>1, <3>4, <3>5 DEF LoopType, PcSet
  <2>3. CASE m_state \notin {"PLAYING", "TEST"}
    <3>1. UNCHANGED <<fb, lit, eventQueue, notified>>
      BY <1>8, <2>3, Zenon DEF Update
    <3> QED
      BY <1>1, <1>2, <2>1, <3>1 DEF LoopType, PcSet
  <2> QED
    BY <2>2, <2>3
<1>9. CASE ExitRelease
  <2>1. m_state' \in States
    BY <1>9 DEF ExitRelease, DeviceType
  <2>2. DeviceType'
    BY <1>9, <2>1, ReleaseTypes, Zenon DEF ExitRelease
  <2>3. LoopType'
    BY <1>9 DEF ExitRelease, LoopType, PcSet
  <2> QED
    BY <1>2, <1>9, <2>2, <2>3, Zenon DEF ExitRelease
<1>10. CASE ExitStep
  <2>1. QueueType'
    <3>1. <<>> \in Seq(EventSet) /\ Len(<<>>) = 0
      OBVIOUS
    <3>2. \/ eventQueue' = <<>>
          \/ eventQueue' = eventQueue
      BY <1>10 DEF ExitStep
    <3>3. 0 <= QueueLen
      BY QueueLenAssumption
    <3>4. eventQueue' \in Seq(EventSet) /\ Len(eventQueue') <= QueueLen
      BY <3>1, <3>2, <3>3 DEF QueueType
    <3> QED
      BY <1>10, <3>4 DEF ExitStep, QueueType
  <2>2. LoopType'
    BY <1>10 DEF ExitStep, LoopType, PcSet
  <2> QED
    BY <1>1, <1>10, <2>1, <2>2, Zenon DEF ExitStep
<1> QED
  BY <1>3, <1>4, <1>5, <1>6, <1>7, <1>8, <1>9, <1>10, Zenon DEF PlayerTask

LEMMA TypedStep == Typed /\ [Next]_vars => Typed'
<1> SUFFICES ASSUME Typed, [Next]_vars PROVE Typed'
  OBVIOUS
<1>0. DeviceType /\ QueueType /\ LoopType /\ CallType /\ CountType
  BY DEF Typed
<1>1. CallType'
  BY <1>0, CallTypeStep
<1>2. CASE PlayerTask
  <2>1. calls' = calls
    BY <1>2, Zenon DEF PlayerTask, Boot, DelayOver, Wait, Receive, Drained, Update,
       ExitRelease, ExitStep
  <2> QED
    BY <1>0, <1>1, <1>2, <2>1, PlayerTaskTypes DEF Typed, CountType
<1>3. CASE CreateTask
  BY <1>0, <1>1, <1>3 DEF CreateTask, Typed, DeviceType, QueueType, LoopType, CountType
<1>4. CASE Tick
  BY <1>0, <1>1, <1>4 DEF Tick, Typed, DeviceType, QueueType, LoopType, CountType
<1>5. CASE Elapse
  <2>1. time' \in 0 .. MaxTime
    BY <1>0, <1>5, MaxTimeAssumption DEF Elapse, DeviceType
  <2> QED
    BY <1>0, <1>1, <1>5, <2>1 DEF Elapse, Typed, DeviceType, QueueType, LoopType, CountType
<1>6. ASSUME NEW c \in Callers, NEW e \in Requests, CallCheck(c, e) PROVE Typed'
  <2>1. CountType'
    BY <1>0, <1>6, CountsAssumption DEF CallCheck, CountType
  <2> QED
    BY <1>0, <1>1, <1>6, <2>1 DEF CallCheck, Typed, DeviceType, QueueType, LoopType
<1>7. ASSUME NEW c \in Callers, CallSend(c) PROVE Typed'
  <2>1. call[c].event \in EventSet
    <3>1. call[c] \in [at : {"idle", "send", "notify"}, event : Requests \cup {Event("STOP")}]
      BY <1>0 DEF CallType
    <3>2. call[c].event \in Requests \cup {Event("STOP")}
      BY <3>1
    <3> QED
      BY <3>2, RequestIs, Zenon
  <2>2. eventQueue' \in Seq(EventSet) /\ Len(eventQueue') <= QueueLen
    <3>1. CASE Len(eventQueue) < QueueLen
      <4>1. eventQueue' = Append(eventQueue, call[c].event)
        BY <1>7, <3>1, Zenon DEF CallSend
      <4>2. eventQueue' \in Seq(EventSet) /\ Len(eventQueue') = Len(eventQueue) + 1
            /\ Len(eventQueue) \in Nat
        BY <1>0, <2>1, <4>1, ShiftIn DEF QueueType
      <4> QED
        BY <3>1, <4>2, QueueLenAssumption
    <3>2. CASE ~(Len(eventQueue) < QueueLen)
      BY <1>0, <1>7, <3>2 DEF CallSend, QueueType
    <3> QED
      BY <3>1, <3>2
  <2> QED
    BY <1>0, <1>1, <1>7, <2>2 DEF CallSend, Typed, DeviceType, QueueType, LoopType, CountType
<1>8. ASSUME NEW c \in Callers, CallNotify(c) PROVE Typed'
  BY <1>0, <1>1, <1>8 DEF CallNotify, Typed, DeviceType, QueueType, LoopType, CountType
<1>9. CASE UNCHANGED vars
  BY <1>0, <1>1, <1>9 DEF vars, Typed, DeviceType, QueueType, LoopType, CountType
<1> QED
  BY <1>2, <1>3, <1>4, <1>5, <1>6, <1>7, <1>8, <1>9, Zenon DEF Next, Caller

LEMMA TypedInit == Init => Typed
<1> SUFFICES ASSUME Init PROVE Typed
  OBVIOUS
<1>1. DeviceType
  <2>1. ZeroFb(1) \in FbSet
    BY DEF ZeroFb, FbSet
  <2>2. 0 \in 0 .. MaxTime /\ 0 \in 0 .. MaxFaults
    BY MaxTimeAssumption, CountsAssumption
  <2> QED
    BY <2>1, <2>2 DEF Init, DeviceType, States
<1>2. QueueType
  <2>1. <<>> \in Seq(EventSet) /\ Len(<<>>) = 0
    OBVIOUS
  <2>2. 0 <= QueueLen
    BY QueueLenAssumption
  <2> QED
    BY <2>1, <2>2 DEF Init, QueueType
<1>3. LoopType /\ CallType /\ CountType
  BY CountsAssumption DEF Init, LoopType, PcSet, CallType, CountType, Idle
<1> QED
  BY <1>1, <1>2, <1>3 DEF Typed

LEMMA TypedAlways == Spec => []Typed
BY TypedInit, TypedStep, PTL DEF Spec

(* The player's variables keep their types, its queue its length, and its playback time
   stays where a clock or a seek can put it (player.cpp, player_fsm.cpp). *)
THEOREM TypeAlwaysOK == Spec => []TypeOK
<1>1. Typed => TypeOK
  BY DEF Typed, DeviceType, QueueType, LoopType, CallType, CountType, PcSet, EventSet, TypeOK
<1> QED
  BY <1>1, TypedAlways, PTL

-----------------------------------------------------------------------------
(* StateConsistent, strengthened: without a failure, resources are held exactly outside
   UNLOADED until the task ends, the timer exists with them and is never left half made,
   and it runs when the clock does. *)
Released == clock = "UNINIT" /\ timer = "none" /\ bus = "free" /\ ~lit
Matching ==
  /\ timer \in {"enabled", "running"} /\ m_state # "UNLOADED"
  /\ m_state \in {"PLAYING", "TEST"} => clock = "RUNNING"
  /\ m_state = "PAUSE" => clock = "PAUSED"
  /\ m_state = "READY" => clock = "STOPPED"
  /\ timer = "running" <=> clock = "RUNNING"
Agreed ==
  /\ IF resources_acquired THEN Matching ELSE Released
  /\ m_state \in {"READY", "PLAYING", "PAUSE"} => ~fb.test
  /\ m_state \in {"UNLOADED", "READY"} => ~lit
Consistent == faults = 0 => Agreed

LEMMA EventAgrees ==
  ASSUME DeviceType, Agreed, Holding, faults' = 0, NEW e, NEW back, ProcessEvent(e, back)
  PROVE  Agreed'
<1> USE DEF Agreed, Matching, Released
<1>0. ~Fault
  BY DEF DeviceType, Fault
<1>1. CASE Ignore(back)
  BY <1>1, Zenon DEF Ignore
<1>2. ASSUME EnterReady(back), resources_acquired PROVE Agreed'
  BY <1>0, <1>2, FramesKept DEF EnterReady, ResetPlayback, MetronomeStop, DeviceType
<1>3. CASE Load(back)
  <2>1. ASSUME AcquireFails, ~resources_acquired PROVE FALSE
    BY <1>0, <2>1 DEF AcquireFails
  <2>2. ASSUME ~resources_acquired /\ bus = "free", resources_acquired' = TRUE,
               m_state' = "READY", ResetPlayback, clock' = "STOPPED", timer' = "enabled"
        PROVE  Agreed'
    BY <2>2, FramesKept DEF ResetPlayback, DeviceType
  <2> QED
    BY <1>2, <1>3, <2>1, <2>2, Zenon DEF Load
<1>4. CASE EnterUnloaded(back)
  <2>1. ASSUME NEW ok \in BOOLEAN, ReleaseResources(ok), m_state' = "UNLOADED" PROVE Agreed'
    BY <1>0, <2>1 DEF ReleaseResources
  <2> QED
    BY <1>4, <2>1 DEF EnterUnloaded
<1>5. ASSUME Play(back), resources_acquired, m_state \in {"READY", "PAUSE"} PROVE Agreed'
  BY <1>0, <1>5 DEF Play, StartClock
<1>6. ASSUME Pause(back), resources_acquired, m_state = "PLAYING" PROVE Agreed'
  BY <1>0, <1>6 DEF Pause, MetronomeStop
<1>7. ASSUME Test(back), resources_acquired PROVE Agreed'
  BY <1>0, <1>7 DEF Test
<1>8. ASSUME Seek(e.data, back), resources_acquired, m_state = "READY" PROVE Agreed'
  <2>1. fb' \in FbSet /\ fb'.test = fb.test
    BY <1>8, FramesKept DEF Seek, DeviceType
  <2> QED
    BY <1>8, <2>1 DEF Seek
<1>9. /\ e.type \in Handled[m_state] /\ e.type \notin {"LOAD", "RELEASE"} => resources_acquired
      /\ e.type \in Handled[m_state] /\ e.type = "PLAY" => m_state \in {"READY", "PAUSE"}
      /\ e.type \in Handled[m_state] /\ e.type = "PAUSE" => m_state = "PLAYING"
      /\ e.type \in Handled[m_state] /\ e.type = "SEEK" => m_state = "READY"
  BY DEF Handled, Holding, DeviceType, States
<1> HIDE DEF Agreed, Matching, Released
<1>10. "PLAY" \notin {"LOAD", "RELEASE"} /\ "PAUSE" \notin {"LOAD", "RELEASE"}
       /\ "STOP" \notin {"LOAD", "RELEASE"} /\ "TEST" \notin {"LOAD", "RELEASE"}
       /\ "SEEK" \notin {"LOAD", "RELEASE"}
  OBVIOUS
<1> QED
  BY <1>1, <1>2, <1>3, <1>4, <1>5, <1>6, <1>7, <1>8, <1>9, <1>10, Zenon DEF ProcessEvent

LEMMA AgreedStep ==
  Typed /\ Resources /\ Consistent /\ [Next]_vars => Consistent'
<1> SUFFICES ASSUME Typed, Resources, Consistent, [Next]_vars, faults' = 0 PROVE Agreed'
  BY DEF Consistent
<1>0. DeviceType /\ Owned /\ (pc \in Ending \/ Holding)
  BY DEF Typed, Resources
<1>1. faults' = faults \/ Fault => Agreed /\ ~Fault
  BY <1>0 DEF DeviceType, Fault, Consistent
<1>2. ASSUME UNCHANGED <<m_state, deviceVars, faults>> PROVE Agreed'
  BY <1>1, <1>2 DEF Agreed, Matching, Released
<1>3. ASSUME NEW e, NEW back, ProcessEvent(e, back), Holding PROVE Agreed'
  <2>1. faults' = faults \/ Fault
    BY <1>3, Zenon DEF ProcessEvent, Ignore, Load, EnterReady, AcquireFails, EnterUnloaded,
       ReleaseResources, Play, StartClock, Pause, MetronomeStop, Test, Seek, NoFault
  <2> QED
    BY <1>0, <1>1, <1>3, <2>1, EventAgrees
<1>4. CASE Boot
  BY <1>0, <1>3, <1>4 DEF Boot, Ending
<1>5. CASE Receive
  <2>1. CASE Head(eventQueue).type = "EXIT"
    BY <1>2, <1>5, <2>1, Zenon DEF Receive
  <2>2. CASE Head(eventQueue).type # "EXIT"
    <3>1. ProcessEvent(Head(eventQueue), "events") /\ pc = "events"
      BY <1>5, <2>2, Zenon DEF Receive
    <3> QED
      BY <1>0, <1>3, <3>1 DEF Ending
  <2> QED
    BY <2>1, <2>2
<1>6. CASE Update
  <2>1. faults' = faults /\ UNCHANGED <<m_state, resources_acquired, clock, timer, bus>>
    BY <1>6, Zenon DEF Update
  <2>2. CASE m_state \in {"PLAYING", "TEST"}
    <3>1. fb' \in FbSet /\ fb'.test = fb.test
      BY <1>0, <1>6, <2>2, FramesKept DEF Update, DeviceType
    <3>2. resources_acquired
      BY <1>0, <1>6, <2>2 DEF Update, Ending, Holding
    <3> QED
      BY <1>1, <2>1, <2>2, <3>1, <3>2 DEF Agreed, Matching, Released
  <2>3. CASE m_state \notin {"PLAYING", "TEST"}
    <3>1. UNCHANGED <<fb, lit>>
      BY <1>6, <2>3, Zenon DEF Update
    <3> QED
      BY <1>1, <2>1, <3>1 DEF Agreed, Matching, Released
  <2> QED
    BY <2>2, <2>3
<1>7. CASE ExitRelease
  <2>1. ASSUME NEW ok \in BOOLEAN, ReleaseResources(ok), m_state' = m_state PROVE Agreed'
    <3>1. faults' = faults \/ Fault
      BY <2>1, Zenon DEF ReleaseResources, NoFault
    <3> QED
      BY <1>1, <2>1, <3>1 DEF ReleaseResources, Agreed, Matching, Released
  <2> QED
    BY <1>7, <2>1, Zenon DEF ExitRelease
<1>8. CASE DelayOver \/ Wait \/ Drained \/ ExitStep
  BY <1>2, <1>8, Zenon DEF DelayOver, Wait, Drained, ExitStep
<1>9. CASE CreateTask \/ Tick
  BY <1>2, <1>9, Zenon DEF CreateTask, Tick
<1>10. CASE Elapse
  <2>1. UNCHANGED <<m_state, resources_acquired, clock, timer, bus, fb, lit, faults>>
    BY <1>10, Zenon DEF Elapse
  <2> QED
    BY <1>1, <2>1 DEF Agreed, Matching, Released
<1>11. ASSUME NEW c \in Callers, Caller(c) \/ \E e \in Requests : CallCheck(c, e)
       PROVE  Agreed'
  BY <1>2, <1>11, Zenon DEF Caller, CallCheck, CallSend, CallNotify
<1>12. CASE UNCHANGED vars
  BY <1>2, <1>12, Zenon DEF vars
<1> QED
  BY <1>4, <1>5, <1>6, <1>7, <1>8, <1>9, <1>10, <1>11, <1>12, Zenon DEF Next, PlayerTask

(* While no driver call has failed, the clock, the metronome, the test mode and the LEDs
   agree with the state, whatever commands come in whatever order: no timer is left
   running, and no test pattern or lit LED is left behind (player.cpp:83-132, 217-232). *)
THEOREM StateAlwaysConsistent == Spec => []StateConsistent
<1>1. Init => Typed /\ Resources /\ Consistent
  BY TypedInit DEF Init, Resources, Owned, Holding, Ending, Consistent, Agreed, Released
<1>2. Consistent /\ Typed => StateConsistent
  <2> SUFFICES ASSUME Agreed, DeviceType, faults = 0 PROVE StateConsistent
    BY DEF Consistent, Typed, StateConsistent
  <2>1. CASE ~resources_acquired
    BY <2>1 DEF Agreed, Released, StateConsistent
  <2>2. CASE resources_acquired
    BY <2>2 DEF Agreed, Matching, StateConsistent, DeviceType, States
  <2> QED
    BY <2>1, <2>2
<1> QED
  BY <1>1, <1>2, TypedStep, ResourcesStep, AgreedStep, PTL DEF Spec

=============================================================================
