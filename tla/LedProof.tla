------------------------------ MODULE LedProof ------------------------------
(***************************************************************************)
(* What an update of the LEDs guarantees, for any number of strips and     *)
(* chips, any split into first and second batch, any number of RMT         *)
(* channels and any faults.                                                *)
(*                                                                         *)
(* An operation is the sequence of driver calls it still has to make.  The *)
(* proof replaces the sequence by the set of its calls (Left) and by what  *)
(* its order is worth (Before): the sequences are built from blocks of one *)
(* call for every device, blocks are joined, and a call that is made       *)
(* leaves the set.  The invariant then says of each device which of its    *)
(* calls are pending and, from that, what its handle, its buffer and its   *)
(* LEDs hold: Life for the handles, Owned for what the drivers hold, Dark  *)
(* and Started for what is lit without a frame, Frame for an update on its *)
(* way through a strip or a chip.                                          *)
(***************************************************************************)
EXTENDS LedController, SequenceTheorems, TLAPS

-----------------------------------------------------------------------------
(* Calls, and the order an operation makes them in *)

StageKinds == {"pca9955b_set_pixel", "ws2812b_write_grb", "ws2812b_fill", "pca9955b_fill"}
ShowKinds  == {"ws2812b_show", "ws2812b_wait_done", "pca9955b_show"}
DelKinds   == {"ws2812b_del", "pca9955b_del", "i2c_del_master_bus"}
WsKinds    == {"ws2812b_init", "ws2812b_write_grb", "ws2812b_fill", "ws2812b_show",
               "ws2812b_wait_done", "ws2812b_del"}
PcaKinds   == {"pca9955b_init", "pca9955b_set_pixel", "pca9955b_fill", "pca9955b_show",
               "pca9955b_del"}
BusKinds   == {"i2c_bus_init", "i2c_del_master_bus"}
InitKinds  == {"i2c_bus_init", "ws2812b_init", "pca9955b_init"}

Pairs == (WsKinds \X Strips) \cup (PcaKinds \X Chips) \cup (BusKinds \X {1})

Ops   == {"init", "write", "fill", "show", "deinit"}
Kinds == WsKinds \cup PcaKinds \cup BusKinds
Entry == [op : Ops, call : Kinds, dev : Nat]

EntryOK(e) ==
  /\ <<e.call, e.dev>> \in Pairs
  /\ e.call \in ShowKinds => e.op = "show"
  /\ e.call = "ws2812b_write_grb" => e.op = "write"

\* Of two calls of an operation, x comes first.
Before(x, y) ==
  /\ x # y
  /\ y[1] # "i2c_bus_init"
  /\ x[1] \in ShowKinds => y[1] \notin StageKinds
  /\ x[1] = "ws2812b_wait_done" /\ y[1] = "ws2812b_show" => x[2] # y[2]
  /\ x[1] = "ws2812b_write_grb" => y[1] # "pca9955b_set_pixel"
  /\ x[1] = "ws2812b_write_grb" /\ y[1] = "ws2812b_write_grb" => x[2] < y[2]
  /\ x[1] = "i2c_del_master_bus" => y[1] \notin DelKinds

At(q, k)  == <<q[k].call, q[k].dev>>
LeftOf(q) == {At(q, k) : k \in 1 .. Len(q)}

Prog(q) ==
  /\ q \in Seq(Entry)
  /\ \A k \in 1 .. Len(q) : EntryOK(q[k])
  /\ \A k \in 1 .. Len(q) : \A n \in 1 .. Len(q) : k < n => Before(At(q, k), At(q, n))

Block(c, from, to) == {<<c, d>> : d \in from .. to}

-----------------------------------------------------------------------------
(* Programs: the sequences of calls *)

Item(o, c, d) == [op |-> o, call |-> c, dev |-> d]

LEMMA Fields ==
  ASSUME NEW o, NEW c, NEW d
  PROVE  Item(o, c, d).op = o /\ Item(o, c, d).call = c /\ Item(o, c, d).dev = d
BY DEF Item

LEMMA ItemType ==
  ASSUME NEW o \in Ops, NEW c \in Kinds, NEW d \in Nat
  PROVE  Item(o, c, d) \in Entry
BY DEF Item, Entry

LEMMA PairIn ==
  ASSUME NEW c, NEW from, NEW to, NEW d \in from .. to
  PROVE  <<c, d>> \in Block(c, from, to)
BY DEF Block

LEMMA BlockCalls ==
  ASSUME NEW o \in Ops, NEW c \in Kinds, NEW from \in Nat, NEW to \in Nat,
         from <= to + 1
  PROVE  /\ Calls(o, c, from, to) \in Seq(Entry)
         /\ Len(Calls(o, c, from, to)) = to - from + 1
         /\ \A k \in 1 .. Len(Calls(o, c, from, to)) :
              Calls(o, c, from, to)[k] = Item(o, c, from + k - 1)
         /\ LeftOf(Calls(o, c, from, to)) = Block(c, from, to)
<1> DEFINE q == Calls(o, c, from, to)
           n == to - from + 1
           f(k) == from + k - 1
<1>1. n \in Nat
  OBVIOUS
<1>2. q = [k \in 1 .. n |-> Item(o, c, f(k))]
  BY DEF Calls, Item
<1>3. \A k \in 1 .. n : f(k) \in Nat /\ f(k) \in from .. to
  OBVIOUS
<1>4. \A d \in from .. to : d - from + 1 \in 1 .. n /\ d = f(d - from + 1)
  OBVIOUS
<1> HIDE DEF q, n, f
<1>5. \A k \in 1 .. n : Item(o, c, f(k)) \in Entry
  BY <1>3, ItemType
<1>6. q \in [1 .. n -> Entry]
  BY <1>2, <1>5
<1>7. q \in Seq(Entry) /\ Len(q) = n
  <2>1. q \in Seq(Entry)
    BY <1>1, <1>6, SeqDef
  <2>2. DOMAIN q = 1 .. n
    BY <1>2
  <2>3. Len(q) \in Nat /\ DOMAIN q = 1 .. Len(q)
    BY <2>1, LenProperties
  <2> QED
    BY <1>1, <2>1, <2>2, <2>3
<1>8. \A k \in 1 .. n : q[k] = Item(o, c, f(k))
  BY <1>2
<1>9. \A k \in 1 .. n : At(q, k) = <<c, f(k)>>
  BY <1>8, Fields DEF At
<1>10. LeftOf(q) \subseteq Block(c, from, to)
  <2>1. \A k \in 1 .. n : At(q, k) \in Block(c, from, to)
    BY <1>3, <1>9, PairIn
  <2> QED
    BY <1>7, <2>1 DEF LeftOf
<1>11. ASSUME NEW y \in Block(c, from, to)
       PROVE  y \in LeftOf(q)
  <2>1. PICK d \in from .. to : y = <<c, d>>
    BY DEF Block
  <2>2. d - from + 1 \in 1 .. n /\ At(q, d - from + 1) = <<c, d>>
    BY <1>4, <1>9
  <2> QED
    BY <2>1, <2>2, <1>7 DEF LeftOf
<1>12. \A k \in 1 .. Len(q) : q[k] = Item(o, c, from + k - 1)
  BY <1>7, <1>8 DEF f
<1> QED
  BY <1>7, <1>10, <1>11, <1>12 DEF n, q

LEMMA BlockProg ==
  ASSUME NEW o \in Ops, NEW c \in Kinds, NEW from \in Nat, NEW to \in Nat,
         from <= to + 1,
         Block(c, from, to) \subseteq Pairs,
         c \in ShowKinds => o = "show",
         c = "ws2812b_write_grb" => o = "write",
         c \in BusKinds => from = to
  PROVE  Prog(Calls(o, c, from, to)) /\ LeftOf(Calls(o, c, from, to)) = Block(c, from, to)
<1> DEFINE q == Calls(o, c, from, to)
<1>1. /\ q \in Seq(Entry)
      /\ Len(q) = to - from + 1
      /\ \A k \in 1 .. Len(q) : q[k] = Item(o, c, from + k - 1)
      /\ LeftOf(q) = Block(c, from, to)
  BY BlockCalls
<1> HIDE DEF q
<1>2. \A k \in 1 .. Len(q) : At(q, k) = <<c, from + k - 1>> /\ At(q, k) \in Pairs
  <2>1. \A k \in 1 .. Len(q) : q[k].call = c /\ q[k].dev = from + k - 1
    BY <1>1, Fields
  <2>2. \A k \in 1 .. Len(q) : At(q, k) \in LeftOf(q)
    BY DEF LeftOf
  <2> QED
    BY <2>1, <2>2, <1>1 DEF At
<1>3. ASSUME NEW k \in 1 .. Len(q)
      PROVE  EntryOK(q[k])
  <2>1. q[k].call = c /\ q[k].op = o
    BY <1>1, Fields
  <2>2. <<q[k].call, q[k].dev>> \in Pairs
    BY <1>2 DEF At
  <2> QED
    BY <2>1, <2>2 DEF EntryOK
<1>4. ASSUME NEW k \in 1 .. Len(q), NEW n \in 1 .. Len(q), k < n
      PROVE  Before(At(q, k), At(q, n))
  <2>1. At(q, k) = <<c, from + k - 1>> /\ At(q, n) = <<c, from + n - 1>>
    BY <1>2
  <2>2. from + k - 1 < from + n - 1
    BY <1>1, <1>4
  <2>3. from + k - 1 # from + n - 1
    BY <2>2, <1>1
  <2>4. c \notin BusKinds
    BY <1>1, <1>4
  <2> QED
    BY <2>1, <2>2, <2>3, <2>4 DEF Before, ShowKinds, StageKinds, BusKinds
<1>5. Prog(q)
  BY <1>1, <1>3, <1>4 DEF Prog
<1> QED
  BY <1>1, <1>5 DEF q

LEMMA Join ==
  ASSUME NEW p, NEW q, Prog(p), Prog(q),
         \A x \in LeftOf(p), y \in LeftOf(q) : Before(x, y)
  PROVE  Prog(p \o q) /\ LeftOf(p \o q) = LeftOf(p) \cup LeftOf(q)
<1> DEFINE r == p \o q
<1>1. p \in Seq(Entry) /\ q \in Seq(Entry) /\ Len(p) \in Nat /\ Len(q) \in Nat
  BY DEF Prog
<1>2. r \in Seq(Entry) /\ Len(r) = Len(p) + Len(q)
  BY <1>1
<1>3. \A k \in 1 .. Len(r) : r[k] = IF k <= Len(p) THEN p[k] ELSE q[k - Len(p)]
  BY <1>1
<1>4. \A k \in 1 .. Len(r) : k <= Len(p) => k \in 1 .. Len(p) /\ r[k] = p[k]
  BY <1>1, <1>2, <1>3
<1>5. \A k \in 1 .. Len(r) : ~(k <= Len(p)) =>
        k - Len(p) \in 1 .. Len(q) /\ r[k] = q[k - Len(p)]
  BY <1>1, <1>2, <1>3
<1> HIDE DEF r
<1>6. \A k \in 1 .. Len(r) : EntryOK(r[k])
  BY <1>4, <1>5 DEF Prog
<1>7. ASSUME NEW k \in 1 .. Len(r), NEW n \in 1 .. Len(r), k < n
      PROVE  Before(At(r, k), At(r, n))
  <2>1. CASE n <= Len(p)
    <3>1. k <= Len(p)
      BY <1>1, <1>7, <2>1, <1>2
    <3> QED
      BY <3>1, <2>1, <1>4, <1>7 DEF Prog, At
  <2>2. CASE ~(n <= Len(p)) /\ k <= Len(p)
    <3>1. At(r, k) \in LeftOf(p)
      BY <2>2, <1>4 DEF LeftOf, At
    <3>2. At(r, n) \in LeftOf(q)
      BY <2>2, <1>5 DEF LeftOf, At
    <3> QED
      BY <3>1, <3>2
  <2>3. CASE ~(n <= Len(p)) /\ ~(k <= Len(p))
    <3>1. k - Len(p) < n - Len(p)
      BY <1>1, <1>7, <1>2
    <3>2. /\ k - Len(p) \in 1 .. Len(q) /\ n - Len(p) \in 1 .. Len(q)
          /\ At(r, k) = At(q, k - Len(p)) /\ At(r, n) = At(q, n - Len(p))
      BY <2>3, <1>5 DEF At
    <3> QED
      BY <3>1, <3>2 DEF Prog
  <2> QED
    BY <2>1, <2>2, <2>3
<1>8. LeftOf(r) \subseteq LeftOf(p) \cup LeftOf(q)
  <2>1. \A k \in 1 .. Len(r) : At(r, k) \in LeftOf(p) \cup LeftOf(q)
    BY <1>4, <1>5 DEF LeftOf, At
  <2> QED
    BY <2>1 DEF LeftOf
<1>9. LeftOf(p) \subseteq LeftOf(r)
  <2>1. \A k \in 1 .. Len(p) : k \in 1 .. Len(r) /\ k <= Len(p)
    BY <1>1, <1>2
  <2>2. \A k \in 1 .. Len(p) : At(p, k) \in LeftOf(r)
    BY <2>1, <1>4 DEF LeftOf, At
  <2> QED
    BY <2>2 DEF LeftOf
<1>10. LeftOf(q) \subseteq LeftOf(r)
  <2>1. \A k \in 1 .. Len(q) : /\ k + Len(p) \in 1 .. Len(r) /\ ~(k + Len(p) <= Len(p))
                               /\ (k + Len(p)) - Len(p) = k
    BY <1>1, <1>2
  <2>2. \A k \in 1 .. Len(q) : At(q, k) \in LeftOf(r)
    BY <2>1, <1>5 DEF LeftOf, At
  <2> QED
    BY <2>2 DEF LeftOf
<1>11. Prog(r)
  BY <1>2, <1>6, <1>7 DEF Prog
<1> QED
  BY <1>8, <1>9, <1>10, <1>11 DEF r

LEMMA Advance ==
  ASSUME NEW q, Prog(q), q # <<>>,
         NEW x, x = <<Head(q).call, Head(q).dev>>
  PROVE  /\ Prog(Tail(q))
         /\ x \in LeftOf(q) /\ LeftOf(Tail(q)) = LeftOf(q) \ {x}
         /\ \A y \in LeftOf(Tail(q)) : Before(x, y)
         /\ EntryOK(Head(q)) /\ x \in Pairs
<1> DEFINE r == Tail(q)
<1>1. q \in Seq(Entry) /\ Len(q) \in Nat /\ Len(q) >= 1 /\ Head(q) = q[1]
  BY DEF Prog
<1>2. /\ r \in Seq(Entry) /\ Len(r) = Len(q) - 1
      /\ \A k \in 1 .. Len(r) : r[k] = q[k + 1]
  BY <1>1
<1> HIDE DEF r
<1>3. \A k \in 1 .. Len(r) : k + 1 \in 1 .. Len(q) /\ 1 < k + 1 /\ At(r, k) = At(q, k + 1)
  BY <1>1, <1>2 DEF At
<1>4. x = At(q, 1) /\ 1 \in 1 .. Len(q)
  BY <1>1 DEF At
<1>5. \A k \in 1 .. Len(r) : EntryOK(r[k])
  BY <1>2, <1>3 DEF Prog
<1>6. \A k, n \in 1 .. Len(r) : k < n => k + 1 < n + 1
  BY <1>1, <1>2
<1>7. \A k \in 1 .. Len(r) : \A n \in 1 .. Len(r) : k < n => Before(At(r, k), At(r, n))
  BY <1>3, <1>6 DEF Prog
<1>8. Prog(r)
  BY <1>2, <1>5, <1>7 DEF Prog
<1>9. \A y \in LeftOf(r) : Before(x, y)
  BY <1>3, <1>4 DEF Prog, LeftOf
<1>10. LeftOf(r) \subseteq LeftOf(q) \ {x}
  <2>1. LeftOf(r) \subseteq LeftOf(q)
    BY <1>3 DEF LeftOf
  <2> QED
    BY <2>1, <1>9 DEF Before
<1>11. LeftOf(q) \ {x} \subseteq LeftOf(r)
  <2>1. \A k \in 1 .. Len(q) : k # 1 => k - 1 \in 1 .. Len(r) /\ (k - 1) + 1 = k
    BY <1>1, <1>2
  <2>2. \A k \in 1 .. Len(q) : k # 1 => At(q, k) \in LeftOf(r)
    BY <2>1, <1>3 DEF LeftOf
  <2> QED
    BY <2>2, <1>4 DEF LeftOf
<1>12. x \in LeftOf(q) /\ EntryOK(Head(q)) /\ x \in Pairs
  BY <1>1, <1>4 DEF LeftOf, Prog, EntryOK
<1> QED
  BY <1>8, <1>9, <1>10, <1>11, <1>12 DEF r

LEMMA Apart ==
  ASSUME NEW c, NEW from \in Int, NEW to \in Int, NEW d, NEW first \in Int, NEW last \in Int,
         c # d \/ to < first,
         d # "i2c_bus_init",
         c \in ShowKinds => d \notin StageKinds,
         c = "ws2812b_wait_done" /\ d = "ws2812b_show" => to < first,
         c = "ws2812b_write_grb" => d # "pca9955b_set_pixel",
         c = "i2c_del_master_bus" => d \notin DelKinds
  PROVE  \A x \in Block(c, from, to), y \in Block(d, first, last) : Before(x, y)
<1> SUFFICES ASSUME NEW m \in from .. to, NEW n \in first .. last
             PROVE  Before(<<c, m>>, <<d, n>>)
  BY DEF Block
<1>1. to < first => m < n
  OBVIOUS
<1>2. c = d => m < n
  BY <1>1
<1>3. c = d \/ to < first => m # n
  BY <1>1, <1>2
<1> QED
  BY <1>1, <1>2, <1>3 DEF Before

LEMMA InitProg ==
  Prog(InitCalls) /\ LeftOf(InitCalls) = Block("i2c_bus_init", 1, 1)
    \cup Block("ws2812b_init", 1, NumWs) \cup Block("pca9955b_init", 1, NumPca)
<1> DEFINE p == Calls("init", "i2c_bus_init", 1, 1)
           q == Calls("init", "ws2812b_init", 1, NumWs)
           r == Calls("init", "pca9955b_init", 1, NumPca)
<1>1. NumWs \in Nat /\ NumPca \in Nat /\ 1 <= NumWs + 1 /\ 1 <= NumPca + 1 /\ 1 <= 1 + 1
      /\ 1 \in Nat
  BY SizeAssumption
<1>2. Prog(p) /\ LeftOf(p) = Block("i2c_bus_init", 1, 1)
  <2>1. Block("i2c_bus_init", 1, 1) \subseteq Pairs
    BY DEF Block, Pairs, BusKinds
  <2> QED
    BY <1>1, <2>1, BlockProg DEF ShowKinds, BusKinds, Ops, Kinds
<1>3. Prog(q) /\ LeftOf(q) = Block("ws2812b_init", 1, NumWs)
  <2>1. Block("ws2812b_init", 1, NumWs) \subseteq Pairs
    BY DEF Block, Pairs, WsKinds, Strips
  <2> QED
    BY <1>1, <2>1, BlockProg DEF ShowKinds, BusKinds, Ops, Kinds, WsKinds, PcaKinds
<1>4. Prog(r) /\ LeftOf(r) = Block("pca9955b_init", 1, NumPca)
  <2>1. Block("pca9955b_init", 1, NumPca) \subseteq Pairs
    BY DEF Block, Pairs, PcaKinds, Chips
  <2> QED
    BY <1>1, <2>1, BlockProg DEF ShowKinds, BusKinds, Ops, Kinds, WsKinds, PcaKinds
<1>5. \A x \in LeftOf(p), y \in LeftOf(q) : Before(x, y)
  BY <1>1, <1>2, <1>3, Apart DEF ShowKinds, StageKinds
<1>6. \A x \in LeftOf(p), y \in LeftOf(r) : Before(x, y)
  BY <1>1, <1>2, <1>4, Apart DEF ShowKinds, StageKinds
<1>7. \A x \in LeftOf(q), y \in LeftOf(r) : Before(x, y)
  BY <1>1, <1>3, <1>4, Apart DEF ShowKinds, StageKinds
<1> HIDE DEF p, q, r
<1>8. Prog(p \o q) /\ LeftOf(p \o q) = LeftOf(p) \cup LeftOf(q)
  BY <1>2, <1>3, <1>5, Join
<1>9. \A x \in LeftOf(p \o q), y \in LeftOf(r) : Before(x, y)
  BY <1>6, <1>7, <1>8
<1>10. Prog((p \o q) \o r) /\ LeftOf((p \o q) \o r) = LeftOf(p \o q) \cup LeftOf(r)
  BY <1>8, <1>4, <1>9, Join
<1>11. InitCalls = (p \o q) \o r
  BY DEF InitCalls, p, q, r
<1> QED
  BY <1>2, <1>3, <1>4, <1>8, <1>10, <1>11

LEMMA DeinitProg ==
  Prog(DeinitCalls) /\ LeftOf(DeinitCalls) = Block("ws2812b_del", 1, NumWs)
    \cup Block("pca9955b_del", 1, NumPca) \cup Block("i2c_del_master_bus", 1, 1)
<1> DEFINE p == Calls("deinit", "ws2812b_del", 1, NumWs)
           q == Calls("deinit", "pca9955b_del", 1, NumPca)
           r == Calls("deinit", "i2c_del_master_bus", 1, 1)
<1>1. NumWs \in Nat /\ NumPca \in Nat /\ 1 <= NumWs + 1 /\ 1 <= NumPca + 1 /\ 1 <= 1 + 1
      /\ 1 \in Nat
  BY SizeAssumption
<1>2. Prog(p) /\ LeftOf(p) = Block("ws2812b_del", 1, NumWs)
  <2>1. Block("ws2812b_del", 1, NumWs) \subseteq Pairs
    BY DEF Block, Pairs, WsKinds, Strips
  <2> QED
    BY <1>1, <2>1, BlockProg DEF ShowKinds, BusKinds, Ops, Kinds, WsKinds, PcaKinds
<1>3. Prog(q) /\ LeftOf(q) = Block("pca9955b_del", 1, NumPca)
  <2>1. Block("pca9955b_del", 1, NumPca) \subseteq Pairs
    BY DEF Block, Pairs, PcaKinds, Chips
  <2> QED
    BY <1>1, <2>1, BlockProg DEF ShowKinds, BusKinds, Ops, Kinds, WsKinds, PcaKinds
<1>4. Prog(r) /\ LeftOf(r) = Block("i2c_del_master_bus", 1, 1)
  <2>1. Block("i2c_del_master_bus", 1, 1) \subseteq Pairs
    BY DEF Block, Pairs, BusKinds
  <2> QED
    BY <1>1, <2>1, BlockProg DEF ShowKinds, BusKinds, Ops, Kinds
<1>5. \A x \in LeftOf(p), y \in LeftOf(q) : Before(x, y)
  BY <1>1, <1>2, <1>3, Apart DEF ShowKinds, StageKinds
<1>6. \A x \in LeftOf(p), y \in LeftOf(r) : Before(x, y)
  BY <1>1, <1>2, <1>4, Apart DEF ShowKinds, StageKinds
<1>7. \A x \in LeftOf(q), y \in LeftOf(r) : Before(x, y)
  BY <1>1, <1>3, <1>4, Apart DEF ShowKinds, StageKinds
<1> HIDE DEF p, q, r
<1>8. Prog(p \o q) /\ LeftOf(p \o q) = LeftOf(p) \cup LeftOf(q)
  BY <1>2, <1>3, <1>5, Join
<1>9. \A x \in LeftOf(p \o q), y \in LeftOf(r) : Before(x, y)
  BY <1>6, <1>7, <1>8
<1>10. Prog((p \o q) \o r) /\ LeftOf((p \o q) \o r) = LeftOf(p \o q) \cup LeftOf(r)
  BY <1>8, <1>4, <1>9, Join
<1>11. DeinitCalls = (p \o q) \o r
  BY DEF DeinitCalls, p, q, r
<1> QED
  BY <1>2, <1>3, <1>4, <1>8, <1>10, <1>11

LEMMA Halves ==
  ASSUME NEW c, NEW n \in Nat, NEW k \in 0 .. n
  PROVE  Block(c, 1, n) = Block(c, 1, k) \cup Block(c, k + 1, n)
<1>1. 1 .. n = (1 .. k) \cup (k + 1 .. n)
  OBVIOUS
<1> QED
  BY <1>1 DEF Block

\* One half of show(): the strips from a on and the chips from b on.
HalfProgs(a, n, b, m) ==
  Calls("show", "ws2812b_show", a, n) \o Calls("show", "ws2812b_wait_done", a, n)
    \o Calls("show", "pca9955b_show", b, m)

LEMMA HalfProg ==
  ASSUME NEW a \in 1 .. NumWs + 1, NEW n \in 0 .. NumWs, a <= n + 1,
         NEW b \in 1 .. NumPca + 1, NEW m \in 0 .. NumPca, b <= m + 1
  PROVE  /\ Prog(HalfProgs(a, n, b, m))
         /\ LeftOf(HalfProgs(a, n, b, m)) = Block("ws2812b_show", a, n)
              \cup Block("ws2812b_wait_done", a, n) \cup Block("pca9955b_show", b, m)
<1> DEFINE p == Calls("show", "ws2812b_show", a, n)
           q == Calls("show", "ws2812b_wait_done", a, n)
           r == Calls("show", "pca9955b_show", b, m)
<1>1. /\ a \in Nat /\ n \in Nat /\ b \in Nat /\ m \in Nat
      /\ a .. n \subseteq Strips /\ b .. m \subseteq Chips
  BY SizeAssumption DEF Strips, Chips
<1>2. Prog(p) /\ LeftOf(p) = Block("ws2812b_show", a, n)
  <2>1. Block("ws2812b_show", a, n) \subseteq Pairs
    BY <1>1 DEF Block, Pairs, WsKinds
  <2> QED
    BY <1>1, <2>1, BlockProg DEF ShowKinds, BusKinds, Ops, Kinds, WsKinds, PcaKinds
<1>3. Prog(q) /\ LeftOf(q) = Block("ws2812b_wait_done", a, n)
  <2>1. Block("ws2812b_wait_done", a, n) \subseteq Pairs
    BY <1>1 DEF Block, Pairs, WsKinds
  <2> QED
    BY <1>1, <2>1, BlockProg DEF ShowKinds, BusKinds, Ops, Kinds, WsKinds, PcaKinds
<1>4. Prog(r) /\ LeftOf(r) = Block("pca9955b_show", b, m)
  <2>1. Block("pca9955b_show", b, m) \subseteq Pairs
    BY <1>1 DEF Block, Pairs, PcaKinds
  <2> QED
    BY <1>1, <2>1, BlockProg DEF ShowKinds, BusKinds, Ops, Kinds, WsKinds, PcaKinds
<1>5. \A x \in LeftOf(p), y \in LeftOf(q) : Before(x, y)
  BY <1>1, <1>2, <1>3, Apart DEF ShowKinds, StageKinds
<1>6. \A x \in LeftOf(p), y \in LeftOf(r) : Before(x, y)
  BY <1>1, <1>2, <1>4, Apart DEF ShowKinds, StageKinds
<1>7. \A x \in LeftOf(q), y \in LeftOf(r) : Before(x, y)
  BY <1>1, <1>3, <1>4, Apart DEF ShowKinds, StageKinds
<1> HIDE DEF p, q, r
<1>8. Prog(p \o q) /\ LeftOf(p \o q) = LeftOf(p) \cup LeftOf(q)
  BY <1>2, <1>3, <1>5, Join
<1>9. \A x \in LeftOf(p \o q), y \in LeftOf(r) : Before(x, y)
  BY <1>6, <1>7, <1>8
<1>10. Prog((p \o q) \o r) /\ LeftOf((p \o q) \o r) = LeftOf(p \o q) \cup LeftOf(r)
  BY <1>8, <1>4, <1>9, Join
<1>11. HalfProgs(a, n, b, m) = (p \o q) \o r
  BY DEF HalfProgs, p, q, r
<1> QED
  BY <1>2, <1>3, <1>4, <1>8, <1>10, <1>11

\* Everything show() calls.
ShowLeft == Block("ws2812b_show", 1, NumWs) \cup Block("ws2812b_wait_done", 1, NumWs)
              \cup Block("pca9955b_show", 1, NumPca)

\* Concatenation behind a name of its own, so that its associativity is used where it is cited.
Cat(f, g) == f \o g

LEMMA CatIn ==
  ASSUME NEW f \in Seq(Entry), NEW g \in Seq(Entry)
  PROVE  Cat(f, g) \in Seq(Entry)
BY DEF Cat

LEMMA CatAssociative ==
  ASSUME NEW f \in Seq(Entry), NEW g \in Seq(Entry), NEW h \in Seq(Entry)
  PROVE  Cat(Cat(f, g), h) = Cat(f, Cat(g, h))
BY ConcatAssociative DEF Cat

LEMMA ShowProg == Prog(ShowCalls) /\ LeftOf(ShowCalls) = ShowLeft
<1> DEFINE s == WsFirst + 1
           t == PcaFirst + 1
           p == HalfProgs(1, WsFirst, 1, PcaFirst)
           q == HalfProgs(s, NumWs, t, NumPca)
<1>1. /\ NumWs \in Nat /\ NumPca \in Nat /\ WsFirst \in 0 .. NumWs /\ PcaFirst \in 0 .. NumPca
      /\ WsFirst \in Nat /\ PcaFirst \in Nat
      /\ 1 \in 1 .. NumWs + 1 /\ 1 \in 1 .. NumPca + 1 /\ 1 <= WsFirst + 1 /\ 1 <= PcaFirst + 1
      /\ s \in 1 .. NumWs + 1 /\ t \in 1 .. NumPca + 1
      /\ s <= NumWs + 1 /\ t <= NumPca + 1 /\ NumWs \in 0 .. NumWs /\ NumPca \in 0 .. NumPca
      /\ WsFirst < s /\ PcaFirst < t /\ s \in Int /\ t \in Int
  BY SizeAssumption
<1> HIDE DEF s, t
<1>2. Prog(p) /\ LeftOf(p) = Block("ws2812b_show", 1, WsFirst)
        \cup Block("ws2812b_wait_done", 1, WsFirst) \cup Block("pca9955b_show", 1, PcaFirst)
  BY <1>1, HalfProg
<1>3. Prog(q) /\ LeftOf(q) = Block("ws2812b_show", s, NumWs)
        \cup Block("ws2812b_wait_done", s, NumWs) \cup Block("pca9955b_show", t, NumPca)
  BY <1>1, HalfProg
<1>4. ASSUME NEW x \in LeftOf(p), NEW y \in LeftOf(q)
      PROVE  Before(x, y)
  <2>1. PICK m \in Nat, c \in ShowKinds :
          /\ x = <<c, m>>
          /\ c # "pca9955b_show" => m <= WsFirst
          /\ c = "pca9955b_show" => m <= PcaFirst
    BY <1>1, <1>2 DEF Block, ShowKinds
  <2>2. PICK n \in Nat, d \in ShowKinds :
          /\ y = <<d, n>>
          /\ d # "pca9955b_show" => s <= n
          /\ d = "pca9955b_show" => t <= n
    BY <1>1, <1>3 DEF Block, ShowKinds, s, t
  <2>3. c = d => m # n
    BY <1>1, <2>1, <2>2
  <2>4. c # "pca9955b_show" /\ d # "pca9955b_show" => m # n
    BY <1>1, <2>1, <2>2
  <2> QED
    BY <2>1, <2>2, <2>3, <2>4 DEF Before, ShowKinds, StageKinds
<1> HIDE DEF p, q
<1>5. Prog(p \o q) /\ LeftOf(p \o q) = LeftOf(p) \cup LeftOf(q)
  BY <1>2, <1>3, <1>4, Join
<1>6. ShowCalls = p \o q
  <2> DEFINE a1 == Calls("show", "ws2812b_show", 1, WsFirst)
             a2 == Calls("show", "ws2812b_wait_done", 1, WsFirst)
             a3 == Calls("show", "pca9955b_show", 1, PcaFirst)
             b1 == Calls("show", "ws2812b_show", s, NumWs)
             b2 == Calls("show", "ws2812b_wait_done", s, NumWs)
             b3 == Calls("show", "pca9955b_show", t, NumPca)
  <2>1. /\ a1 \in Seq(Entry) /\ a2 \in Seq(Entry) /\ a3 \in Seq(Entry)
        /\ b1 \in Seq(Entry) /\ b2 \in Seq(Entry) /\ b3 \in Seq(Entry)
    <3>1. /\ "show" \in Ops /\ "ws2812b_show" \in Kinds /\ "ws2812b_wait_done" \in Kinds
          /\ "pca9955b_show" \in Kinds
      BY DEF Ops, Kinds, WsKinds, PcaKinds
    <3>2. 1 \in Nat /\ s \in Nat /\ t \in Nat
      BY <1>1 DEF s, t
    <3>3. a1 \in Seq(Entry) /\ a2 \in Seq(Entry) /\ a3 \in Seq(Entry)
      BY <1>1, <3>1, <3>2, BlockCalls
    <3>4. b1 \in Seq(Entry) /\ b2 \in Seq(Entry) /\ b3 \in Seq(Entry)
      BY <1>1, <3>1, <3>2, BlockCalls
    <3> QED
      BY <3>3, <3>4
  <2>2. ShowCalls = ((((a1 \o a2) \o a3) \o b1) \o b2) \o b3
    BY DEF ShowCalls, s, t
  <2>3. p = (a1 \o a2) \o a3 /\ q = (b1 \o b2) \o b3
    BY DEF p, q, HalfProgs
  <2> HIDE DEF a1, a2, a3, b1, b2, b3
  <2>4. p \in Seq(Entry)
    BY <2>1, <2>3
  <2>5. Cat(Cat(Cat(p, b1), b2), b3) = Cat(p, Cat(Cat(b1, b2), b3))
    BY <2>1, <2>4, CatIn, CatAssociative
  <2>6. ((p \o b1) \o b2) \o b3 = p \o ((b1 \o b2) \o b3)
    BY <2>5 DEF Cat
  <2> QED
    BY <2>2, <2>3, <2>6
<1>7. /\ Block("ws2812b_show", 1, NumWs) =
           Block("ws2812b_show", 1, WsFirst) \cup Block("ws2812b_show", s, NumWs)
      /\ Block("ws2812b_wait_done", 1, NumWs) =
           Block("ws2812b_wait_done", 1, WsFirst) \cup Block("ws2812b_wait_done", s, NumWs)
      /\ Block("pca9955b_show", 1, NumPca) =
           Block("pca9955b_show", 1, PcaFirst) \cup Block("pca9955b_show", t, NumPca)
  BY <1>1, Halves DEF s, t
<1> QED
  BY <1>2, <1>3, <1>5, <1>6, <1>7 DEF ShowLeft

LEMMA StageProg ==
  ASSUME NEW o \in {"write", "fill"}, NEW c, NEW d, NEW n \in Nat, NEW m \in Nat,
         \/ c = "pca9955b_set_pixel" /\ d = "ws2812b_write_grb" /\ n = NumPca /\ m = NumWs
              /\ o = "write"
         \/ c = "ws2812b_fill" /\ d = "pca9955b_fill" /\ n = NumWs /\ m = NumPca
  PROVE  /\ Prog((Calls(o, c, 1, n) \o Calls(o, d, 1, m)) \o ShowCalls)
         /\ LeftOf((Calls(o, c, 1, n) \o Calls(o, d, 1, m)) \o ShowCalls) =
              Block(c, 1, n) \cup Block(d, 1, m) \cup ShowLeft
<1> DEFINE p == Calls(o, c, 1, n)
           q == Calls(o, d, 1, m)
<1>1. /\ c \in Kinds /\ d \in Kinds /\ o \in Ops /\ c \in StageKinds /\ d \in StageKinds
      /\ c \notin ShowKinds /\ d \notin ShowKinds /\ c \notin BusKinds /\ d \notin BusKinds
      /\ c # d
      /\ 1 \in Nat /\ 1 <= n + 1 /\ 1 <= m + 1
  BY DEF StageKinds, ShowKinds, BusKinds, Ops, Kinds, WsKinds, PcaKinds
<1>2. Block(c, 1, n) \subseteq Pairs /\ Block(d, 1, m) \subseteq Pairs
  BY DEF Block, Pairs, WsKinds, PcaKinds, Strips, Chips
<1>3. Prog(p) /\ LeftOf(p) = Block(c, 1, n)
  BY <1>1, <1>2, BlockProg
<1>4. Prog(q) /\ LeftOf(q) = Block(d, 1, m)
  BY <1>1, <1>2, BlockProg
<1>5. \A x \in LeftOf(p), y \in LeftOf(q) : Before(x, y)
  <2>1. d # "i2c_bus_init" /\ c # "i2c_del_master_bus" /\ c # "ws2812b_wait_done"
        /\ c # "ws2812b_write_grb" /\ 1 \in Int /\ n \in Int /\ m \in Int
    OBVIOUS
  <2> QED
    BY <1>1, <1>3, <1>4, <2>1, Apart
<1> HIDE DEF p, q
<1>6. Prog(p \o q) /\ LeftOf(p \o q) = LeftOf(p) \cup LeftOf(q)
  BY <1>3, <1>4, <1>5, Join
<1>7. ASSUME NEW x \in LeftOf(p \o q), NEW y \in LeftOf(ShowCalls)
      PROVE  Before(x, y)
  <2>1. x[1] \in StageKinds
    BY <1>1, <1>3, <1>4, <1>6 DEF Block
  <2>2. y[1] \in ShowKinds
    BY ShowProg DEF ShowLeft, Block, ShowKinds
  <2> QED
    BY <2>1, <2>2 DEF Before, StageKinds, ShowKinds, DelKinds
<1>8. Prog((p \o q) \o ShowCalls) /\ LeftOf((p \o q) \o ShowCalls) = LeftOf(p \o q) \cup LeftOf(ShowCalls)
  BY <1>6, <1>7, ShowProg, Join
<1> QED
  BY <1>3, <1>4, <1>6, <1>8, ShowProg DEF p, q

LEMMA WriteProg ==
  /\ Prog(WriteFrameCalls \o ShowCalls)
  /\ LeftOf(WriteFrameCalls \o ShowCalls) = Block("pca9955b_set_pixel", 1, NumPca)
       \cup Block("ws2812b_write_grb", 1, NumWs) \cup ShowLeft
BY StageProg, SizeAssumption DEF WriteFrameCalls

LEMMA FillProg ==
  /\ Prog(FillCalls \o ShowCalls)
  /\ LeftOf(FillCalls \o ShowCalls) = Block("ws2812b_fill", 1, NumWs)
       \cup Block("pca9955b_fill", 1, NumPca) \cup ShowLeft
BY StageProg, SizeAssumption DEF FillCalls

Left == LeftOf(todo)
Pending(call, d) == <<call, d>> \in Left

Strip == [channel : {Null} \cup Channels, pixels : BOOLEAN, buffer : Nat]
Chip  == [dev : BOOLEAN, buffer : Nat, enable : BOOLEAN]
Regs  == [iref : BOOLEAN, pwm : Nat \cup {Torn}]
Tx    == [queued : Nat, part : {1, 2}]

TypesOK ==
  /\ unused \subseteq Strips
  /\ bus_handle \in BOOLEAN /\ port \in BOOLEAN
  /\ ws2812b \in [Strips -> Strip]
  /\ pca9955b \in [Chips -> Chip]
  /\ attached \subseteq Chips /\ taken \subseteq Channels
  /\ tx \in [Strips -> Tx]
  /\ lit \in [Strips -> [{1, 2} -> Nat]]
  /\ chip \in [Chips -> Regs]
  /\ phase \in {"released", "acquiring", "acquired", "releasing"}
  /\ ret \in {"ok", "error"}
  /\ wanted \in [colour : Nat, op : {"init", "write", "fill"}]
  /\ faults \in Nat

Has(j) == pca9955b[j].dev

Releasing == phase = "releasing" \/ (phase = "acquiring" /\ ret = "error")

InPhase ==
  /\ \A x \in Left : x[1] \in InitKinds => phase = "acquiring" /\ ret = "ok"
  /\ \A x \in Left : x[1] \in StageKinds \cup ShowKinds => phase = "acquired" /\ wanted.op # "init"
  /\ \A x \in Left : x[1] = "ws2812b_write_grb" => wanted.op = "write"
  /\ \A x \in Left : x[1] = "ws2812b_fill" => wanted.op = "fill"
  /\ \A x \in Left : x[1] \in DelKinds => Releasing
  /\ phase = "acquiring" => wanted.op = "init"
  /\ wanted.op \in {"init", "fill"} => wanted.colour = 0
  /\ phase = "released" => todo = <<>>

\* init() finds nothing it made itself ...
BeforeInit ==
  /\ Pending("i2c_bus_init", 1) => /\ ~bus_handle
                                   /\ \A i \in Strips : ~Alive(i)
                                   /\ \A j \in Chips : ~Has(j)
  /\ \A i \in Strips : Pending("ws2812b_init", i) => ~Alive(i)
  /\ \A j \in Chips : Pending("pca9955b_init", j) => ~Has(j)
  /\ phase = "acquiring" /\ ret = "ok" => Pending("i2c_bus_init", 1) \/ bus_handle

\* ... deinit() takes down everything there is ...
BeforeDeinit ==
  /\ Releasing =>
       /\ \A i \in Strips : Alive(i) => Pending("ws2812b_del", i)
       /\ \A j \in Chips : Has(j) => Pending("pca9955b_del", j)
       /\ bus_handle => Pending("i2c_del_master_bus", 1)
  /\ phase = "released" => bus_handle \/ (/\ \A i \in Strips : ~Alive(i)
                                          /\ \A j \in Chips : ~Has(j))

\* ... and in between the flags agree with the handles.
Flags ==
  /\ phase = "acquired" => \A j \in Chips : pca9955b[j].enable => Has(j)
  /\ phase = "acquiring" /\ ret = "ok" =>
       \A j \in Chips : pca9955b[j].enable => Has(j) \/ Pending("pca9955b_init", j)
  /\ \A j \in Chips : Has(j) => pca9955b[j].enable
  /\ \A i \in Strips : Alive(i) => ws2812b[i].pixels

Life == BeforeInit /\ BeforeDeinit /\ Flags

Owned ==
  /\ \A i \in Strips : Alive(i) => ws2812b[i].channel \in taken
  /\ \A i, k \in Strips : i # k /\ Alive(i) => ws2812b[i].channel # ws2812b[k].channel
  /\ NothingOrphaned

Dark ==
  /\ \A i \in Strips : ~Alive(i) \/ phase \in {"released", "acquiring"} =>
       ws2812b[i].buffer = 0 /\ (<<"ws", i>> \in lost \/ lit[i] = <<0, 0>>)
  /\ \A j \in Chips : ~Has(j) \/ phase \in {"released", "acquiring"} =>
       pca9955b[j].buffer = 0 /\ (<<"pca", j>> \in lost \/ Light(j) = 0)

Started ==
  wanted.op = "init" /\ phase \in {"acquiring", "acquired"} =>
    /\ \A i \in Strips : /\ ws2812b[i].buffer = 0
                         /\ Alive(i) /\ <<"ws", i>> \notin hit => lit[i] = <<0, 0>>
    /\ \A j \in Chips : /\ pca9955b[j].buffer = 0
                        /\ Has(j) /\ <<"pca", j>> \notin hit => Light(j) = 0

WsStage  == IF wanted.op = "write" THEN "ws2812b_write_grb" ELSE "ws2812b_fill"
PcaStages == IF wanted.op = "write" THEN "pca9955b_set_pixel" ELSE "pca9955b_fill"

InFrame == phase = "acquired" /\ wanted.op # "init"

WsFrame(i) ==
  /\ Pending(WsStage, i) => Pending("ws2812b_show", i)
  /\ Pending("ws2812b_show", i) => Pending("ws2812b_wait_done", i)
  /\ Reached(i) /\ <<"ws", i>> \notin hit =>
       /\ ~Pending(WsStage, i) => ws2812b[i].buffer = wanted.colour
       /\ ~Pending("ws2812b_show", i) =>
            /\ tx[i].queued = 0 => lit[i] = <<wanted.colour, wanted.colour>>
            /\ tx[i].queued = 1 /\ tx[i].part = 2 => lit[i][1] = wanted.colour
       /\ ~Pending("ws2812b_wait_done", i) => tx[i].queued = 0
  /\ ret = "ok" => <<"ws", i>> \notin hit /\ (Alive(i) \/ Pending("ws2812b_show", i))

PcaFrame(j) ==
  /\ Pending(PcaStages, j) => Pending("pca9955b_show", j)
  /\ pca9955b[j].enable /\ <<"pca", j>> \notin hit =>
       /\ ~Pending(PcaStages, j) => pca9955b[j].buffer = wanted.colour
       /\ ~Pending("pca9955b_show", j) => Light(j) = wanted.colour

Frame ==
  /\ \A i \in Strips : tx[i].queued = 0 => tx[i].part = 1
  /\ InFrame => /\ \A i \in Strips : WsFrame(i)
                /\ \A j \in Chips : PcaFrame(j)

-----------------------------------------------------------------------------
(* What a step does to the calls that are left *)

LEMMA Calling ==
  ASSUME Prog(todo), NEW call, Now(call)
  PROVE  /\ Pending(call, Dev) /\ <<call, Dev>> \in Pairs
         /\ call \in WsKinds => Dev \in Strips
         /\ call \in PcaKinds => Dev \in Chips
         /\ call \in BusKinds => Dev = 1
         /\ call \in ShowKinds => Head(todo).op = "show"
         /\ call = "ws2812b_write_grb" => Head(todo).op = "write"
<1> DEFINE x == <<call, Dev>>
<1>1. todo # <<>> /\ x = <<Head(todo).call, Head(todo).dev>> /\ Head(todo).call = call
  BY DEF Now, Dev
<1>2. x \in LeftOf(todo) /\ EntryOK(Head(todo)) /\ x \in Pairs
  BY <1>1, Advance
<1>3. /\ call \in ShowKinds => Head(todo).op = "show"
      /\ call = "ws2812b_write_grb" => Head(todo).op = "write"
  BY <1>1, <1>2 DEF EntryOK
<1>4. /\ call \in WsKinds => Dev \in Strips
      /\ call \in PcaKinds => Dev \in Chips
      /\ call \in BusKinds => Dev = 1
  BY <1>2 DEF Pairs, WsKinds, PcaKinds, BusKinds
<1> QED
  BY <1>2, <1>3, <1>4 DEF Pending, Left

LEMMA Called ==
  ASSUME Prog(todo), NEW call, Now(call), todo' = Tail(todo)
  PROVE  /\ Prog(todo)' /\ Left' = Left \ {<<call, Dev>>}
         /\ \A y \in Left' : Before(<<call, Dev>>, y)
<1> DEFINE x == <<call, Dev>>
<1>1. todo # <<>> /\ x = <<Head(todo).call, Head(todo).dev>>
  BY DEF Now, Dev
<1>2. /\ Prog(Tail(todo)) /\ LeftOf(Tail(todo)) = LeftOf(todo) \ {x}
      /\ \A y \in LeftOf(Tail(todo)) : Before(x, y)
  BY <1>1, Advance
<1> QED
  BY <1>2 DEF Left, Prog, LeftOf

LEMMA NothingLeft == Prog(<<>>) /\ LeftOf(<<>>) = {}
<1>1. <<>> \in Seq(Entry) /\ Len(<<>>) = 0
  OBVIOUS
<1>2. 1 .. Len(<<>>) = {}
  BY <1>1
<1> QED
  BY <1>1, <1>2 DEF Prog, LeftOf

LEMMA Kept == ASSUME todo' = todo PROVE Left' = Left /\ (Prog(todo) => Prog(todo)')
BY DEF Left, LeftOf, Prog

\* A step that makes a driver call and goes on with the next one.
LEMMA CallSteps ==
  ASSUME Prog(todo),
         NEW call, Now(call),
         Returns \/ (Fails /\ call \in ShowKinds)
  PROVE  todo' = Tail(todo)
<1>1. call \in ShowKinds => Head(todo).op # "write"
  BY Calling
<1> QED
  BY <1>1 DEF Returns, Fails

LEMMA ProgStep == ASSUME Prog(todo), Step PROVE Prog(todo)'
<1>1. CASE Acquire \/ Update \/ Blackout \/ Release
  <2>1. todo' \in {InitCalls, WriteFrameCalls \o ShowCalls, FillCalls \o ShowCalls, DeinitCalls}
    BY <1>1 DEF Acquire, Update, Blackout, Pass, Release
  <2> QED
    BY <2>1, InitProg, WriteProg, FillProg, DeinitProg DEF Prog
<1>2. CASE Acquired \/ Released \/ (\E i \in Strips : Shift(i)) \/ (\E j \in Chips : PowerDip(j))
  <2>1. todo' = todo
    BY <1>2 DEF Acquired, Released, Shift, PowerDip
  <2> QED
    BY <2>1, Kept
<1>3. CASE BusInit
  <2>1. CASE Returns
    BY <1>3, <2>1, Called DEF BusInit, Returns
  <2>2. CASE todo' = DeinitCalls
    BY <2>2, DeinitProg DEF Prog
  <2> QED
    BY <1>3, <2>1, <2>2 DEF BusInit
<1>4. CASE BusDel
  BY <1>4, Called DEF BusDel, Returns
<1>5. CASE Ws
  <2>1. CASE WsInit
    BY <2>1, Called DEF WsInit, Returns
  <2>2. CASE WsFill
    BY <2>2, Called DEF WsFill, Returns
  <2>3. CASE WsDel
    BY <2>3, Called DEF WsDel, Returns
  <2>4. CASE WsShow
    <3>1. Now("ws2812b_show") /\ (Returns \/ Fails)
      BY <2>4 DEF WsShow
    <3>2. todo' = Tail(todo)
      BY <3>1, CallSteps DEF ShowKinds
    <3> QED
      BY <3>1, <3>2, Called
  <2>5. CASE WsWait
    <3>1. Now("ws2812b_wait_done") /\ (Returns \/ Fails)
      BY <2>5 DEF WsWait
    <3>2. todo' = Tail(todo)
      BY <3>1, CallSteps DEF ShowKinds
    <3> QED
      BY <3>1, <3>2, Called
  <2>6. CASE WsWrite
    <3>1. CASE Returns
      BY <2>6, <3>1, Called DEF WsWrite, Returns
    <3>2. CASE Fails
      <4>1. todo' = ShowCalls
        BY <2>6, <3>2, Calling DEF WsWrite, Fails
      <4> QED
        BY <4>1, ShowProg DEF Prog
    <3> QED
      BY <2>6, <3>1, <3>2 DEF WsWrite
  <2> QED
    BY <1>5, <2>1, <2>2, <2>3, <2>4, <2>5, <2>6 DEF Ws
<1>6. CASE Pca
  <2>1. CASE PcaInit
    BY <2>1, Called DEF PcaInit, Returns
  <2>2. CASE PcaStage
    BY <2>2, Called DEF PcaStage, Returns
  <2>3. CASE PcaDel
    BY <2>3, Called DEF PcaDel, Returns
  <2>4. CASE PcaShow
    <3>1. Now("pca9955b_show") /\ (Returns \/ Fails)
      BY <2>4 DEF PcaShow
    <3>2. todo' = Tail(todo)
      BY <3>1, CallSteps DEF ShowKinds
    <3> QED
      BY <3>1, <3>2, Called
  <2> QED
    BY <1>6, <2>1, <2>2, <2>3, <2>4 DEF Pca
<1> QED
  BY <1>1, <1>2, <1>3, <1>4, <1>5, <1>6 DEF Step

-----------------------------------------------------------------------------
(* Records and functions that change in one place *)

\* f and g differ at x only.
Only(S, f, g, x) == \A y \in S : y # x => g[y] = f[y]

LEMMA StripPixels ==
  ASSUME TypesOK, NEW i \in Strips, NEW p \in BOOLEAN,
         ws2812b' = [ws2812b EXCEPT ![i].pixels = p]
  PROVE  /\ ws2812b' \in [Strips -> Strip] /\ Only(Strips, ws2812b, ws2812b', i)
         /\ ws2812b'[i].pixels = p /\ ws2812b'[i].channel = ws2812b[i].channel /\ ws2812b'[i].buffer = ws2812b[i].buffer
<1> DEFINE r == [ws2812b[i] EXCEPT !.pixels = p]
<1>0. ws2812b \in [Strips -> Strip]
  BY DEF TypesOK
<1>1. ws2812b[i] \in Strip
  BY <1>0
<1>2. r \in Strip /\ r.pixels = p /\ r.channel = ws2812b[i].channel /\ r.buffer = ws2812b[i].buffer
  BY <1>1 DEF Strip
<1>3. ws2812b' = [ws2812b EXCEPT ![i] = r]
  BY <1>0
<1> HIDE DEF r
<1>5. ws2812b' \in [Strips -> Strip] /\ Only(Strips, ws2812b, ws2812b', i) /\ ws2812b'[i] = r
  BY <1>0, <1>2, <1>3 DEF Only
<1> QED
  BY <1>2, <1>5

LEMMA StripBuffer ==
  ASSUME TypesOK, NEW i \in Strips, NEW b \in Nat,
         ws2812b' = [ws2812b EXCEPT ![i].buffer = b]
  PROVE  /\ ws2812b' \in [Strips -> Strip] /\ Only(Strips, ws2812b, ws2812b', i)
         /\ ws2812b'[i].buffer = b /\ ws2812b'[i].channel = ws2812b[i].channel /\ ws2812b'[i].pixels = ws2812b[i].pixels
<1> DEFINE r == [ws2812b[i] EXCEPT !.buffer = b]
<1>0. ws2812b \in [Strips -> Strip]
  BY DEF TypesOK
<1>1. ws2812b[i] \in Strip
  BY <1>0
<1>2. r \in Strip /\ r.buffer = b /\ r.channel = ws2812b[i].channel /\ r.pixels = ws2812b[i].pixels
  BY <1>1 DEF Strip
<1>3. ws2812b' = [ws2812b EXCEPT ![i] = r]
  BY <1>0
<1> HIDE DEF r
<1>5. ws2812b' \in [Strips -> Strip] /\ Only(Strips, ws2812b, ws2812b', i) /\ ws2812b'[i] = r
  BY <1>0, <1>2, <1>3 DEF Only
<1> QED
  BY <1>2, <1>5

LEMMA StripGone ==
  ASSUME TypesOK, NEW i \in Strips,
         ws2812b' = [ws2812b EXCEPT ![i].channel = Null, ![i].buffer = 0]
  PROVE  /\ ws2812b' \in [Strips -> Strip] /\ Only(Strips, ws2812b, ws2812b', i)
         /\ ws2812b'[i].channel = Null /\ ws2812b'[i].buffer = 0 /\ ws2812b'[i].pixels = ws2812b[i].pixels
<1> DEFINE q == [ws2812b[i] EXCEPT !.channel = Null]
           r == [q EXCEPT !.buffer = 0]
<1>0. ws2812b \in [Strips -> Strip]
  BY DEF TypesOK
<1>1. ws2812b[i] \in Strip
  BY <1>0
<1>2. q \in Strip /\ q.channel = Null /\ q.buffer = ws2812b[i].buffer /\ q.pixels = ws2812b[i].pixels
  BY <1>1 DEF Strip
<1>4. ws2812b' = [ws2812b EXCEPT ![i] = r]
  BY <1>0
<1> HIDE DEF q
<1>3. r \in Strip /\ r.channel = Null /\ r.buffer = 0 /\ r.pixels = ws2812b[i].pixels
  BY <1>2 DEF Strip
<1> HIDE DEF r
<1>5. ws2812b' \in [Strips -> Strip] /\ Only(Strips, ws2812b, ws2812b', i) /\ ws2812b'[i] = r
  BY <1>0, <1>3, <1>4 DEF Only
<1> QED
  BY <1>3, <1>5

LEMMA ChipBuffer ==
  ASSUME TypesOK, NEW j \in Chips, NEW b \in Nat,
         pca9955b' = [pca9955b EXCEPT ![j].buffer = b]
  PROVE  /\ pca9955b' \in [Chips -> Chip] /\ Only(Chips, pca9955b, pca9955b', j)
         /\ pca9955b'[j].buffer = b /\ pca9955b'[j].dev = pca9955b[j].dev /\ pca9955b'[j].enable = pca9955b[j].enable
<1> DEFINE r == [pca9955b[j] EXCEPT !.buffer = b]
<1>0. pca9955b \in [Chips -> Chip]
  BY DEF TypesOK
<1>1. pca9955b[j] \in Chip
  BY <1>0
<1>2. r \in Chip /\ r.buffer = b /\ r.dev = pca9955b[j].dev /\ r.enable = pca9955b[j].enable
  BY <1>1 DEF Chip
<1>3. pca9955b' = [pca9955b EXCEPT ![j] = r]
  BY <1>0
<1> HIDE DEF r
<1>5. pca9955b' \in [Chips -> Chip] /\ Only(Chips, pca9955b, pca9955b', j) /\ pca9955b'[j] = r
  BY <1>0, <1>2, <1>3 DEF Only
<1> QED
  BY <1>2, <1>5

LEMMA ChipCleared ==
  ASSUME TypesOK, NEW j \in Chips,
         NEW r, r = [pca9955b[j] EXCEPT !.dev = FALSE, !.buffer = 0]
  PROVE  r \in Chip /\ r.dev = FALSE /\ r.buffer = 0 /\ r.enable = pca9955b[j].enable
<1> DEFINE q == [pca9955b[j] EXCEPT !.dev = FALSE]
<1>0. pca9955b \in [Chips -> Chip]
  BY DEF TypesOK
<1>1. pca9955b[j] \in Chip
  BY <1>0
<1>2. q \in Chip /\ q.dev = FALSE /\ q.buffer = pca9955b[j].buffer /\ q.enable = pca9955b[j].enable
  BY <1>1 DEF Chip
<1>3. r = [q EXCEPT !.buffer = 0]
  OBVIOUS
<1> HIDE DEF q
<1> QED
  BY <1>2, <1>3 DEF Chip

LEMMA RegsIref ==
  ASSUME TypesOK, NEW j \in Chips, chip' = [chip EXCEPT ![j].iref = TRUE]
  PROVE  /\ chip' \in [Chips -> Regs] /\ Only(Chips, chip, chip', j)
         /\ chip'[j].iref = TRUE /\ chip'[j].pwm = chip[j].pwm
<1> DEFINE r == [chip[j] EXCEPT !.iref = TRUE]
<1>0. chip \in [Chips -> Regs]
  BY DEF TypesOK
<1>1. chip[j] \in Regs
  BY <1>0
<1>2. r \in Regs /\ r.iref = TRUE /\ r.pwm = chip[j].pwm
  BY <1>1 DEF Regs
<1>3. chip' = [chip EXCEPT ![j] = r]
  BY <1>0
<1> HIDE DEF r
<1>5. chip' \in [Chips -> Regs] /\ Only(Chips, chip, chip', j) /\ chip'[j] = r
  BY <1>0, <1>2, <1>3 DEF Only
<1> QED
  BY <1>2, <1>5

LEMMA RegsPwm ==
  ASSUME TypesOK, NEW j \in Chips, NEW p \in Nat \cup {Torn},
         chip' = [chip EXCEPT ![j].pwm = p]
  PROVE  /\ chip' \in [Chips -> Regs] /\ Only(Chips, chip, chip', j)
         /\ chip'[j].pwm = p /\ chip'[j].iref = chip[j].iref
<1> DEFINE r == [chip[j] EXCEPT !.pwm = p]
<1>0. chip \in [Chips -> Regs]
  BY DEF TypesOK
<1>1. chip[j] \in Regs
  BY <1>0
<1>2. r \in Regs /\ r.pwm = p /\ r.iref = chip[j].iref
  BY <1>1 DEF Regs
<1>3. chip' = [chip EXCEPT ![j] = r]
  BY <1>0
<1> HIDE DEF r
<1>5. chip' \in [Chips -> Regs] /\ Only(Chips, chip, chip', j) /\ chip'[j] = r
  BY <1>0, <1>2, <1>3 DEF Only
<1> QED
  BY <1>2, <1>5

LEMMA TxQueued ==
  ASSUME TypesOK, NEW i \in Strips, NEW n \in Nat,
         tx' = [tx EXCEPT ![i].queued = n]
  PROVE  /\ tx' \in [Strips -> Tx] /\ Only(Strips, tx, tx', i)
         /\ tx'[i].queued = n /\ tx'[i].part = tx[i].part
<1> DEFINE r == [tx[i] EXCEPT !.queued = n]
<1>0. tx \in [Strips -> Tx]
  BY DEF TypesOK
<1>1. tx[i] \in Tx
  BY <1>0
<1>2. r \in Tx /\ r.queued = n /\ r.part = tx[i].part
  BY <1>1 DEF Tx
<1>3. tx' = [tx EXCEPT ![i] = r]
  BY <1>0
<1> HIDE DEF r
<1>5. tx' \in [Strips -> Tx] /\ Only(Strips, tx, tx', i) /\ tx'[i] = r
  BY <1>0, <1>2, <1>3 DEF Only
<1> QED
  BY <1>2, <1>5

LEMMA BothParts ==
  ASSUME NEW f \in [{1, 2} -> Nat], NEW a \in Nat, NEW b \in Nat
  PROVE  /\ <<a, b>> \in [{1, 2} -> Nat]
         /\ f = <<a, b>> <=> f[1] = a /\ f[2] = b
<1>1. <<a, b>> \in [{1, 2} -> Nat]
  OBVIOUS
<1> QED
  BY <1>1

LEMMA LitPart ==
  ASSUME TypesOK, NEW i \in Strips, NEW p \in {1, 2}, NEW b \in Nat,
         lit' = [lit EXCEPT ![i][p] = b]
  PROVE  /\ lit' \in [Strips -> [{1, 2} -> Nat]] /\ Only(Strips, lit, lit', i)
         /\ lit'[i][p] = b /\ \A q \in {1, 2} : q # p => lit'[i][q] = lit[i][q]
<1> DEFINE r == [lit[i] EXCEPT ![p] = b]
<1>0. lit \in [Strips -> [{1, 2} -> Nat]]
  BY DEF TypesOK
<1>1. lit[i] \in [{1, 2} -> Nat]
  BY <1>0
<1>2. r \in [{1, 2} -> Nat] /\ r[p] = b /\ \A q \in {1, 2} : q # p => r[q] = lit[i][q]
  BY <1>1
<1>3. lit' = [lit EXCEPT ![i] = r]
  BY <1>0
<1> HIDE DEF r
<1>5. lit' \in [Strips -> [{1, 2} -> Nat]] /\ Only(Strips, lit, lit', i) /\ lit'[i] = r
  BY <1>0, <1>2, <1>3 DEF Only
<1> QED
  BY <1>2, <1>5

LEMMA TxPart ==
  ASSUME TypesOK, NEW i \in Strips, tx[i].queued > 0,
         tx' = [tx EXCEPT ![i] = IF @.part = 1 THEN [@ EXCEPT !.part = 2]
                                     ELSE [queued |-> @.queued - 1, part |-> 1]]
  PROVE  /\ tx' \in [Strips -> Tx] /\ Only(Strips, tx, tx', i)
         /\ tx[i].part = 1 => tx'[i].part = 2 /\ tx'[i].queued = tx[i].queued
         /\ tx[i].part # 1 => tx'[i].part = 1 /\ tx'[i].queued = tx[i].queued - 1
<1> DEFINE r == IF tx[i].part = 1 THEN [tx[i] EXCEPT !.part = 2]
                ELSE [queued |-> tx[i].queued - 1, part |-> 1]
<1>0. tx \in [Strips -> Tx]
  BY DEF TypesOK
<1>1. tx[i] \in Tx
  BY <1>0
<1>2. tx[i].queued \in Nat /\ tx[i].queued - 1 \in Nat
  BY <1>1 DEF Tx
<1>3. /\ r \in Tx
      /\ tx[i].part = 1 => r.part = 2 /\ r.queued = tx[i].queued
      /\ tx[i].part # 1 => r.part = 1 /\ r.queued = tx[i].queued - 1
  BY <1>1, <1>2 DEF Tx
<1>4. tx' = [tx EXCEPT ![i] = r]
  BY <1>0
<1> HIDE DEF r
<1>5. tx' \in [Strips -> Tx] /\ Only(Strips, tx, tx', i) /\ tx'[i] = r
  BY <1>0, <1>3, <1>4 DEF Only
<1> QED
  BY <1>3, <1>5

LEMMA NothingFields == NothingTx \in Tx /\ NothingTx.queued = 0 /\ NothingTx.part = 1
BY DEF NothingTx, Tx
-----------------------------------------------------------------------------
(* What each step does, place by place *)

LEMMA NewChannelIn ==
  ASSUME ~ Channels \subseteq taken
  PROVE  NewChannel \in Channels /\ NewChannel \notin taken /\ NewChannel # Null
<1>1. \E c \in Channels \ taken : TRUE
  OBVIOUS
<1>2. NewChannel \in Channels \ taken
  BY <1>1 DEF NewChannel
<1>3. 0 \notin Channels
  BY SizeAssumption DEF Channels
<1> QED
  BY <1>2, <1>3 DEF Null

LEMMA ReadyDoes ==
  ASSUME TypesOK, NEW i \in Strips, NEW c \in Channels, StripReady(i, c)
  PROVE  /\ ws2812b' \in [Strips -> Strip] /\ Only(Strips, ws2812b, ws2812b', i)
         /\ ws2812b'[i].channel = c /\ ws2812b'[i].pixels = TRUE /\ ws2812b'[i].buffer = 0
<1> DEFINE r == [channel |-> c, pixels |-> TRUE, buffer |-> 0]
<1>1. r \in Strip /\ r.channel = c /\ r.pixels = TRUE /\ r.buffer = 0
  BY DEF Strip
<1>2. ws2812b' = [ws2812b EXCEPT ![i] = r] /\ ws2812b \in [Strips -> Strip]
  BY DEF StripReady, TypesOK
<1> HIDE DEF r
<1>3. ws2812b' \in [Strips -> Strip] /\ Only(Strips, ws2812b, ws2812b', i) /\ ws2812b'[i] = r
  BY <1>1, <1>2 DEF Only
<1> QED
  BY <1>1, <1>3

LEMMA BlackDoes ==
  ASSUME TypesOK, NEW i \in Strips, lit' = [lit EXCEPT ![i] = <<0, 0>>]
  PROVE  lit' \in [Strips -> [{1, 2} -> Nat]] /\ Only(Strips, lit, lit', i) /\ lit'[i] = <<0, 0>>
<1>1. <<0, 0>> \in [{1, 2} -> Nat] /\ lit \in [Strips -> [{1, 2} -> Nat]]
  BY DEF TypesOK
<1> DEFINE r == <<0, 0>>
<1>2. lit' = [lit EXCEPT ![i] = r]
  OBVIOUS
<1> HIDE DEF r
<1>3. r \in [{1, 2} -> Nat]
  BY <1>1 DEF r
<1>4. lit' \in [Strips -> [{1, 2} -> Nat]] /\ Only(Strips, lit, lit', i) /\ lit'[i] = r
  BY <1>1, <1>2, <1>3 DEF Only
<1> QED
  BY <1>4 DEF r

\* The strip's handles and buffer stay.
StripKept(i) ==
  /\ ws2812b' \in [Strips -> Strip] /\ Only(Strips, ws2812b, ws2812b', i)
  /\ ws2812b'[i].channel = ws2812b[i].channel /\ ws2812b'[i].buffer = ws2812b[i].buffer

StripMade(i) ==
  /\ ws2812b' \in [Strips -> Strip] /\ Only(Strips, ws2812b, ws2812b', i)
  /\ ws2812b'[i].channel = NewChannel
  /\ ws2812b'[i].pixels = TRUE /\ ws2812b'[i].buffer = 0
  /\ NewChannel \in Channels /\ NewChannel \notin taken /\ NewChannel # Null
  /\ taken' = taken \cup {NewChannel}

StripBlack(i) == lit' \in [Strips -> [{1, 2} -> Nat]] /\ Only(Strips, lit, lit', i) /\ lit'[i] = <<0, 0>>

LEMMA WsInitDoes ==
  ASSUME TypesOK, Prog(todo), WsInit, NEW i, i = Dev
  PROVE  /\ i \in Strips /\ todo' = Tail(todo) /\ ret' = ret
         /\ \/ /\ StripKept(i) /\ hit' \in {hit, hit \cup {<<"ws", i>>}}
               /\ UNCHANGED <<taken, tx, lit, chip, lost, cause>>
            \/ /\ StripMade(i) /\ StripBlack(i) /\ lost' = lost \ {<<"ws", i>>}
               /\ UNCHANGED <<tx, chip, cause, hit>>
            \/ /\ StripMade(i) /\ hit' = hit \cup {<<"ws", i>>}
               /\ tx' \in [Strips -> Tx] /\ Only(Strips, tx, tx', i) /\ tx'[i].queued = 1
               /\ UNCHANGED <<lit, chip, lost, cause>>
            \/ /\ StripKept(i) /\ hit' = hit \cup {<<"ws", i>>}
               /\ taken' = taken \cup {NewChannel} /\ NewChannel \in Channels
               /\ cause' = cause \cup {"enabled"}
               /\ UNCHANGED <<tx, lit, chip, lost>>
         /\ faults' \in Nat
         /\ UNCHANGED <<bus_handle, pca9955b, port, attached, phase, wanted>>
<1>1. i \in Strips
  BY Calling DEF WsInit, WsKinds
<1>2. /\ todo' = Tail(todo) /\ ret' = ret
      /\ UNCHANGED <<bus_handle, pca9955b, port, attached, phase, wanted>>
  BY DEF WsInit, Returns
<1>3. faults' \in Nat
  BY DEF WsInit, Fault, NoFault, TypesOK
<1>4. ASSUME NEW p \in BOOLEAN, ws2812b' = [ws2812b EXCEPT ![i].pixels = p]
      PROVE  StripKept(i)
  BY <1>1, <1>4, StripPixels DEF StripKept
<1>5. CASE /\ i \in unused \/ Channels \subseteq taken
           /\ ws2812b' = [ws2812b EXCEPT ![i].pixels = i \notin unused]
           /\ NoFault /\ UNCHANGED <<taken, lightVars, lost, cause>>
  <2>1. PICK w \in BOOLEAN : w = (i \notin unused)
    OBVIOUS
  <2>2. StripKept(i)
    BY <1>4, <1>5, <2>1, Zenon
  <2> QED
    BY <1>1, <1>2, <1>3, <1>5, <2>2 DEF NoFault, lightVars
<1>6. CASE /\ i \notin unused /\ Fault(<<"ws", i>>)
           /\ ws2812b' = [ws2812b EXCEPT ![i].pixels = TRUE]
           /\ UNCHANGED <<taken, lightVars, lost, cause>>
  <2>1. StripKept(i)
    BY <1>4, <1>6, Zenon
  <2> QED
    BY <1>1, <1>2, <1>3, <1>6, <2>1 DEF Fault, lightVars
<1>7. CASE /\ i \notin unused /\ ~ Channels \subseteq taken
           /\ taken' = taken \cup {NewChannel}
           /\ \/ /\ StripReady(i, NewChannel) /\ lit' = [lit EXCEPT ![i] = <<0, 0>>]
                 /\ lost' = lost \ {<<"ws", i>>}
                 /\ NoFault /\ UNCHANGED <<tx, chip, cause>>
              \/ /\ StripReady(i, NewChannel) /\ tx' = [tx EXCEPT ![i].queued = 1]
                 /\ Fault(<<"ws", i>>) /\ UNCHANGED <<lit, chip, lost, cause>>
              \/ /\ ws2812b' = [ws2812b EXCEPT ![i].pixels = TRUE]
                 /\ cause' = cause \cup {"enabled"}
                 /\ Fault(<<"ws", i>>) /\ UNCHANGED <<lightVars, lost>>
  <2>1. NewChannel \in Channels /\ NewChannel \notin taken /\ NewChannel # Null
    BY <1>7, NewChannelIn
  <2>2. StripReady(i, NewChannel) => StripMade(i)
    BY <1>1, <1>7, <2>1, ReadyDoes DEF StripMade
  <2>3. CASE /\ StripReady(i, NewChannel) /\ lit' = [lit EXCEPT ![i] = <<0, 0>>]
             /\ lost' = lost \ {<<"ws", i>>}
             /\ NoFault /\ UNCHANGED <<tx, chip, cause>>
    <3>1. StripBlack(i)
      BY <1>1, <2>3, BlackDoes DEF StripBlack
    <3> QED
      BY <1>1, <1>2, <1>3, <2>2, <2>3, <3>1 DEF NoFault
  <2>4. CASE /\ StripReady(i, NewChannel) /\ tx' = [tx EXCEPT ![i].queued = 1]
             /\ Fault(<<"ws", i>>) /\ UNCHANGED <<lit, chip, lost, cause>>
    <3>1. tx' \in [Strips -> Tx] /\ Only(Strips, tx, tx', i) /\ tx'[i].queued = 1
      BY <1>1, <2>4, TxQueued
    <3> QED
      BY <1>1, <1>2, <1>3, <2>2, <2>4, <3>1 DEF Fault
  <2>5. CASE /\ ws2812b' = [ws2812b EXCEPT ![i].pixels = TRUE]
             /\ cause' = cause \cup {"enabled"}
             /\ Fault(<<"ws", i>>) /\ UNCHANGED <<lightVars, lost>>
    <3>1. StripKept(i)
      BY <1>4, <2>5, Zenon
    <3> QED
      BY <1>1, <1>2, <1>3, <1>7, <2>1, <2>5, <3>1 DEF Fault, lightVars
  <2> QED
    BY <1>7, <2>3, <2>4, <2>5
<1> QED
  BY <1>5, <1>6, <1>7 DEF WsInit

StripStaged(i, b) ==
  /\ ws2812b' \in [Strips -> Strip] /\ Only(Strips, ws2812b, ws2812b', i)
  /\ ws2812b'[i].buffer = b
  /\ ws2812b'[i].channel = ws2812b[i].channel /\ ws2812b'[i].pixels = ws2812b[i].pixels

LEMMA WsWriteDoes ==
  ASSUME TypesOK, Prog(todo), WsWrite, NEW i, i = Dev
  PROVE  /\ i \in Strips /\ ret' = ret
         /\ \/ Alive(i) /\ StripStaged(i, wanted.colour) /\ todo' = Tail(todo)
            \/ ~Alive(i) /\ ws2812b' = ws2812b /\ todo' = ShowCalls
         /\ UNCHANGED <<bus_handle, pca9955b, port, attached, taken, tx, lit, chip, phase,
                        wanted, hit, lost, cause, faults>>
<1>1. i \in Strips /\ Head(todo).op = "write"
  BY Calling DEF WsWrite, WsKinds
<1>2. wanted.colour \in Nat
  BY DEF TypesOK
<1>3. ASSUME ws2812b' = [ws2812b EXCEPT ![i].buffer = wanted.colour]
      PROVE  StripStaged(i, wanted.colour)
  BY <1>1, <1>2, <1>3, StripBuffer DEF StripStaged
<1>4. UNCHANGED <<bus_handle, pca9955b, port, attached, taken, tx, lit, chip, phase,
                  wanted, hit, lost, cause, faults>>
  BY DEF WsWrite, driverVars, lightVars, historyVars
<1>5. CASE Alive(Dev) /\ Returns /\ ws2812b' = [ws2812b EXCEPT ![Dev].buffer = wanted.colour]
  BY <1>1, <1>3, <1>4, <1>5 DEF Returns
<1>6. CASE ~Alive(Dev) /\ Fails /\ UNCHANGED ws2812b
  BY <1>1, <1>4, <1>6 DEF Fails
<1> QED
  BY <1>5, <1>6 DEF WsWrite

LEMMA WsFillDoes ==
  ASSUME TypesOK, Prog(todo), WsFill, NEW i, i = Dev
  PROVE  /\ i \in Strips /\ ret' = ret /\ todo' = Tail(todo)
         /\ \/ ws2812b[i].pixels /\ StripStaged(i, wanted.colour)
            \/ ~ws2812b[i].pixels /\ StripStaged(i, ws2812b[i].buffer)
         /\ UNCHANGED <<bus_handle, pca9955b, port, attached, taken, tx, lit, chip, phase,
                        wanted, hit, lost, cause, faults>>
<1>1. i \in Strips /\ todo' = Tail(todo) /\ ret' = ret
  BY Calling DEF WsFill, WsKinds, Returns
<1>2. wanted.colour \in Nat /\ ws2812b[i].buffer \in Nat
  BY <1>1 DEF TypesOK, Strip
<1>3. ASSUME NEW b \in Nat, ws2812b' = [ws2812b EXCEPT ![i].buffer = b]
      PROVE  StripStaged(i, b)
  BY <1>1, <1>3, StripBuffer DEF StripStaged
<1>4. UNCHANGED <<bus_handle, pca9955b, port, attached, taken, tx, lit, chip, phase,
                  wanted, hit, lost, cause, faults>>
  BY DEF WsFill, driverVars, lightVars, historyVars
<1>5. ws2812b' = [ws2812b EXCEPT ![i].buffer = IF ws2812b[i].pixels THEN wanted.colour
                                               ELSE ws2812b[i].buffer]
  BY DEF WsFill
<1>6. CASE ws2812b[i].pixels
  <2>1. ws2812b' = [ws2812b EXCEPT ![i].buffer = wanted.colour]
    BY <1>5, <1>6
  <2> QED
    BY <1>1, <1>2, <1>3, <1>4, <1>6, <2>1
<1>7. CASE ~ws2812b[i].pixels
  <2>1. ws2812b' = [ws2812b EXCEPT ![i].buffer = ws2812b[i].buffer]
    BY <1>5, <1>7
  <2> QED
    BY <1>1, <1>2, <1>3, <1>4, <1>7, <2>1
<1> QED
  BY <1>6, <1>7

LEMMA WsShowDoes ==
  ASSUME TypesOK, Prog(todo), WsShow, NEW i, i = Dev
  PROVE  /\ i \in Strips /\ todo' = Tail(todo) /\ faults' \in Nat
         /\ \/ /\ Alive(i) /\ ret' = ret /\ hit' = hit
               /\ tx' \in [Strips -> Tx] /\ Only(Strips, tx, tx', i)
               /\ tx'[i].queued = tx[i].queued + 1 /\ tx'[i].part = tx[i].part
            \/ Alive(i) /\ ret' = "error" /\ hit' = hit \cup {<<"ws", i>>} /\ tx' = tx
            \/ ~Alive(i) /\ ret' = "error" /\ hit' = hit /\ tx' = tx
         /\ UNCHANGED <<bus_handle, ws2812b, pca9955b, port, attached, taken, lit, chip, phase,
                        wanted, lost, cause>>
<1>1. i \in Strips /\ Head(todo).op = "show"
  BY Calling DEF WsShow, WsKinds, ShowKinds
<1>2. todo' = Tail(todo)
  BY CallSteps DEF WsShow, ShowKinds
<1>3. faults' \in Nat
  BY DEF WsShow, Fault, NoFault, TypesOK
<1>4. UNCHANGED <<bus_handle, ws2812b, pca9955b, port, attached, taken, lit, chip, phase,
                  wanted, lost, cause>>
  BY DEF WsShow, handleVars, driverVars
<1>5. CASE /\ Alive(Dev) /\ tx[Dev].queued < QueueDepth
           /\ tx' = [tx EXCEPT ![Dev].queued = @ + 1] /\ Returns /\ NoFault
  <2>1. tx[i].queued + 1 \in Nat
    BY <1>1 DEF TypesOK, Tx
  <2>2. tx' = [tx EXCEPT ![i].queued = tx[i].queued + 1]
    BY <1>5
  <2>3. /\ tx' \in [Strips -> Tx] /\ Only(Strips, tx, tx', i)
        /\ tx'[i].queued = tx[i].queued + 1 /\ tx'[i].part = tx[i].part
    BY <1>1, <2>1, <2>2, TxQueued
  <2> QED
    BY <1>1, <1>2, <1>3, <1>4, <1>5, <2>3 DEF Returns, NoFault
<1>6. CASE \/ Alive(Dev) /\ Fault(<<"ws", Dev>>) /\ Fails /\ UNCHANGED tx
           \/ /\ Alive(Dev) /\ tx[Dev].queued = QueueDepth
              /\ hit' = hit \cup {<<"ws", Dev>>} /\ Fails /\ UNCHANGED <<tx, faults>>
           \/ ~Alive(Dev) /\ Fails /\ NoFault /\ UNCHANGED tx
  BY <1>1, <1>2, <1>3, <1>4, <1>6 DEF Fails, Fault, NoFault
<1> QED
  BY <1>5, <1>6 DEF WsShow

LEMMA WsWaitDoes ==
  ASSUME TypesOK, Prog(todo), WsWait, NEW i, i = Dev
  PROVE  /\ i \in Strips /\ todo' = Tail(todo) /\ faults' \in Nat
         /\ \/ Alive(i) /\ tx[i].queued = 0 /\ ret' = ret /\ hit' = hit
            \/ Alive(i) /\ ret' = "error" /\ hit' = hit \cup {<<"ws", i>>}
            \/ ~Alive(i) /\ ret' = "error" /\ hit' = hit
         /\ UNCHANGED <<bus_handle, ws2812b, pca9955b, port, attached, taken, tx, lit, chip,
                        phase, wanted, lost, cause>>
<1>1. i \in Strips /\ Head(todo).op = "show"
  BY Calling DEF WsWait, WsKinds, ShowKinds
<1>2. todo' = Tail(todo)
  BY CallSteps DEF WsWait, ShowKinds
<1>3. faults' \in Nat
  BY DEF WsWait, Fault, NoFault, TypesOK
<1>4. UNCHANGED <<bus_handle, ws2812b, pca9955b, port, attached, taken, tx, lit, chip,
                  phase, wanted, lost, cause>>
  BY DEF WsWait, handleVars, driverVars, lightVars
<1> QED
  BY <1>1, <1>2, <1>3, <1>4 DEF WsWait, Returns, Fails, Fault, NoFault

StripFreed(i) ==
  /\ ws2812b' \in [Strips -> Strip] /\ Only(Strips, ws2812b, ws2812b', i)
  /\ ws2812b'[i].channel = Null /\ ws2812b'[i].buffer = 0
  /\ tx' \in [Strips -> Tx] /\ Only(Strips, tx, tx', i)
  /\ tx'[i].queued = 0 /\ tx'[i].part = 1

LEMMA WsDelDoes ==
  ASSUME TypesOK, Prog(todo), WsDel, NEW i, i = Dev
  PROVE  /\ i \in Strips /\ todo' = Tail(todo) /\ ret' = ret /\ faults' \in Nat
         /\ \/ ~Alive(i) /\ UNCHANGED <<ws2812b, taken, tx, lit, lost, cause>>
            \/ /\ Alive(i) /\ StripFreed(i) /\ StripBlack(i) /\ lost' = lost \ {<<"ws", i>>}
               /\ taken' = taken \ {ws2812b[i].channel} /\ cause' = cause
            \/ /\ Alive(i) /\ StripFreed(i) /\ StripBlack(i) /\ lost' = lost \ {<<"ws", i>>}
               /\ taken' = taken /\ cause' = cause \cup {"delete"}
            \/ /\ Alive(i) /\ StripFreed(i) /\ lit' = lit /\ lost' = lost \cup {<<"ws", i>>}
               /\ taken' = taken \ {ws2812b[i].channel} /\ cause' = cause
         /\ UNCHANGED <<bus_handle, pca9955b, port, attached, chip, phase, wanted>>
<1>1. i \in Strips /\ todo' = Tail(todo) /\ ret' = ret
  BY Calling DEF WsDel, WsKinds, Returns
<1>2. faults' \in Nat
  BY DEF WsDel, Fault, NoFault, TypesOK
<1>3. UNCHANGED <<bus_handle, pca9955b, port, attached, chip, phase, wanted>>
  BY DEF WsDel, lightVars
<1>4. CASE ~Alive(i)
  BY <1>1, <1>2, <1>3, <1>4 DEF WsDel, lightVars
<1>5. CASE Alive(i)
  <2>1. /\ ws2812b' = [ws2812b EXCEPT ![i].channel = Null, ![i].buffer = 0]
        /\ tx' = [tx EXCEPT ![i] = NothingTx]
        /\ \/ /\ lit' = [lit EXCEPT ![i] = <<0, 0>>]
              /\ \/ taken' = taken \ {ws2812b[i].channel} /\ UNCHANGED cause
                 \/ cause' = cause \cup {"delete"} /\ UNCHANGED taken
              /\ lost' = lost \ {<<"ws", i>>}
           \/ /\ taken' = taken \ {ws2812b[i].channel} /\ lost' = lost \cup {<<"ws", i>>}
              /\ UNCHANGED <<lit, cause>>
    BY <1>5 DEF WsDel
  <2>2. /\ ws2812b' \in [Strips -> Strip] /\ Only(Strips, ws2812b, ws2812b', i)
        /\ ws2812b'[i].channel = Null /\ ws2812b'[i].buffer = 0
    BY <1>1, <2>1, StripGone
  <2>3. tx' \in [Strips -> Tx] /\ Only(Strips, tx, tx', i) /\ tx'[i] = NothingTx
    BY <1>1, <2>1, NothingFields DEF TypesOK, Only
  <2>4. StripFreed(i)
    BY <2>2, <2>3, NothingFields DEF StripFreed
  <2>5. lit' = [lit EXCEPT ![i] = <<0, 0>>] => StripBlack(i)
    BY <1>1, BlackDoes DEF StripBlack
  <2> QED
    BY <1>1, <1>2, <1>3, <1>5, <2>1, <2>4, <2>5
<1> QED
  BY <1>4, <1>5

LEMMA ShiftDoes ==
  ASSUME TypesOK, NEW i \in Strips, Shift(i)
  PROVE  /\ tx[i].queued > 0
         /\ lit' \in [Strips -> [{1, 2} -> Nat]] /\ Only(Strips, lit, lit', i)
         /\ tx' \in [Strips -> Tx] /\ Only(Strips, tx, tx', i)
         /\ \/ /\ tx[i].part = 1 /\ tx'[i].part = 2 /\ tx'[i].queued = tx[i].queued
               /\ lit'[i][1] = ws2812b[i].buffer /\ lit'[i][2] = lit[i][2]
            \/ /\ tx[i].part = 2 /\ tx'[i].part = 1 /\ tx'[i].queued = tx[i].queued - 1
               /\ lit'[i][2] = ws2812b[i].buffer /\ lit'[i][1] = lit[i][1]
         /\ UNCHANGED <<bus_handle, ws2812b, pca9955b, port, attached, taken, chip, phase, todo,
                        ret, wanted, hit, lost, cause, faults>>
<1>1. tx[i].part \in {1, 2} /\ ws2812b[i].buffer \in Nat
  BY DEF TypesOK, Tx, Strip
<1>2. /\ lit' = [lit EXCEPT ![i][tx[i].part] = ws2812b[i].buffer]
      /\ tx' = [tx EXCEPT ![i] = IF @.part = 1 THEN [@ EXCEPT !.part = 2]
                                 ELSE [queued |-> @.queued - 1, part |-> 1]]
      /\ tx[i].queued > 0
      /\ UNCHANGED <<bus_handle, ws2812b, pca9955b, port, attached, taken, chip, phase, todo,
                     ret, wanted, hit, lost, cause, faults>>
  BY DEF Shift, handleVars, driverVars, historyVars
<1>3. /\ lit' \in [Strips -> [{1, 2} -> Nat]] /\ Only(Strips, lit, lit', i)
      /\ lit'[i][tx[i].part] = ws2812b[i].buffer
      /\ \A q \in {1, 2} : q # tx[i].part => lit'[i][q] = lit[i][q]
  BY ZenonT(30), <1>1, <1>2, LitPart
<1>4. /\ tx' \in [Strips -> Tx] /\ Only(Strips, tx, tx', i)
      /\ tx[i].part = 1 => tx'[i].part = 2 /\ tx'[i].queued = tx[i].queued
      /\ tx[i].part # 1 => tx'[i].part = 1 /\ tx'[i].queued = tx[i].queued - 1
  BY <1>2, TxPart
<1> QED
  BY <1>1, <1>2, <1>3, <1>4

PcaSet(j, d, e) ==
  /\ pca9955b' \in [Chips -> Chip] /\ Only(Chips, pca9955b, pca9955b', j)
  /\ pca9955b'[j].dev = d /\ pca9955b'[j].buffer = 0 /\ pca9955b'[j].enable = e

PcaStaged(j, b) ==
  /\ pca9955b' \in [Chips -> Chip] /\ Only(Chips, pca9955b, pca9955b', j)
  /\ pca9955b'[j].buffer = b
  /\ pca9955b'[j].dev = pca9955b[j].dev /\ pca9955b'[j].enable = pca9955b[j].enable

\* The chip's registers change, or they hold these values.
ChipTouched(j)   == chip' \in [Chips -> Regs] /\ Only(Chips, chip, chip', j)
ChipSet(j, a, p) == ChipTouched(j) /\ chip'[j].iref = a /\ chip'[j].pwm = p

LEMMA SetPcaDoes ==
  ASSUME TypesOK, NEW j \in Chips, NEW d \in BOOLEAN, NEW e \in BOOLEAN, SetPca(j, d, e)
  PROVE  PcaSet(j, d, e)
<1> DEFINE r == [dev |-> d, buffer |-> 0, enable |-> e]
<1>1. r \in Chip /\ r.dev = d /\ r.buffer = 0 /\ r.enable = e
  BY DEF Chip
<1>2. pca9955b' = [pca9955b EXCEPT ![j] = r] /\ pca9955b \in [Chips -> Chip]
  BY DEF SetPca, TypesOK
<1> HIDE DEF r
<1>3. pca9955b' \in [Chips -> Chip] /\ Only(Chips, pca9955b, pca9955b', j) /\ pca9955b'[j] = r
  BY <1>1, <1>2 DEF Only
<1> QED
  BY <1>1, <1>3 DEF PcaSet

LEMMA RegsDoes ==
  ASSUME TypesOK, NEW j \in Chips, NEW a \in BOOLEAN, NEW p \in Nat \cup {Torn},
         chip' = [chip EXCEPT ![j] = [iref |-> a, pwm |-> p]]
  PROVE  ChipSet(j, a, p)
<1> DEFINE r == [iref |-> a, pwm |-> p]
<1>1. r \in Regs /\ r.iref = a /\ r.pwm = p
  BY DEF Regs
<1>2. chip' = [chip EXCEPT ![j] = r] /\ chip \in [Chips -> Regs]
  BY DEF TypesOK
<1> HIDE DEF r
<1>3. chip' \in [Chips -> Regs] /\ Only(Chips, chip, chip', j) /\ chip'[j] = r
  BY <1>1, <1>2 DEF Only
<1> QED
  BY <1>1, <1>3 DEF ChipSet, ChipTouched

LEMMA SameRegs == ASSUME TypesOK, chip' = chip, NEW j \in Chips PROVE ChipTouched(j)
BY DEF ChipTouched, Only, TypesOK

LEMMA PcaInitDoes ==
  ASSUME TypesOK, Prog(todo), PcaInit, NEW j, j = Dev
  PROVE  /\ j \in Chips /\ todo' = Tail(todo) /\ ret' = ret /\ faults' \in Nat
         /\ \/ /\ PcaSet(j, FALSE, FALSE) /\ hit' = hit \cup {<<"pca", j>>} /\ attached' = attached
               /\ \/ chip' = chip /\ lost' = lost
                  \/ ChipTouched(j) /\ lost' = lost \cup {<<"pca", j>>}
            \/ /\ PcaSet(j, TRUE, TRUE) /\ hit' = hit /\ attached' = attached \cup {j}
               /\ ChipSet(j, TRUE, 0) /\ lost' = lost \ {<<"pca", j>>}
         /\ UNCHANGED <<bus_handle, ws2812b, port, taken, tx, lit, phase, wanted, cause>>
<1>1. j \in Chips /\ todo' = Tail(todo) /\ ret' = ret
  BY Calling DEF PcaInit, PcaKinds, Returns
<1>2. faults' \in Nat
  <2>1. faults' = faults \/ faults' = faults + 1
    BY Zenon DEF PcaInit, Fault, NoFault
  <2> QED
    BY <2>1 DEF TypesOK
<1>3. UNCHANGED <<bus_handle, ws2812b, port, taken, tx, lit, phase, wanted, cause>>
  BY DEF PcaInit
<1>4. CASE /\ Fault(<<"pca", j>>) /\ SetPca(j, FALSE, FALSE)
           /\ chip' \in {chip, [chip EXCEPT ![j].iref = TRUE], [chip EXCEPT ![j] =
                                  [iref |-> TRUE, pwm |-> Torn]]}
           /\ lost' = IF chip' = chip THEN lost ELSE lost \cup {<<"pca", j>>}
           /\ UNCHANGED attached
  <2>1. PcaSet(j, FALSE, FALSE)
    BY <1>1, <1>4, SetPcaDoes
  <2>2. CASE chip' = chip
    BY <1>1, <1>2, <1>3, <1>4, <2>1, <2>2 DEF Fault
  <2>3. CASE chip' # chip
    <3>1. ASSUME chip' = [chip EXCEPT ![j].iref = TRUE] PROVE ChipTouched(j)
      BY <1>1, <3>1, RegsIref DEF ChipTouched
    <3>2. ASSUME chip' = [chip EXCEPT ![j] = [iref |-> TRUE, pwm |-> Torn]] PROVE ChipTouched(j)
      BY <1>1, <3>2, RegsDoes DEF ChipSet
    <3>3. ChipTouched(j)
      BY <1>4, <2>3, <3>1, <3>2
    <3> QED
      BY <1>1, <1>2, <1>3, <1>4, <2>1, <2>3, <3>3 DEF Fault
  <2> QED
    BY <2>2, <2>3
<1>5. CASE /\ SetPca(j, TRUE, TRUE) /\ attached' = attached \cup {j}
           /\ chip' = [chip EXCEPT ![j] = [iref |-> TRUE, pwm |-> 0]]
           /\ lost' = lost \ {<<"pca", j>>} /\ NoFault
  <2>1. PcaSet(j, TRUE, TRUE)
    BY <1>1, <1>5, SetPcaDoes
  <2>2. ChipSet(j, TRUE, 0)
    BY <1>1, <1>5, RegsDoes
  <2> QED
    BY <1>1, <1>2, <1>3, <1>5, <2>1, <2>2 DEF NoFault
<1> QED
  BY <1>4, <1>5 DEF PcaInit

LEMMA PcaStageDoes ==
  ASSUME TypesOK, Prog(todo), PcaStage, NEW j, j = Dev
  PROVE  /\ j \in Chips /\ ret' = ret /\ todo' = Tail(todo)
         /\ Now("pca9955b_set_pixel") \/ Now("pca9955b_fill")
         /\ \/ pca9955b[j].enable /\ PcaStaged(j, wanted.colour)
            \/ ~pca9955b[j].enable /\ PcaStaged(j, pca9955b[j].buffer)
         /\ UNCHANGED <<bus_handle, ws2812b, port, attached, taken, tx, lit, chip, phase,
                        wanted, hit, lost, cause, faults>>
<1>1. j \in Chips /\ todo' = Tail(todo) /\ ret' = ret
      /\ (Now("pca9955b_set_pixel") \/ Now("pca9955b_fill"))
  BY Calling DEF PcaStage, PcaKinds, Returns
<1>2. wanted.colour \in Nat /\ pca9955b[j].buffer \in Nat
  BY <1>1 DEF TypesOK, Chip
<1>3. ASSUME NEW b \in Nat, pca9955b' = [pca9955b EXCEPT ![j].buffer = b]
      PROVE  PcaStaged(j, b)
  BY <1>1, <1>3, ChipBuffer DEF PcaStaged
<1>4. UNCHANGED <<bus_handle, ws2812b, port, attached, taken, tx, lit, chip, phase,
                  wanted, hit, lost, cause, faults>>
  BY DEF PcaStage, driverVars, lightVars, historyVars
<1>5. pca9955b' = [pca9955b EXCEPT ![j].buffer = IF pca9955b[j].enable THEN wanted.colour
                                                 ELSE pca9955b[j].buffer]
  BY DEF PcaStage
<1>6. CASE pca9955b[j].enable
  <2>1. pca9955b' = [pca9955b EXCEPT ![j].buffer = wanted.colour]
    BY <1>5, <1>6
  <2> QED
    BY <1>1, <1>2, <1>3, <1>4, <1>6, <2>1
<1>7. CASE ~pca9955b[j].enable
  <2>1. pca9955b' = [pca9955b EXCEPT ![j].buffer = pca9955b[j].buffer]
    BY <1>5, <1>7
  <2> QED
    BY <1>1, <1>2, <1>3, <1>4, <1>7, <2>1
<1> QED
  BY <1>6, <1>7

LEMMA PcaShowDoes ==
  ASSUME TypesOK, Prog(todo), PcaShow, NEW j, j = Dev
  PROVE  /\ j \in Chips /\ todo' = Tail(todo) /\ faults' \in Nat
         /\ \/ ~pca9955b[j].enable /\ ret' = ret /\ hit' = hit /\ chip' = chip
            \/ /\ pca9955b[j].enable /\ ret' = ret /\ hit' = hit
               /\ ChipSet(j, TRUE, pca9955b[j].buffer)
            \/ /\ pca9955b[j].enable /\ ret' = "error" /\ hit' = hit \cup {<<"pca", j>>}
               /\ ChipTouched(j)
         /\ UNCHANGED <<bus_handle, ws2812b, pca9955b, port, attached, taken, tx, lit, phase,
                        wanted, lost, cause>>
<1>1. j \in Chips /\ Head(todo).op = "show"
  BY Calling DEF PcaShow, PcaKinds, ShowKinds
<1>2. todo' = Tail(todo)
  BY CallSteps DEF PcaShow, ShowKinds
<1>3. faults' \in Nat
  BY DEF PcaShow, Fault, NoFault, TypesOK
<1>4. UNCHANGED <<bus_handle, ws2812b, pca9955b, port, attached, taken, tx, lit, phase,
                  wanted, lost, cause>>
  BY DEF PcaShow, handleVars, driverVars
<1>5. CASE ~pca9955b[j].enable /\ Returns /\ NoFault /\ UNCHANGED chip
  BY <1>1, <1>2, <1>3, <1>4, <1>5 DEF Returns, NoFault
<1>6. CASE /\ pca9955b[j].enable /\ Returns /\ NoFault
           /\ chip' = [chip EXCEPT ![j] = [iref |-> TRUE, pwm |-> pca9955b[j].buffer]]
  <2>1. pca9955b[j].buffer \in Nat
    BY <1>1 DEF TypesOK, Chip
  <2>2. ChipSet(j, TRUE, pca9955b[j].buffer)
    BY <1>1, <1>6, <2>1, RegsDoes
  <2> QED
    BY <1>1, <1>2, <1>3, <1>4, <1>6, <2>2 DEF Returns, NoFault
<1>7. CASE /\ pca9955b[j].enable /\ Fails /\ Fault(<<"pca", j>>)
           /\ chip' \in {chip} \cup {[chip EXCEPT ![j] = [iref |-> TRUE, pwm |-> p]] :
                                       p \in {chip[j].pwm, Torn}}
  <2>1. ASSUME chip' = chip PROVE ChipTouched(j)
    BY <1>1, <2>1, SameRegs
  <2>2. ASSUME NEW p \in {chip[j].pwm, Torn},
               chip' = [chip EXCEPT ![j] = [iref |-> TRUE, pwm |-> p]]
        PROVE  ChipTouched(j)
    <3>1. p \in Nat \cup {Torn}
      BY <1>1 DEF TypesOK, Regs
    <3> QED
      BY <1>1, <2>2, <3>1, RegsDoes DEF ChipSet
  <2>3. ChipTouched(j)
    BY <1>7, <2>1, <2>2
  <2> QED
    BY <1>1, <1>2, <1>3, <1>4, <1>7, <2>3 DEF Fails, Fault
<1> QED
  BY <1>5, <1>6, <1>7 DEF PcaShow

LEMMA PowerDipDoes ==
  ASSUME TypesOK, NEW j \in Chips, PowerDip(j)
  PROVE  /\ ChipSet(j, FALSE, 0) /\ hit' = hit \cup {<<"pca", j>>} /\ faults' \in Nat
         /\ UNCHANGED <<bus_handle, ws2812b, pca9955b, port, attached, taken, tx, lit, phase,
                        todo, ret, wanted, lost, cause>>
<1>1. ChipSet(j, FALSE, 0)
  BY RegsDoes DEF PowerDip
<1>2. /\ hit' = hit \cup {<<"pca", j>>} /\ faults' = faults + 1
      /\ UNCHANGED <<bus_handle, ws2812b, pca9955b, port, attached, taken, tx, lit, phase,
                     todo, ret, wanted, lost, cause>>
  BY DEF PowerDip, Fault, handleVars, driverVars
<1>3. faults' \in Nat
  BY <1>2 DEF TypesOK
<1> QED
  BY <1>1, <1>2, <1>3

LEMMA PcaDelDoes ==
  ASSUME TypesOK, Prog(todo), PcaDel, NEW j, j = Dev
  PROVE  /\ j \in Chips /\ todo' = Tail(todo) /\ ret' = ret /\ faults' \in Nat
         /\ \/ ~pca9955b[j].enable /\ UNCHANGED <<pca9955b, attached, chip, lost, cause>>
            \/ /\ PcaSet(j, FALSE, FALSE) /\ ~Has(j)
               /\ UNCHANGED <<attached, chip, lost, cause>>
            \/ /\ PcaSet(j, FALSE, FALSE) /\ Has(j)
               /\ ChipTouched(j) /\ chip'[j].pwm = 0 /\ lost' = lost
               /\ \/ attached' = attached \ {j} /\ cause' = cause
                  \/ attached' = attached /\ cause' = cause \cup {"remove"}
            \/ /\ PcaSet(j, FALSE, FALSE) /\ Has(j)
               /\ ChipTouched(j) /\ lost' = lost \cup {<<"pca", j>>}
               /\ attached' = attached \ {j} /\ cause' = cause
         /\ UNCHANGED <<bus_handle, ws2812b, port, taken, tx, lit, phase, wanted>>
<1>1. j \in Chips /\ todo' = Tail(todo) /\ ret' = ret
  BY Calling DEF PcaDel, PcaKinds, Returns
<1>2. faults' \in Nat
  <2>1. faults' = faults \/ faults' = faults + 1
    BY Zenon DEF PcaDel, Fault, NoFault
  <2> QED
    BY <2>1 DEF TypesOK
<1>3. UNCHANGED <<bus_handle, ws2812b, port, taken, tx, lit, phase, wanted>>
  BY DEF PcaDel
<1>4. CASE ~pca9955b[j].enable
  BY <1>1, <1>2, <1>3, <1>4 DEF PcaDel
<1>5. CASE pca9955b[j].enable
  <2>1. SetPca(j, FALSE, FALSE)
    BY <1>5 DEF PcaDel
  <2>2. PcaSet(j, FALSE, FALSE)
    BY <1>1, <2>1, SetPcaDoes
  <2>3. CASE ~pca9955b[j].dev
    BY <1>1, <1>2, <1>3, <1>5, <2>2, <2>3 DEF PcaDel, Has
  <2>4. CASE /\ pca9955b[j].dev /\ chip' = [chip EXCEPT ![j].pwm = 0] /\ UNCHANGED lost
             /\ \/ attached' = attached \ {j} /\ NoFault /\ UNCHANGED cause
                \/ Fault(<<"pca", j>>) /\ cause' = cause \cup {"remove"} /\ UNCHANGED attached
    <3>1. ChipTouched(j) /\ chip'[j].pwm = 0
      BY <1>1, <2>4, RegsPwm DEF ChipTouched
    <3> QED
      BY <1>1, <1>2, <1>3, <2>2, <2>4, <3>1 DEF Has
  <2>5. CASE /\ pca9955b[j].dev /\ Fault(<<"pca", j>>) /\ attached' = attached \ {j}
             /\ chip' \in {chip, [chip EXCEPT ![j].pwm = Torn]}
             /\ lost' = lost \cup {<<"pca", j>>} /\ UNCHANGED cause
    <3>1. ASSUME chip' = [chip EXCEPT ![j].pwm = Torn] PROVE ChipTouched(j)
      BY <1>1, <3>1, RegsPwm DEF ChipTouched
    <3>2. ASSUME chip' = chip PROVE ChipTouched(j)
      BY <1>1, <3>2, SameRegs
    <3>3. ChipTouched(j)
      BY <2>5, <3>1, <3>2
    <3> QED
      BY <1>1, <1>2, <1>3, <2>2, <2>5, <3>3 DEF Has
  <2> QED
    BY <1>5, <2>3, <2>4, <2>5 DEF PcaDel
<1> QED
  BY <1>4, <1>5

LEMMA BusInitDoes ==
  ASSUME TypesOK, Prog(todo), BusInit
  PROVE  /\ Dev = 1 /\ faults' \in Nat
         /\ \/ port' = TRUE /\ bus_handle' = TRUE /\ todo' = Tail(todo) /\ ret' = ret
            \/ port' = port /\ bus_handle' = bus_handle /\ todo' = DeinitCalls /\ ret' = "error"
         /\ UNCHANGED <<ws2812b, pca9955b, attached, taken, tx, lit, chip, phase, wanted, hit,
                        lost, cause>>
<1>1. Dev = 1
  BY Calling DEF BusInit, BusKinds
<1>2. faults' \in Nat
  BY DEF BusInit, TypesOK
<1>3. UNCHANGED <<ws2812b, pca9955b, attached, taken, tx, lit, chip, phase, wanted, hit,
                  lost, cause>>
  BY DEF BusInit, lightVars, historyVars
<1>4. \/ port' = TRUE /\ bus_handle' = TRUE /\ todo' = Tail(todo) /\ ret' = ret
      \/ port' = port /\ bus_handle' = bus_handle /\ todo' = DeinitCalls /\ ret' = "error"
  BY Zenon DEF BusInit, Returns
<1> QED
  BY <1>1, <1>2, <1>3, <1>4

LEMMA BusDelDoes ==
  ASSUME TypesOK, Prog(todo), BusDel
  PROVE  /\ Dev = 1 /\ faults' \in Nat /\ todo' = Tail(todo) /\ ret' = ret
         /\ bus_handle' = FALSE
         /\ \/ bus_handle = FALSE /\ port' = port /\ cause' = cause
            \/ bus_handle = TRUE /\ port' = FALSE /\ cause' = cause
            \/ bus_handle = TRUE /\ attached # {} /\ port' = port /\ cause' = cause
            \/ port' = port /\ cause' = cause \cup {"bus"}
         /\ UNCHANGED <<ws2812b, pca9955b, attached, taken, tx, lit, chip, phase, wanted, hit,
                        lost>>
<1>1. Dev = 1 /\ todo' = Tail(todo) /\ ret' = ret
  BY Calling DEF BusDel, BusKinds, Returns
<1>2. faults' \in Nat
  BY DEF BusDel, TypesOK
<1>3. UNCHANGED <<ws2812b, pca9955b, attached, taken, tx, lit, chip, phase, wanted, hit, lost>>
  BY DEF BusDel, lightVars
<1>4. bus_handle \in {TRUE, FALSE}
  BY DEF TypesOK
<1>5. \/ bus_handle = FALSE /\ port' = port /\ cause' = cause
      \/ bus_handle = TRUE /\ port' = FALSE /\ cause' = cause
      \/ bus_handle = TRUE /\ attached # {} /\ port' = port /\ cause' = cause
      \/ port' = port /\ cause' = cause \cup {"bus"}
  BY <1>4, Zenon DEF BusDel
<1>6. bus_handle' = FALSE
  BY DEF BusDel
<1> QED
  BY <1>1, <1>2, <1>3, <1>5, <1>6

LEMMA AcquireDoes ==
  ASSUME TypesOK, Acquire
  PROVE  /\ phase = "released" /\ phase' = "acquiring" /\ todo = <<>> /\ todo' = InitCalls
         /\ ret' = "ok" /\ bus_handle' = FALSE
         /\ ws2812b' \in [Strips -> Strip]
         /\ \A i \in Strips : ws2812b'[i].channel = Null /\ ws2812b'[i].buffer = 0
         /\ pca9955b' \in [Chips -> Chip]
         /\ \A j \in Chips : /\ pca9955b'[j].dev = FALSE /\ pca9955b'[j].buffer = 0
                             /\ pca9955b'[j].enable = pca9955b[j].enable
         /\ \/ bus_handle = TRUE /\ cause' = cause \cup {"init again"}
            \/ bus_handle = FALSE /\ cause' = cause
         /\ wanted' = [colour |-> 0, op |-> "init"] /\ hit' = {}
         /\ UNCHANGED <<port, attached, taken, tx, lit, chip, lost, faults>>
<1>1. NoStrip \in Strip /\ NoStrip.channel = Null /\ NoStrip.buffer = 0
  BY DEF NoStrip, Strip
<1>2. /\ ws2812b' \in [Strips -> Strip]
      /\ \A i \in Strips : ws2812b'[i].channel = Null /\ ws2812b'[i].buffer = 0
  BY <1>1 DEF Acquire
<1>3. ASSUME NEW j \in Chips
      PROVE  /\ [pca9955b[j] EXCEPT !.dev = FALSE, !.buffer = 0] \in Chip
             /\ [pca9955b[j] EXCEPT !.dev = FALSE, !.buffer = 0].dev = FALSE
             /\ [pca9955b[j] EXCEPT !.dev = FALSE, !.buffer = 0].buffer = 0
             /\ [pca9955b[j] EXCEPT !.dev = FALSE, !.buffer = 0].enable = pca9955b[j].enable
  BY ChipCleared
<1>4. pca9955b' = [j \in Chips |-> [pca9955b[j] EXCEPT !.dev = FALSE, !.buffer = 0]]
  BY DEF Acquire
<1>5. /\ pca9955b' \in [Chips -> Chip]
      /\ \A j \in Chips : /\ pca9955b'[j].dev = FALSE /\ pca9955b'[j].buffer = 0
                          /\ pca9955b'[j].enable = pca9955b[j].enable
  BY <1>3, <1>4
<1>6. /\ phase = "released" /\ phase' = "acquiring" /\ todo = <<>> /\ todo' = InitCalls
      /\ ret' = "ok" /\ bus_handle' = FALSE
      /\ wanted' = [colour |-> 0, op |-> "init"] /\ hit' = {}
      /\ UNCHANGED <<port, attached, taken, tx, lit, chip, lost, faults>>
  BY Zenon DEF Acquire, driverVars, lightVars
<1>7. bus_handle \in {TRUE, FALSE}
  BY DEF TypesOK
<1>8. \/ bus_handle = TRUE /\ cause' = cause \cup {"init again"}
      \/ bus_handle = FALSE /\ cause' = cause
  BY <1>7, Zenon DEF Acquire
<1> QED
  BY <1>2, <1>5, <1>6, <1>8

LEMMA PassDoes ==
  ASSUME TypesOK, Update \/ Blackout
  PROVE  /\ phase = "acquired" /\ phase' = "acquired" /\ todo = <<>> /\ ret' = "ok" /\ hit' = {}
         /\ \/ todo' = WriteFrameCalls \o ShowCalls /\ wanted'.op = "write"
            \/ todo' = FillCalls \o ShowCalls /\ wanted'.op = "fill" /\ wanted'.colour = 0
         /\ wanted' \in [colour : Nat, op : {"init", "write", "fill"}]
         /\ UNCHANGED <<bus_handle, ws2812b, pca9955b, port, attached, taken, tx, lit, chip,
                        lost, cause, faults>>
<1>1. PICK colour \in Nat, op \in {"write", "fill"} :
        /\ \/ todo' = WriteFrameCalls \o ShowCalls /\ op = "write"
           \/ todo' = FillCalls \o ShowCalls /\ op = "fill" /\ colour = 0
        /\ wanted' = [colour |-> colour, op |-> op]
  BY ColourAssumption DEF Update, Blackout, Pass
<1>2. /\ phase = "acquired" /\ phase' = "acquired" /\ todo = <<>> /\ ret' = "ok" /\ hit' = {}
      /\ UNCHANGED <<bus_handle, ws2812b, pca9955b, port, attached, taken, tx, lit, chip,
                     lost, cause, faults>>
  BY DEF Update, Blackout, Pass, handleVars, driverVars, lightVars
<1> QED
  BY <1>1, <1>2

\* The player's other steps change its phase only.
LEMMA PhaseDoes ==
  ASSUME TypesOK, Acquired \/ Release \/ Released
  PROVE  /\ todo = <<>> /\ faults' \in Nat
         /\ \/ phase = "acquiring" /\ ret = "ok" /\ phase' = "acquired" /\ todo' = <<>>
            \/ phase = "acquiring" /\ phase' = "released" /\ todo' = <<>>
            \/ phase = "acquired" /\ phase' = "releasing" /\ todo' = DeinitCalls
            \/ phase = "releasing" /\ phase' = "released" /\ todo' = <<>>
         /\ UNCHANGED <<bus_handle, ws2812b, pca9955b, port, attached, taken, tx, lit, chip, ret,
                        wanted, hit, lost, cause>>
<1>1. UNCHANGED <<bus_handle, ws2812b, pca9955b, port, attached, taken, tx, lit, chip, ret,
                  wanted, hit, lost, cause>>
  BY DEF Acquired, Release, Released, handleVars, driverVars, lightVars, historyVars
<1>2. faults' \in Nat
  BY DEF Acquired, Release, Released, TypesOK
<1> QED
  BY <1>1, <1>2 DEF Acquired, Release, Released

-----------------------------------------------------------------------------
(* Types *)

LEMMA TypesInit == Init => TypesOK
<1> SUFFICES ASSUME Init PROVE TypesOK
  OBVIOUS
<1>1. ws2812b \in [Strips -> Strip]
  BY DEF Init, NoStrip, Strip
<1>2. pca9955b \in [Chips -> Chip]
  BY DEF Init, Chip
<1>3. tx \in [Strips -> Tx]
  BY NothingFields DEF Init
<1>4. lit \in [Strips -> [{1, 2} -> Nat]]
  BY BothParts DEF Init
<1>5. chip \in [Chips -> Regs]
  BY DEF Init, Regs
<1>6. wanted \in [colour : Nat, op : {"init", "write", "fill"}]
  BY DEF Init
<1>7. unused \subseteq Strips
  BY SizeAssumption DEF Init, Strips
<1>8. bus_handle \in BOOLEAN /\ port \in BOOLEAN
  BY DEF Init
<1>9. attached \subseteq Chips /\ taken \subseteq Channels
  BY DEF Init
<1> QED
  BY <1>1, <1>2, <1>3, <1>4, <1>5, <1>6, <1>7, <1>8, <1>9 DEF Init, TypesOK

LEMMA TypesStep == ASSUME TypesOK, Prog(todo), Step, UNCHANGED unused PROVE TypesOK'
<1>0. /\ unused' \subseteq Strips
      /\ \A i \in Strips : ws2812b[i] \in Strip
      /\ bus_handle \in BOOLEAN /\ port \in BOOLEAN /\ ret \in {"ok", "error"}
      /\ phase \in {"released", "acquiring", "acquired", "releasing"}
      /\ "acquired" \in {"released", "acquiring", "acquired", "releasing"}
      /\ "acquiring" \in {"released", "acquiring", "acquired", "releasing"}
      /\ "released" \in {"released", "acquiring", "acquired", "releasing"}
      /\ "releasing" \in {"released", "acquiring", "acquired", "releasing"}
  BY DEF TypesOK
<1>1. CASE Acquire
  <2>1. [colour |-> 0, op |-> "init"] \in [colour : Nat, op : {"init", "write", "fill"}]
    OBVIOUS
  <2>2. bus_handle' \in BOOLEAN /\ port' \in BOOLEAN
    BY <1>0, <1>1, AcquireDoes
  <2> QED
    BY <1>0, <1>1, <2>1, <2>2, AcquireDoes DEF TypesOK
<1>2. CASE Update \/ Blackout
  BY <1>0, <1>2, PassDoes DEF TypesOK
<1>3. CASE Acquired \/ Release \/ Released
  BY <1>0, <1>3, PhaseDoes DEF TypesOK
<1>4. CASE BusInit
  <2>1. bus_handle' \in BOOLEAN /\ port' \in BOOLEAN /\ ret' \in {"ok", "error"}
    BY <1>0, <1>4, BusInitDoes
  <2> QED
    BY <1>0, <1>4, <2>1, BusInitDoes DEF TypesOK
<1>5. CASE BusDel
  <2>1. bus_handle' \in BOOLEAN /\ port' \in BOOLEAN
    BY <1>0, <1>5, BusDelDoes
  <2> QED
    BY <1>0, <1>5, <2>1, BusDelDoes DEF TypesOK
<1>6. CASE WsInit
  <2>1. ws2812b' \in [Strips -> Strip]
    BY <1>6, WsInitDoes DEF StripKept, StripMade
  <2>2. taken' \subseteq Channels
    BY <1>6, WsInitDoes DEF StripMade, TypesOK
  <2>3. lit' \in [Strips -> [{1, 2} -> Nat]] /\ tx' \in [Strips -> Tx]
    BY <1>6, WsInitDoes DEF StripBlack, TypesOK
  <2>4. UNCHANGED <<bus_handle, pca9955b, port, attached, phase, wanted, chip, ret>> /\ faults' \in Nat
    BY <1>6, WsInitDoes
  <2> QED
    BY <1>0, <2>1, <2>2, <2>3, <2>4 DEF TypesOK
<1>7. CASE WsWrite
  BY <1>0, <1>7, WsWriteDoes DEF TypesOK, StripStaged
<1>8. CASE WsFill
  BY <1>0, <1>8, WsFillDoes DEF TypesOK, StripStaged
<1>9. CASE WsShow
  BY <1>0, <1>9, WsShowDoes DEF TypesOK
<1>10. CASE WsWait
  BY <1>0, <1>10, WsWaitDoes DEF TypesOK
<1>11. CASE WsDel
  <2>1. ws2812b' \in [Strips -> Strip] /\ tx' \in [Strips -> Tx] /\ taken' \subseteq Channels
    BY <1>11, WsDelDoes DEF StripFreed, TypesOK
  <2>2. lit' \in [Strips -> [{1, 2} -> Nat]]
    BY <1>11, WsDelDoes DEF StripBlack, TypesOK
  <2> QED
    BY <1>0, <1>11, <2>1, <2>2, WsDelDoes DEF TypesOK
<1>12. CASE PcaInit
  <2>1. pca9955b' \in [Chips -> Chip]
    BY <1>12, PcaInitDoes DEF PcaSet
  <2>2. chip' \in [Chips -> Regs]
    BY <1>12, PcaInitDoes DEF ChipSet, ChipTouched, TypesOK
  <2>3. attached' \subseteq Chips
    <3>1. Dev \in Chips /\ (attached' = attached \/ attached' = attached \cup {Dev})
      BY <1>12, PcaInitDoes, Zenon
    <3> QED
      BY <3>1 DEF TypesOK
  <2> QED
    BY <1>0, <1>12, <2>1, <2>2, <2>3, PcaInitDoes DEF TypesOK
<1>13. CASE PcaStage
  BY <1>0, <1>13, PcaStageDoes DEF TypesOK, PcaStaged
<1>14. CASE PcaShow
  BY <1>0, <1>14, PcaShowDoes DEF TypesOK, ChipSet, ChipTouched
<1>15. CASE PcaDel
  <2>1. pca9955b' \in [Chips -> Chip] /\ chip' \in [Chips -> Regs] /\ attached' \subseteq Chips
    BY <1>15, PcaDelDoes DEF PcaSet, ChipTouched, TypesOK
  <2> QED
    BY <1>0, <1>15, <2>1, PcaDelDoes DEF TypesOK
<1>16. CASE \E i \in Strips : Shift(i)
  BY <1>0, <1>16, ShiftDoes DEF TypesOK
<1>17. CASE \E j \in Chips : PowerDip(j)
  BY <1>0, <1>17, PowerDipDoes DEF TypesOK, ChipSet, ChipTouched
<1> QED
  BY <1>1, <1>2, <1>3, <1>4, <1>5, <1>6, <1>7, <1>8, <1>9, <1>10, <1>11, <1>12, <1>13, <1>14,
     <1>15, <1>16, <1>17 DEF Step, Ws, Pca

-----------------------------------------------------------------------------
(* The calls of each phase *)

LEMMA InPhaseInit == Init => InPhase
BY NothingLeft DEF Init, InPhase, Left

LEMMA LeftSteps ==
  ASSUME Prog(todo), NEW call, Now(call), todo' = Tail(todo)
  PROVE  Left' \subseteq Left
BY Called

\* Fewer calls, in the same phase of the same operation.
LEMMA InPhaseKept ==
  ASSUME InPhase, Left' \subseteq Left, phase' = phase, wanted' = wanted,
         ret' = ret \/ phase # "acquiring", phase = "released" => todo' = <<>>
  PROVE  InPhase'
BY DEF InPhase, Releasing, InitKinds, StageKinds, ShowKinds, DelKinds

LEMMA KindsOf ==
  /\ \A x \in LeftOf(InitCalls) : x[1] \in InitKinds
  /\ \A x \in LeftOf(DeinitCalls) : x[1] \in DelKinds
  /\ \A x \in LeftOf(ShowCalls) : x[1] \in ShowKinds
  /\ \A x \in LeftOf(WriteFrameCalls \o ShowCalls) :
       x[1] \in StageKinds \cup ShowKinds /\ x[1] # "ws2812b_fill"
  /\ \A x \in LeftOf(FillCalls \o ShowCalls) :
       x[1] \in StageKinds \cup ShowKinds /\ x[1] # "ws2812b_write_grb"
<1>1. \A c, a, b : \A x \in Block(c, a, b) : x[1] = c
  BY DEF Block
<1>2. \A x \in LeftOf(InitCalls) : x[1] \in InitKinds
  BY <1>1, InitProg DEF InitKinds
<1>3. \A x \in LeftOf(DeinitCalls) : x[1] \in DelKinds
  BY <1>1, DeinitProg DEF DelKinds
<1>4. \A x \in ShowLeft : x[1] \in ShowKinds
  BY <1>1 DEF ShowKinds, ShowLeft
<1>5. \A x \in LeftOf(WriteFrameCalls \o ShowCalls) :
        x[1] \in StageKinds \cup ShowKinds /\ x[1] # "ws2812b_fill"
  BY <1>1, <1>4, WriteProg DEF StageKinds, ShowKinds
<1>6. \A x \in LeftOf(FillCalls \o ShowCalls) :
        x[1] \in StageKinds \cup ShowKinds /\ x[1] # "ws2812b_write_grb"
  BY <1>1, <1>4, FillProg DEF StageKinds, ShowKinds
<1> QED
  BY <1>2, <1>3, <1>4, <1>5, <1>6, ShowProg

LEMMA InPhaseStep == ASSUME TypesOK, Prog(todo), InPhase, Step PROVE InPhase'
<1>0. /\ phase \in {"released", "acquiring", "acquired", "releasing"}
      /\ wanted.op \in {"init", "write", "fill"}
  BY DEF TypesOK
<1>k. /\ InitKinds \cap StageKinds = {} /\ InitKinds \cap ShowKinds = {} /\ InitKinds \cap DelKinds = {}
      /\ StageKinds \cap ShowKinds = {} /\ StageKinds \cap DelKinds = {} /\ ShowKinds \cap DelKinds = {}
      /\ "ws2812b_write_grb" \in StageKinds /\ "ws2812b_fill" \in StageKinds
  BY DEF InitKinds, StageKinds, ShowKinds, DelKinds
<1>1. CASE Acquire
  <2>1. phase' = "acquiring" /\ ret' = "ok" /\ wanted'.op = "init" /\ wanted'.colour = 0
    <3>1. phase' = "acquiring" /\ ret' = "ok" /\ wanted' = [colour |-> 0, op |-> "init"]
      BY <1>1, AcquireDoes
    <3> QED
      BY <3>1
  <2>2. \A x \in Left' : x[1] \in InitKinds
    BY <1>1, AcquireDoes, KindsOf DEF Left, LeftOf
  <2> QED
    BY <2>1, <2>2, <1>k DEF InPhase
<1>2. CASE Update \/ Blackout
  <2>1. /\ phase' = "acquired" /\ wanted'.op \in {"write", "fill"}
        /\ wanted'.op = "fill" => wanted'.colour = 0
    BY <1>2, PassDoes
  <2>2. /\ \A x \in Left' : x[1] \in StageKinds \cup ShowKinds
        /\ wanted'.op = "fill" => \A x \in Left' : x[1] # "ws2812b_write_grb"
        /\ wanted'.op = "write" => \A x \in Left' : x[1] # "ws2812b_fill"
    BY <1>2, PassDoes, KindsOf DEF Left, LeftOf
  <2> QED
    BY <2>1, <2>2, <1>k DEF InPhase
<1>3. CASE Acquired \/ Release \/ Released
  <2>1. ret' = ret /\ wanted' = wanted
    BY <1>3, PhaseDoes
  <2>2. CASE todo' = <<>> /\ phase' \in {"acquired", "released"}
    <3>1. Left' = {}
      BY <2>2, NothingLeft DEF Left, LeftOf
    <3> QED
      BY <3>1, <2>1, <2>2 DEF InPhase
  <2>3. CASE todo' = DeinitCalls /\ phase' = "releasing"
    <3>1. \A x \in Left' : x[1] \in DelKinds
      BY <2>3, KindsOf DEF Left, LeftOf
    <3> QED
      BY <3>1, <2>1, <2>3, <1>k DEF InPhase, Releasing
  <2> QED
    BY <1>3, <2>2, <2>3, PhaseDoes
<1>4. CASE BusInit
  <2>1. Now("i2c_bus_init") /\ Pending("i2c_bus_init", Dev)
    BY <1>4, Calling DEF BusInit
  <2>2. phase = "acquiring" /\ phase' = phase /\ wanted' = wanted /\ ret = "ok"
    BY <1>4, <2>1, BusInitDoes DEF InPhase, Pending, InitKinds
  <2>3. CASE todo' = Tail(todo) /\ ret' = ret
    BY <2>1, <2>2, <2>3, LeftSteps, InPhaseKept
  <2>4. CASE todo' = DeinitCalls /\ ret' = "error"
    <3>1. \A x \in Left' : x[1] \in DelKinds
      BY <2>4, KindsOf DEF Left, LeftOf
    <3> QED
      BY <3>1, <2>2, <2>4, <1>k DEF InPhase, Releasing
  <2> QED
    BY <1>4, <2>3, <2>4, BusInitDoes
<1>5. CASE BusDel
  <2>1. Now("i2c_del_master_bus") /\ Pending("i2c_del_master_bus", Dev)
    BY <1>5, Calling DEF BusDel
  <2>2. phase # "released"
    BY <2>1 DEF InPhase, Pending, DelKinds, Releasing
  <2> QED
    BY <1>5, <2>1, <2>2, BusDelDoes, LeftSteps, InPhaseKept
<1>6. CASE WsInit
  <2>1. Now("ws2812b_init") /\ Pending("ws2812b_init", Dev)
    BY <1>6, Calling DEF WsInit
  <2>2. phase # "released"
    BY <2>1 DEF InPhase, Pending, InitKinds
  <2> QED
    BY <1>6, <2>1, <2>2, WsInitDoes, LeftSteps, InPhaseKept
<1>7. CASE WsWrite
  <2>1. Now("ws2812b_write_grb") /\ Pending("ws2812b_write_grb", Dev)
    BY <1>7, Calling DEF WsWrite
  <2>2. phase = "acquired" /\ wanted.op # "init"
    BY <2>1, <1>k DEF InPhase, Pending
  <2>3. CASE todo' = Tail(todo)
    BY <1>7, <2>1, <2>2, <2>3, WsWriteDoes, LeftSteps, InPhaseKept
  <2>4. CASE todo' = ShowCalls
    <3>1. \A x \in Left' : x[1] \in ShowKinds
      BY <2>4, KindsOf DEF Left, LeftOf
    <3>2. phase' = phase /\ wanted' = wanted
      BY <1>7, WsWriteDoes
    <3> QED
      BY <3>1, <3>2, <2>2, <1>k DEF InPhase
  <2> QED
    BY <1>7, <2>3, <2>4, WsWriteDoes
<1>8. CASE WsFill
  <2>1. Now("ws2812b_fill") /\ Pending("ws2812b_fill", Dev)
    BY <1>8, Calling DEF WsFill
  <2>2. phase # "released"
    BY <2>1 DEF InPhase, Pending, StageKinds
  <2> QED
    BY <1>8, <2>1, <2>2, WsFillDoes, LeftSteps, InPhaseKept
<1>9. CASE WsShow
  <2>1. Now("ws2812b_show") /\ Pending("ws2812b_show", Dev)
    BY <1>9, Calling DEF WsShow
  <2>2. phase = "acquired"
    BY <2>1 DEF InPhase, Pending, ShowKinds
  <2> QED
    BY <1>9, <2>1, <2>2, WsShowDoes, LeftSteps, InPhaseKept
<1>10. CASE WsWait
  <2>1. Now("ws2812b_wait_done") /\ Pending("ws2812b_wait_done", Dev)
    BY <1>10, Calling DEF WsWait
  <2>2. phase = "acquired"
    BY <2>1 DEF InPhase, Pending, ShowKinds
  <2> QED
    BY <1>10, <2>1, <2>2, WsWaitDoes, LeftSteps, InPhaseKept
<1>11. CASE WsDel
  <2>1. Now("ws2812b_del") /\ Pending("ws2812b_del", Dev)
    BY <1>11, Calling DEF WsDel
  <2>2. phase # "released"
    BY <2>1 DEF InPhase, Pending, DelKinds, Releasing
  <2> QED
    BY <1>11, <2>1, <2>2, WsDelDoes, LeftSteps, InPhaseKept
<1>12. CASE PcaInit
  <2>1. Now("pca9955b_init") /\ Pending("pca9955b_init", Dev)
    BY <1>12, Calling DEF PcaInit
  <2>2. phase # "released"
    BY <2>1 DEF InPhase, Pending, InitKinds
  <2> QED
    BY <1>12, <2>1, <2>2, PcaInitDoes, LeftSteps, InPhaseKept
<1>13. CASE PcaStage
  <2>1. PICK call \in {"pca9955b_set_pixel", "pca9955b_fill"} : Now(call)
    BY <1>13 DEF PcaStage
  <2>2. Pending(call, Dev)
    BY <2>1, Calling
  <2>3. phase # "released"
    BY <2>1, <2>2 DEF InPhase, Pending, StageKinds
  <2> QED
    BY <1>13, <2>1, <2>3, PcaStageDoes, LeftSteps, InPhaseKept
<1>14. CASE PcaShow
  <2>1. Now("pca9955b_show") /\ Pending("pca9955b_show", Dev)
    BY <1>14, Calling DEF PcaShow
  <2>2. phase = "acquired"
    BY <2>1 DEF InPhase, Pending, ShowKinds
  <2> QED
    BY <1>14, <2>1, <2>2, PcaShowDoes, LeftSteps, InPhaseKept
<1>15. CASE PcaDel
  <2>1. Now("pca9955b_del") /\ Pending("pca9955b_del", Dev)
    BY <1>15, Calling DEF PcaDel
  <2>2. phase # "released"
    BY <2>1 DEF InPhase, Pending, DelKinds, Releasing
  <2> QED
    BY <1>15, <2>1, <2>2, PcaDelDoes, LeftSteps, InPhaseKept
<1>16. CASE \E i \in Strips : Shift(i)
  <2>1. todo' = todo /\ phase' = phase /\ ret' = ret /\ wanted' = wanted
    BY <1>16, ShiftDoes
  <2>2. phase = "released" => todo' = <<>>
    BY <2>1 DEF InPhase
  <2> QED
    BY <2>1, <2>2, Kept, InPhaseKept
<1>17. CASE \E j \in Chips : PowerDip(j)
  <2>1. todo' = todo /\ phase' = phase /\ ret' = ret /\ wanted' = wanted
    BY <1>17, PowerDipDoes
  <2>2. phase = "released" => todo' = <<>>
    BY <2>1 DEF InPhase
  <2> QED
    BY <2>1, <2>2, Kept, InPhaseKept
<1> QED
  BY <1>1, <1>2, <1>3, <1>4, <1>5, <1>6, <1>7, <1>8, <1>9, <1>10, <1>11, <1>12, <1>13, <1>14,
     <1>15, <1>16, <1>17 DEF Step, Ws, Pca

-----------------------------------------------------------------------------
(* What is made, and what is still to be made or taken down *)

LEMMA PendingCalled ==
  ASSUME Prog(todo), NEW call, Now(call), todo' = Tail(todo)
  PROVE  \A c, d : Pending(c, d)' <=> Pending(c, d) /\ <<c, d>> # <<call, Dev>>
BY Called DEF Pending

LEMMA PendingKept == ASSUME todo' = todo PROVE \A c, d : Pending(c, d)' <=> Pending(c, d)
BY Kept DEF Pending

LEMMA PendingNone == ASSUME todo = <<>> PROVE \A c, d : ~Pending(c, d)
BY NothingLeft DEF Pending, Left

LEMMA PendingNoneNext == ASSUME todo' = <<>> PROVE \A c, d : ~Pending(c, d)'
<1>1. Left' = {}
  BY NothingLeft DEF Left, LeftOf
<1> QED
  BY <1>1 DEF Pending

\* A call of one kind is not pending when all pending calls are of others.
LEMMA PendingDeinit ==
  ASSUME todo' = DeinitCalls
  PROVE  /\ \A i \in Strips : Pending("ws2812b_del", i)'
         /\ \A j \in Chips : Pending("pca9955b_del", j)'
         /\ Pending("i2c_del_master_bus", 1)'
         /\ \A c, d : Pending(c, d)' => c \in DelKinds
<1>1. Left' = LeftOf(DeinitCalls)
  BY DEF Left, LeftOf
<1>2. /\ \A i \in Strips : <<"ws2812b_del", i>> \in Left'
      /\ \A j \in Chips : <<"pca9955b_del", j>> \in Left'
      /\ <<"i2c_del_master_bus", 1>> \in Left'
  BY <1>1, DeinitProg DEF Block, Strips, Chips
<1>3. \A c, d : <<c, d>> \in Left' => c \in DelKinds
  BY <1>1, KindsOf
<1> QED
  BY <1>2, <1>3 DEF Pending

LEMMA PendingInit ==
  ASSUME todo' = InitCalls
  PROVE  /\ \A i \in Strips : Pending("ws2812b_init", i)'
         /\ \A j \in Chips : Pending("pca9955b_init", j)'
         /\ Pending("i2c_bus_init", 1)'
         /\ \A c, d : Pending(c, d)' => c \in InitKinds
<1>1. Left' = LeftOf(InitCalls)
  BY DEF Left, LeftOf
<1>2. /\ \A i \in Strips : <<"ws2812b_init", i>> \in Left'
      /\ \A j \in Chips : <<"pca9955b_init", j>> \in Left'
      /\ <<"i2c_bus_init", 1>> \in Left'
  BY <1>1, InitProg DEF Block, Strips, Chips
<1>3. \A c, d : <<c, d>> \in Left' => c \in InitKinds
  BY <1>1, KindsOf
<1> QED
  BY <1>2, <1>3 DEF Pending

LEMMA PendingShow ==
  ASSUME todo' = ShowCalls
  PROVE  /\ \A i \in Strips : Pending("ws2812b_show", i)' /\ Pending("ws2812b_wait_done", i)'
         /\ \A j \in Chips : Pending("pca9955b_show", j)'
         /\ \A c, d : Pending(c, d)' => c \in ShowKinds
<1>1. Left' = LeftOf(ShowCalls)
  BY DEF Left, LeftOf
<1>2. /\ \A i \in Strips : <<"ws2812b_show", i>> \in Left' /\ <<"ws2812b_wait_done", i>> \in Left'
      /\ \A j \in Chips : <<"pca9955b_show", j>> \in Left'
  BY <1>1, ShowProg DEF ShowLeft, Block, Strips, Chips
<1>3. \A c, d : <<c, d>> \in Left' => c \in ShowKinds
  BY <1>1, KindsOf
<1> QED
  BY <1>2, <1>3 DEF Pending

LEMMA PendingWrite ==
  ASSUME todo' = WriteFrameCalls \o ShowCalls
  PROVE  /\ \A i \in Strips : /\ Pending("ws2812b_show", i)' /\ Pending("ws2812b_wait_done", i)'
                              /\ Pending("ws2812b_write_grb", i)'
         /\ \A j \in Chips : Pending("pca9955b_show", j)' /\ Pending("pca9955b_set_pixel", j)'
         /\ \A c, d : Pending(c, d)' => c \in StageKinds \cup ShowKinds
<1>1. Left' = LeftOf(WriteFrameCalls \o ShowCalls)
  BY DEF Left, LeftOf
<1>2. /\ \A i \in Strips : /\ <<"ws2812b_show", i>> \in Left' /\ <<"ws2812b_wait_done", i>> \in Left'
                           /\ <<"ws2812b_write_grb", i>> \in Left'
      /\ \A j \in Chips : <<"pca9955b_show", j>> \in Left' /\ <<"pca9955b_set_pixel", j>> \in Left'
  BY <1>1, WriteProg DEF ShowLeft, Block, Strips, Chips
<1>3. \A c, d : <<c, d>> \in Left' => c \in StageKinds \cup ShowKinds
  BY <1>1, KindsOf
<1> QED
  BY <1>2, <1>3 DEF Pending

LEMMA PendingFill ==
  ASSUME todo' = FillCalls \o ShowCalls
  PROVE  /\ \A i \in Strips : /\ Pending("ws2812b_show", i)' /\ Pending("ws2812b_wait_done", i)'
                              /\ Pending("ws2812b_fill", i)'
         /\ \A j \in Chips : Pending("pca9955b_show", j)' /\ Pending("pca9955b_fill", j)'
         /\ \A c, d : Pending(c, d)' => c \in StageKinds \cup ShowKinds
<1>1. Left' = LeftOf(FillCalls \o ShowCalls)
  BY DEF Left, LeftOf
<1>2. /\ \A i \in Strips : /\ <<"ws2812b_show", i>> \in Left' /\ <<"ws2812b_wait_done", i>> \in Left'
                           /\ <<"ws2812b_fill", i>> \in Left'
      /\ \A j \in Chips : <<"pca9955b_show", j>> \in Left' /\ <<"pca9955b_fill", j>> \in Left'
  BY <1>1, FillProg DEF ShowLeft, Block, Strips, Chips
<1>3. \A c, d : <<c, d>> \in Left' => c \in StageKinds \cup ShowKinds
  BY <1>1, KindsOf
<1> QED
  BY <1>2, <1>3 DEF Pending

\* What a pending call says of the phase.
LEMMA PhaseOf ==
  ASSUME InPhase, NEW c, NEW d, Pending(c, d)
  PROVE  /\ c \in InitKinds => phase = "acquiring" /\ ret = "ok" /\ wanted.op = "init"
         /\ c \in StageKinds \cup ShowKinds => phase = "acquired" /\ wanted.op # "init"
         /\ c = "ws2812b_write_grb" => wanted.op = "write"
         /\ c = "ws2812b_fill" => wanted.op = "fill"
         /\ c \in DelKinds => Releasing
BY DEF InPhase, Pending

\* Each driver call, the call it is, and what is pending after it.
LEMMA CallsNow ==
  ASSUME Prog(todo)
  PROVE  /\ BusDel => Now("i2c_del_master_bus")
         /\ WsInit => Now("ws2812b_init")
         /\ WsWrite => Now("ws2812b_write_grb")
         /\ WsFill => Now("ws2812b_fill")
         /\ WsShow => Now("ws2812b_show")
         /\ WsWait => Now("ws2812b_wait_done")
         /\ WsDel => Now("ws2812b_del")
         /\ PcaInit => Now("pca9955b_init")
         /\ PcaShow => Now("pca9955b_show")
         /\ PcaDel => Now("pca9955b_del")
         /\ BusInit => Now("i2c_bus_init")
BY DEF BusInit, BusDel, WsInit, WsWrite, WsFill, WsShow, WsWait, WsDel, PcaInit, PcaShow, PcaDel

\* A step that touches no handle and starts no other calls.
LEMMA LifeKept ==
  ASSUME Life, InPhase, phase' = phase, phase = "acquired", bus_handle' = bus_handle,
         \A i \in Strips : /\ ws2812b'[i].channel = ws2812b[i].channel
                           /\ ws2812b'[i].pixels = ws2812b[i].pixels,
         \A j \in Chips : /\ pca9955b'[j].dev = pca9955b[j].dev
                          /\ pca9955b'[j].enable = pca9955b[j].enable,
         \A c, d : Pending(c, d)' => c \in StageKinds \cup ShowKinds
  PROVE  Life'
<1>1. \A c, d : Pending(c, d)' => c \notin InitKinds
  BY DEF InitKinds, StageKinds, ShowKinds
<1>2. BeforeInit'
  BY <1>1 DEF BeforeInit, InitKinds
<1>3. BeforeDeinit'
  BY DEF BeforeDeinit, Releasing
<1>4. Flags'
  BY DEF Flags, Life, Has, Alive
<1> QED
  BY <1>2, <1>3, <1>4 DEF Life

LEMMA LeftPairs == ASSUME Prog(todo) PROVE Left \subseteq Pairs
BY DEF Prog, Left, LeftOf, EntryOK, At

LEMMA PendingAcquired ==
  ASSUME Prog(todo), InPhase, phase = "acquired"
  PROVE  \A c, d : Pending(c, d) => c \in StageKinds \cup ShowKinds
<1>1. \A x \in Pairs : x[1] \in InitKinds \cup DelKinds \cup StageKinds \cup ShowKinds
  BY DEF Pairs, InitKinds, DelKinds, StageKinds, ShowKinds, WsKinds, PcaKinds, BusKinds
<1>2. \A x \in Left : x[1] \notin InitKinds /\ x[1] \notin DelKinds
  BY DEF InPhase, Releasing
<1> QED
  BY <1>1, <1>2, LeftPairs DEF Pending

LEMMA LifeInit == Init => Life
<1> SUFFICES ASSUME Init PROVE Life
  OBVIOUS
<1>1. todo = <<>> /\ phase = "released" /\ bus_handle = FALSE
  BY DEF Init
<1>2. \A c, d : ~Pending(c, d)
  BY <1>1, PendingNone
<1>3. \A i \in Strips : ~Alive(i)
  BY DEF Init, Alive, NoStrip, Null
<1>4. \A j \in Chips : ~Has(j) /\ ~pca9955b[j].enable
  BY DEF Init, Has
<1> QED
  BY <1>1, <1>2, <1>3, <1>4 DEF Life, BeforeInit, BeforeDeinit, Flags, Releasing

LEMMA LifeStep == ASSUME TypesOK, Prog(todo), InPhase, Life, Step PROVE Life'
<1>0. /\ \A i \in Strips : ws2812b[i] \in Strip
      /\ bus_handle \in {TRUE, FALSE} /\ ret \in {"ok", "error"}
      /\ phase \in {"released", "acquiring", "acquired", "releasing"}
  BY DEF TypesOK
<1>1. CASE Acquire
  <2>1. /\ phase' = "acquiring" /\ ret' = "ok" /\ bus_handle' = FALSE
        /\ \A i \in Strips : ~Alive(i)'
        /\ \A j \in Chips : ~Has(j)'
    BY <1>1, AcquireDoes DEF Alive, Has
  <2>2. /\ \A i \in Strips : Pending("ws2812b_init", i)'
        /\ \A j \in Chips : Pending("pca9955b_init", j)'
        /\ Pending("i2c_bus_init", 1)'
    BY <1>1, AcquireDoes, PendingInit
  <2> QED
    BY <2>1, <2>2 DEF Life, BeforeInit, BeforeDeinit, Flags, Releasing
<1>2. CASE Update \/ Blackout
  <2>1. \A c, d : Pending(c, d)' => c \in StageKinds \cup ShowKinds
    BY <1>2, PassDoes, PendingWrite, PendingFill
  <2> QED
    BY <1>2, <2>1, PassDoes, LifeKept
<1>3. CASE Acquired \/ Release \/ Released
  <2>1. /\ UNCHANGED <<bus_handle, ws2812b, pca9955b, ret>> /\ todo = <<>>
        /\ \A i \in Strips : Alive(i)' <=> Alive(i)
        /\ \A j \in Chips : Has(j)' <=> Has(j)
    BY <1>3, PhaseDoes DEF Alive, Has
  <2>2. \A c, d : ~Pending(c, d)
    BY <2>1, PendingNone
  <2>3. CASE phase = "acquiring" /\ ret = "ok" /\ phase' = "acquired" /\ todo' = <<>>
    <3>1. \A c, d : ~Pending(c, d)'
      BY <2>3, PendingNoneNext
    <3> QED
      BY <2>1, <2>2, <2>3, <3>1 DEF Life, BeforeInit, BeforeDeinit, Flags, Releasing
  <2>4. CASE phase = "acquiring" /\ phase' = "released" /\ todo' = <<>>
    <3>1. \A c, d : ~Pending(c, d)'
      BY <2>4, PendingNoneNext
    <3> QED
      BY <1>0, <2>1, <2>2, <2>4, <3>1 DEF Life, BeforeInit, BeforeDeinit, Flags, Releasing
  <2>5. CASE phase = "acquired" /\ phase' = "releasing" /\ todo' = DeinitCalls
    <3>1. /\ \A i \in Strips : Pending("ws2812b_del", i)'
          /\ \A j \in Chips : Pending("pca9955b_del", j)'
          /\ Pending("i2c_del_master_bus", 1)'
          /\ \A c, d : Pending(c, d)' => c \in DelKinds
      BY <2>5, PendingDeinit
    <3> QED
      BY <2>1, <2>5, <3>1 DEF Life, BeforeInit, BeforeDeinit, Flags, Releasing, DelKinds
  <2>6. CASE phase = "releasing" /\ phase' = "released" /\ todo' = <<>>
    <3>1. \A c, d : ~Pending(c, d)'
      BY <2>6, PendingNoneNext
    <3> QED
      BY <2>1, <2>2, <2>6, <3>1 DEF Life, BeforeInit, BeforeDeinit, Flags, Releasing
  <2> QED
    BY <1>3, <2>3, <2>4, <2>5, <2>6, PhaseDoes
<1>4. CASE BusInit
  <2>1. Now("i2c_bus_init") /\ Pending("i2c_bus_init", 1) /\ Dev = 1
    BY <1>4, Calling, CallsNow, BusInitDoes
  <2>2. phase = "acquiring" /\ ret = "ok"
    BY <2>1, PhaseOf DEF InitKinds
  <2>3. /\ UNCHANGED <<ws2812b, pca9955b, phase>>
        /\ ~bus_handle
        /\ \A i \in Strips : ~Alive(i) /\ ~Alive(i)'
        /\ \A j \in Chips : ~Has(j) /\ ~Has(j)'
    BY <1>4, <2>1, BusInitDoes DEF Alive, Has, Life, BeforeInit
  <2>4. CASE port' = TRUE /\ bus_handle' = TRUE /\ todo' = Tail(todo) /\ ret' = ret
    <3>1. \A c, d : Pending(c, d)' <=> Pending(c, d) /\ <<c, d>> # <<"i2c_bus_init", 1>>
      BY <2>1, <2>4, PendingCalled
    <3>2. BeforeInit'
      BY <2>2, <2>3, <2>4, <3>1 DEF BeforeInit
    <3>3. BeforeDeinit'
      BY <2>2, <2>3, <2>4 DEF BeforeDeinit, Releasing
    <3>4. Flags'
      BY <2>2, <2>3, <2>4, <3>1 DEF Flags, Life
    <3> QED
      BY <3>2, <3>3, <3>4 DEF Life
  <2>5. CASE port' = port /\ bus_handle' = bus_handle /\ todo' = DeinitCalls /\ ret' = "error"
    <3>1. \A c, d : Pending(c, d)' => c \in DelKinds
      BY <2>5, PendingDeinit
    <3> QED
      BY <2>2, <2>3, <2>5, <3>1 DEF Life, BeforeInit, BeforeDeinit, Flags, Releasing, DelKinds
  <2> QED
    BY <1>4, <2>4, <2>5, BusInitDoes
<1>5. CASE BusDel
  <2>1. Now("i2c_del_master_bus") /\ Pending("i2c_del_master_bus", 1) /\ Dev = 1
    BY <1>5, Calling, CallsNow, BusDelDoes
  <2>2. Releasing
    BY <2>1, PhaseOf DEF DelKinds
  <2>3. /\ UNCHANGED <<ws2812b, pca9955b, phase, ret>> /\ bus_handle' = FALSE /\ todo' = Tail(todo)
        /\ \A i \in Strips : Alive(i)' <=> Alive(i)
        /\ \A j \in Chips : Has(j)' <=> Has(j)
    BY <1>5, BusDelDoes DEF Alive, Has
  <2>4. \A c, d : Pending(c, d)' <=> Pending(c, d) /\ <<c, d>> # <<"i2c_del_master_bus", 1>>
    BY <2>1, <2>3, PendingCalled
  <2>5. BeforeInit'
    BY <2>2, <2>3, <2>4 DEF BeforeInit, Life, Releasing
  <2>6. BeforeDeinit'
    BY <2>2, <2>3, <2>4 DEF BeforeDeinit, Life, Releasing
  <2>7. Flags'
    BY <2>2, <2>3, <2>4 DEF Flags, Life, Releasing
  <2> QED
    BY <2>5, <2>6, <2>7 DEF Life
<1>6. CASE WsInit
  <2>0. PICK i : i = Dev
    OBVIOUS
  <2>1. Now("ws2812b_init") /\ Pending("ws2812b_init", i) /\ i \in Strips
    BY <2>0, <1>6, Calling, CallsNow, WsInitDoes
  <2>2. phase = "acquiring" /\ ret = "ok"
    BY <2>1, PhaseOf DEF InitKinds
  <2>3. /\ UNCHANGED <<bus_handle, pca9955b, phase, ret>> /\ todo' = Tail(todo)
        /\ \A j \in Chips : Has(j)' <=> Has(j)
    BY <1>6, WsInitDoes DEF Has
  <2>4. ~Alive(i)
    BY <2>1 DEF Life, BeforeInit
  <2>5. /\ \A k \in Strips : k # i => (Alive(k)' <=> Alive(k)) /\ ws2812b'[k] = ws2812b[k]
        /\ Alive(i)' => ws2812b'[i].pixels
    BY <2>0, <1>6, <2>1, <2>4, WsInitDoes DEF StripKept, StripMade, Only, Alive
  <2>6. \A c, d : Pending(c, d)' <=> Pending(c, d) /\ <<c, d>> # <<"ws2812b_init", i>>
    BY <2>0, <2>1, <2>3, PendingCalled
  <2>7. ~Pending("i2c_bus_init", 1)'
    BY <2>0, <2>1, <2>3, Called DEF Pending, Before
  <2>8. BeforeInit'
    BY <2>2, <2>3, <2>4, <2>5, <2>6, <2>7 DEF BeforeInit, Life
  <2>9. BeforeDeinit'
    BY <2>2, <2>3 DEF BeforeDeinit, Releasing
  <2>10. Flags'
    BY <2>2, <2>3, <2>5, <2>6 DEF Flags, Life
  <2> QED
    BY <2>8, <2>9, <2>10 DEF Life
<1>7. CASE WsWrite \/ WsFill \/ WsShow \/ WsWait \/ PcaStage \/ PcaShow
  <2>1. PICK call \in StageKinds \cup ShowKinds : Now(call)
    BY <1>7, CallsNow DEF PcaStage, StageKinds, ShowKinds
  <2>2. phase = "acquired"
    BY <2>1, Calling, PhaseOf
  <2>3. /\ phase' = phase /\ bus_handle' = bus_handle
        /\ todo' = Tail(todo) \/ todo' = ShowCalls
    BY <1>7, WsWriteDoes, WsFillDoes, WsShowDoes, WsWaitDoes, PcaStageDoes, PcaShowDoes
  <2>4. \A i \in Strips : /\ ws2812b'[i].channel = ws2812b[i].channel
                          /\ ws2812b'[i].pixels = ws2812b[i].pixels
    BY <1>7, WsWriteDoes, WsFillDoes, WsShowDoes, WsWaitDoes, PcaStageDoes, PcaShowDoes
       DEF StripStaged, Only
  <2>5. \A j \in Chips : /\ pca9955b'[j].dev = pca9955b[j].dev
                         /\ pca9955b'[j].enable = pca9955b[j].enable
    BY <1>7, WsWriteDoes, WsFillDoes, WsShowDoes, WsWaitDoes, PcaStageDoes, PcaShowDoes
       DEF PcaStaged, Only
  <2>6. \A c, d : Pending(c, d)' => c \in StageKinds \cup ShowKinds
    <3>1. CASE todo' = Tail(todo)
      BY <2>1, <2>2, <3>1, PendingCalled, PendingAcquired
    <3>2. CASE todo' = ShowCalls
      BY <3>2, PendingShow
    <3> QED
      BY <2>3, <3>1, <3>2
  <2> QED
    BY <2>2, <2>3, <2>4, <2>5, <2>6, LifeKept
<1>8. CASE WsDel
  <2>0. PICK i : i = Dev
    OBVIOUS
  <2>1. Now("ws2812b_del") /\ Pending("ws2812b_del", i) /\ i \in Strips
    BY <2>0, <1>8, Calling, CallsNow, WsDelDoes
  <2>2. Releasing
    BY <2>1, PhaseOf DEF DelKinds
  <2>3. /\ UNCHANGED <<bus_handle, pca9955b, phase, ret>> /\ todo' = Tail(todo)
        /\ \A j \in Chips : Has(j)' <=> Has(j)
    BY <1>8, WsDelDoes DEF Has
  <2>4. /\ \A k \in Strips : k # i => (Alive(k)' <=> Alive(k)) /\ ws2812b'[k] = ws2812b[k]
        /\ ~Alive(i)'
    BY <2>0, <1>8, <2>1, WsDelDoes DEF StripFreed, Only, Alive
  <2>5. \A c, d : Pending(c, d)' <=> Pending(c, d) /\ <<c, d>> # <<"ws2812b_del", i>>
    BY <2>0, <2>1, <2>3, PendingCalled
  <2>6. BeforeInit'
    BY <2>2, <2>3, <2>4, <2>5 DEF BeforeInit, Life, Releasing
  <2>7. BeforeDeinit'
    BY <2>2, <2>3, <2>4, <2>5 DEF BeforeDeinit, Life, Releasing
  <2>8. Flags'
    BY <2>2, <2>3, <2>4, <2>5 DEF Flags, Life, Releasing
  <2> QED
    BY <2>6, <2>7, <2>8 DEF Life
<1>9. CASE PcaInit
  <2>0. PICK j : j = Dev
    OBVIOUS
  <2>1. Now("pca9955b_init") /\ Pending("pca9955b_init", j) /\ j \in Chips
    BY <2>0, <1>9, Calling, CallsNow, PcaInitDoes
  <2>2. phase = "acquiring" /\ ret = "ok"
    BY <2>1, PhaseOf DEF InitKinds
  <2>3. /\ UNCHANGED <<bus_handle, ws2812b, phase, ret>> /\ todo' = Tail(todo)
        /\ \A i \in Strips : Alive(i)' <=> Alive(i)
    BY <1>9, PcaInitDoes DEF Alive
  <2>4. /\ \A k \in Chips : k # j => (Has(k)' <=> Has(k)) /\ pca9955b'[k] = pca9955b[k]
        /\ Has(j)' <=> pca9955b'[j].enable
    <3>1. CASE PcaSet(j, FALSE, FALSE)
      BY <2>1, <3>1 DEF PcaSet, Only, Has
    <3>2. CASE PcaSet(j, TRUE, TRUE)
      BY <2>1, <3>2 DEF PcaSet, Only, Has
    <3> QED
      BY <2>0, <1>9, <3>1, <3>2, PcaInitDoes
  <2>5. \A c, d : Pending(c, d)' <=> Pending(c, d) /\ <<c, d>> # <<"pca9955b_init", j>>
    BY <2>0, <2>1, <2>3, PendingCalled
  <2>6. ~Pending("i2c_bus_init", 1)'
    BY <2>0, <2>1, <2>3, Called DEF Pending, Before
  <2>7. BeforeInit'
    BY <2>2, <2>3, <2>4, <2>5, <2>6 DEF BeforeInit, Life
  <2>8. BeforeDeinit'
    BY <2>2, <2>3 DEF BeforeDeinit, Releasing
  <2>9. Flags'
    BY <2>2, <2>3, <2>4, <2>5 DEF Flags, Life
  <2> QED
    BY <2>7, <2>8, <2>9 DEF Life
<1>10. CASE PcaDel
  <2>0. PICK j : j = Dev
    OBVIOUS
  <2>1. Now("pca9955b_del") /\ Pending("pca9955b_del", j) /\ j \in Chips
    BY <2>0, <1>10, Calling, CallsNow, PcaDelDoes
  <2>2. Releasing
    BY <2>1, PhaseOf DEF DelKinds
  <2>3. /\ UNCHANGED <<bus_handle, ws2812b, phase, ret>> /\ todo' = Tail(todo)
        /\ \A i \in Strips : Alive(i)' <=> Alive(i)
    BY <1>10, PcaDelDoes DEF Alive
  <2>4. /\ \A k \in Chips : k # j => (Has(k)' <=> Has(k)) /\ pca9955b'[k] = pca9955b[k]
        /\ ~Has(j)'
    <3>1. CASE ~pca9955b[j].enable /\ pca9955b' = pca9955b
      BY <2>1, <3>1 DEF Has, Life, Flags
    <3>2. CASE PcaSet(j, FALSE, FALSE)
      BY <2>1, <3>2 DEF PcaSet, Only, Has
    <3> QED
      BY <2>0, <1>10, <3>1, <3>2, PcaDelDoes
  <2>5. \A c, d : Pending(c, d)' <=> Pending(c, d) /\ <<c, d>> # <<"pca9955b_del", j>>
    BY <2>0, <2>1, <2>3, PendingCalled
  <2>6. BeforeInit'
    BY <2>2, <2>3, <2>4, <2>5 DEF BeforeInit, Life, Releasing
  <2>7. BeforeDeinit'
    BY <2>2, <2>3, <2>4, <2>5 DEF BeforeDeinit, Life, Releasing
  <2>8. Flags'
    BY <2>2, <2>3, <2>4, <2>5 DEF Flags, Life, Releasing
  <2> QED
    BY <2>6, <2>7, <2>8 DEF Life
<1>11. CASE (\E i \in Strips : Shift(i)) \/ (\E j \in Chips : PowerDip(j))
  <2>1. UNCHANGED <<bus_handle, ws2812b, pca9955b, phase, ret, todo>>
    BY <1>11, ShiftDoes, PowerDipDoes
  <2>2. /\ \A c, d : Pending(c, d)' <=> Pending(c, d)
        /\ \A i \in Strips : Alive(i)' <=> Alive(i)
        /\ \A j \in Chips : Has(j)' <=> Has(j)
    BY <2>1, PendingKept DEF Alive, Has
  <2> QED
    BY <2>1, <2>2 DEF Life, BeforeInit, BeforeDeinit, Flags, Releasing
<1> QED
  BY <1>1, <1>2, <1>3, <1>4, <1>5, <1>6, <1>7, <1>8, <1>9, <1>10, <1>11 DEF Step, Ws, Pca

-----------------------------------------------------------------------------
(* What the drivers hold has an owner *)

LEMMA OwnedInit == Init => Owned
<1> SUFFICES ASSUME Init PROVE Owned
  OBVIOUS
<1>1. \A i \in Strips : ws2812b[i].channel = Null
  BY DEF Init, NoStrip
<1>2. \A j \in Chips : pca9955b[j].dev = FALSE
  BY DEF Init
<1>3. taken = {} /\ attached = {} /\ port = FALSE /\ bus_handle = FALSE
  BY DEF Init
<1> QED
  BY <1>1, <1>2, <1>3 DEF Owned, NothingOrphaned, Alive

\* A step that leaves every handle and all that is held as it is.
LEMMA OwnedKept ==
  ASSUME Owned,
         \A i \in Strips : ws2812b'[i].channel = ws2812b[i].channel,
         \A j \in Chips : pca9955b'[j].dev = pca9955b[j].dev,
         bus_handle' = bus_handle, port' = port, attached' = attached, taken' = taken,
         cause' = cause
  PROVE  Owned'
<1>1. {ws2812b'[i].channel : i \in Strips} = {ws2812b[i].channel : i \in Strips}
  OBVIOUS
<1>2. {j \in Chips : pca9955b'[j].dev} = {j \in Chips : pca9955b[j].dev}
  OBVIOUS
<1> QED
  BY <1>1, <1>2 DEF Owned, NothingOrphaned, Alive

LEMMA OwnedStep == ASSUME TypesOK, Prog(todo), InPhase, Life, Owned, Step PROVE Owned'
<1>1. CASE Acquire
  <2>1. /\ phase = "released"
        /\ \A i \in Strips : ws2812b'[i].channel = Null
        /\ \A j \in Chips : pca9955b'[j].dev = FALSE
        /\ UNCHANGED <<port, attached, taken>> /\ bus_handle' = FALSE
        /\ \/ bus_handle = TRUE /\ cause' = cause \cup {"init again"}
           \/ bus_handle = FALSE /\ cause' = cause
    BY <1>1, AcquireDoes
  <2>2. CASE bus_handle = TRUE /\ cause' = cause \cup {"init again"}
    BY <2>1, <2>2 DEF Owned, NothingOrphaned, Alive
  <2>3. CASE bus_handle = FALSE /\ cause' = cause
    <3>1. /\ \A i \in Strips : ws2812b[i].channel = Null
          /\ \A j \in Chips : ~pca9955b[j].dev
      BY <2>1, <2>3 DEF Life, BeforeDeinit, Alive, Has
    <3>2. cause = {} => taken = {} /\ attached = {} /\ port = FALSE
      BY <2>3, <3>1 DEF Owned, NothingOrphaned
    <3> QED
      BY <2>1, <2>3, <3>2 DEF Owned, NothingOrphaned, Alive
  <2> QED
    BY <2>1, <2>2, <2>3
<1>2. CASE \/ Update \/ Blackout \/ Acquired \/ Release \/ Released
           \/ WsWrite \/ WsFill \/ WsShow \/ WsWait \/ PcaStage \/ PcaShow
           \/ (\E i \in Strips : Shift(i)) \/ (\E j \in Chips : PowerDip(j))
  <2>1. /\ bus_handle' = bus_handle /\ port' = port /\ attached' = attached /\ taken' = taken
        /\ cause' = cause
    BY <1>2, PassDoes, PhaseDoes, WsWriteDoes, WsFillDoes, WsShowDoes, WsWaitDoes, PcaStageDoes,
       PcaShowDoes, ShiftDoes, PowerDipDoes
  <2>2. \A i \in Strips : ws2812b'[i].channel = ws2812b[i].channel
    BY <1>2, PassDoes, PhaseDoes, WsWriteDoes, WsFillDoes, WsShowDoes, WsWaitDoes, PcaStageDoes,
       PcaShowDoes, ShiftDoes, PowerDipDoes DEF StripStaged, Only
  <2>3. \A j \in Chips : pca9955b'[j].dev = pca9955b[j].dev
    BY <1>2, PassDoes, PhaseDoes, WsWriteDoes, WsFillDoes, WsShowDoes, WsWaitDoes, PcaStageDoes,
       PcaShowDoes, ShiftDoes, PowerDipDoes DEF PcaStaged, Only
  <2> QED
    BY <2>1, <2>2, <2>3, OwnedKept
<1>3. CASE BusInit
  <2>1. Now("i2c_bus_init") /\ Pending("i2c_bus_init", 1)
    BY <1>3, Calling, CallsNow, BusInitDoes
  <2>2. UNCHANGED <<ws2812b, pca9955b, attached, taken, cause>>
    BY <1>3, BusInitDoes
  <2>3. port' = bus_handle' \/ (port' = port /\ bus_handle' = bus_handle)
    <3>1. CASE port' = TRUE /\ bus_handle' = TRUE
      BY <3>1
    <3>2. CASE port' = port /\ bus_handle' = bus_handle
      BY <3>2
    <3> QED
      BY <1>3, <3>1, <3>2, BusInitDoes
  <2> QED
    BY <2>2, <2>3 DEF Owned, NothingOrphaned, Alive
<1>4. CASE BusDel
  <2>1. Now("i2c_del_master_bus") /\ Pending("i2c_del_master_bus", 1) /\ Dev = 1
    BY <1>4, Calling, CallsNow, BusDelDoes
  <2>2. Releasing
    BY <2>1, PhaseOf DEF DelKinds
  <2>3. \A j \in Chips : ~Pending("pca9955b_del", j)
    <3>1. \A y \in Left' : y[1] \notin DelKinds
      BY <1>4, <2>1, Called, BusDelDoes DEF Before
    <3>2. \A c, d : Pending(c, d)' <=> Pending(c, d) /\ <<c, d>> # <<"i2c_del_master_bus", 1>>
      BY <1>4, <2>1, BusDelDoes, PendingCalled
    <3>3. \A j \in Chips : ~Pending("pca9955b_del", j)'
      BY <3>1 DEF Pending, DelKinds
    <3> QED
      BY <3>2, <3>3
  <2>4. \A j \in Chips : ~pca9955b[j].dev
    BY <2>2, <2>3 DEF Life, BeforeDeinit, Has
  <2>5. cause = {} => attached = {}
    BY <2>4 DEF Owned, NothingOrphaned
  <2>6. UNCHANGED <<ws2812b, pca9955b, attached, taken>> /\ bus_handle' = FALSE
    BY <1>4, BusDelDoes
  <2>7. /\ {ws2812b'[i].channel : i \in Strips} = {ws2812b[i].channel : i \in Strips}
        /\ {j \in Chips : pca9955b'[j].dev} = {j \in Chips : pca9955b[j].dev}
    BY <2>6
  <2>8. cause' = {} => cause = {} /\ port' = bus_handle'
    <3>1. cause = {} => port = bus_handle
      BY DEF Owned, NothingOrphaned
    <3>2. CASE bus_handle = FALSE /\ port' = port /\ cause' = cause
      BY <3>1, <3>2, <2>6
    <3>3. CASE bus_handle = TRUE /\ port' = FALSE /\ cause' = cause
      BY <3>3, <2>6
    <3>4. CASE bus_handle = TRUE /\ attached # {} /\ port' = port /\ cause' = cause
      BY <3>4, <2>5
    <3>5. CASE port' = port /\ cause' = cause \cup {"bus"}
      BY <3>5
    <3> QED
      BY <1>4, <3>2, <3>3, <3>4, <3>5, BusDelDoes
  <2> QED
    BY <2>6, <2>7, <2>8 DEF Owned, NothingOrphaned, Alive
<1>5. CASE WsInit
  <2>0. PICK i : i = Dev
    OBVIOUS
  <2>1. Now("ws2812b_init") /\ Pending("ws2812b_init", i) /\ i \in Strips
    BY <2>0, <1>5, Calling, CallsNow, WsInitDoes
  <2>2. ws2812b[i].channel = Null
    BY <2>1 DEF Life, BeforeInit, Alive
  <2>3. UNCHANGED <<bus_handle, pca9955b, port, attached>>
    BY <1>5, WsInitDoes
  <2>4. CASE StripKept(i) /\ taken' = taken /\ cause' = cause
    <3>1. \A k \in Strips : ws2812b'[k].channel = ws2812b[k].channel
      BY <2>1, <2>4 DEF StripKept, Only
    <3> QED
      BY <2>3, <2>4, <3>1, OwnedKept
  <2>5. CASE StripMade(i) /\ cause' = cause
    <3>1. /\ ws2812b'[i].channel = NewChannel /\ NewChannel \notin taken /\ NewChannel # Null
          /\ taken' = taken \cup {NewChannel}
          /\ \A k \in Strips : k # i => ws2812b'[k].channel = ws2812b[k].channel
      BY <2>5 DEF StripMade, Only
    <3> DEFINE c == NewChannel
    <3> HIDE DEF c
    <3>2. ws2812b'[i].channel = c /\ c \notin taken /\ c # Null /\ taken' = taken \cup {c}
      BY <3>1 DEF c
    <3>3. {ws2812b'[k].channel : k \in Strips} \ {Null} =
            ({ws2812b[k].channel : k \in Strips} \ {Null}) \cup {c}
      BY <2>1, <2>2, <3>1, <3>2
    <3>4. \A k \in Strips : k # i => ws2812b'[k].channel # c
      BY <3>1, <3>2 DEF Owned, Alive
    <3>5. NothingOrphaned'
      BY <2>3, <2>5, <3>2, <3>3 DEF Owned, NothingOrphaned
    <3>6. \A k \in Strips : Alive(k)' => ws2812b'[k].channel \in taken'
      BY <3>1, <3>2 DEF Owned, Alive
    <3>7. \A k, m \in Strips : k # m /\ Alive(k)' => ws2812b'[k].channel # ws2812b'[m].channel
      BY <2>1, <3>1, <3>2, <3>4 DEF Owned, Alive
    <3> QED
      BY <3>5, <3>6, <3>7 DEF Owned
  <2>6. CASE /\ StripKept(i) /\ taken' = taken \cup {NewChannel}
             /\ cause' = cause \cup {"enabled"}
    <3>1. \A k \in Strips : ws2812b'[k].channel = ws2812b[k].channel
      BY <2>1, <2>6 DEF StripKept, Only
    <3>2. cause' # {} /\ taken \subseteq taken'
      BY <2>6
    <3> QED
      BY <3>1, <3>2 DEF Owned, NothingOrphaned, Alive
  <2> QED
    BY <2>0, <1>5, <2>4, <2>5, <2>6, WsInitDoes
<1>6. CASE WsDel
  <2>0. PICK i : i = Dev
    OBVIOUS
  <2>1. Now("ws2812b_del") /\ i \in Strips
    BY <2>0, <1>6, CallsNow, WsDelDoes
  <2>2. UNCHANGED <<bus_handle, pca9955b, port, attached>>
    BY <1>6, WsDelDoes
  <2>3. CASE UNCHANGED <<ws2812b, taken, cause>>
    BY <2>2, <2>3, OwnedKept
  <2>4. CASE Alive(i) /\ StripFreed(i) /\ taken' \in {taken, taken \ {ws2812b[i].channel}}
    <3>1. /\ ws2812b'[i].channel = Null
          /\ \A k \in Strips : k # i => ws2812b'[k].channel = ws2812b[k].channel
      BY <2>4 DEF StripFreed, Only
    <3>2. PICK c : c = ws2812b[i].channel
      OBVIOUS
    <3>3. c # Null /\ \A k \in Strips : k # i => ws2812b[k].channel # c
      BY <2>1, <2>4, <3>2 DEF Owned, Alive
    <3>4. {ws2812b'[k].channel : k \in Strips} \ {Null} =
            ({ws2812b[k].channel : k \in Strips} \ {Null}) \ {c}
      BY <2>1, <3>1, <3>2, <3>3
    <3>5. \A k \in Strips : Alive(k)' => ws2812b'[k].channel \in taken'
      BY <2>4, <3>1, <3>2, <3>3 DEF Owned, Alive
    <3>6. \A k, m \in Strips : k # m /\ Alive(k)' => ws2812b'[k].channel # ws2812b'[m].channel
      BY <2>1, <3>1 DEF Owned, Alive
    <3>7. CASE taken' = taken \ {c} /\ cause' = cause
      BY <2>2, <3>4, <3>5, <3>6, <3>7 DEF Owned, NothingOrphaned
    <3>8. CASE cause' = cause \cup {"delete"}
      BY <3>5, <3>6, <3>8 DEF Owned, NothingOrphaned
    <3> QED
      BY <2>0, <1>6, <2>4, <3>2, <3>7, <3>8, WsDelDoes
  <2> QED
    BY <2>0, <1>6, <2>3, <2>4, WsDelDoes
<1>7. CASE PcaInit
  <2>0. PICK j : j = Dev
    OBVIOUS
  <2>1. Now("pca9955b_init") /\ Pending("pca9955b_init", j) /\ j \in Chips
    BY <2>0, <1>7, Calling, CallsNow, PcaInitDoes
  <2>2. ~pca9955b[j].dev
    BY <2>1 DEF Life, BeforeInit, Has
  <2>3. UNCHANGED <<bus_handle, ws2812b, port, taken, cause>>
    BY <1>7, PcaInitDoes
  <2>4. CASE PcaSet(j, FALSE, FALSE) /\ attached' = attached
    <3>1. {k \in Chips : pca9955b'[k].dev} = {k \in Chips : pca9955b[k].dev}
      BY <2>1, <2>2, <2>4 DEF PcaSet, Only
    <3> QED
      BY <2>3, <2>4, <3>1 DEF Owned, NothingOrphaned, Alive
  <2>5. CASE PcaSet(j, TRUE, TRUE) /\ attached' = attached \cup {j}
    <3>1. {k \in Chips : pca9955b'[k].dev} = {k \in Chips : pca9955b[k].dev} \cup {j}
      BY <2>1, <2>2, <2>5 DEF PcaSet, Only
    <3> QED
      BY <2>3, <2>5, <3>1 DEF Owned, NothingOrphaned, Alive
  <2> QED
    BY <2>0, <1>7, <2>4, <2>5, PcaInitDoes
<1>8. CASE PcaDel
  <2>0. PICK j : j = Dev
    OBVIOUS
  <2>1. j \in Chips /\ UNCHANGED <<bus_handle, ws2812b, port, taken>>
    BY <2>0, <1>8, PcaDelDoes
  <2>2. CASE UNCHANGED <<pca9955b, attached, cause>>
    BY <2>1, <2>2, OwnedKept
  <2>3. CASE PcaSet(j, FALSE, FALSE) /\ ~Has(j) /\ attached' = attached /\ cause' = cause
    <3>1. {k \in Chips : pca9955b'[k].dev} = {k \in Chips : pca9955b[k].dev}
      BY <2>1, <2>3 DEF PcaSet, Only, Has
    <3> QED
      BY <2>1, <2>3, <3>1 DEF Owned, NothingOrphaned, Alive
  <2>4. CASE PcaSet(j, FALSE, FALSE) /\ attached' = attached \ {j} /\ cause' = cause
    <3>1. {k \in Chips : pca9955b'[k].dev} = {k \in Chips : pca9955b[k].dev} \ {j}
      BY <2>1, <2>4 DEF PcaSet, Only
    <3> QED
      BY <2>1, <2>4, <3>1 DEF Owned, NothingOrphaned, Alive
  <2>5. CASE cause' = cause \cup {"remove"}
    BY <2>1, <2>5 DEF Owned, NothingOrphaned, Alive
  <2> QED
    BY <2>0, <1>8, <2>2, <2>3, <2>4, <2>5, PcaDelDoes
<1> QED
  BY <1>1, <1>2, <1>3, <1>4, <1>5, <1>6, <1>7, <1>8 DEF Step, Ws, Pca

-----------------------------------------------------------------------------
(* Nothing is lit that the controller does not hold *)

BlackStrip(i) == ws2812b[i].buffer = 0 /\ (<<"ws", i>> \in lost \/ lit[i] = <<0, 0>>)
BlackChip(j)  == pca9955b[j].buffer = 0 /\ (<<"pca", j>> \in lost \/ Light(j) = 0)

LEMMA DarkInit == Init => Dark
<1> SUFFICES ASSUME Init PROVE Dark
  OBVIOUS
<1>1. \A i \in Strips : ws2812b[i].buffer = 0 /\ lit[i] = <<0, 0>>
  BY DEF Init, NoStrip
<1>2. \A j \in Chips : pca9955b[j].buffer = 0 /\ chip[j].iref = FALSE
  BY DEF Init
<1> QED
  BY <1>1, <1>2 DEF Dark, Light

\* A step that gives nothing up, and leaves black what was black.
LEMMA DarkKept ==
  ASSUME Dark,
         phase' \in {"released", "acquiring"} => phase \in {"released", "acquiring"},
         \A i \in Strips : ~Alive(i)' => ~Alive(i) \/ BlackStrip(i)',
         \A j \in Chips : ~Has(j)' => ~Has(j) \/ BlackChip(j)',
         \A i \in Strips : BlackStrip(i)
              /\ (~Alive(i) \/ phase \in {"released", "acquiring"}) => BlackStrip(i)',
         \A j \in Chips : BlackChip(j)
              /\ (~Has(j) \/ phase \in {"released", "acquiring"}) => BlackChip(j)'
  PROVE  Dark'
<1>1. /\ \A i \in Strips : ~Alive(i) \/ phase \in {"released", "acquiring"} => BlackStrip(i)
      /\ \A j \in Chips : ~Has(j) \/ phase \in {"released", "acquiring"} => BlackChip(j)
  BY DEF Dark, BlackStrip, BlackChip
<1>2. /\ \A i \in Strips : ~Alive(i)' \/ phase' \in {"released", "acquiring"} => BlackStrip(i)'
      /\ \A j \in Chips : ~Has(j)' \/ phase' \in {"released", "acquiring"} => BlackChip(j)'
  BY <1>1
<1> QED
  BY <1>2 DEF Dark, BlackStrip, BlackChip

\* What is as it was stays black.
LEMMA SameStrip ==
  ASSUME NEW i, ws2812b'[i] = ws2812b[i], lit'[i] = lit[i],
         <<"ws", i>> \in lost => <<"ws", i>> \in lost'
  PROVE  (BlackStrip(i) => BlackStrip(i)') /\ (~Alive(i)' => ~Alive(i))
BY DEF BlackStrip, Alive

LEMMA SameChip ==
  ASSUME NEW j, pca9955b'[j] = pca9955b[j], chip'[j] = chip[j],
         <<"pca", j>> \in lost => <<"pca", j>> \in lost'
  PROVE  (BlackChip(j) => BlackChip(j)') /\ (~Has(j)' => ~Has(j))
BY DEF BlackChip, Has, Light

LEMMA DarkStep == ASSUME TypesOK, Prog(todo), InPhase, Life, Dark, Step PROVE Dark'
<1>0. /\ \A i \in Strips : ~Alive(i) \/ phase \in {"released", "acquiring"} => BlackStrip(i)
      /\ \A j \in Chips : ~Has(j) \/ phase \in {"released", "acquiring"} => BlackChip(j)
  BY DEF Dark, BlackStrip, BlackChip
<1>s. \A i, j : <<"ws", i>> # <<"pca", j>>
  OBVIOUS
<1>1. CASE Acquire
  <2>1. /\ phase = "released" /\ UNCHANGED <<lit, chip, lost>>
        /\ \A i \in Strips : ws2812b'[i].buffer = 0
        /\ \A j \in Chips : pca9955b'[j].buffer = 0
    BY <1>1, AcquireDoes
  <2>2. /\ \A i \in Strips : BlackStrip(i)'
        /\ \A j \in Chips : BlackChip(j)'
    BY <1>0, <2>1 DEF BlackStrip, BlackChip, Light
  <2> QED
    BY <2>1, <2>2, DarkKept
<1>2. CASE Update \/ Blackout \/ BusInit \/ BusDel \/ WsShow \/ WsWait
  <2>1. UNCHANGED <<ws2812b, pca9955b, lit, chip, lost, phase>>
    BY <1>2, PassDoes, BusInitDoes, BusDelDoes, WsShowDoes, WsWaitDoes
  <2> QED
    BY <2>1, SameStrip, SameChip, DarkKept
<1>3. CASE Acquired \/ Release \/ Released
  <2>1. UNCHANGED <<ws2812b, pca9955b, lit, chip, lost, ret>> /\ todo = <<>>
    BY <1>3, PhaseDoes
  <2>2. CASE phase = "releasing" /\ phase' = "released"
    <3>1. \A c, d : ~Pending(c, d)
      BY <2>1, PendingNone
    <3>2. /\ \A i \in Strips : ~Alive(i)
          /\ \A j \in Chips : ~Has(j)
      BY <2>2, <3>1 DEF Life, BeforeDeinit, Releasing
    <3>3. /\ \A i \in Strips : BlackStrip(i)'
          /\ \A j \in Chips : BlackChip(j)'
      BY <1>0, <2>1, <3>2, SameStrip, SameChip
    <3> QED
      BY <3>3 DEF Dark, BlackStrip, BlackChip
  <2>3. CASE phase' \in {"released", "acquiring"} => phase \in {"released", "acquiring"}
    BY <2>1, <2>3, SameStrip, SameChip, DarkKept
  <2> QED
    BY <1>3, <2>2, <2>3, PhaseDoes
<1>4. CASE WsInit
  <2>0. PICK i : i = Dev
    OBVIOUS
  <2>1. Now("ws2812b_init") /\ Pending("ws2812b_init", i) /\ i \in Strips
    BY <2>0, <1>4, Calling, CallsNow, WsInitDoes
  <2>2. BlackStrip(i)
    BY <1>0, <2>1 DEF Life, BeforeInit
  <2>3. UNCHANGED <<pca9955b, chip, phase>>
    BY <1>4, WsInitDoes
  <2>4. /\ \A k \in Strips : k # i => ws2812b'[k] = ws2812b[k] /\ lit'[k] = lit[k]
        /\ \A k \in Strips : k # i /\ <<"ws", k>> \in lost => <<"ws", k>> \in lost'
        /\ \A j \in Chips : <<"pca", j>> \in lost => <<"pca", j>> \in lost'
        /\ BlackStrip(i)'
    <3>1. CASE (StripKept(i) \/ StripMade(i)) /\ UNCHANGED <<lit, lost>>
      BY <2>1, <2>2, <3>1 DEF StripKept, StripMade, Only, BlackStrip
    <3>2. CASE StripMade(i) /\ StripBlack(i) /\ lost' = lost \ {<<"ws", i>>}
      <4>1. ws2812b'[i].buffer = 0 /\ lit'[i] = <<0, 0>>
        BY <3>2 DEF StripMade, StripBlack
      <4>2. \A k \in Strips : k # i => ws2812b'[k] = ws2812b[k] /\ lit'[k] = lit[k]
        BY <3>2 DEF StripMade, StripBlack, Only
      <4>3. /\ \A k \in Strips : k # i /\ <<"ws", k>> \in lost => <<"ws", k>> \in lost'
            /\ \A j \in Chips : <<"pca", j>> \in lost => <<"pca", j>> \in lost'
        BY <3>2, <1>s
      <4> QED
        BY <4>1, <4>2, <4>3 DEF BlackStrip
    <3> QED
      BY <2>0, <1>4, <3>1, <3>2, WsInitDoes
  <2> QED
    BY <2>1, <2>3, <2>4, SameStrip, SameChip, DarkKept
<1>5. CASE WsWrite \/ WsFill
  <2>0. PICK i : i = Dev
    OBVIOUS
  <2>1. phase = "acquired" /\ i \in Strips
    BY <2>0, <1>5, Calling, CallsNow, PhaseOf, WsWriteDoes, WsFillDoes DEF StageKinds
  <2>2. UNCHANGED <<pca9955b, lit, chip, lost, phase>>
    BY <1>5, WsWriteDoes, WsFillDoes
  <2>3. \A k \in Strips : k # i => ws2812b'[k] = ws2812b[k]
    BY <2>0, <1>5, WsWriteDoes, WsFillDoes DEF StripStaged, Only
  <2>4. ws2812b'[i].channel = ws2812b[i].channel
    BY <2>0, <1>5, WsWriteDoes, WsFillDoes DEF StripStaged
  <2>5. ASSUME ~Alive(i) PROVE ws2812b'[i].buffer = ws2812b[i].buffer
    <3>1. CASE WsWrite
      BY <2>0, <2>5, <3>1, WsWriteDoes
    <3>2. CASE WsFill
      <4>1. wanted.op = "fill"
        BY <3>2, Calling, CallsNow, PhaseOf
      <4>2. wanted.colour = 0
        BY <4>1 DEF InPhase
      <4>3. ws2812b[i].buffer = 0
        BY <1>0, <2>1, <2>5 DEF BlackStrip
      <4> QED
        BY <2>0, <3>2, <4>2, <4>3, WsFillDoes DEF StripStaged
    <3> QED
      BY <1>5, <3>1, <3>2
  <2>6. /\ ~Alive(i)' => ~Alive(i)
        /\ BlackStrip(i) /\ ~Alive(i) => BlackStrip(i)'
    BY <2>2, <2>4, <2>5 DEF Alive, BlackStrip
  <2> QED
    BY <2>1, <2>2, <2>3, <2>6, SameStrip, SameChip, DarkKept
<1>6. CASE WsDel
  <2>0. PICK i : i = Dev
    OBVIOUS
  <2>1. i \in Strips /\ UNCHANGED <<pca9955b, chip, phase>>
    BY <2>0, <1>6, WsDelDoes
  <2>2. CASE UNCHANGED <<ws2812b, lit, lost>>
    BY <2>1, <2>2, SameStrip, SameChip, DarkKept
  <2>3. CASE StripFreed(i) /\ StripBlack(i) /\ lost' = lost \ {<<"ws", i>>}
    <3>1. BlackStrip(i)'
      BY <2>3 DEF StripFreed, StripBlack, BlackStrip
    <3>2. \A k \in Strips : k # i => ws2812b'[k] = ws2812b[k] /\ lit'[k] = lit[k]
      BY <2>3 DEF StripFreed, StripBlack, Only
    <3>3. /\ \A k \in Strips : k # i /\ <<"ws", k>> \in lost => <<"ws", k>> \in lost'
          /\ \A j \in Chips : <<"pca", j>> \in lost => <<"pca", j>> \in lost'
      BY <2>3, <1>s
    <3> QED
      BY <2>1, <3>1, <3>2, <3>3, SameStrip, SameChip, DarkKept
  <2>4. CASE StripFreed(i) /\ lit' = lit /\ lost' = lost \cup {<<"ws", i>>}
    <3>1. BlackStrip(i)'
      BY <2>4 DEF StripFreed, BlackStrip
    <3>2. \A k \in Strips : k # i => ws2812b'[k] = ws2812b[k] /\ lit'[k] = lit[k]
      BY <2>4 DEF StripFreed, Only
    <3> QED
      BY <2>1, <2>4, <3>1, <3>2, SameStrip, SameChip, DarkKept
  <2> QED
    BY <2>0, <1>6, <2>2, <2>3, <2>4, WsDelDoes
<1>7. CASE PcaInit
  <2>0. PICK j : j = Dev
    OBVIOUS
  <2>1. Now("pca9955b_init") /\ Pending("pca9955b_init", j) /\ j \in Chips
    BY <2>0, <1>7, Calling, CallsNow, PcaInitDoes
  <2>2. BlackChip(j)
    BY <1>0, <2>1 DEF Life, BeforeInit
  <2>3. UNCHANGED <<ws2812b, lit, phase>>
    BY <1>7, PcaInitDoes
  <2>4. /\ \A k \in Chips : k # j => pca9955b'[k] = pca9955b[k] /\ chip'[k] = chip[k]
        /\ \A k \in Chips : k # j /\ <<"pca", k>> \in lost => <<"pca", k>> \in lost'
        /\ \A i \in Strips : <<"ws", i>> \in lost => <<"ws", i>> \in lost'
        /\ BlackChip(j)'
    <3>1. CASE PcaSet(j, FALSE, FALSE) /\ chip' = chip /\ lost' = lost
      BY <2>1, <2>2, <3>1 DEF PcaSet, Only, BlackChip, Light
    <3>2. CASE PcaSet(j, FALSE, FALSE) /\ ChipTouched(j) /\ lost' = lost \cup {<<"pca", j>>}
      BY <2>1, <3>2 DEF PcaSet, ChipTouched, Only, BlackChip
    <3>3. CASE PcaSet(j, TRUE, TRUE) /\ ChipSet(j, TRUE, 0) /\ lost' = lost \ {<<"pca", j>>}
      <4>1. BlackChip(j)'
        BY <3>3 DEF PcaSet, ChipSet, BlackChip, Light
      <4>2. \A k \in Chips : k # j => pca9955b'[k] = pca9955b[k] /\ chip'[k] = chip[k]
        BY <3>3 DEF PcaSet, ChipSet, ChipTouched, Only
      <4>3. /\ \A k \in Chips : k # j /\ <<"pca", k>> \in lost => <<"pca", k>> \in lost'
            /\ \A i \in Strips : <<"ws", i>> \in lost => <<"ws", i>> \in lost'
        BY <3>3, <1>s
      <4> QED
        BY <4>1, <4>2, <4>3
    <3> QED
      BY <2>0, <1>7, <3>1, <3>2, <3>3, PcaInitDoes
  <2> QED
    BY <2>1, <2>3, <2>4, SameStrip, SameChip, DarkKept
<1>8. CASE PcaStage
  <2>0. PICK j : j = Dev
    OBVIOUS
  <2>1. PICK call \in {"pca9955b_set_pixel", "pca9955b_fill"} : Now(call)
    BY <1>8 DEF PcaStage
  <2>2. phase = "acquired" /\ j \in Chips
    BY <2>0, <2>1, <1>8, Calling, PhaseOf, PcaStageDoes DEF StageKinds
  <2>3. UNCHANGED <<ws2812b, lit, chip, lost, phase>>
    BY <1>8, PcaStageDoes
  <2>4. /\ \A k \in Chips : k # j => pca9955b'[k] = pca9955b[k]
        /\ pca9955b'[j].dev = pca9955b[j].dev
    BY <2>0, <1>8, PcaStageDoes DEF PcaStaged, Only
  <2>5. ASSUME ~Has(j) PROVE pca9955b'[j].buffer = pca9955b[j].buffer
    <3>1. ~pca9955b[j].enable
      BY <2>2, <2>5 DEF Life, Flags
    <3> QED
      BY <2>0, <1>8, <3>1, PcaStageDoes DEF PcaStaged
  <2>6. /\ ~Has(j)' => ~Has(j)
        /\ BlackChip(j) /\ ~Has(j) => BlackChip(j)'
    BY <2>3, <2>4, <2>5 DEF Has, BlackChip, Light
  <2> QED
    BY <2>2, <2>3, <2>4, <2>6, SameStrip, SameChip, DarkKept
<1>9. CASE PcaShow
  <2>0. PICK j : j = Dev
    OBVIOUS
  <2>1. Now("pca9955b_show") /\ phase = "acquired" /\ j \in Chips
    BY <2>0, <1>9, Calling, CallsNow, PhaseOf, PcaShowDoes DEF ShowKinds
  <2>2. UNCHANGED <<ws2812b, pca9955b, lit, lost, phase>>
    BY <1>9, PcaShowDoes
  <2>3. \A k \in Chips : k # j => chip'[k] = chip[k]
    <3>1. chip' = chip \/ ChipTouched(j)
      BY <2>0, <1>9, PcaShowDoes DEF ChipSet
    <3> QED
      BY <3>1 DEF ChipTouched, Only
  <2>4. ~Has(j) => chip' = chip
    BY <2>0, <2>1, <1>9, PcaShowDoes DEF Life, Flags
  <2>5. /\ ~Has(j)' => ~Has(j)
        /\ BlackChip(j) /\ ~Has(j) => BlackChip(j)'
    BY <2>2, <2>4 DEF Has, BlackChip, Light
  <2> QED
    BY <2>1, <2>2, <2>3, <2>5, SameStrip, SameChip, DarkKept
<1>10. CASE PcaDel
  <2>0. PICK j : j = Dev
    OBVIOUS
  <2>1. j \in Chips /\ UNCHANGED <<ws2812b, lit, phase>>
    BY <2>0, <1>10, PcaDelDoes
  <2>2. CASE UNCHANGED <<pca9955b, chip, lost>>
    BY <2>1, <2>2, SameStrip, SameChip, DarkKept
  <2>3. CASE PcaSet(j, FALSE, FALSE) /\ ~Has(j) /\ UNCHANGED <<chip, lost>>
    <3>1. BlackChip(j)'
      BY <1>0, <2>1, <2>3 DEF PcaSet, BlackChip, Light
    <3>2. \A k \in Chips : k # j => pca9955b'[k] = pca9955b[k]
      BY <2>3 DEF PcaSet, Only
    <3> QED
      BY <2>1, <2>3, <3>1, <3>2, SameStrip, SameChip, DarkKept
  <2>4. CASE /\ PcaSet(j, FALSE, FALSE) /\ ChipTouched(j)
             /\ \/ chip'[j].pwm = 0 /\ lost' = lost
                \/ lost' = lost \cup {<<"pca", j>>}
    <3>1. BlackChip(j)'
      BY <2>4 DEF PcaSet, BlackChip, Light
    <3>2. \A k \in Chips : k # j => pca9955b'[k] = pca9955b[k] /\ chip'[k] = chip[k]
      BY <2>4 DEF PcaSet, ChipTouched, Only
    <3> QED
      BY <2>1, <2>4, <3>1, <3>2, SameStrip, SameChip, DarkKept
  <2> QED
    BY <2>0, <1>10, <2>2, <2>3, <2>4, PcaDelDoes
<1>11. ASSUME NEW i \in Strips, Shift(i) PROVE Dark'
  <2>1. UNCHANGED <<ws2812b, pca9955b, chip, lost, phase>>
    BY <1>11, ShiftDoes
  <2>2. \A k \in Strips : k # i => lit'[k] = lit[k]
    BY <1>11, ShiftDoes DEF Only
  <2>3. BlackStrip(i) => BlackStrip(i)'
    <3>1. CASE lit[i] = <<0, 0>> /\ ws2812b[i].buffer = 0
      <4>1. lit[i] \in [{1, 2} -> Nat] /\ lit'[i] \in [{1, 2} -> Nat]
        BY <1>11, ShiftDoes DEF TypesOK
      <4>2. lit[i][1] = 0 /\ lit[i][2] = 0
        BY <3>1
      <4>3. lit'[i][1] = 0 /\ lit'[i][2] = 0
        BY <1>11, <3>1, <4>2, ShiftDoes
      <4>4. lit'[i] = <<0, 0>>
        BY <4>1, <4>3, BothParts
      <4> QED
        BY <2>1, <3>1, <4>4 DEF BlackStrip
    <3> QED
      BY <2>1, <3>1 DEF BlackStrip
  <2> QED
    BY <2>1, <2>2, <2>3, SameStrip, SameChip, DarkKept DEF Alive
<1>12. ASSUME NEW j \in Chips, PowerDip(j) PROVE Dark'
  <2>1. UNCHANGED <<ws2812b, pca9955b, lit, lost, phase>>
    BY <1>12, PowerDipDoes
  <2>2. \A k \in Chips : k # j => chip'[k] = chip[k]
    BY <1>12, PowerDipDoes DEF ChipSet, ChipTouched, Only
  <2>3. BlackChip(j) => BlackChip(j)'
    BY <1>12, <2>1, PowerDipDoes DEF ChipSet, BlackChip, Light
  <2> QED
    BY <2>1, <2>2, <2>3, SameStrip, SameChip, DarkKept DEF Has
<1> QED
  BY <1>1, <1>2, <1>3, <1>4, <1>5, <1>6, <1>7, <1>8, <1>9, <1>10, <1>11, <1>12 DEF Step, Ws, Pca

-----------------------------------------------------------------------------
(* What init() made shows black *)

LEMMA StartedInit == Init => Started
<1> SUFFICES ASSUME Init PROVE Started
  OBVIOUS
<1>1. phase = "released"
  BY DEF Init
<1> QED
  BY <1>1 DEF Started

StartedStrip(i) == /\ ws2812b[i].buffer = 0
                   /\ Alive(i) /\ <<"ws", i>> \notin hit => lit[i] = <<0, 0>>
StartedChip(j)  == /\ pca9955b[j].buffer = 0
                   /\ Has(j) /\ <<"pca", j>> \notin hit => Light(j) = 0

LEMMA StartedKept ==
  ASSUME Started, wanted' = wanted,
         phase' \in {"acquiring", "acquired"} => phase \in {"acquiring", "acquired"},
         hit \subseteq hit',
         \A i \in Strips : StartedStrip(i) => StartedStrip(i)',
         \A j \in Chips : StartedChip(j) => StartedChip(j)'
  PROVE  Started'
BY DEF Started, StartedStrip, StartedChip

LEMMA StartedSameStrip ==
  ASSUME NEW i, ws2812b'[i] = ws2812b[i], lit'[i] = lit[i], hit \subseteq hit'
  PROVE  StartedStrip(i) => StartedStrip(i)'
BY DEF StartedStrip, Alive

LEMMA StartedSameChip ==
  ASSUME NEW j, pca9955b'[j] = pca9955b[j], chip'[j] = chip[j], hit \subseteq hit'
  PROVE  StartedChip(j) => StartedChip(j)'
BY DEF StartedChip, Has, Light

\* A step of an update or blackout, which init() does not take.
LEMMA NotStarted ==
  ASSUME InPhase, NEW call \in StageKinds \cup ShowKinds, NEW d, Pending(call, d), wanted' = wanted
  PROVE  Started'
BY PhaseOf DEF Started

LEMMA StartedStep == ASSUME TypesOK, Prog(todo), InPhase, Life, Started, Step PROVE Started'
<1>1. CASE Acquire
  <2>1. /\ \A i \in Strips : ws2812b'[i].buffer = 0 /\ ~Alive(i)'
        /\ \A j \in Chips : pca9955b'[j].buffer = 0 /\ ~Has(j)'
    BY <1>1, AcquireDoes DEF Alive, Has
  <2> QED
    BY <2>1 DEF Started
<1>2. CASE Update \/ Blackout
  <2>1. wanted'.op # "init"
    BY <1>2, PassDoes
  <2> QED
    BY <2>1 DEF Started
<1>3. CASE Acquired \/ Release \/ Released
  <2>1. UNCHANGED <<ws2812b, pca9955b, lit, chip, hit, wanted>>
    BY <1>3, PhaseDoes
  <2>2. phase' \in {"acquiring", "acquired"} => phase \in {"acquiring", "acquired"}
    BY <1>3, PhaseDoes
  <2> QED
    BY <2>1, <2>2, StartedSameStrip, StartedSameChip, StartedKept
<1>4. CASE BusInit \/ BusDel
  <2>1. UNCHANGED <<ws2812b, pca9955b, lit, chip, hit, wanted, phase>>
    BY <1>4, BusInitDoes, BusDelDoes
  <2> QED
    BY <2>1, StartedSameStrip, StartedSameChip, StartedKept
<1>5. CASE WsWrite \/ WsFill \/ WsShow \/ WsWait \/ PcaStage \/ PcaShow
  <2>1. PICK call \in StageKinds \cup ShowKinds : Now(call)
    BY <1>5, CallsNow DEF PcaStage, StageKinds, ShowKinds
  <2>2. wanted' = wanted
    BY <1>5, WsWriteDoes, WsFillDoes, WsShowDoes, WsWaitDoes, PcaStageDoes, PcaShowDoes
  <2> QED
    BY <2>1, <2>2, Calling, NotStarted
<1>6. CASE WsInit
  <2>0. PICK i : i = Dev
    OBVIOUS
  <2>1. Now("ws2812b_init") /\ Pending("ws2812b_init", i) /\ i \in Strips
    BY <2>0, <1>6, Calling, CallsNow, WsInitDoes
  <2>2. ~Alive(i)
    BY <2>1 DEF Life, BeforeInit
  <2>3. UNCHANGED <<pca9955b, chip, phase, wanted>>
    BY <1>6, WsInitDoes
  <2>4. /\ \A k \in Strips : k # i => ws2812b'[k] = ws2812b[k] /\ lit'[k] = lit[k]
        /\ hit \subseteq hit'
        /\ StartedStrip(i) => StartedStrip(i)'
    <3>1. CASE StripKept(i) /\ lit' = lit /\ hit \subseteq hit'
      BY <2>1, <2>2, <3>1 DEF StripKept, Only, StartedStrip, Alive
    <3>2. CASE StripMade(i) /\ StripBlack(i) /\ hit' = hit
      <4>1. ws2812b'[i].buffer = 0 /\ lit'[i] = <<0, 0>>
        BY <3>2 DEF StripMade, StripBlack
      <4>2. \A k \in Strips : k # i => ws2812b'[k] = ws2812b[k] /\ lit'[k] = lit[k]
        BY <3>2 DEF StripMade, StripBlack, Only
      <4> QED
        BY <3>2, <4>1, <4>2 DEF StartedStrip
    <3>3. CASE StripMade(i) /\ lit' = lit /\ hit' = hit \cup {<<"ws", i>>}
      BY <3>3 DEF StripMade, Only, StartedStrip
    <3> QED
      BY <2>0, <1>6, <3>1, <3>2, <3>3, WsInitDoes
  <2> QED
    BY <2>1, <2>3, <2>4, StartedSameStrip, StartedSameChip, StartedKept
<1>7. CASE WsDel
  <2>0. PICK i : i = Dev
    OBVIOUS
  <2>1. i \in Strips /\ UNCHANGED <<pca9955b, chip, phase, wanted>>
    BY <2>0, <1>7, WsDelDoes
  <2>2. hit \subseteq hit'
    BY <2>0, <1>7 DEF WsDel, NoFault, Fault, historyVars
  <2>3. CASE UNCHANGED <<ws2812b, lit>>
    BY <2>1, <2>2, <2>3, StartedSameStrip, StartedSameChip, StartedKept
  <2>4. CASE StripFreed(i) /\ (lit' = lit \/ StripBlack(i))
    <3>1. ws2812b'[i].buffer = 0 /\ ~Alive(i)'
      BY <2>4 DEF StripFreed, Alive
    <3>2. \A k \in Strips : k # i => ws2812b'[k] = ws2812b[k] /\ lit'[k] = lit[k]
      BY <2>4 DEF StripFreed, StripBlack, Only
    <3>3. StartedStrip(i)'
      BY <3>1 DEF StartedStrip
    <3> QED
      BY <2>1, <2>2, <3>2, <3>3, StartedSameStrip, StartedSameChip, StartedKept
  <2> QED
    BY <2>0, <1>7, <2>3, <2>4, WsDelDoes
<1>8. CASE PcaInit
  <2>0. PICK j : j = Dev
    OBVIOUS
  <2>1. j \in Chips /\ UNCHANGED <<ws2812b, lit, phase, wanted>>
    BY <2>0, <1>8, PcaInitDoes
  <2>2. /\ \A k \in Chips : k # j => pca9955b'[k] = pca9955b[k] /\ chip'[k] = chip[k]
        /\ hit \subseteq hit' /\ StartedChip(j)'
    <3>1. CASE PcaSet(j, FALSE, FALSE) /\ (chip' = chip \/ ChipTouched(j)) /\ hit \subseteq hit'
      BY <3>1 DEF PcaSet, ChipTouched, Only, StartedChip, Has
    <3>2. CASE PcaSet(j, TRUE, TRUE) /\ ChipSet(j, TRUE, 0) /\ hit' = hit
      BY <3>2 DEF PcaSet, ChipSet, ChipTouched, Only, StartedChip, Light
    <3> QED
      BY <2>0, <1>8, <3>1, <3>2, PcaInitDoes
  <2> QED
    BY <2>1, <2>2, StartedSameStrip, StartedSameChip, StartedKept
<1>9. CASE PcaDel
  <2>0. PICK j : j = Dev
    OBVIOUS
  <2>1. j \in Chips /\ UNCHANGED <<ws2812b, lit, phase, wanted>>
    BY <2>0, <1>9, PcaDelDoes
  <2>2. hit \subseteq hit'
    BY <2>0, <1>9 DEF PcaDel, NoFault, Fault
  <2>3. CASE UNCHANGED <<pca9955b, chip>>
    BY <2>1, <2>2, <2>3, StartedSameStrip, StartedSameChip, StartedKept
  <2>4. CASE PcaSet(j, FALSE, FALSE) /\ (chip' = chip \/ ChipTouched(j))
    <3>1. StartedChip(j)'
      BY <2>4 DEF PcaSet, StartedChip, Has
    <3>2. \A k \in Chips : k # j => pca9955b'[k] = pca9955b[k] /\ chip'[k] = chip[k]
      BY <2>4 DEF PcaSet, ChipTouched, Only
    <3> QED
      BY <2>1, <2>2, <3>1, <3>2, StartedSameStrip, StartedSameChip, StartedKept
  <2> QED
    BY <2>0, <1>9, <2>3, <2>4, PcaDelDoes
<1>10. ASSUME NEW i \in Strips, Shift(i) PROVE Started'
  <2>1. UNCHANGED <<ws2812b, pca9955b, chip, phase, wanted, hit>>
    BY <1>10, ShiftDoes
  <2>2. \A k \in Strips : k # i => lit'[k] = lit[k]
    BY <1>10, ShiftDoes DEF Only
  <2>3. StartedStrip(i) => StartedStrip(i)'
    <3>1. CASE lit[i] = <<0, 0>> /\ ws2812b[i].buffer = 0
      <4>1. lit'[i] \in [{1, 2} -> Nat]
        BY <1>10, ShiftDoes
      <4>2. lit[i][1] = 0 /\ lit[i][2] = 0
        BY <3>1
      <4>3. lit'[i][1] = 0 /\ lit'[i][2] = 0
        BY <1>10, <3>1, <4>2, ShiftDoes
      <4>4. lit'[i] = <<0, 0>>
        BY <4>1, <4>3, BothParts
      <4> QED
        BY <2>1, <3>1, <4>4 DEF StartedStrip
    <3> QED
      BY <2>1, <3>1 DEF StartedStrip, Alive
  <2> QED
    BY <2>1, <2>2, <2>3, StartedSameStrip, StartedSameChip, StartedKept
<1>11. ASSUME NEW j \in Chips, PowerDip(j) PROVE Started'
  <2>1. UNCHANGED <<ws2812b, pca9955b, lit, phase, wanted>> /\ hit \subseteq hit'
    BY <1>11, PowerDipDoes
  <2>2. \A k \in Chips : k # j => chip'[k] = chip[k]
    BY <1>11, PowerDipDoes DEF ChipSet, ChipTouched, Only
  <2>3. StartedChip(j) => StartedChip(j)'
    BY <1>11, <2>1, PowerDipDoes DEF ChipSet, StartedChip, Light
  <2> QED
    BY <2>1, <2>2, <2>3, StartedSameStrip, StartedSameChip, StartedKept
<1> QED
  BY <1>1, <1>2, <1>3, <1>4, <1>5, <1>6, <1>7, <1>8, <1>9, <1>10, <1>11 DEF Step, Ws, Pca

-----------------------------------------------------------------------------
(* An update or a blackout reaches the devices *)

LEMMA FrameInit == Init => Frame
<1> SUFFICES ASSUME Init PROVE Frame
  OBVIOUS
<1>1. phase = "released" /\ \A i \in Strips : tx[i].part = 1
  BY DEF Init, NothingTx
<1> QED
  BY <1>1 DEF Frame, InFrame

Whole == \A i \in Strips : tx[i].queued = 0 => tx[i].part = 1

LEMMA PendingAfter ==
  ASSUME Prog(todo), NEW call, Now(call), todo' = Tail(todo)
  PROVE  \A c, d : Pending(c, d)' => Before(<<call, Dev>>, <<c, d>>)
BY Called DEF Pending

\* The calls of an update and of a blackout.
LEMMA StageOf ==
  /\ WsStage \in {"ws2812b_write_grb", "ws2812b_fill"}
  /\ PcaStages \in {"pca9955b_set_pixel", "pca9955b_fill"}
  /\ WsStage \in StageKinds /\ PcaStages \in StageKinds
BY DEF WsStage, PcaStages, StageKinds

\* A strip that a step does not touch, nor the calls for it.
LEMMA WsFrameKept ==
  ASSUME NEW i \in Strips, WsFrame(i), wanted' = wanted,
         \A k \in Strips : ws2812b'[k].channel = ws2812b[k].channel,
         ws2812b'[i] = ws2812b[i], tx'[i] = tx[i], lit'[i] = lit[i],
         <<"ws", i>> \in hit' <=> <<"ws", i>> \in hit, ret' \in {ret, "error"},
         Pending("ws2812b_write_grb", i)' <=> Pending("ws2812b_write_grb", i),
         Pending("ws2812b_fill", i)' <=> Pending("ws2812b_fill", i),
         Pending("ws2812b_show", i)' <=> Pending("ws2812b_show", i),
         Pending("ws2812b_wait_done", i)' <=> Pending("ws2812b_wait_done", i)
  PROVE  WsFrame(i)'
<1>1. /\ WsStage' = WsStage
      /\ Pending(WsStage, i)' <=> Pending(WsStage, i)
  BY DEF WsStage
<1>2. \A k \in Strips : Alive(k)' <=> Alive(k)
  BY DEF Alive
<1>3. Reached(i)' <=> Reached(i)
  <2>1. 1 .. i \subseteq Strips
    BY SizeAssumption DEF Strips
  <2> QED
    BY <1>2, <2>1 DEF Reached
<1>4. ret' = "ok" => ret = "ok"
  OBVIOUS
<1> QED
  BY <1>1, <1>2, <1>3, <1>4 DEF WsFrame

LEMMA PcaFrameKept ==
  ASSUME NEW j \in Chips, PcaFrame(j), wanted' = wanted,
         pca9955b'[j] = pca9955b[j], chip'[j] = chip[j],
         <<"pca", j>> \in hit' <=> <<"pca", j>> \in hit,
         Pending("pca9955b_set_pixel", j)' <=> Pending("pca9955b_set_pixel", j),
         Pending("pca9955b_fill", j)' <=> Pending("pca9955b_fill", j),
         Pending("pca9955b_show", j)' <=> Pending("pca9955b_show", j)
  PROVE  PcaFrame(j)'
<1>1. /\ PcaStages' = PcaStages
      /\ Pending(PcaStages, j)' <=> Pending(PcaStages, j)
  BY DEF PcaStages
<1> QED
  BY <1>1 DEF PcaFrame, Light

LEMMA FrameStep == ASSUME TypesOK, Prog(todo), InPhase, Life, Frame, Step PROVE Frame'
<1>0. Whole /\ (\A i \in Strips : tx[i] \in Tx /\ lit[i] \in [{1, 2} -> Nat])
  BY DEF Frame, Whole, TypesOK
<1>f. ASSUME InFrame PROVE (\A i \in Strips : WsFrame(i)) /\ (\A j \in Chips : PcaFrame(j))
  BY <1>f DEF Frame
<1>q. ASSUME Whole', ~InFrame' PROVE Frame'
  BY <1>q DEF Frame, Whole
<1>r. ASSUME Whole', \A i \in Strips : WsFrame(i)', \A j \in Chips : PcaFrame(j)' PROVE Frame'
  BY <1>r DEF Frame, Whole
<1>1. CASE Acquire \/ Acquired \/ Release \/ Released
  <2>1. tx' = tx
    BY <1>1, AcquireDoes, PhaseDoes
  <2>2. ~InFrame'
    <3>1. CASE Acquire
      BY <3>1, AcquireDoes DEF InFrame
    <3>2. CASE Acquired \/ Release \/ Released
      BY <3>2, PhaseDoes DEF InFrame, InPhase
    <3> QED
      BY <1>1, <3>1, <3>2
  <2>3. Whole'
    BY <1>0, <2>1 DEF Whole
  <2> QED
    BY <2>2, <2>3, <1>q
<1>2. CASE Update \/ Blackout
  <2>1. tx' = tx /\ ret' = "ok" /\ hit' = {}
    BY <1>2, PassDoes
  <2>2. Whole'
    BY <1>0, <2>1 DEF Whole
  <2>3. /\ \A i \in Strips : /\ Pending("ws2812b_show", i)' /\ Pending("ws2812b_wait_done", i)'
                             /\ Pending(WsStage, i)'
        /\ \A j \in Chips : Pending("pca9955b_show", j)' /\ Pending(PcaStages, j)'
    <3>1. CASE todo' = WriteFrameCalls \o ShowCalls /\ wanted'.op = "write"
      <4>1. WsStage' = "ws2812b_write_grb" /\ PcaStages' = "pca9955b_set_pixel"
        BY <3>1 DEF WsStage, PcaStages
      <4> QED
        BY <3>1, <4>1, PendingWrite
    <3>2. CASE todo' = FillCalls \o ShowCalls /\ wanted'.op = "fill"
      <4>1. WsStage' = "ws2812b_fill" /\ PcaStages' = "pca9955b_fill"
        BY <3>2 DEF WsStage, PcaStages
      <4> QED
        BY <3>2, <4>1, PendingFill
    <3> QED
      BY <1>2, <3>1, <3>2, PassDoes
  <2>4. \A i \in Strips : WsFrame(i)'
    BY <2>1, <2>3 DEF WsFrame
  <2>5. \A j \in Chips : PcaFrame(j)'
    BY <2>3 DEF PcaFrame
  <2> QED
    BY <2>2, <2>4, <2>5, <1>r
<1>3. CASE BusInit \/ BusDel \/ WsInit \/ PcaInit
  <2>1. PICK call \in InitKinds \cup DelKinds : Now(call)
    BY <1>3, CallsNow DEF InitKinds, DelKinds
  <2>2. phase # "acquired"
    BY <2>1, Calling, PhaseOf DEF Releasing
  <2>3. phase' = phase
    BY <1>3, BusInitDoes, BusDelDoes, WsInitDoes, PcaInitDoes
  <2>4. Whole'
    <3>1. CASE tx' = tx
      BY <1>0, <3>1 DEF Whole
    <3>2. CASE \E i \in Strips : Only(Strips, tx, tx', i) /\ tx'[i].queued = 1
      BY <1>0, <3>2 DEF Whole, Only
    <3> QED
      BY <1>3, <3>1, <3>2, BusInitDoes, BusDelDoes, WsInitDoes, PcaInitDoes
  <2> QED
    BY <2>2, <2>3, <2>4, <1>q DEF InFrame
<1>4. CASE WsDel \/ PcaDel
  <2>1. PICK call \in DelKinds : Now(call)
    BY <1>4, CallsNow DEF DelKinds
  <2>2. phase # "acquired"
    BY <2>1, Calling, PhaseOf DEF Releasing
  <2>3. phase' = phase
    BY <1>4, WsDelDoes, PcaDelDoes
  <2>4. Whole'
    <3>1. CASE tx' = tx
      BY <1>0, <3>1 DEF Whole
    <3>2. CASE \E i \in Strips : StripFreed(i)
      BY <1>0, <3>2 DEF Whole, StripFreed, Only
    <3> QED
      BY <1>4, <3>1, <3>2, WsDelDoes, PcaDelDoes
  <2> QED
    BY <2>2, <2>3, <2>4, <1>q DEF InFrame
<1>5. CASE WsWrite
  <2>0. PICK i : i = Dev
    OBVIOUS
  <2>1. /\ Now("ws2812b_write_grb") /\ Pending("ws2812b_write_grb", i) /\ i \in Strips
        /\ phase = "acquired" /\ wanted.op = "write"
    BY <2>0, <1>5, Calling, CallsNow, PhaseOf, WsWriteDoes DEF StageKinds
  <2>2. /\ UNCHANGED <<pca9955b, tx, lit, chip, phase, wanted, hit, ret>>
        /\ InFrame /\ WsStage = "ws2812b_write_grb" /\ WsStage' = "ws2812b_write_grb"
        /\ PcaStages = "pca9955b_set_pixel" /\ PcaStages' = "pca9955b_set_pixel"
    BY <1>5, <2>1, WsWriteDoes DEF InFrame, WsStage, PcaStages
  <2>3. Whole'
    BY <1>0, <2>2 DEF Whole
  <2>4. CASE Alive(i) /\ StripStaged(i, wanted.colour) /\ todo' = Tail(todo)
    <3>1. \A c, d : Pending(c, d)' <=> Pending(c, d) /\ <<c, d>> # <<"ws2812b_write_grb", i>>
      BY <2>0, <2>1, <2>4, PendingCalled
    <3>2. \A k \in Strips : ws2812b'[k].channel = ws2812b[k].channel
      BY <2>4 DEF StripStaged, Only
    <3>3. \A k \in Strips : k # i => ws2812b'[k] = ws2812b[k]
      BY <2>4 DEF StripStaged, Only
    <3>4. \A k \in Strips : k # i => WsFrame(k)'
      BY <2>2, <3>1, <3>2, <3>3, <1>f, WsFrameKept
    <3>5. \A j \in Chips : PcaFrame(j)'
      BY <2>2, <3>1, <1>f, PcaFrameKept
    <3>6. /\ Pending("ws2812b_show", i)' <=> Pending("ws2812b_show", i)
          /\ Pending("ws2812b_wait_done", i)' <=> Pending("ws2812b_wait_done", i)
          /\ ~Pending("ws2812b_write_grb", i)'
      BY <3>1
    <3>7. Pending("ws2812b_show", i)
      BY <1>f, <2>1, <2>2 DEF WsFrame
    <3>8. Pending("ws2812b_wait_done", i)
      BY <1>f, <2>1, <2>2, <3>7 DEF WsFrame
    <3>9. ws2812b'[i].buffer = wanted'.colour
      BY <2>2, <2>4 DEF StripStaged
    <3>10. ret = "ok" => <<"ws", i>> \notin hit
      BY <1>f, <2>1, <2>2 DEF WsFrame
    <3>11. WsFrame(i)'
      BY <2>2, <3>6, <3>7, <3>8, <3>9, <3>10 DEF WsFrame
    <3> QED
      BY <2>3, <3>4, <3>5, <3>11, <1>r
  <2>5. CASE ~Alive(i) /\ ws2812b' = ws2812b /\ todo' = ShowCalls
    <3>1. /\ \A k \in Strips : Pending("ws2812b_show", k)' /\ Pending("ws2812b_wait_done", k)'
          /\ \A j \in Chips : Pending("pca9955b_show", j)'
          /\ \A c, d : Pending(c, d)' => c \in ShowKinds
      BY <2>5, PendingShow
    <3>2. \A c, d : Pending(c, d) => <<c, d>> = <<"ws2812b_write_grb", i>>
                                     \/ Before(<<"ws2812b_write_grb", i>>, <<c, d>>)
      <4>1. LeftOf(Tail(todo)) = LeftOf(todo) \ {<<"ws2812b_write_grb", i>>}
            /\ \A y \in LeftOf(Tail(todo)) : Before(<<"ws2812b_write_grb", i>>, y)
        BY <2>0, <2>1, Advance DEF Now, Dev
      <4> QED
        BY <4>1 DEF Pending, Left
    <3>3. \A j \in Chips : ~Pending("pca9955b_set_pixel", j)
      BY <3>2 DEF Before
    <3>4. \A k \in Strips : Pending("ws2812b_write_grb", k) => k >= i
      BY <2>1, <3>2 DEF Before, Strips
    <3>5. \A k \in Strips : ~Pending("ws2812b_write_grb", k)'
      BY <3>1 DEF ShowKinds
    <3>6. \A k \in Strips : (Reached(k)' <=> Reached(k)) /\ (Alive(k)' <=> Alive(k))
      BY <2>2, <2>5 DEF Reached, Alive
    <3>7. ASSUME NEW k \in Strips, Reached(k) PROVE ~Pending("ws2812b_write_grb", k)
      <4>1. \A m \in 1 .. k : Alive(m)
        BY <2>1, <3>7 DEF Reached
      <4>2. ~(i \in 1 .. k)
        BY <4>1, <2>5
      <4>3. k < i
        BY <4>2, <2>1, SizeAssumption DEF Strips
      <4> QED
        BY <4>3, <3>4, <2>1, SizeAssumption DEF Strips
    <3>8. \A k \in Strips : WsFrame(k)'
      BY <1>f, <2>2, <2>5, <3>1, <3>5, <3>6, <3>7 DEF WsFrame
    <3>9. \A j \in Chips : ~Pending("pca9955b_set_pixel", j)'
      BY <3>1 DEF ShowKinds
    <3>10. \A j \in Chips : PcaFrame(j)'
      BY <1>f, <2>2, <3>1, <3>3, <3>9 DEF PcaFrame
    <3> QED
      BY <2>3, <3>8, <3>10, <1>r
  <2> QED
    BY <2>0, <1>5, <2>4, <2>5, WsWriteDoes
<1>6. CASE WsFill
  <2>0. PICK i : i = Dev
    OBVIOUS
  <2>1. /\ Now("ws2812b_fill") /\ Pending("ws2812b_fill", i) /\ i \in Strips
        /\ phase = "acquired" /\ wanted.op = "fill"
    BY <2>0, <1>6, Calling, CallsNow, PhaseOf, WsFillDoes DEF StageKinds
  <2>2. /\ UNCHANGED <<pca9955b, tx, lit, chip, phase, wanted, hit, ret>> /\ todo' = Tail(todo)
        /\ InFrame /\ WsStage = "ws2812b_fill" /\ WsStage' = "ws2812b_fill"
    BY <1>6, <2>1, WsFillDoes DEF InFrame, WsStage
  <2>3. Whole'
    BY <1>0, <2>2 DEF Whole
  <2>4. \A c, d : Pending(c, d)' <=> Pending(c, d) /\ <<c, d>> # <<"ws2812b_fill", i>>
    BY <2>0, <2>1, <2>2, PendingCalled
  <2>5. /\ \A k \in Strips : ws2812b'[k].channel = ws2812b[k].channel
        /\ \A k \in Strips : k # i => ws2812b'[k] = ws2812b[k]
    BY <2>0, <1>6, WsFillDoes DEF StripStaged, Only
  <2>6. \A k \in Strips : k # i => WsFrame(k)'
    BY <2>2, <2>4, <2>5, <1>f, WsFrameKept
  <2>7. \A j \in Chips : PcaFrame(j)'
    BY <2>2, <2>4, <1>f, PcaFrameKept
  <2>8. /\ Pending("ws2812b_show", i)' /\ Pending("ws2812b_wait_done", i)'
        /\ ~Pending("ws2812b_fill", i)'
    BY <1>f, <2>1, <2>2, <2>4 DEF WsFrame
  <2>9. Alive(i)' => ws2812b'[i].buffer = wanted'.colour
    <3>1. Alive(i)' => ws2812b[i].pixels
      BY <2>1, <2>5 DEF Alive, Life, Flags
    <3> QED
      BY <2>0, <1>6, <2>2, <3>1, WsFillDoes DEF StripStaged
  <2>10. ret = "ok" => <<"ws", i>> \notin hit
    BY <1>f, <2>1, <2>2 DEF WsFrame
  <2>11. WsFrame(i)'
    BY <2>2, <2>8, <2>9, <2>10 DEF WsFrame, Reached
  <2> QED
    BY <2>3, <2>6, <2>7, <2>11, <1>r
<1>7. CASE WsShow
  <2>0. PICK i : i = Dev
    OBVIOUS
  <2>1. /\ Now("ws2812b_show") /\ Pending("ws2812b_show", i) /\ i \in Strips
        /\ phase = "acquired" /\ wanted.op # "init"
    BY <2>0, <1>7, Calling, CallsNow, PhaseOf, WsShowDoes DEF ShowKinds
  <2>2. /\ UNCHANGED <<ws2812b, pca9955b, lit, chip, phase, wanted>> /\ todo' = Tail(todo)
        /\ InFrame /\ WsStage' = WsStage /\ ret' \in {ret, "error"}
    BY <1>7, <2>1, WsShowDoes DEF InFrame, WsStage
  <2>3. \A c, d : Pending(c, d)' <=> Pending(c, d) /\ <<c, d>> # <<"ws2812b_show", i>>
    BY <2>0, <2>1, <2>2, PendingCalled
  <2>4. \A c, d : Pending(c, d)' => c \notin StageKinds
    BY <2>0, <2>1, <2>2, PendingAfter DEF Before, ShowKinds
  <2>5. ~Pending(WsStage, i) /\ ~Pending(WsStage, i)'
    <3>1. "ws2812b_show" \notin StageKinds
      BY DEF StageKinds
    <3> QED
      BY <2>2, <2>3, <2>4, <3>1, StageOf
  <2>6. CASE /\ Alive(i) /\ ret' = ret /\ hit' = hit
             /\ Only(Strips, tx, tx', i)
             /\ tx'[i].queued = tx[i].queued + 1 /\ tx'[i].part = tx[i].part
    <3>1. Whole'
      BY <1>0, <2>1, <2>6 DEF Whole, Only, Tx
    <3>2. \A k \in Strips : k # i => WsFrame(k)'
      BY <2>2, <2>3, <2>6, <1>f, WsFrameKept DEF Only
    <3>3. \A j \in Chips : PcaFrame(j)'
      BY <2>2, <2>3, <2>6, <1>f, PcaFrameKept
    <3>4. tx[i].queued \in Nat /\ (tx[i].queued = 0 => tx[i].part = 1)
      BY <1>0, <2>1 DEF Whole, Tx
    <3>5. tx'[i].queued # 0 /\ ~(tx'[i].queued = 1 /\ tx'[i].part = 2)
      BY <2>6, <3>4
    <3>6. Pending("ws2812b_wait_done", i)' /\ ~Pending("ws2812b_show", i)'
      BY <1>f, <2>1, <2>2, <2>3 DEF WsFrame
    <3>7. /\ Reached(i)' /\ <<"ws", i>> \notin hit' => ws2812b'[i].buffer = wanted'.colour
          /\ ret' = "ok" => <<"ws", i>> \notin hit'
      BY <1>f, <2>1, <2>2, <2>5, <2>6 DEF WsFrame, Reached, Alive
    <3>8. Alive(i)'
      BY <2>2, <2>6 DEF Alive
    <3>9. WsFrame(i)'
      BY <2>5, <3>5, <3>6, <3>7, <3>8 DEF WsFrame
    <3> QED
      BY <3>1, <3>2, <3>3, <3>9, <1>r
  <2>7. CASE /\ ret' = "error" /\ tx' = tx
             /\ \/ Alive(i) /\ hit' = hit \cup {<<"ws", i>>}
                \/ ~Alive(i) /\ hit' = hit
    <3>1. Whole'
      BY <1>0, <2>7 DEF Whole
    <3>2. \A k \in Strips : k # i => WsFrame(k)'
      <4>1. \A k \in Strips : k # i => (<<"ws", k>> \in hit' <=> <<"ws", k>> \in hit)
        BY <2>7
      <4> QED
        BY <2>2, <2>3, <2>7, <4>1, <1>f, WsFrameKept
    <3>3. \A j \in Chips : PcaFrame(j)'
      <4>1. \A j \in Chips : <<"pca", j>> \in hit' <=> <<"pca", j>> \in hit
        BY <2>7
      <4> QED
        BY <2>2, <2>3, <4>1, <1>f, PcaFrameKept
    <3>4. ~(Reached(i)' /\ <<"ws", i>> \notin hit')
      BY <2>2, <2>7 DEF Reached, Alive
    <3>5. WsFrame(i)'
      BY <2>3, <2>5, <2>7, <3>4 DEF WsFrame
    <3> QED
      BY <3>1, <3>2, <3>3, <3>5, <1>r
  <2> QED
    BY <2>0, <1>7, <2>6, <2>7, WsShowDoes
<1>8. CASE WsWait
  <2>0. PICK i : i = Dev
    OBVIOUS
  <2>1. /\ Now("ws2812b_wait_done") /\ Pending("ws2812b_wait_done", i) /\ i \in Strips
        /\ phase = "acquired" /\ wanted.op # "init"
    BY <2>0, <1>8, Calling, CallsNow, PhaseOf, WsWaitDoes DEF ShowKinds
  <2>2. /\ UNCHANGED <<ws2812b, pca9955b, tx, lit, chip, phase, wanted>> /\ todo' = Tail(todo)
        /\ InFrame /\ WsStage' = WsStage /\ ret' \in {ret, "error"}
    BY <1>8, <2>1, WsWaitDoes DEF InFrame, WsStage
  <2>3. \A c, d : Pending(c, d)' <=> Pending(c, d) /\ <<c, d>> # <<"ws2812b_wait_done", i>>
    BY <2>0, <2>1, <2>2, PendingCalled
  <2>4. ~Pending("ws2812b_show", i) /\ ~Pending("ws2812b_show", i)'
    BY <2>0, <2>1, <2>2, <2>3, PendingAfter DEF Before
  <2>5. ~Pending(WsStage, i) /\ ~Pending(WsStage, i)'
    BY <1>f, <2>1, <2>2, <2>3, <2>4 DEF WsFrame
  <2>6. Whole'
    BY <1>0, <2>2 DEF Whole
  <2>7. \A k \in Strips : k # i => WsFrame(k)'
    <3>1. \A k \in Strips : k # i => (<<"ws", k>> \in hit' <=> <<"ws", k>> \in hit)
      BY <2>0, <1>8, WsWaitDoes
    <3> QED
      BY <2>2, <2>3, <3>1, <1>f, WsFrameKept
  <2>8. \A j \in Chips : PcaFrame(j)'
    <3>1. \A j \in Chips : <<"pca", j>> \in hit' <=> <<"pca", j>> \in hit
      BY <2>0, <1>8, WsWaitDoes
    <3> QED
      BY <2>2, <2>3, <3>1, <1>f, PcaFrameKept
  <2>9. WsFrame(i)'
    <3>1. CASE Alive(i) /\ tx[i].queued = 0 /\ ret' = ret /\ hit' = hit
      <4>1. /\ (Reached(i)' <=> Reached(i)) /\ (Alive(i)' <=> Alive(i))
        BY <2>2 DEF Reached, Alive
      <4> QED
        BY <1>f, <2>1, <2>2, <2>4, <2>5, <3>1, <4>1 DEF WsFrame
    <3>2. CASE /\ ret' = "error"
               /\ \/ Alive(i) /\ hit' = hit \cup {<<"ws", i>>}
                  \/ ~Alive(i) /\ hit' = hit
      <4>1. ~(Reached(i)' /\ <<"ws", i>> \notin hit')
        BY <2>2, <3>2 DEF Reached, Alive
      <4> QED
        BY <2>4, <2>5, <3>2, <4>1 DEF WsFrame
    <3> QED
      BY <2>0, <1>8, <3>1, <3>2, WsWaitDoes
  <2> QED
    BY <2>6, <2>7, <2>8, <2>9, <1>r
<1>9. CASE PcaStage
  <2>0. PICK j : j = Dev
    OBVIOUS
  <2>1. PICK call \in {"pca9955b_set_pixel", "pca9955b_fill"} : Now(call)
    BY <1>9 DEF PcaStage
  <2>2. Pending(call, j) /\ phase = "acquired" /\ wanted.op # "init" /\ j \in Chips
    BY <2>0, <2>1, <1>9, Calling, PhaseOf, PcaStageDoes DEF StageKinds
  <2>3. /\ UNCHANGED <<ws2812b, tx, lit, chip, phase, wanted, hit, ret>> /\ todo' = Tail(todo)
        /\ InFrame /\ PcaStages' = PcaStages
    BY <1>9, <2>2, PcaStageDoes DEF InFrame, PcaStages
  <2>4. \A c, d : Pending(c, d)' <=> Pending(c, d) /\ <<c, d>> # <<call, j>>
    BY <2>0, <2>1, <2>3, PendingCalled
  <2>5. Whole'
    BY <1>0, <2>3 DEF Whole
  <2>6. \A i \in Strips : WsFrame(i)'
    BY <2>3, <2>4, <1>f, WsFrameKept
  <2>7. /\ \A k \in Chips : k # j => pca9955b'[k] = pca9955b[k]
        /\ pca9955b'[j].enable = pca9955b[j].enable
        /\ pca9955b[j].enable => pca9955b'[j].buffer = wanted.colour
    BY <2>0, <1>9, PcaStageDoes DEF PcaStaged, Only
  <2>8. \A k \in Chips : k # j => PcaFrame(k)'
    BY <2>3, <2>4, <2>7, <1>f, PcaFrameKept
  <2>9. PcaFrame(j)'
    <3>1. /\ Pending("pca9955b_show", j)' <=> Pending("pca9955b_show", j)
          /\ Pending(PcaStages, j)' => Pending(PcaStages, j)
      BY <2>3, <2>4
    <3>2. Light(j)' = Light(j)
      BY <2>3 DEF Light
    <3> QED
      BY <1>f, <2>2, <2>3, <2>7, <3>1, <3>2 DEF PcaFrame
  <2> QED
    BY <2>5, <2>6, <2>8, <2>9, <1>r
<1>10. CASE PcaShow
  <2>0. PICK j : j = Dev
    OBVIOUS
  <2>1. /\ Now("pca9955b_show") /\ Pending("pca9955b_show", j) /\ j \in Chips
        /\ phase = "acquired" /\ wanted.op # "init"
    BY <2>0, <1>10, Calling, CallsNow, PhaseOf, PcaShowDoes DEF ShowKinds
  <2>2. /\ UNCHANGED <<ws2812b, pca9955b, tx, lit, phase, wanted>> /\ todo' = Tail(todo)
        /\ InFrame /\ PcaStages' = PcaStages /\ ret' \in {ret, "error"}
    BY <1>10, <2>1, PcaShowDoes DEF InFrame, PcaStages
  <2>3. \A c, d : Pending(c, d)' <=> Pending(c, d) /\ <<c, d>> # <<"pca9955b_show", j>>
    BY <2>0, <2>1, <2>2, PendingCalled
  <2>4. \A c, d : Pending(c, d)' => c \notin StageKinds
    BY <2>0, <2>1, <2>2, PendingAfter DEF Before, ShowKinds
  <2>5. ~Pending(PcaStages, j) /\ ~Pending(PcaStages, j)'
    <3>1. "pca9955b_show" \notin StageKinds
      BY DEF StageKinds
    <3> QED
      BY <2>2, <2>3, <2>4, <3>1, StageOf
  <2>6. Whole'
    BY <1>0, <2>2 DEF Whole
  <2>h. hit' = hit \/ hit' = hit \cup {<<"pca", j>>}
    BY <2>0, <1>10, PcaShowDoes, Zenon
  <2>7. \A i \in Strips : WsFrame(i)'
    <3>1. \A i \in Strips : <<"ws", i>> \in hit' <=> <<"ws", i>> \in hit
      BY <2>h
    <3> QED
      BY <2>2, <2>3, <3>1, <1>f, WsFrameKept
  <2>8. \A k \in Chips : k # j => PcaFrame(k)'
    <3>1. \A k \in Chips : k # j => (<<"pca", k>> \in hit' <=> <<"pca", k>> \in hit)
      BY <2>h
    <3>2. chip' = chip \/ ChipTouched(j)
      BY <2>0, <1>10, PcaShowDoes DEF ChipSet
    <3>3. \A k \in Chips : k # j => chip'[k] = chip[k]
      BY <3>2 DEF ChipTouched, Only
    <3> QED
      BY <2>2, <2>3, <3>1, <3>3, <1>f, PcaFrameKept
  <2>9. PcaFrame(j)'
    <3>1. CASE ~pca9955b[j].enable
      BY <2>2, <2>5, <3>1 DEF PcaFrame
    <3>2. CASE pca9955b[j].enable /\ hit' = hit /\ ChipSet(j, TRUE, pca9955b[j].buffer)
      <4>1. Light(j)' = pca9955b[j].buffer
        BY <3>2 DEF ChipSet, Light
      <4> QED
        BY <1>f, <2>1, <2>2, <2>5, <3>2, <4>1 DEF PcaFrame
    <3>3. CASE hit' = hit \cup {<<"pca", j>>}
      BY <2>5, <3>3 DEF PcaFrame
    <3> QED
      BY <2>0, <1>10, <3>1, <3>2, <3>3, PcaShowDoes
  <2> QED
    BY <2>6, <2>7, <2>8, <2>9, <1>r
<1>11. ASSUME NEW i \in Strips, Shift(i) PROVE Frame'
  <2>1. /\ UNCHANGED <<ws2812b, pca9955b, chip, phase, wanted, hit, ret>> /\ todo' = todo
        /\ Only(Strips, tx, tx', i) /\ Only(Strips, lit, lit', i) /\ tx[i].queued > 0
        /\ lit'[i] \in [{1, 2} -> Nat] /\ tx'[i] \in Tx
    BY <1>11, ShiftDoes
  <2>2. \A c, d : Pending(c, d)' <=> Pending(c, d)
    BY <2>1, PendingKept
  <2>3. Whole'
    <3>1. tx'[i].queued = 0 => tx'[i].part = 1
      BY <1>0, <1>11, <2>1, ShiftDoes DEF Tx
    <3> QED
      BY <1>0, <2>1, <3>1 DEF Whole, Only
  <2>4. CASE ~InFrame
    BY <2>1, <2>3, <2>4, <1>q DEF InFrame
  <2>5. CASE InFrame
    <3>1. \A k \in Strips : k # i => WsFrame(k)'
      BY <2>1, <2>2, <2>5, <1>f, WsFrameKept DEF Only
    <3>2. \A j \in Chips : PcaFrame(j)'
      BY <2>1, <2>2, <2>5, <1>f, PcaFrameKept
    <3>3. /\ WsStage' = WsStage /\ wanted' = wanted
          /\ (Reached(i)' <=> Reached(i)) /\ (Alive(i)' <=> Alive(i))
      BY <2>1 DEF WsStage, Reached, Alive
    <3>4. WsFrame(i)
      BY <1>f, <2>5
    <3>5. ASSUME Reached(i), <<"ws", i>> \notin hit, ~Pending("ws2812b_show", i)
          PROVE  /\ tx'[i].queued = 0 => lit'[i] = <<wanted.colour, wanted.colour>>
                 /\ tx'[i].queued = 1 /\ tx'[i].part = 2 => lit'[i][1] = wanted.colour
                 /\ Pending("ws2812b_wait_done", i)
      <4>1. ws2812b[i].buffer = wanted.colour
        BY <3>4, <3>5 DEF WsFrame
      <4>2. Pending("ws2812b_wait_done", i)
        BY <1>0, <2>1, <3>4, <3>5 DEF WsFrame
      <4>3. tx[i].queued = 1 /\ tx[i].part = 2 => lit[i][1] = wanted.colour
        BY <3>4, <3>5 DEF WsFrame
      <4>4. wanted.colour \in Nat /\ tx[i].queued \in Nat
        BY <1>0 DEF TypesOK, Tx
      <4>5. CASE /\ tx'[i].part = 2 /\ tx'[i].queued = tx[i].queued
                 /\ lit'[i][1] = ws2812b[i].buffer
        BY <2>1, <4>1, <4>2, <4>4, <4>5
      <4>6. CASE /\ tx[i].part = 2 /\ tx'[i].part = 1 /\ tx'[i].queued = tx[i].queued - 1
                 /\ lit'[i][2] = ws2812b[i].buffer /\ lit'[i][1] = lit[i][1]
        <5>1. ASSUME tx'[i].queued = 0 PROVE lit'[i] = <<wanted.colour, wanted.colour>>
          <6>1. tx[i].queued = 1
            BY <4>4, <4>6, <5>1
          <6>2. lit'[i][1] = wanted.colour /\ lit'[i][2] = wanted.colour
            BY <4>1, <4>3, <4>6, <6>1
          <6> QED
            BY <2>1, <4>4, <6>2, BothParts
        <5> QED
          BY <4>2, <4>6, <5>1
      <4> QED
        BY <1>11, <4>5, <4>6, ShiftDoes
    <3>6. /\ Pending(WsStage, i)' <=> Pending(WsStage, i)
          /\ Pending("ws2812b_show", i)' <=> Pending("ws2812b_show", i)
          /\ Pending("ws2812b_wait_done", i)' <=> Pending("ws2812b_wait_done", i)
      BY <2>2, <3>3
    <3>7. ASSUME Reached(i), <<"ws", i>> \notin hit, ~Pending("ws2812b_wait_done", i)
          PROVE  FALSE
      BY <1>0, <2>1, <3>4, <3>7 DEF WsFrame
    <3>8. WsFrame(i)'
      BY <2>1, <3>3, <3>4, <3>5, <3>6, <3>7 DEF WsFrame
    <3> QED
      BY <2>3, <3>1, <3>2, <3>8, <1>r
  <2> QED
    BY <2>4, <2>5
<1>12. ASSUME NEW j \in Chips, PowerDip(j) PROVE Frame'
  <2>1. /\ UNCHANGED <<ws2812b, pca9955b, tx, lit, phase, wanted, ret>> /\ todo' = todo
        /\ hit' = hit \cup {<<"pca", j>>} /\ Only(Chips, chip, chip', j)
    BY <1>12, PowerDipDoes DEF ChipSet, ChipTouched
  <2>2. \A c, d : Pending(c, d)' <=> Pending(c, d)
    BY <2>1, PendingKept
  <2>3. Whole'
    BY <1>0, <2>1 DEF Whole
  <2>4. CASE ~InFrame
    BY <2>1, <2>3, <2>4, <1>q DEF InFrame
  <2>5. CASE InFrame
    <3>1. \A i \in Strips : WsFrame(i)'
      <4>1. \A i \in Strips : <<"ws", i>> \in hit' <=> <<"ws", i>> \in hit
        BY <2>1
      <4> QED
        BY <2>1, <2>2, <2>5, <4>1, <1>f, WsFrameKept
    <3>2. \A k \in Chips : k # j => PcaFrame(k)'
      <4>1. \A k \in Chips : k # j => (<<"pca", k>> \in hit' <=> <<"pca", k>> \in hit)
        BY <2>1
      <4> QED
        BY <2>1, <2>2, <2>5, <4>1, <1>f, PcaFrameKept DEF Only
    <3>3. PcaFrame(j)'
      <4>1. PcaStages' = PcaStages
        BY <2>1 DEF PcaStages
      <4> QED
        BY <1>f, <2>1, <2>2, <2>5, <4>1 DEF PcaFrame
    <3> QED
      BY <2>3, <3>1, <3>2, <3>3, <1>r
  <2> QED
    BY <2>4, <2>5
<1> QED
  BY <1>1, <1>2, <1>3, <1>4, <1>5, <1>6, <1>7, <1>8, <1>9, <1>10, <1>11, <1>12 DEF Step, Ws, Pca

-----------------------------------------------------------------------------
(* The inductive invariant, and what it gives *)

Inv ==
  /\ TypesOK /\ Prog(todo) /\ InPhase
  /\ Life /\ Owned /\ Dark /\ Started /\ Frame

LEMMA InvInit == Init => Inv
<1>1. Init => Prog(todo)
  BY NothingLeft DEF Init
<1> QED
  BY <1>1, TypesInit, InPhaseInit, LifeInit, OwnedInit, DarkInit, StartedInit, FrameInit DEF Inv

LEMMA InvKept == ASSUME Inv, UNCHANGED vars PROVE Inv'
<1>1. /\ UNCHANGED <<unused, bus_handle, ws2812b, pca9955b, port, attached, taken, tx, lit, chip>>
      /\ UNCHANGED <<phase, todo, ret, wanted, hit, lost, cause, faults>>
  BY DEF vars, handleVars, driverVars, lightVars, historyVars
<1>2. /\ Left' = Left /\ Prog(todo)'
      /\ \A c, d : Pending(c, d)' <=> Pending(c, d)
  BY <1>1, Kept, PendingKept DEF Inv
<1>3. TypesOK'
  BY <1>1 DEF Inv, TypesOK
<1>4. InPhase'
  BY <1>1, <1>2 DEF Inv, InPhase, Releasing
<1>5. Life'
  BY <1>1, <1>2 DEF Inv, Life, BeforeInit, BeforeDeinit, Flags, Releasing, Alive, Has
<1>6. Owned'
  BY <1>1, OwnedKept DEF Inv
<1>7. Dark'
  BY <1>1, SameStrip, SameChip, DarkKept DEF Inv
<1>8. Started'
  BY <1>1, StartedSameStrip, StartedSameChip, StartedKept DEF Inv
<1>9. Frame'
  <2>1. \A i \in Strips : WsFrame(i) => WsFrame(i)'
    BY <1>1, <1>2, WsFrameKept
  <2>2. \A j \in Chips : PcaFrame(j) => PcaFrame(j)'
    BY <1>1, <1>2, PcaFrameKept
  <2> QED
    BY <1>1, <2>1, <2>2 DEF Inv, Frame, InFrame
<1> QED
  BY <1>2, <1>3, <1>4, <1>5, <1>6, <1>7, <1>8, <1>9 DEF Inv

LEMMA InvStep == Inv /\ [Next]_vars => Inv'
<1> SUFFICES ASSUME Inv, [Next]_vars PROVE Inv'
  OBVIOUS
<1>1. ASSUME Step, unused' = unused PROVE Inv'
  BY <1>1, TypesStep, ProgStep, InPhaseStep, LifeStep, OwnedStep, DarkStep, StartedStep, FrameStep
     DEF Inv
<1> QED
  BY <1>1, InvKept DEF Next

LEMMA InvAlways == Spec => []Inv
BY InvInit, InvStep, PTL DEF Spec

LEMMA ShownNow ==
  ASSUME Inv, Shown
  PROVE  /\ \A c, d : ~Pending(c, d)
         /\ wanted.op # "init" => InFrame
         /\ \A i \in Strips : tx[i].queued \in Nat
         /\ \A j \in Chips : pca9955b[j].enable => Has(j)
<1>1. phase = "acquired" /\ todo = <<>>
  BY DEF Shown
<1>2. wanted.op # "init" => InFrame
  BY <1>1 DEF InFrame
<1>3. \A i \in Strips : tx[i].queued \in Nat
  BY DEF Inv, TypesOK, Tx
<1>4. \A j \in Chips : pca9955b[j].enable => Has(j)
  BY <1>1 DEF Inv, Life, Flags
<1> QED
  BY <1>1, <1>2, <1>3, <1>4, PendingNone

LEMMA InvHealthy == Inv => HealthyShown
<1> SUFFICES ASSUME Inv, Shown
             PROVE  /\ \A i \in Strips : Reached(i) /\ <<"ws", i>> \notin hit =>
                         lit[i] = <<wanted.colour, wanted.colour>>
                    /\ \A j \in Chips : pca9955b[j].enable /\ <<"pca", j>> \notin hit =>
                         Light(j) = wanted.colour
  BY DEF HealthyShown
<1>1. CASE wanted.op = "init"
  <2>1. wanted.colour = 0 /\ phase = "acquired"
    BY <1>1 DEF Inv, InPhase, Shown
  <2>2. \A i \in Strips : Reached(i) /\ <<"ws", i>> \notin hit => lit[i] = <<0, 0>>
    BY <1>1, <2>1 DEF Inv, Started, Reached
  <2>3. \A j \in Chips : pca9955b[j].enable /\ <<"pca", j>> \notin hit => Light(j) = 0
    BY <1>1, <2>1, ShownNow DEF Inv, Started
  <2> QED
    BY <2>1, <2>2, <2>3
<1>2. CASE wanted.op # "init"
  <2>1. /\ \A i \in Strips : WsFrame(i)
        /\ \A j \in Chips : PcaFrame(j)
    BY <1>2, ShownNow DEF Inv, Frame
  <2> QED
    BY <2>1, ShownNow DEF WsFrame, PcaFrame
<1> QED
  BY <1>1, <1>2

LEMMA InvOk == Inv => OkMeansShown
<1> SUFFICES ASSUME Inv, Shown, wanted.op # "init", ret = "ok"
             PROVE  /\ \A i \in Strips : /\ lit[i] = <<wanted.colour, wanted.colour>>
                                         /\ tx[i].queued = 0
                    /\ \A j \in Chips : pca9955b[j].enable =>
                         Light(j) = wanted.colour \/ <<"pca", j>> \in hit
  BY DEF OkMeansShown
<1>1. /\ \A i \in Strips : WsFrame(i)
      /\ \A j \in Chips : PcaFrame(j)
  BY ShownNow DEF Inv, Frame
<1>2. \A i \in Strips : <<"ws", i>> \notin hit /\ Alive(i)
  BY <1>1, ShownNow DEF WsFrame
<1>3. \A i \in Strips : Reached(i)
  <2>1. \A i \in Strips : 1 .. i \subseteq Strips
    BY SizeAssumption DEF Strips
  <2> QED
    BY <1>2, <2>1 DEF Reached
<1> QED
  BY <1>1, <1>2, <1>3, ShownNow DEF WsFrame, PcaFrame

LEMMA InvDark == Inv => DarkWhenReleased
BY DEF Inv, Dark, DarkWhenReleased

LEMMA InvOwned == Inv => NothingOrphaned
BY DEF Inv, Owned

\* A device whose own calls succeeded shows the last frame, whole, whatever failed for
\* the others: show() never stops half-way (LedController.cpp:134-244).
THEOREM HealthyAlwaysShown == Spec => []HealthyShown
BY InvAlways, InvHealthy, PTL

\* When show() returns ESP_OK every strip shows the frame and has nothing left to send,
\* and every chip in use shows it unless it lost its power (LedController.cpp:150-244,
\* ws2812b.c:108-138, pca9955b.c:144-179).
THEOREM OkAlwaysMeansShown == Spec => []OkMeansShown
BY InvAlways, InvOk, PTL

\* A controller that was released leaves nothing lit, except devices whose last
\* transmission failed (ws2812b.c:140-170, pca9955b.c:181-206).
THEOREM AlwaysDarkWhenReleased == Spec => []DarkWhenReleased
BY InvAlways, InvDark, PTL

\* What the drivers hold, the controller has a handle to, whatever call of init() fails
\* (LedController.cpp:19-87,246-274).
THEOREM NothingEverOrphaned == Spec => []NothingOrphaned
BY InvAlways, InvOwned, PTL

=============================================================================
