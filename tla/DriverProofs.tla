---- MODULE DriverProofs ----
(***************************************************************************)
(* The two drivers at the end of the I2C bus, for every width of the       *)
(* display, every number of failing transfers and of restarts, and every   *)
(* settings the sensor's API takes.                                        *)
(*                                                                         *)
(* Both models run a call as a recursive function of the steps made so     *)
(* far, so each part begins with what one step does and goes on, by        *)
(* induction on the steps, to what a call leaves.                          *)
(***************************************************************************)
EXTENDS Bma400, Lcd, Integers, Induction, TLAPS

----------------------------------------------------------------------------
(* The sensor's registers                                                    *)

Byte == SUBSET (0 .. 7)
Chip == [Addr -> Byte]
RegWrite == (Addr \cup {COMMAND}) \X Byte

IsStages(f, r, writes, n) ==
  f = [k \in 0 .. n |-> IF k = 0 THEN r ELSE Stored(f[k - 1], writes[k])]

(* The recursion has a solution, by induction on how far it goes.            *)
LEMMA StagesDefined ==
  ASSUME NEW r, NEW writes, Len(writes) \in Nat
  PROVE  IsStages(Stages(r, writes), r, writes, Len(writes))
<1> DEFINE S == {n \in Nat : \E f : IsStages(f, r, writes, n)}
<1>1. 0 \in S
  <2>1. IsStages([k \in 0 .. 0 |-> r], r, writes, 0)
    BY DEF IsStages
  <2>. QED  BY <2>1
<1>2. ASSUME NEW n \in 0 .. Len(writes) - 1, n \in S PROVE n + 1 \in S
  <2>1. PICK f : IsStages(f, r, writes, n)
    BY <1>2
  <2> DEFINE g == [k \in 0 .. n + 1 |-> IF k = n + 1 THEN Stored(f[n], writes[n + 1]) ELSE f[k]]
  <2>2. n \in Nat /\ n + 1 \in Nat
    OBVIOUS
  <2>3. g[n + 1] = Stored(f[n], writes[n + 1]) /\ \A k \in 0 .. n : g[k] = f[k]
    BY <2>2
  <2>4. \A k \in 0 .. n : f[k] = IF k = 0 THEN r ELSE Stored(f[k - 1], writes[k])
    BY <2>1 DEF IsStages
  <2>5. ASSUME NEW k \in 0 .. n + 1
        PROVE  g[k] = IF k = 0 THEN r ELSE Stored(g[k - 1], writes[k])
    <3> HIDE DEF g
    <3>1. CASE k = n + 1
      BY <2>2, <2>3, <3>1
    <3>2. CASE k \in 0 .. n
      <4>1. k # 0 => k - 1 \in 0 .. n
        BY <2>2, <3>2
      <4>. QED  BY <2>3, <2>4, <3>2, <4>1
    <3>. QED  BY <2>2, <3>1, <3>2
  <2>6. IsStages(g, r, writes, n + 1)
    BY <2>5 DEF IsStages
  <2>. QED  BY <2>2, <2>6
<1>3. Len(writes) \in S
  <2> HIDE DEF S
  <2>1. 0 .. Len(writes) \subseteq S
    BY <1>1, <1>2, RangeInduction
  <2>. QED  BY <2>1
<1>4. \E f : IsStages(f, r, writes, Len(writes))
  BY <1>3
<1>. QED  BY <1>4 DEF Stages, IsStages

LEMMA StagesStep ==
  ASSUME NEW r, NEW writes, Len(writes) \in Nat
  PROVE  /\ Stages(r, writes)[0] = r
         /\ \A k \in 0 .. Len(writes) - 1 :
              Stages(r, writes)[k + 1] = Stored(Stages(r, writes)[k], writes[k + 1])
<1> DEFINE s == Stages(r, writes)
<1>1. s = [k \in 0 .. Len(writes) |-> IF k = 0 THEN r ELSE Stored(s[k - 1], writes[k])]
  BY StagesDefined DEF IsStages
<1> HIDE DEF s
<1>2. s[0] = r
  BY <1>1
<1>3. ASSUME NEW k \in 0 .. Len(writes) - 1 PROVE s[k + 1] = Stored(s[k], writes[k + 1])
  <2>1. k + 1 \in 0 .. Len(writes) /\ k + 1 # 0 /\ (k + 1) - 1 = k
    OBVIOUS
  <2>. QED  BY <1>1, <2>1
<1>. QED  BY <1>2, <1>3 DEF s

LEMMA NothingWritten == ASSUME NEW r PROVE Written(r, <<>>) = r /\ Stages(r, <<>>)[0] = r
<1>1. Len(<<>>) = 0 /\ Len(<<>>) \in Nat
  OBVIOUS
<1>. QED  BY <1>1, StagesStep DEF Written

(* Bytes at consecutive addresses.                                           *)
LEMMA SetRegsSeq ==
  ASSUME NEW a \in Nat, NEW bytes \in Seq(Byte)
  PROVE  /\ Len(set_regs(a, bytes)) = Len(bytes) /\ Len(bytes) \in Nat
         /\ \A i \in 1 .. Len(bytes) : set_regs(a, bytes)[i] = <<a + i - 1, bytes[i]>>
         /\ set_regs(a, bytes) \in Seq(Nat \X Byte)
<1>1. Len(bytes) \in Nat /\ DOMAIN bytes = 1 .. Len(bytes) /\ \A i \in 1 .. Len(bytes) : bytes[i] \in Byte
  OBVIOUS
<1>2. set_regs(a, bytes) = [i \in 1 .. Len(bytes) |-> <<a + i - 1, bytes[i]>>]
  BY <1>1 DEF set_regs
<1>3. ASSUME NEW i \in 1 .. Len(bytes) PROVE <<a + i - 1, bytes[i]>> \in Nat \X Byte
  BY <1>1
<1>. QED  BY <1>1, <1>2, <1>3

Overwritten(r, a, bytes, k) == [x \in Addr |-> IF x \in a .. a + k - 1 THEN bytes[x - a + 1] ELSE r[x]]

LEMMA SetRegsStages ==
  ASSUME NEW r \in Chip, NEW a \in Nat, NEW bytes \in Seq(Byte),
         \A i \in 1 .. Len(bytes) : a + i - 1 \in Addr
  PROVE  \A k \in 0 .. Len(bytes) :
           Stages(r, set_regs(a, bytes))[k] = Overwritten(r, a, bytes, k)
<1> DEFINE w == set_regs(a, bytes)
           s == Stages(r, w)
           S == {k \in Nat : s[k] = Overwritten(r, a, bytes, k)}
<1>1. /\ Len(w) = Len(bytes) /\ Len(bytes) \in Nat
      /\ \A i \in 1 .. Len(bytes) : w[i] = <<a + i - 1, bytes[i]>>
  BY SetRegsSeq
<1> HIDE DEF w
<1>2. 0 \in S
  <2>1. Overwritten(r, a, bytes, 0) = r
    BY DEF Overwritten, Chip
  <2>. QED  BY <1>1, <2>1, StagesStep
<1>3. ASSUME NEW k \in 0 .. Len(bytes) - 1, k \in S PROVE k + 1 \in S
  <2>1. s[k + 1] = Stored(s[k], w[k + 1])
    BY <1>1, StagesStep
  <2>2. k + 1 \in 1 .. Len(bytes) /\ w[k + 1] = <<a + k, bytes[k + 1]>> /\ a + k \in Addr /\ k + 1 \in Nat /\ k \in Nat
    BY <1>1
  <2>3. a + k # COMMAND
    BY <2>2 DEF Addr, COMMAND
  <2>4. s[k] = Overwritten(r, a, bytes, k)
    BY <1>3
  <2>5. s[k + 1] = [s[k] EXCEPT ![a + k] = bytes[k + 1]]
    BY <2>1, <2>2, <2>3 DEF Stored
  <2> HIDE DEF s
  <2>6. ASSUME NEW x \in Addr
        PROVE  Overwritten(r, a, bytes, k + 1)[x] = IF x = a + k THEN bytes[k + 1] ELSE Overwritten(r, a, bytes, k)[x]
    <3>1. x \in Nat
      BY DEF Addr
    <3>. QED  BY <2>2, <3>1 DEF Overwritten
  <2>7. s[k + 1] = Overwritten(r, a, bytes, k + 1)
    BY <2>4, <2>5, <2>6 DEF Overwritten
  <2>. QED  BY <2>2, <2>7
<1>4. 0 .. Len(bytes) \subseteq S
  <2> HIDE DEF S
  <2>. QED  BY <1>1, <1>2, <1>3, RangeInduction
<1>. QED  BY <1>4 DEF w

LEMMA OverwrittenType ==
  ASSUME NEW r \in Chip, NEW a \in Nat, NEW bytes \in Seq(Byte), NEW k \in 0 .. Len(bytes)
  PROVE  Overwritten(r, a, bytes, k) \in Chip
<1>1. ASSUME NEW x \in Addr PROVE Overwritten(r, a, bytes, k)[x] \in Byte
  <2>1. CASE x \in a .. a + k - 1
    <3>1. x - a + 1 \in 1 .. Len(bytes)
      BY <2>1
    <3>. QED  BY <2>1, <3>1 DEF Overwritten
  <2>2. CASE x \notin a .. a + k - 1
    BY <2>2 DEF Overwritten, Chip
  <2>. QED  BY <2>1, <2>2
<1>. QED  BY <1>1 DEF Overwritten, Chip

LEMMA Concatenation ==
  ASSUME NEW T, NEW u \in Seq(T), NEW v \in Seq(T)
  PROVE  /\ u \o v \in Seq(T) /\ Len(u) \in Nat /\ Len(v) \in Nat /\ Len(u \o v) = Len(u) + Len(v)
         /\ \A k \in 1 .. Len(u) : (u \o v)[k] = u[k]
         /\ \A k \in 1 .. Len(v) : (u \o v)[Len(u) + k] = v[k]
OBVIOUS

(* One sequence of writes after another.                                     *)
LEMMA WrittenTogether ==
  ASSUME NEW r, NEW T, NEW u \in Seq(T), NEW v \in Seq(T)
  PROVE  Written(r, u \o v) = Written(Written(r, u), v)
<1> DEFINE w == u \o v
           s == Stages(r, w)
           first == Stages(r, u)
           second == Stages(Written(r, u), v)
           A == {k \in Nat : s[k] = first[k]}
           B == {k \in Nat : s[Len(u) + k] = second[k]}
<1>1. /\ Len(u) \in Nat /\ Len(v) \in Nat /\ Len(w) = Len(u) + Len(v)
      /\ \A k \in 1 .. Len(u) : w[k] = u[k]
      /\ \A k \in 1 .. Len(v) : w[Len(u) + k] = v[k]
  BY Concatenation
<1> HIDE DEF w
<1>2. Len(w) \in Nat
  BY <1>1
<1>3. /\ s[0] = r /\ first[0] = r /\ second[0] = first[Len(u)]
      /\ \A k \in 0 .. Len(w) - 1 : s[k + 1] = Stored(s[k], w[k + 1])
      /\ \A k \in 0 .. Len(u) - 1 : first[k + 1] = Stored(first[k], u[k + 1])
      /\ \A k \in 0 .. Len(v) - 1 : second[k + 1] = Stored(second[k], v[k + 1])
  <2>1. s[0] = r /\ \A k \in 0 .. Len(w) - 1 : s[k + 1] = Stored(s[k], w[k + 1])
    BY <1>2, StagesStep
  <2>2. first[0] = r /\ \A k \in 0 .. Len(u) - 1 : first[k + 1] = Stored(first[k], u[k + 1])
    BY <1>1, StagesStep
  <2>3. second[0] = Written(r, u) /\ \A k \in 0 .. Len(v) - 1 : second[k + 1] = Stored(second[k], v[k + 1])
    BY <1>1, StagesStep
  <2>. QED  BY <2>1, <2>2, <2>3 DEF Written
<1> HIDE DEF s, first, second
<1>4. 0 .. Len(u) \subseteq A
  <2>1. 0 \in A
    BY <1>3
  <2>2. ASSUME NEW k \in 0 .. Len(u) - 1, k \in A PROVE k + 1 \in A
    <3>1. k \in 0 .. Len(w) - 1 /\ k + 1 \in 1 .. Len(u) /\ k + 1 \in Nat
      BY <1>1
    <3>. QED  BY <1>1, <1>3, <2>2, <3>1
  <2> HIDE DEF A
  <2>. QED  BY <1>1, <2>1, <2>2, RangeInduction
<1>5. 0 .. Len(v) \subseteq B
  <2>1. 0 \in B
    <3>1. Len(u) \in A /\ Len(u) + 0 = Len(u)
      BY <1>1, <1>4
    <3>. QED  BY <1>3, <3>1
  <2>2. ASSUME NEW k \in 0 .. Len(v) - 1, k \in B PROVE k + 1 \in B
    <3>1. /\ Len(u) + k \in 0 .. Len(w) - 1 /\ k + 1 \in 1 .. Len(v) /\ k + 1 \in Nat
          /\ (Len(u) + k) + 1 = Len(u) + (k + 1)
      BY <1>1
    <3>2. s[Len(u) + k] = second[k]
      BY <2>2
    <3>. QED  BY <1>1, <1>3, <3>1, <3>2
  <2> HIDE DEF B
  <2>. QED  BY <1>1, <2>1, <2>2, RangeInduction
<1>6. s[Len(w)] = second[Len(v)]
  BY <1>1, <1>5
<1>. QED  BY <1>6 DEF s, second, w, Written

----------------------------------------------------------------------------
(* Bytes and their fields.                                                   *)
LEMMA BitsType == ASSUME NEW n PROVE Bits(n) \in Byte
BY DEF Bits, Byte

LEMMA NumberBits == ASSUME NEW n \in Nat, n < 256 PROVE Number(Bits(n)) = n
<1>1. \A k \in 0 .. 7 : k \in Bits(n) <=> (n \div Weight[k + 1]) % 2 = 1
  BY DEF Bits
<1>2. /\ 0 \in Bits(n) <=> n % 2 = 1
      /\ 1 \in Bits(n) <=> (n \div 2) % 2 = 1
      /\ 2 \in Bits(n) <=> (n \div 4) % 2 = 1
      /\ 3 \in Bits(n) <=> (n \div 8) % 2 = 1
      /\ 4 \in Bits(n) <=> (n \div 16) % 2 = 1
      /\ 5 \in Bits(n) <=> (n \div 32) % 2 = 1
      /\ 6 \in Bits(n) <=> (n \div 64) % 2 = 1
      /\ 7 \in Bits(n) <=> (n \div 128) % 2 = 1
  BY <1>1 DEF Weight
<1>. QED  BY <1>2, SMTT(60) DEF Number, Weight

LEMMA SmallBits ==
  ASSUME NEW n \in Nat, NEW w \in 0 .. 7, n < Weight[w + 1]
  PROVE  \A k \in Bits(n) : k < w
BY SMTT(60) DEF Bits, Weight

LEMMA SetBitsIs ==
  ASSUME NEW byte \in Byte, NEW lo \in 0 .. 7, NEW hi \in 0 .. 7, NEW n
  PROVE  /\ SetBits(byte, <<lo, hi>>, n) \in Byte
         /\ \A x : x \in SetBits(byte, <<lo, hi>>, n) <=>
                 /\ x \in 0 .. 7
                 /\ IF x \in lo .. hi THEN x - lo \in Bits(n) ELSE x \in byte
<1>1. SetBits(byte, <<lo, hi>>, n) = (byte \ (lo .. hi)) \cup {lo + k : k \in {j \in Bits(n) : lo + j <= hi}}
  BY DEF SetBits
<1>2. Bits(n) \subseteq 0 .. 7 /\ byte \subseteq 0 .. 7
  BY BitsType DEF Byte
<1>3. ASSUME NEW x PROVE x \in SetBits(byte, <<lo, hi>>, n) <=>
                 /\ x \in 0 .. 7
                 /\ IF x \in lo .. hi THEN x - lo \in Bits(n) ELSE x \in byte
  <2>1. ASSUME x \in {lo + k : k \in {j \in Bits(n) : lo + j <= hi}}
        PROVE  x \in 0 .. 7 /\ x \in lo .. hi /\ x - lo \in Bits(n)
    BY <1>2, <2>1
  <2>2. ASSUME x \in 0 .. 7, x \in lo .. hi, x - lo \in Bits(n)
        PROVE  x \in {lo + k : k \in {j \in Bits(n) : lo + j <= hi}}
    <3>1. lo + (x - lo) = x /\ x <= hi
      BY <2>2
    <3>. QED  BY <2>2, <3>1
  <2>. QED  BY <1>1, <1>2, <2>1, <2>2
<1>. QED  BY <1>2, <1>3 DEF Byte

(* A field reads as the number set in it, and as before when another is set. *)
LEMMA FieldSet ==
  ASSUME NEW byte \in Byte, NEW lo \in 0 .. 7, NEW hi \in lo .. 7, NEW n \in Nat, n < 256,
         hi - lo < 7 => n < Weight[hi - lo + 2]
  PROVE  GetBits(SetBits(byte, <<lo, hi>>, n), <<lo, hi>>) = n
<1> DEFINE B == SetBits(byte, <<lo, hi>>, n)
<1>1. \A k \in Bits(n) : k \in 0 .. 7 /\ k <= hi - lo
  <2>1. \A k \in Bits(n) : k \in 0 .. 7
    BY BitsType DEF Byte
  <2>2. CASE hi - lo < 7
    <3>1. hi - lo + 1 \in 0 .. 7 /\ n < Weight[(hi - lo + 1) + 1]
      BY <2>2
    <3>. QED  BY <2>1, <3>1, SmallBits
  <2>. QED  BY <2>1, <2>2
<1>2. \A x : x \in B <=> x \in 0 .. 7 /\ IF x \in lo .. hi THEN x - lo \in Bits(n) ELSE x \in byte
  <2>1. hi \in 0 .. 7
    OBVIOUS
  <2>. QED  BY <2>1, SetBitsIs
<1> HIDE DEF B
<1>3. {k - lo : k \in B \cap (lo .. hi)} = Bits(n)
  <2>1. ASSUME NEW j \in Bits(n) PROVE j \in {k - lo : k \in B \cap (lo .. hi)}
    <3>1. lo + j \in B \cap (lo .. hi) /\ (lo + j) - lo = j
      BY <1>1, <1>2
    <3>. QED  BY <3>1
  <2>2. ASSUME NEW k \in B \cap (lo .. hi) PROVE k - lo \in Bits(n)
    BY <1>2
  <2>. QED  BY <2>1, <2>2
<1>. QED  BY <1>3, NumberBits DEF GetBits, B

LEMMA FieldKept ==
  ASSUME NEW byte \in Byte, NEW lo \in 0 .. 7, NEW hi \in 0 .. 7, NEW n,
         NEW low \in 0 .. 7, NEW high \in 0 .. 7, high < lo \/ hi < low
  PROVE  GetBits(SetBits(byte, <<lo, hi>>, n), <<low, high>>) = GetBits(byte, <<low, high>>)
<1>1. byte \subseteq 0 .. 7
  BY DEF Byte
<1>2. SetBits(byte, <<lo, hi>>, n) \cap (low .. high) = byte \cap (low .. high)
  <2>1. \A x : x \in SetBits(byte, <<lo, hi>>, n) <=>
          x \in 0 .. 7 /\ IF x \in lo .. hi THEN x - lo \in Bits(n) ELSE x \in byte
    BY SetBitsIs
  <2>2. PICK B : B = SetBits(byte, <<lo, hi>>, n)
    OBVIOUS
  <2>3. \A x \in low .. high : x \in B <=> x \in byte
    BY <1>1, <2>1, <2>2
  <2>. QED  BY <2>2, <2>3
<1>. QED  BY <1>2 DEF GetBits


----------------------------------------------------------------------------
(* Settings of a generic interrupt, read back.                               *)
Settings ==
  [axes_sel : 0 .. 7, data_src : 0 .. 1, ref_update : 0 .. 3, hysteresis : 0 .. 3,
   criterion_sel : 0 .. 1, evaluate_axes : 0 .. 1, thres : {n \in Nat : n < 256},
   dur : {n \in Nat : n < 65536}, ref : [1 .. 3 -> {n \in Nat : n < 4096}]]

First(c) == SetBits(SetBits(SetBits(SetBits({}, AXES_EN, c.axes_sel), DATA_SRC, c.data_src),
                            REFU, c.ref_update), HYST, c.hysteresis)
Second(c) == SetBits(SetBits({}, CRITERION, c.criterion_sel), COMB, c.evaluate_axes)

LEMMA FirstFields ==
  ASSUME NEW c \in Settings
  PROVE  /\ First(c) \in Byte
         /\ GetBits(First(c), AXES_EN) = c.axes_sel /\ GetBits(First(c), DATA_SRC) = c.data_src
         /\ GetBits(First(c), REFU) = c.ref_update /\ GetBits(First(c), HYST) = c.hysteresis
<1> DEFINE a1 == SetBits({}, <<5, 7>>, c.axes_sel)
           a2 == SetBits(a1, <<4, 4>>, c.data_src)
           a3 == SetBits(a2, <<2, 3>>, c.ref_update)
           a4 == SetBits(a3, <<0, 1>>, c.hysteresis)
<1>1. /\ c.axes_sel \in 0 .. 7 /\ c.data_src \in 0 .. 1 /\ c.ref_update \in 0 .. 3
      /\ c.hysteresis \in 0 .. 3
  BY DEF Settings
<1>2. {} \in Byte
  BY DEF Byte
<1>3. a1 \in Byte /\ GetBits(a1, <<5, 7>>) = c.axes_sel
  <2>1. a1 \in Byte
    BY <1>2, SetBitsIs
  <2>2. GetBits(a1, <<5, 7>>) = c.axes_sel
    BY <1>1, <1>2, FieldSet DEF Weight
  <2>. QED  BY <2>1, <2>2
<1> HIDE DEF a1
<1>4. /\ a2 \in Byte /\ GetBits(a2, <<4, 4>>) = c.data_src
      /\ GetBits(a2, <<5, 7>>) = GetBits(a1, <<5, 7>>)
  <2>1. a2 \in Byte
    BY <1>3, SetBitsIs
  <2>2. GetBits(a2, <<4, 4>>) = c.data_src
    BY <1>1, <1>3, FieldSet DEF Weight
  <2>3. GetBits(a2, <<5, 7>>) = GetBits(a1, <<5, 7>>)
    BY <1>3, FieldKept
  <2>. QED  BY <2>1, <2>2, <2>3
<1> HIDE DEF a2
<1>5. /\ a3 \in Byte /\ GetBits(a3, <<2, 3>>) = c.ref_update
      /\ GetBits(a3, <<5, 7>>) = GetBits(a2, <<5, 7>>)
      /\ GetBits(a3, <<4, 4>>) = GetBits(a2, <<4, 4>>)
  <2>1. a3 \in Byte
    BY <1>4, SetBitsIs
  <2>2. GetBits(a3, <<2, 3>>) = c.ref_update
    BY <1>1, <1>4, FieldSet DEF Weight
  <2>3. GetBits(a3, <<5, 7>>) = GetBits(a2, <<5, 7>>)
    BY <1>4, FieldKept
  <2>4. GetBits(a3, <<4, 4>>) = GetBits(a2, <<4, 4>>)
    BY <1>4, FieldKept
  <2>. QED  BY <2>1, <2>2, <2>3, <2>4
<1> HIDE DEF a3
<1>6. /\ a4 \in Byte /\ GetBits(a4, <<0, 1>>) = c.hysteresis
      /\ GetBits(a4, <<5, 7>>) = GetBits(a3, <<5, 7>>)
      /\ GetBits(a4, <<4, 4>>) = GetBits(a3, <<4, 4>>)
      /\ GetBits(a4, <<2, 3>>) = GetBits(a3, <<2, 3>>)
  <2>1. a4 \in Byte
    BY <1>5, SetBitsIs
  <2>2. GetBits(a4, <<0, 1>>) = c.hysteresis
    BY <1>1, <1>5, FieldSet DEF Weight
  <2>3. GetBits(a4, <<5, 7>>) = GetBits(a3, <<5, 7>>)
    BY <1>5, FieldKept
  <2>4. GetBits(a4, <<4, 4>>) = GetBits(a3, <<4, 4>>)
    BY <1>5, FieldKept
  <2>5. GetBits(a4, <<2, 3>>) = GetBits(a3, <<2, 3>>)
    BY <1>5, FieldKept
  <2>. QED  BY <2>1, <2>2, <2>3, <2>4, <2>5
<1> HIDE DEF a4
<1>7. First(c) = a4
  BY DEF a4, a3, a2, a1, First, AXES_EN, DATA_SRC, REFU, HYST
<1>. QED  BY <1>3, <1>4, <1>5, <1>6, <1>7 DEF AXES_EN, DATA_SRC, REFU, HYST

LEMMA SecondFields ==
  ASSUME NEW c \in Settings
  PROVE  /\ Second(c) \in Byte
         /\ GetBits(Second(c), CRITERION) = c.criterion_sel /\ GetBits(Second(c), COMB) = c.evaluate_axes
<1> DEFINE a1 == SetBits({}, <<1, 1>>, c.criterion_sel)
           a2 == SetBits(a1, <<0, 0>>, c.evaluate_axes)
<1>1. c.criterion_sel \in 0 .. 1 /\ c.evaluate_axes \in 0 .. 1
  BY DEF Settings
<1>2. {} \in Byte
  BY DEF Byte
<1>3. a1 \in Byte /\ GetBits(a1, <<1, 1>>) = c.criterion_sel
  <2>1. a1 \in Byte
    BY <1>2, SetBitsIs
  <2>2. GetBits(a1, <<1, 1>>) = c.criterion_sel
    BY <1>1, <1>2, FieldSet DEF Weight
  <2>. QED  BY <2>1, <2>2
<1> HIDE DEF a1
<1>4. /\ a2 \in Byte /\ GetBits(a2, <<0, 0>>) = c.evaluate_axes
      /\ GetBits(a2, <<1, 1>>) = GetBits(a1, <<1, 1>>)
  <2>1. a2 \in Byte
    BY <1>3, SetBitsIs
  <2>2. GetBits(a2, <<0, 0>>) = c.evaluate_axes
    BY <1>1, <1>3, FieldSet DEF Weight
  <2>3. GetBits(a2, <<1, 1>>) = GetBits(a1, <<1, 1>>)
    BY <1>3, FieldKept
  <2>. QED  BY <2>1, <2>2, <2>3
<1> HIDE DEF a2
<1>5. Second(c) = a2
  BY DEF a2, a1, Second, CRITERION, COMB
<1>. QED  BY <1>3, <1>4, <1>5 DEF CRITERION, COMB

(* Two bytes hold 16 bits, of which a reference takes 12.                    *)
LEMMA TwoBytes ==
  ASSUME NEW n \in Nat, n < 65536
  PROVE  Lsb(n) \in Byte /\ Msb(n) \in Byte /\ 256 * Number(Msb(n)) + Number(Lsb(n)) = n
<1>1. n % 256 \in Nat /\ n % 256 < 256 /\ n \div 256 \in Nat /\ n \div 256 < 256
  BY SMTT(30)
<1>4. 256 * (n \div 256) + (n % 256) = n
  BY SMTT(30)
<1>2. Number(Bits(n % 256)) = n % 256 /\ Number(Bits(n \div 256)) = n \div 256
  BY <1>1, NumberBits
<1>3. Lsb(n) \in Byte /\ Msb(n) \in Byte
  BY BitsType DEF Lsb, Msb
<1>. QED  BY <1>2, <1>3, <1>4 DEF Lsb, Msb

LEMMA TwelveBits ==
  ASSUME NEW n \in Nat, n < 4096
  PROVE  Number(Lsb(n)) + 256 * GetBits(Msb(n), <<0, 3>>) = n
<1>1. n \div 256 \in Nat /\ n \div 256 < 16 /\ n < 65536
  BY SMTT(30)
<1>2. \A k \in Msb(n) : k \in 0 .. 3
  <2>1. \A k \in Bits(n \div 256) : k < 4
    BY <1>1, SmallBits DEF Weight
  <2>. QED  BY <1>1, <2>1, BitsType DEF Msb, Byte
<1>3. {k - 0 : k \in Msb(n) \cap (0 .. 3)} = Msb(n)
  BY <1>2
<1>4. GetBits(Msb(n), <<0, 3>>) = Number(Msb(n))
  BY <1>3 DEF GetBits
<1>5. 256 * Number(Msb(n)) + Number(Lsb(n)) = n
  BY <1>1, TwoBytes
<1>6. Number(Msb(n)) \in Nat /\ Number(Lsb(n)) \in Nat
  <2>1. n % 256 \in Nat /\ n % 256 < 256 /\ n \div 256 < 256
    BY <1>1, SMTT(30)
  <2>. QED  BY <1>1, <2>1, NumberBits DEF Msb, Lsb
<1>. QED  BY <1>4, <1>5, <1>6

GenBytes(c) ==
  << First(c), Second(c), Bits(c.thres), Msb(c.dur), Lsb(c.dur) >>
  \o IF c.ref_update = MANUAL
     THEN << Lsb(c.ref[1]), Msb(c.ref[1]), Lsb(c.ref[2]), Msb(c.ref[2]), Lsb(c.ref[3]), Msb(c.ref[3]) >>
     ELSE <<>>

LEMMA GenBytesAre ==
  ASSUME NEW c \in Settings
  PROVE  /\ GenBytes(c) \in Seq(Byte)
         /\ Len(GenBytes(c)) = IF c.ref_update = MANUAL THEN 11 ELSE 5
         /\ GenBytes(c)[1] = First(c) /\ GenBytes(c)[2] = Second(c) /\ GenBytes(c)[3] = Bits(c.thres)
         /\ GenBytes(c)[4] = Msb(c.dur) /\ GenBytes(c)[5] = Lsb(c.dur)
         /\ c.ref_update = MANUAL =>
              /\ GenBytes(c)[6] = Lsb(c.ref[1]) /\ GenBytes(c)[7] = Msb(c.ref[1])
              /\ GenBytes(c)[8] = Lsb(c.ref[2]) /\ GenBytes(c)[9] = Msb(c.ref[2])
              /\ GenBytes(c)[10] = Lsb(c.ref[3]) /\ GenBytes(c)[11] = Msb(c.ref[3])
<1>1. First(c) \in Byte /\ Second(c) \in Byte
  BY FirstFields, SecondFields
<1>2. \A n : Bits(n) \in Byte /\ Lsb(n) \in Byte /\ Msb(n) \in Byte
  BY BitsType DEF Lsb, Msb
<1> DEFINE u == << First(c), Second(c), Bits(c.thres), Msb(c.dur), Lsb(c.dur) >>
           v == << Lsb(c.ref[1]), Msb(c.ref[1]), Lsb(c.ref[2]), Msb(c.ref[2]), Lsb(c.ref[3]), Msb(c.ref[3]) >>
<1>3. u \in Seq(Byte) /\ Len(u) = 5 /\ u[1] = First(c) /\ u[2] = Second(c) /\ u[3] = Bits(c.thres)
      /\ u[4] = Msb(c.dur) /\ u[5] = Lsb(c.dur)
  BY <1>1, <1>2
<1>4. v \in Seq(Byte) /\ Len(v) = 6 /\ v[1] = Lsb(c.ref[1]) /\ v[2] = Msb(c.ref[1])
      /\ v[3] = Lsb(c.ref[2]) /\ v[4] = Msb(c.ref[2]) /\ v[5] = Lsb(c.ref[3]) /\ v[6] = Msb(c.ref[3])
  BY <1>2
<1>5. GenBytes(c) = u \o IF c.ref_update = MANUAL THEN v ELSE <<>>
  BY DEF GenBytes
<1> HIDE DEF u, v
<1>6. CASE c.ref_update = MANUAL
  <2>1. /\ u \o v \in Seq(Byte) /\ Len(u \o v) = 11
        /\ \A k \in 1 .. 5 : (u \o v)[k] = u[k]
        /\ \A k \in 1 .. 6 : (u \o v)[5 + k] = v[k]
    <3>1. u \in Seq(Byte) /\ v \in Seq(Byte)
      BY <1>3, <1>4
    <3>2. /\ u \o v \in Seq(Byte) /\ Len(u \o v) = Len(u) + Len(v)
          /\ \A k \in 1 .. Len(u) : (u \o v)[k] = u[k]
          /\ \A k \in 1 .. Len(v) : (u \o v)[Len(u) + k] = v[k]
      BY <3>1, Concatenation
    <3>3. Len(u) = 5 /\ Len(v) = 6 /\ 5 + 6 = 11
      BY <1>3, <1>4
    <3>. QED  BY <3>2, <3>3
  <2>2. GenBytes(c) = u \o v
    BY <1>5, <1>6
  <2>3. \A k \in 1 .. 6 : GenBytes(c)[5 + k] = v[k]
    BY <2>1, <2>2
  <2>4. /\ GenBytes(c)[6] = v[1] /\ GenBytes(c)[7] = v[2] /\ GenBytes(c)[8] = v[3]
        /\ GenBytes(c)[9] = v[4] /\ GenBytes(c)[10] = v[5] /\ GenBytes(c)[11] = v[6]
    <3>1. GenBytes(c)[5 + 1] = v[1] /\ GenBytes(c)[5 + 2] = v[2] /\ GenBytes(c)[5 + 3] = v[3]
          /\ GenBytes(c)[5 + 4] = v[4] /\ GenBytes(c)[5 + 5] = v[5] /\ GenBytes(c)[5 + 6] = v[6]
      BY <2>3
    <3>. QED  BY <3>1
  <2>5. \A k \in 1 .. 5 : GenBytes(c)[k] = u[k]
    BY <2>1, <2>2
  <2>6. GenBytes(c) \in Seq(Byte) /\ Len(GenBytes(c)) = 11
    BY <2>1, <2>2
  <2>. QED  BY <1>3, <1>4, <1>6, <2>4, <2>5, <2>6
<1>7. CASE c.ref_update # MANUAL
  <2>1. GenBytes(c) = u
    BY <1>3, <1>5, <1>7
  <2>. QED  BY <1>3, <1>7, <2>1
<1>. QED  BY <1>6, <1>7

(* get_gen1_int and get_gen2_int read from the registers the settings that    *)
(* set_gen1_int and set_gen2_int wrote, whatever they are within the widths   *)
(* of their fields and whatever the registers held: all of them when the      *)
(* references are updated by hand, and otherwise all but the references,      *)
(* which stay as they were.  No field overlaps another, and none is cut       *)
(* short.                                                                     *)
LEMMA SettingsReadBack ==
  ASSUME NEW r \in Chip, NEW a \in {GEN1_CONFIG, GEN2_CONFIG}, NEW c \in Settings
  PROVE  get_gen_int(Written(r, set_gen_int(a, c)), a)
           = IF c.ref_update = MANUAL THEN c ELSE [c EXCEPT !.ref = get_gen_int(r, a).ref]
<1> DEFINE b == GenBytes(c)
           n == Len(b)
           q == Written(r, set_gen_int(a, c))
<1>1. set_gen_int(a, c) = set_regs(a, b)
  BY DEF set_gen_int, GenBytes, First, Second
<1>2. b \in Seq(Byte) /\ n = IF c.ref_update = MANUAL THEN 11 ELSE 5
  BY GenBytesAre
<1>3. a \in Nat /\ \A i \in 0 .. 10 : a + i \in Addr
  BY DEF GEN1_CONFIG, GEN2_CONFIG, Addr
<1>4. \A k \in 0 .. n : Stages(r, set_regs(a, b))[k] = Overwritten(r, a, b, k)
  <2>1. \A i \in 1 .. n : a + i - 1 \in Addr
    BY <1>2, <1>3
  <2>. QED  BY <1>2, <1>3, <2>1, SetRegsStages
<1>5. q = Overwritten(r, a, b, n)
  <2>1. n \in 0 .. n
    BY <1>2
  <2>2. b \in Seq(Byte) /\ a \in Nat
    BY <1>2, <1>3
  <2>3. Len(set_regs(a, b)) = n
    <3> HIDE DEF b
    <3>. QED  BY <2>2, SetRegsSeq
  <2>. QED  BY <1>1, <1>4, <2>1, <2>3 DEF Written
<1>6. \A i \in 0 .. 10 : q[a + i] = IF i < n THEN b[i + 1] ELSE r[a + i]
  <2>1. ASSUME NEW i \in 0 .. 10
        PROVE  q[a + i] = IF i < n THEN b[i + 1] ELSE r[a + i]
    <3>1. a + i \in Addr /\ (a + i) - a + 1 = i + 1 /\ (a + i \in a .. a + n - 1 <=> i < n)
      BY <1>2, <1>3
    <3>. QED  BY <1>5, <3>1 DEF Overwritten
  <2>. QED  BY <2>1
<1> HIDE DEF b, q
<1>7. /\ q[a + 0] = First(c) /\ q[a + 1] = Second(c) /\ q[a + 2] = Bits(c.thres)
      /\ q[a + 3] = Msb(c.dur) /\ q[a + 4] = Lsb(c.dur)
  <2>1. \A i \in 0 .. 4 : q[a + i] = b[i + 1]
    BY <1>2, <1>6
  <2>. QED  BY <2>1, GenBytesAre DEF b
<1>8. q[a] = First(c)
  BY <1>3, <1>7
<1>9. Number(Bits(c.thres)) = c.thres /\ 256 * Number(Msb(c.dur)) + Number(Lsb(c.dur)) = c.dur
  BY NumberBits, TwoBytes DEF Settings
<1>10. ASSUME NEW i \in {5, 7, 9}
       PROVE  Number(q[a + i]) + 256 * GetBits(q[a + i + 1], <<0, 3>>)
                = IF c.ref_update = MANUAL THEN c.ref[(i - 3) \div 2]
                  ELSE Number(r[a + i]) + 256 * GetBits(r[a + i + 1], <<0, 3>>)
  <2>1. i \in 0 .. 10 /\ i + 1 \in 0 .. 10 /\ a + i + 1 = a + (i + 1)
    BY <1>3
  <2>2. CASE c.ref_update # MANUAL
    <3>1. ~ (i < n) /\ ~ (i + 1 < n)
      BY <1>2, <2>2
    <3>2. q[a + i] = r[a + i] /\ q[a + (i + 1)] = r[a + (i + 1)]
      BY <1>6, <2>1, <3>1
    <3>. QED  BY <2>1, <2>2, <3>2
  <2>3. CASE c.ref_update = MANUAL
    <3>1. i < n /\ i + 1 < n
      BY <1>2, <2>3
    <3>2. q[a + i] = b[i + 1] /\ q[a + (i + 1)] = b[i + 2]
      BY <1>6, <2>1, <3>1
    <3>3. PICK j \in 1 .. 3 : j = (i - 3) \div 2 /\ b[i + 1] = Lsb(c.ref[j]) /\ b[i + 2] = Msb(c.ref[j])
      <4>1. b[6] = Lsb(c.ref[1]) /\ b[7] = Msb(c.ref[1]) /\ b[8] = Lsb(c.ref[2]) /\ b[9] = Msb(c.ref[2])
            /\ b[10] = Lsb(c.ref[3]) /\ b[11] = Msb(c.ref[3])
        BY <2>3, GenBytesAre DEF b
      <4>. QED  BY <4>1
    <3>4. c.ref[j] \in Nat /\ c.ref[j] < 4096
      BY DEF Settings
    <3>5. Number(Lsb(c.ref[j])) + 256 * GetBits(Msb(c.ref[j]), <<0, 3>>) = c.ref[j]
      BY <3>4, TwelveBits
    <3>. QED  BY <2>1, <2>3, <3>2, <3>3, <3>5
  <2>. QED  BY <2>2, <2>3
<1>11. /\ GetBits(q[a], AXES_EN) = c.axes_sel /\ GetBits(q[a], DATA_SRC) = c.data_src
       /\ GetBits(q[a], REFU) = c.ref_update /\ GetBits(q[a], HYST) = c.hysteresis
       /\ GetBits(q[a + 1], CRITERION) = c.criterion_sel /\ GetBits(q[a + 1], COMB) = c.evaluate_axes
       /\ Number(q[a + 2]) = c.thres /\ 256 * Number(q[a + 3]) + Number(q[a + 4]) = c.dur
  BY <1>7, <1>8, <1>9, FirstFields, SecondFields
<1> DEFINE ref(s, i) == Number(s[a + i]) + 256 * GetBits(s[a + i + 1], <<0, 3>>)
<1>12. get_gen_int(q, a) = [axes_sel |-> c.axes_sel, data_src |-> c.data_src, ref_update |-> c.ref_update,
         hysteresis |-> c.hysteresis, criterion_sel |-> c.criterion_sel, evaluate_axes |-> c.evaluate_axes,
         thres |-> c.thres, dur |-> c.dur, ref |-> <<ref(q, 5), ref(q, 7), ref(q, 9)>>]
  BY <1>11 DEF get_gen_int
<1>13. get_gen_int(r, a).ref = <<ref(r, 5), ref(r, 7), ref(r, 9)>>
  BY DEF get_gen_int
<1>14. /\ c.ref_update = MANUAL => ref(q, 5) = c.ref[1] /\ ref(q, 7) = c.ref[2] /\ ref(q, 9) = c.ref[3]
       /\ c.ref_update # MANUAL =>
            ref(q, 5) = ref(r, 5) /\ ref(q, 7) = ref(r, 7) /\ ref(q, 9) = ref(r, 9)
  <2>1. (5 - 3) \div 2 = 1 /\ (7 - 3) \div 2 = 2 /\ (9 - 3) \div 2 = 3
    OBVIOUS
  <2>. QED  BY <1>10, <2>1
<1> HIDE DEF ref
<1>15. c.ref = <<c.ref[1], c.ref[2], c.ref[3]>>
  BY DEF Settings
<1>16. c = [axes_sel |-> c.axes_sel, data_src |-> c.data_src, ref_update |-> c.ref_update,
         hysteresis |-> c.hysteresis, criterion_sel |-> c.criterion_sel, evaluate_axes |-> c.evaluate_axes,
         thres |-> c.thres, dur |-> c.dur, ref |-> c.ref]
  BY DEF Settings
<1>17. \A v : [c EXCEPT !.ref = v] = [axes_sel |-> c.axes_sel, data_src |-> c.data_src,
         ref_update |-> c.ref_update, hysteresis |-> c.hysteresis, criterion_sel |-> c.criterion_sel,
         evaluate_axes |-> c.evaluate_axes, thres |-> c.thres, dur |-> c.dur, ref |-> v]
  BY <1>16
<1>. QED  BY <1>12, <1>13, <1>14, <1>15, <1>16, <1>17 DEF q

LEMMA GenConfsLegal == GenConfs \subseteq Settings
BY DEF GenConfs, Settings

----------------------------------------------------------------------------
(* What each call does to the registers.                                     *)
LEMMA AddrNat == Addr \subseteq Nat /\ {25, 26, 27, 31, 32, 33, 34, 35, 36} \subseteq Addr /\ 126 \notin Addr
BY DEF Addr

Replaced(q, r, a, bytes, n) ==
  \A x \in Addr : q[x] = IF x \in a .. a + n - 1 THEN bytes[x - a + 1] ELSE r[x]

LEMMA Overwriting ==
  ASSUME NEW r \in Chip, NEW a \in Nat, NEW bytes \in Seq(Byte), NEW n \in Nat, Len(bytes) = n,
         \A i \in 1 .. n : a + i - 1 \in Addr
  PROVE  /\ Written(r, set_regs(a, bytes)) \in Chip
         /\ Replaced(Written(r, set_regs(a, bytes)), r, a, bytes, n)
         /\ set_regs(a, bytes) \in Seq(Nat \X Byte)
<1>1. Len(set_regs(a, bytes)) = n /\ n \in 0 .. n /\ set_regs(a, bytes) \in Seq(Nat \X Byte)
  BY SetRegsSeq
<1>2. Stages(r, set_regs(a, bytes))[n] = Overwritten(r, a, bytes, n)
  BY <1>1, SetRegsStages
<1>3. Written(r, set_regs(a, bytes)) = Overwritten(r, a, bytes, n)
  BY <1>1, <1>2 DEF Written
<1>4. Overwritten(r, a, bytes, n) \in Chip
  BY <1>1, OverwrittenType
<1>5. Replaced(Overwritten(r, a, bytes, n), r, a, bytes, n)
  BY DEF Overwritten, Replaced
<1>. QED  BY <1>1, <1>3, <1>4, <1>5

LEMMA OneByte ==
  ASSUME NEW r \in Chip, NEW a \in Addr, NEW byte \in Byte
  PROVE  /\ Written(r, set_regs(a, <<byte>>)) \in Chip
         /\ Written(r, set_regs(a, <<byte>>))[a] = byte
         /\ \A x \in Addr \ {a} : Written(r, set_regs(a, <<byte>>))[x] = r[x]
         /\ set_regs(a, <<byte>>) \in Seq(Nat \X Byte)
<1>1. <<byte>> \in Seq(Byte) /\ Len(<<byte>>) = 1 /\ <<byte>>[1] = byte
  OBVIOUS
<1>2. a \in Nat /\ \A i \in 1 .. 1 : a + i - 1 \in Addr
  BY AddrNat
<1>3. PICK q : q = Written(r, set_regs(a, <<byte>>))
  OBVIOUS
<1>4. q \in Chip /\ set_regs(a, <<byte>>) \in Seq(Nat \X Byte)
  BY <1>1, <1>2, <1>3, Overwriting
<1>5. Replaced(q, r, a, <<byte>>, 1)
  BY <1>1, <1>2, <1>3, Overwriting
<1>6. ASSUME NEW x \in Addr PROVE q[x] = IF x = a THEN byte ELSE r[x]
  <2>1. q[x] = IF x \in a .. a + 1 - 1 THEN <<byte>>[x - a + 1] ELSE r[x]
    BY <1>5 DEF Replaced
  <2>2. (x \in a .. a + 1 - 1 <=> x = a) /\ (x = a => x - a + 1 = 1)
    BY AddrNat
  <2>. QED  BY <1>1, <2>1, <2>2
<1>7. q[a] = byte /\ \A x \in Addr \ {a} : q[x] = r[x]
  BY <1>6
<1>. QED  BY <1>3, <1>4, <1>7

(* The routing is written after the rest, three bytes of it.                 *)
LEMMA ThenRouting ==
  ASSUME NEW r, NEW u \in Seq(Nat \X Byte), Written(r, u) \in Chip,
         NEW bytes \in Seq(Byte), Len(bytes) = 3
  PROVE  /\ Written(r, u \o set_regs(INT_MAP, bytes)) \in Chip
         /\ Written(r, u \o set_regs(INT_MAP, bytes))[33] = bytes[1]
         /\ Written(r, u \o set_regs(INT_MAP, bytes))[34] = bytes[2]
         /\ Written(r, u \o set_regs(INT_MAP, bytes))[35] = bytes[3]
         /\ \A x \in Addr \ (33 .. 35) :
              Written(r, u \o set_regs(INT_MAP, bytes))[x] = Written(r, u)[x]
<1>1. \A i \in 1 .. 3 : 33 + i - 1 \in Addr
  BY DEF Addr
<1>2. PICK m : m = Written(r, u)
  OBVIOUS
<1>3. PICK q : q = Written(m, set_regs(33, bytes))
  OBVIOUS
<1>4. q \in Chip /\ set_regs(33, bytes) \in Seq(Nat \X Byte)
  BY <1>1, <1>2, <1>3, Overwriting
<1>5. Replaced(q, m, 33, bytes, 3)
  BY <1>1, <1>2, <1>3, Overwriting
<1>6. Written(r, u \o set_regs(33, bytes)) = q
  BY <1>2, <1>3, <1>4, WrittenTogether
<1>7. ASSUME NEW x \in Addr PROVE q[x] = IF x \in 33 .. 35 THEN bytes[x - 32] ELSE m[x]
  <2>1. q[x] = IF x \in 33 .. 33 + 3 - 1 THEN bytes[x - 33 + 1] ELSE m[x]
    BY <1>5 DEF Replaced
  <2>2. x \in Nat
    BY AddrNat
  <2>. QED  BY <2>1, <2>2
<1>8. q[33] = bytes[1] /\ q[34] = bytes[2] /\ q[35] = bytes[3]
  <2>1. q[33] = bytes[33 - 32] /\ q[34] = bytes[34 - 32] /\ q[35] = bytes[35 - 32]
    BY <1>7, AddrNat
  <2>. QED  BY <2>1
<1>9. \A x \in Addr \ (33 .. 35) : q[x] = m[x]
  BY <1>7
<1>. QED  BY <1>2, <1>4, <1>6, <1>8, <1>9 DEF INT_MAP

Kept(r, q, S) == \A x \in Addr \ S : q[x] = r[x]

LEMMA ResetDone == Written(regs, Writes("reset")) = Default
<1>1. Writes("reset") = << <<126, Bits(182)>> >>
  BY DEF Writes, soft_reset, COMMAND
<1>2. Len(<< <<126, Bits(182)>> >>) = 1
  OBVIOUS
<1>3. PICK w : w = << <<126, Bits(182)>> >>
  OBVIOUS
<1>4. Len(w) = 1 /\ w[1][1] = 126 /\ w[1][2] = Bits(182)
  BY <1>3
<1>5. Stages(regs, w)[0 + 1] = Stored(Stages(regs, w)[0], w[0 + 1])
  BY <1>4, StagesStep
<1>6. Stages(regs, w)[1] = Default
  BY <1>4, <1>5 DEF Stored, COMMAND
<1>. QED  BY <1>1, <1>3, <1>4, <1>6 DEF Written

LEMMA PowerModeDone ==
  ASSUME regs \in Chip, NEW mode \in 0 .. 3
  PROVE  /\ Written(regs, set_power_mode(mode)) \in Chip
         /\ set_power_mode(mode) \in Seq(Nat \X Byte)
         /\ GetBits(Written(regs, set_power_mode(mode))[25], POWER_MODE) = mode
         /\ Kept(regs, Written(regs, set_power_mode(mode)), {25})
<1>1. 25 \in Addr /\ regs[25] \in Byte
  BY AddrNat DEF Chip
<1>2. PICK byte : byte = SetBits(regs[25], <<0, 1>>, mode)
  OBVIOUS
<1>3. byte \in Byte
  BY <1>1, <1>2, SetBitsIs
<1>4. GetBits(byte, <<0, 1>>) = mode
  BY <1>1, <1>2, FieldSet DEF Weight
<1>5. set_power_mode(mode) = set_regs(25, <<byte>>)
  BY <1>2 DEF set_power_mode, ACCEL_CONFIG, POWER_MODE
<1>. QED  BY <1>1, <1>3, <1>4, <1>5, OneByte DEF Kept, POWER_MODE

LEMMA ThreeBytes ==
  ASSUME NEW d \in [1 .. 3 -> Byte]
  PROVE  d \in Seq(Byte) /\ Len(d) = 3
<1>1. PICK n \in Nat : n = 3
  OBVIOUS
<1>2. d = [i \in 1 .. n |-> d[i]] /\ \A i \in 1 .. n : d[i] \in Byte
  BY <1>1
<1>3. d \in Seq(Byte) /\ Len(d) = n
  BY <1>2
<1>. QED  BY <1>1, <1>3

(* What the three calls that route make of the routing.                      *)
LEMMA RoutedAre ==
  ASSUME NEW d \in [1 .. 3 -> Byte]
  PROVE  /\ map_int_pin(d, "drdy", "unmap") = [b \in 1 .. 3 |-> IF b = 3 THEN d[b] ELSE d[b] \ {7}]
         /\ map_int_pin(d, "gen1", "channel_1") = [b \in 1 .. 3 |-> IF b = 1 THEN d[b] \cup {2} ELSE d[b]]
         /\ map_int_pin(d, "gen2", "channel_1") = [b \in 1 .. 3 |-> IF b = 1 THEN d[b] \cup {3} ELSE d[b]]
<1> DEFINE bits(int, b, pins) == {Route(int)[pin][2] : pin \in {p \in pins : Route(int)[p][1] = b}}
<1>1. /\ Route("drdy") = << <<1, 7>>, <<2, 7>> >>
      /\ Route("gen1") = << <<1, 2>>, <<2, 2>> >>
      /\ Route("gen2") = << <<1, 3>>, <<2, 3>> >>
  BY DEF Route, Own
<1>2. bits("drdy", 1, {1, 2}) = {7} /\ bits("drdy", 2, {1, 2}) = {7} /\ bits("drdy", 3, {1, 2}) = {}
  BY <1>1
<1>3. bits("gen1", 1, {1}) = {2} /\ bits("gen1", 2, {1}) = {} /\ bits("gen1", 3, {1}) = {}
  BY <1>1
<1>4. bits("gen2", 1, {1}) = {3} /\ bits("gen2", 2, {1}) = {} /\ bits("gen2", 3, {1}) = {}
  BY <1>1
<1>5. Wanted("channel_1") = {1}
  BY DEF Wanted
<1>6. /\ map_int_pin(d, "drdy", "unmap") = [b \in 1 .. 3 |-> d[b] \ bits("drdy", b, {1, 2})]
      /\ map_int_pin(d, "gen1", "channel_1") = [b \in 1 .. 3 |-> d[b] \cup bits("gen1", b, {1})]
      /\ map_int_pin(d, "gen2", "channel_1") = [b \in 1 .. 3 |-> d[b] \cup bits("gen2", b, {1})]
  BY <1>5 DEF map_int_pin
<1> HIDE DEF bits
<1>7. \A b \in 1 .. 3 :
        /\ d[b] \ bits("drdy", b, {1, 2}) = IF b = 3 THEN d[b] ELSE d[b] \ {7}
        /\ d[b] \cup bits("gen1", b, {1}) = IF b = 1 THEN d[b] \cup {2} ELSE d[b]
        /\ d[b] \cup bits("gen2", b, {1}) = IF b = 1 THEN d[b] \cup {3} ELSE d[b]
  <2>1. \A b \in 1 .. 3 : b = 1 \/ b = 2 \/ b = 3
    OBVIOUS
  <2>2. \A x : x \cup {} = x /\ x \ {} = x
    OBVIOUS
  <2>. QED  BY <1>2, <1>3, <1>4, <2>1, <2>2
<1>. QED  BY <1>6, <1>7

LEMMA ReadIs ==
  ASSUME regs \in Chip
  PROVE  /\ Read(INT_MAP, 3) \in [1 .. 3 -> Byte] /\ Read(INT_MAP, 3) \in Seq(Byte)
         /\ Len(Read(INT_MAP, 3)) = 3
         /\ Read(INT_MAP, 3)[1] = regs[33] /\ Read(INT_MAP, 3)[2] = regs[34] /\ Read(INT_MAP, 3)[3] = regs[35]
<1>1. regs[33] \in Byte /\ regs[34] \in Byte /\ regs[35] \in Byte
  BY AddrNat DEF Chip, Addr
<1>2. Read(INT_MAP, 3) = [i \in 1 .. 3 |-> regs[33 + i - 1]]
  BY DEF Read, INT_MAP
<1>3. \A i \in 1 .. 3 : regs[33 + i - 1] \in Byte
  BY <1>1
<1>4. Read(INT_MAP, 3) \in [1 .. 3 -> Byte]
  BY <1>2, <1>3
<1>5. Read(INT_MAP, 3) \in Seq(Byte) /\ Len(Read(INT_MAP, 3)) = 3
  BY <1>4, ThreeBytes
<1>6. Read(INT_MAP, 3)[1] = regs[33] /\ Read(INT_MAP, 3)[2] = regs[34] /\ Read(INT_MAP, 3)[3] = regs[35]
  BY <1>2
<1>. QED  BY <1>4, <1>5, <1>6

(* Settings, then routing.                                                   *)
LEMMA ConfDone ==
  ASSUME regs \in Chip, NEW u \in Seq(Nat \X Byte), Written(regs, u) \in Chip, NEW int, NEW chan,
         NEW m \in [1 .. 3 -> Byte], m = map_int_pin(Read(INT_MAP, 3), int, chan),
         NEW q, q = Written(regs, set_sensor_conf(u, int, chan))
  PROVE  /\ q \in Chip
         /\ Kept(Written(regs, u), q, {33, 34, 35})
         /\ q[33] = m[1] /\ q[34] = m[2] /\ q[35] = m[3]
<1>1. m \in Seq(Byte) /\ Len(m) = 3
  BY ThreeBytes
<1>2. q = Written(regs, u \o set_regs(INT_MAP, m))
  BY DEF set_sensor_conf
<1>3. /\ q \in Chip /\ q[33] = m[1] /\ q[34] = m[2] /\ q[35] = m[3]
      /\ \A x \in Addr \ (33 .. 35) : q[x] = Written(regs, u)[x]
  BY <1>1, <1>2, ThenRouting
<1>. QED  BY <1>3 DEF Kept

LEMMA AccelDone ==
  ASSUME regs \in Chip, NEW q, q = Written(regs, Writes("accel"))
  PROVE  /\ q \in Chip
         /\ set_accel_conf(Accel) \in Seq(Nat \X Byte)
         /\ Kept(regs, q, {25, 26, 27, 33, 34, 35})
         /\ GetBits(q[25], POWER_MODE) = GetBits(regs[25], POWER_MODE)
         /\ GetBits(q[26], RANGE) = 0 /\ GetBits(q[26], ODR) = 8 /\ GetBits(q[27], DATA_FILTER) = 0
         /\ q[33] = regs[33] \ {7} /\ q[34] = regs[34] \ {7} /\ q[35] = regs[35]
<1> DEFINE a1 == SetBits(regs[25], <<7, 7>>, 0)
           a2 == SetBits(a1, <<5, 6>>, 3)
           b1 == SetBits(regs[26], <<6, 7>>, 0)
           b2 == SetBits(b1, <<4, 5>>, 3)
           b3 == SetBits(b2, <<0, 3>>, 8)
           c1 == SetBits(regs[27], <<2, 3>>, 0)
<1>1. regs[25] \in Byte /\ regs[26] \in Byte /\ regs[27] \in Byte
  BY AddrNat DEF Chip
<1>2. a1 \in Byte /\ GetBits(a1, <<0, 1>>) = GetBits(regs[25], <<0, 1>>)
  <2>1. a1 \in Byte
    BY <1>1, SetBitsIs
  <2>. QED  BY <1>1, <2>1, FieldKept
<1>3. b1 \in Byte /\ GetBits(b1, <<6, 7>>) = 0
  <2>1. b1 \in Byte
    BY <1>1, SetBitsIs
  <2>2. GetBits(b1, <<6, 7>>) = 0
    BY <1>1, FieldSet DEF Weight
  <2>. QED  BY <2>1, <2>2
<1>4. c1 \in Byte /\ GetBits(c1, <<2, 3>>) = 0
  <2>1. c1 \in Byte
    BY <1>1, SetBitsIs
  <2>2. GetBits(c1, <<2, 3>>) = 0
    BY <1>1, FieldSet DEF Weight
  <2>. QED  BY <2>1, <2>2
<1> HIDE DEF a1, b1, c1
<1>5. a2 \in Byte /\ GetBits(a2, <<0, 1>>) = GetBits(a1, <<0, 1>>)
  <2>1. a2 \in Byte
    BY <1>2, SetBitsIs
  <2>. QED  BY <1>2, <2>1, FieldKept
<1>6. b2 \in Byte /\ GetBits(b2, <<6, 7>>) = GetBits(b1, <<6, 7>>)
  <2>1. b2 \in Byte
    BY <1>3, SetBitsIs
  <2>. QED  BY <1>3, <2>1, FieldKept
<1> HIDE DEF a2, b2
<1>7. b3 \in Byte /\ GetBits(b3, <<6, 7>>) = GetBits(b2, <<6, 7>>) /\ GetBits(b3, <<0, 3>>) = 8
  <2>1. b3 \in Byte
    BY <1>6, SetBitsIs
  <2>2. GetBits(b3, <<6, 7>>) = GetBits(b2, <<6, 7>>)
    BY <1>6, FieldKept
  <2>3. GetBits(b3, <<0, 3>>) = 8
    BY <1>6, FieldSet DEF Weight
  <2>. QED  BY <2>1, <2>2, <2>3
<1> HIDE DEF b3
<1> DEFINE bytes == <<a2, b3, c1>>
           u == set_accel_conf(Accel)
<1>8. bytes \in Seq(Byte) /\ Len(bytes) = 3 /\ bytes[1] = a2 /\ bytes[2] = b3 /\ bytes[3] = c1
  BY <1>4, <1>5, <1>7
<1>9. u = set_regs(25, bytes)
  <2>1. Read(25, 3)[1] = regs[25] /\ Read(25, 3)[2] = regs[26] /\ Read(25, 3)[3] = regs[27]
    BY DEF Read
  <2>2. Accel.filt1_bw = 0 /\ Accel.osr_lp = 3 /\ Accel.range = 0 /\ Accel.osr = 3 /\ Accel.odr = 8
        /\ Accel.data_src = 0
    BY DEF Accel
  <2>. QED  BY <2>1, <2>2 DEF set_accel_conf, ACCEL_CONFIG, FILT_1_BW, OSR_LP, RANGE, OSR, ODR, DATA_FILTER,
               a1, a2, b1, b2, b3, c1
<1> HIDE DEF bytes
<1>10. PICK p : p = Written(regs, u)
  OBVIOUS
<1>11. p \in Chip /\ u \in Seq(Nat \X Byte) /\ Replaced(p, regs, 25, bytes, 3)
  <2>1. \A i \in 1 .. 3 : 25 + i - 1 \in Addr
    BY DEF Addr
  <2>2. p = Written(regs, set_regs(25, bytes)) /\ 25 \in Nat /\ 3 \in Nat
    BY <1>9, <1>10
  <2> HIDE DEF u
  <2>3. bytes \in Seq(Byte) /\ Len(bytes) = 3
    BY <1>8
  <2>4. Written(regs, set_regs(25, bytes)) \in Chip /\ set_regs(25, bytes) \in Seq(Nat \X Byte)
        /\ Replaced(Written(regs, set_regs(25, bytes)), regs, 25, bytes, 3)
    BY <2>1, <2>3, Overwriting
  <2>. QED  BY <1>9, <2>2, <2>4
<1>12. ASSUME NEW x \in Addr PROVE p[x] = IF x \in 25 .. 27 THEN bytes[x - 24] ELSE regs[x]
  <2>1. p[x] = IF x \in 25 .. 25 + 3 - 1 THEN bytes[x - 25 + 1] ELSE regs[x]
    BY <1>11 DEF Replaced
  <2>2. x \in Nat
    BY AddrNat
  <2>. QED  BY <2>1, <2>2
<1>13. p[25] = a2 /\ p[26] = b3 /\ p[27] = c1
  <2>1. p[25] = bytes[25 - 24] /\ p[26] = bytes[26 - 24] /\ p[27] = bytes[27 - 24]
    BY <1>12, AddrNat
  <2>. QED  BY <1>8, <2>1
<1>14. PICK d : d = Read(INT_MAP, 3)
  OBVIOUS
<1>15. d \in [1 .. 3 -> Byte] /\ d[1] = regs[33] /\ d[2] = regs[34] /\ d[3] = regs[35]
  BY <1>14, ReadIs
<1>16. PICK m : m = map_int_pin(d, "drdy", "unmap")
  OBVIOUS
<1>17. m = [b \in 1 .. 3 |-> IF b = 3 THEN d[b] ELSE d[b] \ {7}]
  BY <1>15, <1>16, RoutedAre
<1>18. m \in [1 .. 3 -> Byte] /\ m[1] = d[1] \ {7} /\ m[2] = d[2] \ {7} /\ m[3] = d[3]
  BY <1>15, <1>17 DEF Byte
<1>19. q = Written(regs, set_sensor_conf(u, "drdy", "unmap"))
  BY DEF Writes
<1> HIDE DEF u
<1>20. /\ q \in Chip /\ Kept(p, q, {33, 34, 35})
       /\ q[33] = m[1] /\ q[34] = m[2] /\ q[35] = m[3]
  BY <1>10, <1>11, <1>14, <1>16, <1>18, <1>19, ConfDone
<1>21. Kept(regs, q, {25, 26, 27, 33, 34, 35})
  BY <1>12, <1>20 DEF Kept
<1>22. q[25] = p[25] /\ q[26] = p[26] /\ q[27] = p[27]
  BY <1>20, AddrNat DEF Kept
<1>. QED  BY <1>2, <1>3, <1>4, <1>5, <1>6, <1>7, <1>11, <1>13, <1>15, <1>18, <1>20, <1>21, <1>22
          DEF u, POWER_MODE, RANGE, ODR, DATA_FILTER

(* Two chips that agree on the eleven registers have the same settings.      *)
LEMMA SameSettings ==
  ASSUME NEW r, NEW q, NEW a \in {GEN1_CONFIG, GEN2_CONFIG}, \A x \in a .. a + 10 : q[x] = r[x]
  PROVE  get_gen_int(q, a) = get_gen_int(r, a)
<1>1. a \in Nat
  BY DEF GEN1_CONFIG, GEN2_CONFIG
<1>2. q[a] = r[a] /\ \A i \in 1 .. 10 : q[a + i] = r[a + i]
  <2>1. \A i \in 0 .. 10 : a + i \in a .. a + 10
    BY <1>1
  <2>. QED  BY <1>1, <2>1
<1>3. /\ q[a + 1] = r[a + 1] /\ q[a + 2] = r[a + 2] /\ q[a + 3] = r[a + 3] /\ q[a + 4] = r[a + 4]
      /\ q[a + 5 + 1] = r[a + 5 + 1] /\ q[a + 7 + 1] = r[a + 7 + 1] /\ q[a + 9 + 1] = r[a + 9 + 1]
      /\ q[a + 5] = r[a + 5] /\ q[a + 7] = r[a + 7] /\ q[a + 9] = r[a + 9]
  BY <1>1, <1>2
<1>. QED  BY <1>2, <1>3, Zenon DEF get_gen_int

WithRef(c, v) == [c EXCEPT !.ref = v]
NoRefs(s) == [s EXCEPT !.ref = <<0, 0, 0>>]

LEMMA NoRefsOf ==
  ASSUME NEW c \in Settings, c.ref = <<0, 0, 0>>, NEW v
  PROVE  NoRefs(WithRef(c, v)) = c
<1>1. PICK s : s = [c EXCEPT !.ref = v]
  OBVIOUS
<1>2. PICK z : z = <<0, 0, 0>>
  OBVIOUS
<1>3. PICK t : t = [s EXCEPT !.ref = z]
  OBVIOUS
<1>4. c = [axes_sel |-> c.axes_sel, data_src |-> c.data_src, ref_update |-> c.ref_update,
        hysteresis |-> c.hysteresis, criterion_sel |-> c.criterion_sel, evaluate_axes |-> c.evaluate_axes,
        thres |-> c.thres, dur |-> c.dur, ref |-> z]
  BY <1>2 DEF Settings
<1>5. s = [axes_sel |-> c.axes_sel, data_src |-> c.data_src, ref_update |-> c.ref_update,
        hysteresis |-> c.hysteresis, criterion_sel |-> c.criterion_sel, evaluate_axes |-> c.evaluate_axes,
        thres |-> c.thres, dur |-> c.dur, ref |-> v]
  BY <1>1, <1>4
<1>6. t = c
  BY <1>3, <1>4, <1>5
<1>. QED  BY <1>1, <1>2, <1>3, <1>6 DEF NoRefs, WithRef

GenRegs(a) == a .. a + 10
OwnBit(int) == IF int = "gen1" THEN 2 ELSE 3

Gens == {"gen1", "gen2"}

(* Where map_int_pin puts the bit of a detector: one register for each pin,  *)
(* INT_MAP the first pin's.                                                  *)
LEMMA RoutedFor ==
  ASSUME NEW d \in [1 .. 3 -> Byte], NEW int \in Gens, NEW chan \in Channels
  PROVE  /\ map_int_pin(d, int, chan) =
              [b \in 1 .. 3 |->
                 IF chan = "unmap" THEN (IF b = 3 THEN d[b] ELSE d[b] \ {OwnBit(int)})
                                   ELSE (IF b \in Wanted(chan) THEN d[b] \cup {OwnBit(int)} ELSE d[b])]
         /\ map_int_pin(d, int, chan) \in [1 .. 3 -> Byte]
<1> DEFINE bits(b, pins) == {Route(int)[pin][2] : pin \in {p \in pins : Route(int)[p][1] = b}}
<1>1. PICK k \in 0 .. 7 : k = OwnBit(int)
  BY DEF OwnBit
<1>2. Route(int) = << <<1, k>>, <<2, k>> >>
  BY <1>1 DEF Route, Own, OwnBit, Gens
<1>3. Wanted(chan) \subseteq {1, 2}
  BY DEF Wanted, Channels
<1>4. \A b \in 1 .. 3, pins \in SUBSET {1, 2} : bits(b, pins) = IF b \in pins THEN {k} ELSE {}
  BY <1>2
<1>5. map_int_pin(d, int, chan) =
        [b \in 1 .. 3 |-> IF chan = "unmap" THEN d[b] \ bits(b, {1, 2}) ELSE d[b] \cup bits(b, Wanted(chan))]
  BY DEF map_int_pin
<1> HIDE DEF bits
<1>6. \A b \in 1 .. 3 :
        /\ d[b] \ bits(b, {1, 2}) = IF b = 3 THEN d[b] ELSE d[b] \ {k}
        /\ d[b] \cup bits(b, Wanted(chan)) = IF b \in Wanted(chan) THEN d[b] \cup {k} ELSE d[b]
  <2>1. \A b \in 1 .. 3 : bits(b, {1, 2}) = IF b = 3 THEN {} ELSE {k}
    <3>1. \A b \in 1 .. 3 : b \in {1, 2} <=> b # 3
      OBVIOUS
    <3>. QED  BY <1>4, <3>1
  <2>2. \A b \in 1 .. 3 : bits(b, Wanted(chan)) = IF b \in Wanted(chan) THEN {k} ELSE {}
    BY <1>3, <1>4
  <2>3. \A s : s \cup {} = s /\ s \ {} = s
    OBVIOUS
  <2>. QED  BY <2>1, <2>2, <2>3
<1>7. map_int_pin(d, int, chan) =
        [b \in 1 .. 3 |-> IF chan = "unmap" THEN (IF b = 3 THEN d[b] ELSE d[b] \ {k})
                                            ELSE (IF b \in Wanted(chan) THEN d[b] \cup {k} ELSE d[b])]
  BY <1>5, <1>6
<1>8. \A b \in 1 .. 3 : d[b] \in Byte /\ d[b] \ {k} \in Byte /\ d[b] \cup {k} \in Byte
  BY <1>1 DEF Byte
<1>. QED  BY <1>1, <1>7, <1>8

GenResult(q, a, c, int, chan) ==
  /\ q \in Chip
  /\ Kept(regs, q, GenRegs(a) \cup {33, 34, 35})
  /\ get_gen_int(q, a) = IF c.ref_update = MANUAL THEN c ELSE WithRef(c, get_gen_int(regs, a).ref)
  /\ \A b \in 1 .. 3 : q[32 + b] = map_int_pin(Read(INT_MAP, 3), int, chan)[b]

LEMMA GenCall ==
  ASSUME regs \in Chip, NEW a \in {GEN1_CONFIG, GEN2_CONFIG}, NEW c \in Settings,
         NEW int \in Gens, NEW chan \in Channels,
         NEW q, q = Written(regs, set_sensor_conf(set_gen_int(a, c), int, chan))
  PROVE  GenResult(q, a, c, int, chan) /\ set_gen_int(a, c) \in Seq(Nat \X Byte)
<1> DEFINE u == set_gen_int(a, c)
           b == GenBytes(c)
<1>1. b \in Seq(Byte) /\ Len(b) \in 0 .. 11
  BY GenBytesAre
<1>2. u = set_regs(a, b)
  BY DEF set_gen_int, GenBytes, First, Second
<1>3. a \in Nat /\ (\A i \in 0 .. 10 : a + i \in Addr) /\ 33 \notin a .. a + 10 /\ 34 \notin a .. a + 10
      /\ 35 \notin a .. a + 10 /\ a .. a + 10 \subseteq Addr
  BY DEF GEN1_CONFIG, GEN2_CONFIG, Addr
<1> HIDE DEF b, u
<1>4. PICK n : n = Len(b)
  OBVIOUS
<1>5. PICK p : p = Written(regs, u)
  OBVIOUS
<1>6. p \in Chip /\ u \in Seq(Nat \X Byte) /\ Replaced(p, regs, a, b, n)
  <2>1. n \in Nat /\ \A i \in 1 .. n : a + i - 1 \in Addr
    <3>1. n \in Nat /\ n <= 11
      BY <1>1, <1>4
    <3>2. ASSUME NEW i \in 1 .. n PROVE a + i - 1 \in Addr
      <4>1. i - 1 \in 0 .. 10 /\ a + (i - 1) = a + i - 1
        BY <1>3, <3>1
      <4>2. a + (i - 1) \in Addr
        BY <1>3, <4>1
      <4>. QED  BY <4>1, <4>2
    <3>. QED  BY <3>1, <3>2
  <2>2. Written(regs, set_regs(a, b)) \in Chip /\ set_regs(a, b) \in Seq(Nat \X Byte)
        /\ Replaced(Written(regs, set_regs(a, b)), regs, a, b, n)
    BY <1>1, <1>3, <1>4, <2>1, Overwriting
  <2>. QED  BY <1>2, <1>5, <2>2
<1>7. Kept(regs, p, a .. a + 10)
  <2>1. ASSUME NEW x \in Addr, x \notin a .. a + 10 PROVE p[x] = regs[x]
    <3>1. n \in Nat /\ n <= 11
      BY <1>1, <1>4
    <3>2. x \in Nat /\ a \in Nat
      BY <1>3, AddrNat
    <3>3. x \notin a .. a + n - 1
      BY <2>1, <3>1, <3>2
    <3>. QED  BY <1>6, <3>3 DEF Replaced
  <2>. QED  BY <2>1 DEF Kept
<1>8. get_gen_int(p, a) = IF c.ref_update = MANUAL THEN c ELSE WithRef(c, get_gen_int(regs, a).ref)
  BY <1>5, SettingsReadBack DEF u, WithRef
<1>9. PICK d : d = Read(INT_MAP, 3)
  OBVIOUS
<1>10. d \in [1 .. 3 -> Byte] /\ d[1] = regs[33] /\ d[2] = regs[34] /\ d[3] = regs[35]
  BY <1>9, ReadIs
<1>11. PICK m : m = map_int_pin(d, int, chan)
  OBVIOUS
<1>12. m \in [1 .. 3 -> Byte]
  BY <1>10, <1>11, RoutedFor
<1>13. q = Written(regs, set_sensor_conf(u, int, chan))
  BY DEF u
<1>14. /\ q \in Chip /\ Kept(p, q, {33, 34, 35})
       /\ q[33] = m[1] /\ q[34] = m[2] /\ q[35] = m[3]
  BY <1>5, <1>6, <1>9, <1>11, <1>12, <1>13, ConfDone
<1>15. Kept(regs, q, GenRegs(a) \cup {33, 34, 35})
  BY <1>7, <1>14 DEF Kept, GenRegs
<1>16. get_gen_int(q, a) = get_gen_int(p, a)
  <2>1. \A x \in a .. a + 10 : q[x] = p[x]
    BY <1>3, <1>14 DEF Kept
  <2>. QED  BY <2>1, SameSettings
<1>17. \A k \in 1 .. 3 : q[32 + k] = m[k]
  <2>1. \A k \in 1 .. 3 : k = 1 \/ k = 2 \/ k = 3
    OBVIOUS
  <2>. QED  BY <1>14, <2>1
<1>. QED  BY <1>6, <1>8, <1>9, <1>11, <1>14, <1>15, <1>16, <1>17 DEF u, GenResult

(* The pins an interrupt is routed to.                                       *)
Pins(r, int) == {pin \in {1, 2} : Route(int)[pin][2] \in r[INT_MAP + Route(int)[pin][1] - 1]}

(* The bit that routes a detector to a pin routes nothing else.              *)
LEMMA RoutesApart ==
  \A int \in Gens, i \in Interrupts, pin \in {1, 2} :
    /\ Route(i)[pin][1] \in 1 .. 3 /\ Route(i)[pin][2] \in 0 .. 7
    /\ i # int => Route(i)[pin][1] = 3 \/ Route(i)[pin][2] # OwnBit(int)
<1>1. \A i \in {"drdy", "fifo_wm", "fifo_full", "overrun", "gen2", "gen1", "orient_ch", "wakeup"} :
        Route(i) = << <<1, Own[i]>>, <<2, Own[i]>> >>
  BY DEF Route, Own
<1>2. \A i \in {"act_ch", "tap", "step"} : Route(i) = << <<3, Shared[i][1]>>, <<3, Shared[i][2]>> >>
  BY DEF Route, Own
<1>3. \A int \in Gens, i \in {"drdy", "fifo_wm", "fifo_full", "overrun", "gen2", "gen1", "orient_ch", "wakeup"} :
        Own[i] \in 0 .. 7 /\ (i # int => Own[i] # OwnBit(int))
  BY DEF Own, OwnBit, Gens
<1>4. \A i \in {"act_ch", "tap", "step"} : Shared[i][1] \in 0 .. 7 /\ Shared[i][2] \in 0 .. 7
  BY DEF Shared
<1>. SUFFICES ASSUME NEW int \in Gens, NEW i \in Interrupts, NEW pin \in {1, 2}
              PROVE  /\ Route(i)[pin][1] \in 1 .. 3 /\ Route(i)[pin][2] \in 0 .. 7
                     /\ i # int => Route(i)[pin][1] = 3 \/ Route(i)[pin][2] # OwnBit(int)
  OBVIOUS
<1>5. CASE i \in {"act_ch", "tap", "step"}
  <2>1. PICK x \in 0 .. 7, y \in 0 .. 7 : x = Shared[i][1] /\ y = Shared[i][2]
    BY <1>4, <1>5
  <2>2. Route(i) = << <<3, x>>, <<3, y>> >>
    BY <1>2, <1>5, <2>1
  <2>. QED  BY <2>2
<1>6. CASE i \notin {"act_ch", "tap", "step"}
  <2>1. PICK x \in 0 .. 7 : x = Own[i] /\ (i # int => x # OwnBit(int)) /\ Route(i) = << <<1, x>>, <<2, x>> >>
    BY <1>1, <1>3, <1>6 DEF Interrupts
  <2>. QED  BY <2>1
<1>. QED  BY <1>5, <1>6

(* bma400_set_sensor_conf for a generic interrupt does the whole of what it  *)
(* is asked for, and nothing else, whatever the chip held: the settings are  *)
(* in its registers as get_gen1_int and get_gen2_int read them (references   *)
(* excepted that the chip updates itself), a channel that is asked for is    *)
(* added to those it had and only "unmap" takes them away, and neither the   *)
(* routing of another interrupt nor a register of anything else changes.     *)
THEOREM SettingsTakeEffect ==
  ASSUME regs \in Chip, NEW a \in {GEN1_CONFIG, GEN2_CONFIG}, NEW c \in Settings,
         NEW int \in Gens, NEW chan \in Channels,
         NEW q, q = Written(regs, set_sensor_conf(set_gen_int(a, c), int, chan))
  PROVE  /\ get_gen_int(q, a) = IF c.ref_update = MANUAL THEN c ELSE [c EXCEPT !.ref = get_gen_int(regs, a).ref]
         /\ Pins(q, int) = IF chan = "unmap" THEN {} ELSE Pins(regs, int) \cup Wanted(chan)
         /\ \A i \in Interrupts \ {int} : Pins(q, i) = Pins(regs, i)
         /\ \A x \in Addr : x \notin (a .. a + 10) \cup (33 .. 35) => q[x] = regs[x]
<1>1. /\ Kept(regs, q, GenRegs(a) \cup {33, 34, 35})
      /\ get_gen_int(q, a) = IF c.ref_update = MANUAL THEN c ELSE WithRef(c, get_gen_int(regs, a).ref)
      /\ \A b \in 1 .. 3 : q[32 + b] = map_int_pin(Read(INT_MAP, 3), int, chan)[b]
  <2>1. GenResult(q, a, c, int, chan)
    BY GenCall
  <2>. QED  BY <2>1 DEF GenResult
<1>2. PICK d : d = Read(INT_MAP, 3)
  OBVIOUS
<1>3. d \in [1 .. 3 -> Byte] /\ \A b \in 1 .. 3 : d[b] = regs[32 + b]
  <2>1. \A b \in 1 .. 3 : b = 1 \/ b = 2 \/ b = 3
    OBVIOUS
  <2>2. d \in [1 .. 3 -> Byte] /\ d[1] = regs[33] /\ d[2] = regs[34] /\ d[3] = regs[35]
    BY <1>2, ReadIs
  <2>. QED  BY <2>1, <2>2
<1>4. PICK k \in 0 .. 7 : k = OwnBit(int)
  BY DEF OwnBit
<1>5. \A b \in 1 .. 3 :
        q[32 + b] = IF chan = "unmap" THEN (IF b = 3 THEN regs[32 + b] ELSE regs[32 + b] \ {k})
                    ELSE (IF b \in Wanted(chan) THEN regs[32 + b] \cup {k} ELSE regs[32 + b])
  <2>1. PICK m : m = map_int_pin(d, int, chan)
    OBVIOUS
  <2>2. m = [b \in 1 .. 3 |-> IF chan = "unmap" THEN (IF b = 3 THEN d[b] ELSE d[b] \ {k})
                                     ELSE (IF b \in Wanted(chan) THEN d[b] \cup {k} ELSE d[b])]
    BY <1>3, <1>4, <2>1, RoutedFor
  <2>3. ASSUME NEW b \in 1 .. 3
        PROVE  q[32 + b] = m[b] /\ d[b] = regs[32 + b]
    BY <1>1, <1>2, <1>3, <2>1
  <2>. QED  BY <2>2, <2>3
<1>6. Wanted(chan) \subseteq {1, 2} /\ Wanted("unmap") = {}
  BY DEF Wanted, Channels
<1>7. \A r : \A i \in Interrupts, pin \in {1, 2} :
        pin \in Pins(r, i) <=> Route(i)[pin][2] \in r[32 + Route(i)[pin][1]]
  <2>1. ASSUME NEW r, NEW i \in Interrupts, NEW pin \in {1, 2}
        PROVE  pin \in Pins(r, i) <=> Route(i)[pin][2] \in r[32 + Route(i)[pin][1]]
    <3>1. Route(i)[pin][1] \in 1 .. 3
      BY RoutesApart DEF Gens
    <3>2. INT_MAP + Route(i)[pin][1] - 1 = 32 + Route(i)[pin][1]
      BY <3>1 DEF INT_MAP
    <3>. QED  BY <3>2 DEF Pins
  <2>. QED  BY <2>1
<1>8. Pins(q, int) = IF chan = "unmap" THEN {} ELSE Pins(regs, int) \cup Wanted(chan)
  <2>1. int \in Interrupts /\ Route(int) = << <<1, k>>, <<2, k>> >>
    BY <1>4 DEF Interrupts, Gens, Route, Own, OwnBit
  <2>2. ASSUME NEW r, NEW pin \in {1, 2}
        PROVE  pin \in Pins(r, int) <=> k \in r[32 + pin]
    <3>1. Route(int)[pin] = <<pin, k>>
      BY <2>1
    <3>2. pin \in Pins(r, int) <=> Route(int)[pin][2] \in r[32 + Route(int)[pin][1]]
      BY <1>7, <2>1
    <3>. QED  BY <3>1, <3>2
  <2>3. \A pin \in {1, 2} :
          k \in q[32 + pin] <=> chan # "unmap" /\ (k \in regs[32 + pin] \/ pin \in Wanted(chan))
    BY <1>5
  <2>4. \A r : Pins(r, int) \subseteq {1, 2}
    BY DEF Pins
  <2>5. Pins(regs, int) \cup Wanted(chan) \subseteq {1, 2}
    BY <1>6, <2>4
  <2>6. ASSUME NEW pin \in {1, 2}
        PROVE  pin \in Pins(q, int) <=> chan # "unmap" /\ pin \in Pins(regs, int) \cup Wanted(chan)
    <3>1. (pin \in Pins(q, int) <=> k \in q[32 + pin]) /\ (pin \in Pins(regs, int) <=> k \in regs[32 + pin])
      BY <2>2
    <3>. QED  BY <2>3, <3>1
  <2>. QED  BY <2>4, <2>5, <2>6
<1>9. ASSUME NEW i \in Interrupts \ {int}
      PROVE  Pins(q, i) = Pins(regs, i)
  <2>1. ASSUME NEW pin \in {1, 2}
        PROVE  pin \in Pins(q, i) <=> pin \in Pins(regs, i)
    <3>1. PICK b \in 1 .. 3, j \in 0 .. 7 : b = Route(i)[pin][1] /\ j = Route(i)[pin][2] /\ (b = 3 \/ j # k)
      BY <1>4, RoutesApart
    <3>2. j \in q[32 + b] <=> j \in regs[32 + b]
      BY <1>5, <1>6, <3>1
    <3>3. (pin \in Pins(q, i) <=> j \in q[32 + b]) /\ (pin \in Pins(regs, i) <=> j \in regs[32 + b])
      BY <1>7, <3>1
    <3>. QED  BY <3>2, <3>3
  <2>. QED  BY <2>1 DEF Pins
<1>10. \A x \in Addr : x \notin (a .. a + 10) \cup (33 .. 35) => q[x] = regs[x]
  BY <1>1 DEF Kept, GenRegs
<1>. QED  BY <1>1, <1>8, <1>9, <1>10 DEF WithRef

GenEffect(q, a, c, int) ==
  /\ q \in Chip
  /\ Kept(regs, q, GenRegs(a) \cup {33, 34, 35})
  /\ c.ref_update # MANUAL => get_gen_int(q, a) = WithRef(c, get_gen_int(regs, a).ref)
  /\ q[33] = regs[33] \cup {OwnBit(int)} /\ q[34] = regs[34] /\ q[35] = regs[35]

LEMMA GenDone ==
  ASSUME regs \in Chip, NEW a \in {GEN1_CONFIG, GEN2_CONFIG}, NEW c \in Settings, NEW int \in Gens,
         NEW q, q = Written(regs, set_sensor_conf(set_gen_int(a, c), int, "channel_1"))
  PROVE  GenEffect(q, a, c, int) /\ set_gen_int(a, c) \in Seq(Nat \X Byte)
<1>1. GenResult(q, a, c, int, "channel_1") /\ set_gen_int(a, c) \in Seq(Nat \X Byte)
  <2>1. "channel_1" \in Channels
    BY DEF Channels
  <2>. QED  BY <2>1, GenCall
<1>2. PICK d \in [1 .. 3 -> Byte] : d = Read(INT_MAP, 3) /\ d[1] = regs[33] /\ d[2] = regs[34] /\ d[3] = regs[35]
  BY ReadIs
<1>3. PICK k \in 0 .. 7 : k = OwnBit(int)
  BY DEF OwnBit
<1>4. map_int_pin(d, int, "channel_1") = [b \in 1 .. 3 |-> IF b = 1 THEN d[b] \cup {k} ELSE d[b]]
  BY <1>3, RoutedAre DEF OwnBit, Gens
<1>5. q[33] = d[1] \cup {k} /\ q[34] = d[2] /\ q[35] = d[3]
  <2>1. \A b \in 1 .. 3 : q[32 + b] = IF b = 1 THEN d[b] \cup {k} ELSE d[b]
    BY <1>1, <1>2, <1>4 DEF GenResult
  <2>. QED  BY <2>1
<1>. QED  BY <1>1, <1>2, <1>3, <1>5 DEF GenResult, GenEffect

LEMMA PinDone ==
  ASSUME regs \in Chip, NEW q, q = Written(regs, Writes("pin"))
  PROVE  /\ q \in Chip
         /\ Kept(regs, q, {36})
         /\ GetBits(q[36], PIN1_CONF) = 1
<1>1. PICK byte : byte = SetBits(regs[36], <<1, 2>>, 1)
  OBVIOUS
<1>2. regs[36] \in Byte /\ 36 \in Addr
  BY AddrNat DEF Chip
<1>3. byte \in Byte
  BY <1>1, <1>2, SetBitsIs
<1>4. GetBits(byte, <<1, 2>>) = 1
  BY <1>1, <1>2, FieldSet DEF Weight
<1>5. PICK p : p = Written(regs, set_regs(36, <<byte>>))
  OBVIOUS
<1>6. /\ p \in Chip /\ p[36] = byte /\ (\A x \in Addr \ {36} : p[x] = regs[x])
      /\ set_regs(36, <<byte>>) \in Seq(Nat \X Byte)
  BY <1>2, <1>3, <1>5, OneByte
<1>7. PICK d : d = Read(INT_MAP, 3)
  OBVIOUS
<1>8. d \in Seq(Byte) /\ Len(d) = 3 /\ d[1] = regs[33] /\ d[2] = regs[34] /\ d[3] = regs[35]
  BY <1>7, ReadIs
<1>9. q = Written(regs, set_regs(36, <<byte>>) \o set_regs(INT_MAP, d))
  BY <1>1, <1>7 DEF Writes, set_int_pin_conf, INT_12_IO, PIN1_CONF
<1>10. /\ q \in Chip /\ q[33] = d[1] /\ q[34] = d[2] /\ q[35] = d[3]
       /\ \A x \in Addr \ (33 .. 35) : q[x] = p[x]
  <2>1. PICK u : u = set_regs(36, <<byte>>)
    OBVIOUS
  <2>2. u \in Seq(Nat \X Byte) /\ p = Written(regs, u) /\ p \in Chip
    BY <1>5, <1>6, <2>1
  <2>3. q = Written(regs, u \o set_regs(INT_MAP, d))
    BY <1>9, <2>1
  <2>4. Written(regs, u) \in Chip
    BY <2>2
  <2>5. /\ q \in Chip /\ q[33] = d[1] /\ q[34] = d[2] /\ q[35] = d[3]
        /\ \A x \in Addr \ (33 .. 35) : q[x] = Written(regs, u)[x]
    <3>1. d \in Seq(Byte) /\ Len(d) = 3
      BY <1>8
    <3>. QED  BY <2>2, <2>3, <2>4, <3>1, ThenRouting
  <2>. QED  BY <2>2, <2>5
<1>11. q[36] = byte
  BY <1>2, <1>6, <1>10
<1>12. ASSUME NEW x \in Addr \ {36} PROVE q[x] = regs[x]
  <2>1. CASE x \in 33 .. 35
    <3>1. x = 33 \/ x = 34 \/ x = 35
      BY <2>1
    <3>. QED  BY <1>8, <1>10, <3>1
  <2>2. CASE x \notin 33 .. 35
    BY <1>6, <1>10, <2>2
  <2>. QED  BY <2>1, <2>2
<1>. QED  BY <1>4, <1>10, <1>11, <1>12 DEF Kept, PIN1_CONF

(* A call that enables or disables one interrupt changes its bit, at either  *)
(* of the two bytes, and nothing else.                                       *)
Switches(writes, e, k, conf) ==
  \E f \in Byte :
    /\ f = IF conf = 1 THEN regs[30 + e] \cup {k} ELSE regs[30 + e] \ {k}
    /\ writes \in Seq(Nat \X Byte) /\ Len(writes) = 2
    /\ \A j \in 0 .. 2 : Stages(regs, writes)[j] = IF j < e THEN regs ELSE [regs EXCEPT ![30 + e] = f]

LEMMA EnableDone ==
  ASSUME regs \in Chip, NEW int, NEW e \in 1 .. 2, NEW k \in 0 .. 7, NEW conf \in 0 .. 1,
         EnableBit[int] = <<e, k>>
  PROVE  Switches(enable_interrupt(int, conf), e, k, conf)
<1>1. regs[31] \in Byte /\ regs[32] \in Byte /\ 31 \in Addr /\ 32 \in Addr /\ regs[30 + e] \in Byte
      /\ 30 + e \in Addr
  <2>1. 30 + e = 31 \/ 30 + e = 32
    OBVIOUS
  <2>. QED  BY <2>1, AddrNat DEF Chip
<1>2. PICK f : f = SetBits(regs[30 + e], <<k, k>>, conf)
  OBVIOUS
<1>3. f \in Byte
  BY <1>1, <1>2, SetBitsIs
<1>4. f = IF conf = 1 THEN regs[30 + e] \cup {k} ELSE regs[30 + e] \ {k}
  <2>1. \A x : x \in f <=> x \in 0 .. 7 /\ IF x \in k .. k THEN x - k \in Bits(conf) ELSE x \in regs[30 + e]
    BY <1>1, <1>2, SetBitsIs
  <2>2. 0 \in Bits(conf) <=> conf = 1
    BY DEF Bits, Weight
  <2>3. PICK old : old = regs[30 + e] /\ old \subseteq 0 .. 7
    BY <1>1 DEF Byte
  <2>4. \A x : x \in f <=> x \in 0 .. 7 /\ IF x = k THEN conf = 1 ELSE x \in old
    <3>1. ASSUME NEW x \in 0 .. 7 PROVE x \in f <=> IF x = k THEN conf = 1 ELSE x \in old
      <4>1. x \in k .. k <=> x = k
        OBVIOUS
      <4>2. x = k => x - k = 0
        OBVIOUS
      <4>. QED  BY <2>1, <2>2, <2>3, <4>1, <4>2
    <3>. QED  BY <2>1, <3>1
  <2>. QED  BY <2>3, <2>4
<1>5. PICK d : d = Read(INT_CONF, 2)
  OBVIOUS
<1>6. d = [i \in 1 .. 2 |-> regs[31 + i - 1]] /\ d[1] = regs[31] /\ d[2] = regs[32] /\ d[e] = regs[30 + e]
  <2>1. d = [i \in 1 .. 2 |-> regs[31 + i - 1]]
    BY <1>5 DEF Read, INT_CONF
  <2>2. e = 1 \/ e = 2
    OBVIOUS
  <2>. QED  BY <2>1, <2>2
<1>7. PICK b : b = [d EXCEPT ![e] = f]
  OBVIOUS
<1>8. enable_interrupt(int, conf) = set_regs(31, b)
  BY <1>2, <1>5, <1>6, <1>7 DEF enable_interrupt, Bit, INT_CONF
<1>9. PICK n \in Nat : n = 2
  OBVIOUS
<1>10. \A i \in 1 .. 2 : b[i] = IF i = e THEN f ELSE regs[30 + i]
  <2>1. \A i \in 1 .. 2 : 31 + i - 1 = 30 + i
    OBVIOUS
  <2>. QED  BY <1>6, <1>7, <2>1
<1>11. b \in Seq(Byte) /\ Len(b) = 2
  <2>1. b = [i \in 1 .. n |-> b[i]]
    BY <1>6, <1>7, <1>9
  <2>2. \A i \in 1 .. n : b[i] \in Byte
    <3>1. \A i \in 1 .. 2 : 30 + i = 31 \/ 30 + i = 32
      OBVIOUS
    <3>. QED  BY <1>1, <1>3, <1>9, <1>10, <3>1
  <2>3. b \in Seq(Byte) /\ Len(b) = n
    BY <2>1, <2>2
  <2>. QED  BY <1>9, <2>3
<1>12. \A i \in 1 .. Len(b) : 31 + i - 1 \in Addr
  <2>1. \A i \in 1 .. 2 : 31 + i - 1 = 31 \/ 31 + i - 1 = 32
    OBVIOUS
  <2>. QED  BY <1>1, <1>11, <2>1
<1>13. \A j \in 0 .. Len(b) : Stages(regs, set_regs(31, b))[j] = Overwritten(regs, 31, b, j)
  BY <1>11, <1>12, SetRegsStages
<1>14. ASSUME NEW j \in 0 .. 2
       PROVE  Overwritten(regs, 31, b, j) = IF j < e THEN regs ELSE [regs EXCEPT ![30 + e] = f]
  <2>1. regs = [x \in Addr |-> regs[x]]
    BY DEF Chip
  <2>2. ASSUME NEW x \in Addr
        PROVE  (IF x \in 31 .. 31 + j - 1 THEN b[x - 31 + 1] ELSE regs[x])
                 = IF j < e THEN regs[x] ELSE IF x = 30 + e THEN f ELSE regs[x]
    <3>1. x \in Nat
      BY AddrNat
    <3>2. CASE x \in 31 .. 31 + j - 1
      <4>1. PICK i \in 1 .. 2 : i = x - 31 + 1 /\ x = 30 + i /\ i <= j
        BY <3>1, <3>2
      <4>2. i = e <=> x = 30 + e
        BY <4>1
      <4>. QED  BY <1>10, <3>2, <4>1, <4>2
    <3>3. CASE x \notin 31 .. 31 + j - 1
      BY <3>1, <3>3
    <3>. QED  BY <3>2, <3>3
  <2>3. Overwritten(regs, 31, b, j) = [x \in Addr |-> IF j < e THEN regs[x] ELSE IF x = 30 + e THEN f ELSE regs[x]]
    BY <2>2 DEF Overwritten
  <2>. QED  BY <2>1, <2>3
<1>15. set_regs(31, b) \in Seq(Nat \X Byte) /\ Len(set_regs(31, b)) = 2
  BY <1>11, SetRegsSeq
<1>16. \A j \in 0 .. 2 : Stages(regs, set_regs(31, b))[j] = IF j < e THEN regs ELSE [regs EXCEPT ![30 + e] = f]
  BY <1>11, <1>13, <1>14
<1>. QED  BY <1>3, <1>4, <1>8, <1>15, <1>16 DEF Switches

LEMMA SwitchesDone ==
  ASSUME regs \in Chip
  PROVE  /\ Switches(Writes("latch"), 2, 7, 1)
         /\ Switches(Writes("gen1_on"), 1, 2, 1) /\ Switches(Writes("gen1_off"), 1, 2, 0)
         /\ Switches(Writes("gen2_on"), 1, 3, 1) /\ Switches(Writes("gen2_off"), 1, 3, 0)
<1>1. EnableBit["latch"] = <<2, 7>> /\ EnableBit["gen1"] = <<1, 2>> /\ EnableBit["gen2"] = <<1, 3>>
  BY DEF EnableBit
<1>2. /\ 1 \in 1 .. 2 /\ 2 \in 1 .. 2 /\ 2 \in 0 .. 7 /\ 3 \in 0 .. 7 /\ 7 \in 0 .. 7
      /\ 0 \in 0 .. 1 /\ 1 \in 0 .. 1
  OBVIOUS
<1>3. \A int, e, k, conf :
        e \in 1 .. 2 /\ k \in 0 .. 7 /\ conf \in 0 .. 1 /\ EnableBit[int] = <<e, k>>
          => Switches(enable_interrupt(int, conf), e, k, conf)
  BY EnableDone
<1>4. Switches(enable_interrupt("latch", 1), 2, 7, 1)
  BY <1>1, <1>2, <1>3, Zenon
<1>5. Switches(enable_interrupt("gen1", 1), 1, 2, 1) /\ Switches(enable_interrupt("gen1", 0), 1, 2, 0)
  BY <1>1, <1>2, <1>3, Zenon
<1>6. Switches(enable_interrupt("gen2", 1), 1, 3, 1) /\ Switches(enable_interrupt("gen2", 0), 1, 3, 0)
  BY <1>1, <1>2, <1>3, Zenon
<1>. QED  BY <1>4, <1>5, <1>6 DEF Writes

----------------------------------------------------------------------------
(* Types.                                                                    *)
LEMMA DefaultType == Default \in Chip
<1>1. {} \in Byte /\ Bits(73) \in Byte /\ Bits(34) \in Byte
  BY BitsType DEF Byte
<1>2. \A a \in Addr : (CASE a = 26 -> Bits(73) [] a = 36 -> Bits(34) [] OTHER -> {}) \in Byte
  BY <1>1
<1>. QED  BY <1>2 DEF Default, Chip

(* A byte at an address the driver does not use changes nothing.             *)
LEMMA StagesType ==
  ASSUME NEW r \in Chip, NEW w \in Seq(Nat \X Byte)
  PROVE  \A k \in 0 .. Len(w) : Stages(r, w)[k] \in Chip
<1> DEFINE s == Stages(r, w)
           S == {k \in Nat : s[k] \in Chip}
<1>1. Len(w) \in Nat /\ \A k \in 1 .. Len(w) : w[k] \in Nat \X Byte
  OBVIOUS
<1>2. s[0] = r /\ \A k \in 0 .. Len(w) - 1 : s[k + 1] = Stored(s[k], w[k + 1])
  BY <1>1, StagesStep
<1> HIDE DEF s
<1>3. 0 \in S
  BY <1>2
<1>4. ASSUME NEW k \in 0 .. Len(w) - 1, k \in S PROVE k + 1 \in S
  <2>1. s[k] \in Chip /\ s[k + 1] = Stored(s[k], w[k + 1])
    BY <1>2, <1>4
  <2>2. k + 1 \in 1 .. Len(w) /\ k + 1 \in Nat
    BY <1>1
  <2>3. w[k + 1][1] \in Nat /\ w[k + 1][2] \in Byte
    BY <1>1, <2>2
  <2>4. \A c \in Chip, a \in Nat, b \in Byte : [c EXCEPT ![a] = b] \in Chip
    BY DEF Chip
  <2>5. Stored(s[k], w[k + 1]) \in Chip
    BY <2>1, <2>3, <2>4, DefaultType DEF Stored
  <2>. QED  BY <2>1, <2>2, <2>5
<1>5. 0 .. Len(w) \subseteq S
  <2> HIDE DEF S
  <2>. QED  BY <1>1, <1>3, <1>4, RangeInduction
<1>. QED  BY <1>5 DEF s

LEMMA SettingsLegal ==
  /\ Activity \in Settings /\ Activity.ref_update # MANUAL /\ Activity.ref = <<0, 0, 0>>
  /\ Inactivity \in Settings /\ Inactivity.ref_update # MANUAL /\ Inactivity.ref = <<0, 0, 0>>
<1>1. <<0, 0, 0>> \in [1 .. 3 -> {n \in Nat : n < 4096}]
  OBVIOUS
<1>2. Activity \in Settings
  BY <1>1 DEF Activity, Settings
<1>3. Inactivity = [axes_sel |-> 7, data_src |-> 0, ref_update |-> 2, hysteresis |-> 2,
                    criterion_sel |-> 0, evaluate_axes |-> 1, thres |-> 8, dur |-> 8, ref |-> <<0, 0, 0>>]
  <2>1. PICK v : v = <<0, 0, 0>>
    OBVIOUS
  <2>2. Activity = [axes_sel |-> 7, data_src |-> 0, ref_update |-> 2, hysteresis |-> 2,
                    criterion_sel |-> 1, evaluate_axes |-> 0, thres |-> 8, dur |-> 1, ref |-> v]
    BY <2>1 DEF Activity
  <2>3. PICK s : s = [Activity EXCEPT !.criterion_sel = 0]
    OBVIOUS
  <2>4. s = [axes_sel |-> 7, data_src |-> 0, ref_update |-> 2, hysteresis |-> 2,
             criterion_sel |-> 0, evaluate_axes |-> 0, thres |-> 8, dur |-> 1, ref |-> v]
    BY <2>2, <2>3
  <2>5. PICK t : t = [s EXCEPT !.evaluate_axes = 1]
    OBVIOUS
  <2>6. t = [axes_sel |-> 7, data_src |-> 0, ref_update |-> 2, hysteresis |-> 2,
             criterion_sel |-> 0, evaluate_axes |-> 1, thres |-> 8, dur |-> 1, ref |-> v]
    BY <2>4, <2>5
  <2>7. Inactivity = [t EXCEPT !.dur = 8]
    BY <2>3, <2>5 DEF Inactivity
  <2>8. Inactivity = [axes_sel |-> 7, data_src |-> 0, ref_update |-> 2, hysteresis |-> 2,
                      criterion_sel |-> 0, evaluate_axes |-> 1, thres |-> 8, dur |-> 8, ref |-> v]
    BY <2>6, <2>7
  <2>. QED  BY <2>1, <2>8
<1>4. Inactivity \in Settings
  BY <1>1, <1>3 DEF Settings
<1>. QED  BY <1>2, <1>3, <1>4 DEF Activity, MANUAL

LEMMA WritesType ==
  ASSUME regs \in Chip, NEW call
  PROVE  Writes(call) \in Seq(Nat \X Byte)
<1>1. \A T : <<>> \in Seq(T)
  OBVIOUS
<1>2. soft_reset \in Seq(Nat \X Byte)
  BY BitsType DEF soft_reset, COMMAND
<1>3. set_power_mode(NORMAL) \in Seq(Nat \X Byte) /\ set_power_mode(SLEEP) \in Seq(Nat \X Byte)
  BY PowerModeDone DEF NORMAL, SLEEP
<1>4. ASSUME NEW u \in Seq(Nat \X Byte), NEW m \in [1 .. 3 -> Byte]
      PROVE  u \o set_regs(INT_MAP, m) \in Seq(Nat \X Byte)
  <2>1. m \in Seq(Byte)
    BY ThreeBytes
  <2>2. set_regs(33, m) \in Seq(Nat \X Byte)
    BY <2>1, SetRegsSeq
  <2>. QED  BY <2>2, Concatenation DEF INT_MAP
<1>5. PICK d \in [1 .. 3 -> Byte] : d = Read(INT_MAP, 3)
  BY ReadIs
<1>6. /\ map_int_pin(d, "drdy", "unmap") \in [1 .. 3 -> Byte]
      /\ map_int_pin(d, "gen1", "channel_1") \in [1 .. 3 -> Byte]
      /\ map_int_pin(d, "gen2", "channel_1") \in [1 .. 3 -> Byte]
  <2>1. \A b \in 1 .. 3 : d[b] \in Byte /\ d[b] \ {7} \in Byte /\ d[b] \cup {2} \in Byte /\ d[b] \cup {3} \in Byte
    BY DEF Byte
  <2>. QED  BY <2>1, RoutedAre
<1>7. set_sensor_conf(set_accel_conf(Accel), "drdy", "unmap") \in Seq(Nat \X Byte)
  BY <1>4, <1>5, <1>6, AccelDone DEF set_sensor_conf
<1>8. set_gen_int(GEN1_CONFIG, Activity) \in Seq(Nat \X Byte) /\ set_gen_int(GEN2_CONFIG, Inactivity) \in Seq(Nat \X Byte)
  BY GenDone, SettingsLegal DEF Gens
<1>9. /\ set_sensor_conf(set_gen_int(GEN1_CONFIG, Activity), "gen1", "channel_1") \in Seq(Nat \X Byte)
      /\ set_sensor_conf(set_gen_int(GEN2_CONFIG, Inactivity), "gen2", "channel_1") \in Seq(Nat \X Byte)
  BY <1>4, <1>5, <1>6, <1>8 DEF set_sensor_conf
<1>10. set_int_pin_conf(1) \in Seq(Nat \X Byte)
  <2>1. regs[36] \in Byte /\ 36 \in Addr
    BY AddrNat DEF Chip
  <2>2. SetBits(regs[36], <<1, 2>>, 1) \in Byte
    BY <2>1, SetBitsIs
  <2>3. set_regs(36, <<SetBits(regs[36], <<1, 2>>, 1)>>) \in Seq(Nat \X Byte)
    BY <2>1, <2>2, OneByte
  <2>. QED  BY <1>4, <1>5, <2>3 DEF set_int_pin_conf, INT_12_IO, PIN1_CONF
<1>11. \A w, e, k, conf : Switches(w, e, k, conf) => w \in Seq(Nat \X Byte)
  BY DEF Switches
<1>12. \A c \in {"latch", "gen1_on", "gen1_off", "gen2_on", "gen2_off"} : Writes(c) \in Seq(Nat \X Byte)
  BY <1>11, SwitchesDone
<1>. QED  BY <1>1, <1>2, <1>3, <1>7, <1>9, <1>10, <1>12 DEF Writes

----------------------------------------------------------------------------
(* The inductive invariant: after n of the calls of sensor_init, what those  *)
(* calls were to set up is set up, and nothing set up before is undone.      *)
SetUp(r, n) ==
  /\ n >= 2 => /\ r[33] = IF n < 6 THEN {} ELSE IF n < 8 THEN {2} ELSE {2, 3}
               /\ r[34] = {} /\ r[35] = {}
               /\ IF n < 13 THEN r[31] = {} ELSE r[31] \subseteq {2, 3}
               /\ r[32] = IF n < 10 THEN {} ELSE {7}
  /\ n >= 3 => GetBits(r[25], POWER_MODE) = NORMAL
  /\ n >= 4 => /\ GetBits(r[26], RANGE) = 0 /\ GetBits(r[26], ODR) = 8
               /\ GetBits(r[27], DATA_FILTER) = 0
  /\ n >= 6 => NoRefs(get_gen_int(r, GEN1_CONFIG)) = Activity
  /\ n >= 8 => NoRefs(get_gen_int(r, GEN2_CONFIG)) = Inactivity
  /\ n >= 9 => GetBits(r[36], PIN1_CONF) = 1

Left(n) == [i \in 1 .. 13 - n |-> Start[n + i]]

StartInv ==
  /\ regs \in Chip /\ driver \in {"boot", "running", "dead", "off"}
  /\ driver = "boot" => \E n \in 0 .. 12 : todo = Left(n) /\ SetUp(regs, n)
  /\ driver = "running" => SetUp(regs, 13)

LEMMA LeftIs ==
  ASSUME NEW n \in 0 .. 12
  PROVE  Left(n) # <<>> /\ Head(Left(n)) = Start[n + 1] /\ Tail(Left(n)) = Left(n + 1) /\ Len(Left(n)) = 13 - n
<1>1. PICK m \in Nat : m = 13 - n
  OBVIOUS
<1>2. m >= 1 /\ 13 - (n + 1) = m - 1
  BY <1>1
<1>3. PICK l : l = [i \in 1 .. m |-> Start[n + i]]
  OBVIOUS
<1>4. l = Left(n)
  BY <1>1, <1>3 DEF Left
<1>5. Len(l) = m /\ l # <<>>
  BY <1>2, <1>3
<1>6. Head(l) = Start[n + 1]
  BY <1>2, <1>3, <1>5
<1>7. Tail(l) = [i \in 1 .. m - 1 |-> Start[n + 1 + i]]
  <2>1. Tail(l) = [i \in 1 .. m - 1 |-> l[i + 1]]
    BY <1>2, <1>3, <1>5
  <2>2. \A i \in 1 .. m - 1 : l[i + 1] = Start[n + 1 + i]
    BY <1>2, <1>3
  <2>. QED  BY <2>1, <2>2
<1>8. Left(n + 1) = [i \in 1 .. m - 1 |-> Start[n + 1 + i]]
  BY <1>2 DEF Left
<1>. QED  BY <1>1, <1>4, <1>5, <1>6, <1>7, <1>8

(* Registers a call leaves alone keep what was set up.                       *)
LEMMA StaySetUp ==
  ASSUME NEW r, NEW q, NEW S, Kept(r, q, S)
  PROVE  /\ \A x \in {25, 26, 27, 31, 32, 33, 34, 35, 36} : x \notin S => q[x] = r[x]
         /\ S \cap (63 .. 73) = {} => get_gen_int(q, GEN1_CONFIG) = get_gen_int(r, GEN1_CONFIG)
         /\ S \cap (74 .. 84) = {} => get_gen_int(q, GEN2_CONFIG) = get_gen_int(r, GEN2_CONFIG)
<1>1. \A x \in {25, 26, 27, 31, 32, 33, 34, 35, 36} : x \notin S => q[x] = r[x]
  BY AddrNat DEF Kept
<1>2. S \cap (63 .. 73) = {} => \A x \in 63 .. 63 + 10 : q[x] = r[x]
  BY DEF Kept, Addr
<1>3. S \cap (74 .. 84) = {} => \A x \in 74 .. 74 + 10 : q[x] = r[x]
  BY DEF Kept, Addr
<1>4. S \cap (63 .. 73) = {} => get_gen_int(q, GEN1_CONFIG) = get_gen_int(r, GEN1_CONFIG)
  BY <1>2, SameSettings DEF GEN1_CONFIG
<1>5. S \cap (74 .. 84) = {} => get_gen_int(q, GEN2_CONFIG) = get_gen_int(r, GEN2_CONFIG)
  BY <1>3, SameSettings DEF GEN2_CONFIG
<1>. QED  BY <1>1, <1>4, <1>5

(* Arming and disarming a detector undo nothing.                             *)
LEMMA SwitchedSetUp ==
  ASSUME NEW r \in Chip, NEW n \in 10 .. 13, NEW m \in 10 .. 13, SetUp(r, n),
         NEW byte, NEW q, q = [r EXCEPT ![31] = byte],
         IF m < 13 THEN byte = {} ELSE byte \subseteq {2, 3}
  PROVE  SetUp(q, m)
<1>1. Kept(r, q, {31}) /\ q[31] = byte
  BY AddrNat DEF Kept, Chip
<1>2. /\ q[25] = r[25] /\ q[26] = r[26] /\ q[27] = r[27] /\ q[32] = r[32]
      /\ q[33] = r[33] /\ q[34] = r[34] /\ q[35] = r[35] /\ q[36] = r[36]
  BY <1>1, StaySetUp
<1>3. /\ get_gen_int(q, GEN1_CONFIG) = get_gen_int(r, GEN1_CONFIG)
      /\ get_gen_int(q, GEN2_CONFIG) = get_gen_int(r, GEN2_CONFIG)
  BY <1>1, StaySetUp
<1>. QED  BY <1>1, <1>2, <1>3 DEF SetUp

LEMMA CallsSetUp ==
  ASSUME regs \in Chip, NEW n \in 0 .. 12, SetUp(regs, n),
         NEW q, q = Written(regs, Writes(Start[n + 1]))
  PROVE  SetUp(q, n + 1)
<1> DEFINE call == Start[n + 1]
<1>a. /\ n = 0 => call = "probe"
      /\ n = 1 => call = "reset"
      /\ n = 2 => call = "normal"
      /\ n = 3 => call = "accel"
      /\ n = 4 => call = "get_activity"
      /\ n = 5 => call = "activity"
      /\ n = 6 => call = "get_inactivity"
      /\ n = 7 => call = "inactivity"
      /\ n = 8 => call = "pin"
      /\ n = 9 => call = "latch"
      /\ n = 10 => call = "gen2_off"
      /\ n = 11 => call = "gen1_off"
      /\ n = 12 => call = "worker"
  BY DEF Start
<1>b. q = Written(regs, Writes(call))
  OBVIOUS
<1> HIDE DEF call
<1>1. CASE n \in {0, 4, 6, 12}
  <2>1. Writes(call) = <<>>
    BY <1>a, <1>1 DEF Writes
  <2>2. q = regs
    BY <1>b, <2>1, NothingWritten
  <2>. QED  BY <1>1, <2>2 DEF SetUp
<1>2. CASE n = 1
  <2>1. q = Default
    BY <1>a, <1>b, <1>2, ResetDone
  <2>2. q[33] = {} /\ q[34] = {} /\ q[35] = {} /\ q[31] = {} /\ q[32] = {}
    BY <2>1, AddrNat DEF Default
  <2>. QED  BY <1>2, <2>2 DEF SetUp
<1>3. CASE n = 2
  <2>1. q = Written(regs, set_power_mode(2))
    BY <1>a, <1>b, <1>3 DEF Writes, NORMAL
  <2>2. GetBits(q[25], POWER_MODE) = NORMAL /\ Kept(regs, q, {25})
    BY <2>1, PowerModeDone DEF NORMAL
  <2>3. q[33] = regs[33] /\ q[34] = regs[34] /\ q[35] = regs[35] /\ q[31] = regs[31] /\ q[32] = regs[32]
    BY <2>2, StaySetUp
  <2>. QED  BY <1>3, <2>2, <2>3 DEF SetUp
<1>4. CASE n = 3
  <2>1. /\ Kept(regs, q, {25, 26, 27, 33, 34, 35})
        /\ GetBits(q[25], POWER_MODE) = GetBits(regs[25], POWER_MODE)
        /\ GetBits(q[26], RANGE) = 0 /\ GetBits(q[26], ODR) = 8 /\ GetBits(q[27], DATA_FILTER) = 0
        /\ q[33] = regs[33] \ {7} /\ q[34] = regs[34] \ {7} /\ q[35] = regs[35]
    BY <1>a, <1>b, <1>4, AccelDone
  <2>2. q[31] = regs[31] /\ q[32] = regs[32]
    BY <2>1, StaySetUp
  <2>. QED  BY <1>4, <2>1, <2>2 DEF SetUp
<1>5. CASE n = 5
  <2>1. q = Written(regs, set_sensor_conf(set_gen_int(GEN1_CONFIG, Activity), "gen1", "channel_1"))
    BY <1>a, <1>b, <1>5 DEF Writes
  <2>2. /\ Kept(regs, q, GenRegs(GEN1_CONFIG) \cup {33, 34, 35})
        /\ get_gen_int(q, GEN1_CONFIG) = WithRef(Activity, get_gen_int(regs, GEN1_CONFIG).ref)
        /\ q[33] = regs[33] \cup {2} /\ q[34] = regs[34] /\ q[35] = regs[35]
    <3>1. GenEffect(q, GEN1_CONFIG, Activity, "gen1")
      BY <2>1, SettingsLegal, GenDone DEF Gens
    <3>2. OwnBit("gen1") = 2
      BY DEF OwnBit
    <3>. QED  BY <3>1, <3>2, SettingsLegal DEF GenEffect
  <2>3. /\ q[25] = regs[25] /\ q[26] = regs[26] /\ q[27] = regs[27] /\ q[31] = regs[31] /\ q[32] = regs[32]
    BY <2>2, StaySetUp DEF GenRegs, GEN1_CONFIG, GEN2_CONFIG
  <2>4. NoRefs(get_gen_int(q, GEN1_CONFIG)) = Activity
    BY <2>2, SettingsLegal, NoRefsOf
  <2>. QED  BY <1>5, <2>2, <2>3, <2>4 DEF SetUp
<1>6. CASE n = 7
  <2>1. q = Written(regs, set_sensor_conf(set_gen_int(GEN2_CONFIG, Inactivity), "gen2", "channel_1"))
    BY <1>a, <1>b, <1>6 DEF Writes
  <2>2. /\ Kept(regs, q, GenRegs(GEN2_CONFIG) \cup {33, 34, 35})
        /\ get_gen_int(q, GEN2_CONFIG) = WithRef(Inactivity, get_gen_int(regs, GEN2_CONFIG).ref)
        /\ q[33] = regs[33] \cup {3} /\ q[34] = regs[34] /\ q[35] = regs[35]
    <3>1. GenEffect(q, GEN2_CONFIG, Inactivity, "gen2")
      BY <2>1, SettingsLegal, GenDone DEF Gens
    <3>2. OwnBit("gen2") = 3
      BY DEF OwnBit
    <3>. QED  BY <3>1, <3>2, SettingsLegal DEF GenEffect
  <2>3. /\ q[25] = regs[25] /\ q[26] = regs[26] /\ q[27] = regs[27] /\ q[31] = regs[31] /\ q[32] = regs[32]
        /\ get_gen_int(q, GEN1_CONFIG) = get_gen_int(regs, GEN1_CONFIG)
    BY <2>2, StaySetUp DEF GenRegs, GEN1_CONFIG, GEN2_CONFIG
  <2>4. NoRefs(get_gen_int(q, GEN2_CONFIG)) = Inactivity
    BY <2>2, SettingsLegal, NoRefsOf
  <2>. QED  BY <1>6, <2>2, <2>3, <2>4 DEF SetUp
<1>7. CASE n = 8
  <2>1. Kept(regs, q, {36}) /\ GetBits(q[36], PIN1_CONF) = 1
    BY <1>a, <1>b, <1>7, PinDone
  <2>2. /\ q[25] = regs[25] /\ q[26] = regs[26] /\ q[27] = regs[27] /\ q[31] = regs[31] /\ q[32] = regs[32]
        /\ q[33] = regs[33] /\ q[34] = regs[34] /\ q[35] = regs[35]
    BY <2>1, StaySetUp
  <2>3. /\ get_gen_int(q, GEN1_CONFIG) = get_gen_int(regs, GEN1_CONFIG)
        /\ get_gen_int(q, GEN2_CONFIG) = get_gen_int(regs, GEN2_CONFIG)
    BY <2>1, StaySetUp
  <2>. QED  BY <1>7, <2>1, <2>2, <2>3 DEF SetUp
<1>8. CASE n = 9
  <2>1. Switches(Writes(call), 2, 7, 1)
    BY <1>a, <1>8, SwitchesDone
  <2>2. Len(Writes(call)) = 2 /\ \A j \in 0 .. 2 : Stages(regs, Writes(call))[j]
                               = IF j < 2 THEN regs ELSE [regs EXCEPT ![32] = regs[32] \cup {7}]
    BY <2>1 DEF Switches
  <2>3. q = [regs EXCEPT ![32] = regs[32] \cup {7}]
    BY <1>b, <2>2 DEF Written
  <2>4. Kept(regs, q, {32}) /\ q[32] = regs[32] \cup {7}
    BY <2>3, AddrNat DEF Kept, Chip
  <2>5. /\ q[25] = regs[25] /\ q[26] = regs[26] /\ q[27] = regs[27] /\ q[31] = regs[31]
        /\ q[33] = regs[33] /\ q[34] = regs[34] /\ q[35] = regs[35] /\ q[36] = regs[36]
    BY <2>4, StaySetUp
  <2>6. /\ get_gen_int(q, GEN1_CONFIG) = get_gen_int(regs, GEN1_CONFIG)
        /\ get_gen_int(q, GEN2_CONFIG) = get_gen_int(regs, GEN2_CONFIG)
    BY <2>4, StaySetUp
  <2>. QED  BY <1>8, <2>4, <2>5, <2>6 DEF SetUp
<1>9. CASE n \in {10, 11}
  <2>1. PICK k \in {2, 3} : Switches(Writes(call), 1, k, 0)
    BY <1>a, <1>9, SwitchesDone
  <2>2. Len(Writes(call)) = 2 /\ \A j \in 0 .. 2 : Stages(regs, Writes(call))[j]
                               = IF j < 1 THEN regs ELSE [regs EXCEPT ![31] = regs[31] \ {k}]
    BY <2>1 DEF Switches
  <2>3. q = [regs EXCEPT ![31] = regs[31] \ {k}]
    BY <1>b, <2>2 DEF Written
  <2>4. regs[31] \ {k} = {}
    BY <1>9 DEF SetUp
  <2>5. n \in 10 .. 13 /\ n + 1 \in 10 .. 13 /\ n + 1 < 13
    BY <1>9
  <2>. QED  BY <2>3, <2>4, <2>5, SwitchedSetUp
<1>. QED  BY <1>1, <1>2, <1>3, <1>4, <1>5, <1>6, <1>7, <1>8, <1>9

(* A call that succeeds, and one that breaks off, leave a chip.              *)
LEMMA CallsType ==
  ASSUME regs \in Chip, NEW call
  PROVE  /\ Done(call) => regs' = Written(regs, Writes(call)) /\ regs' \in Chip
         /\ Breaks(call) => regs' \in Chip
<1>1. \A k \in 0 .. Len(Writes(call)) : Stages(regs, Writes(call))[k] \in Chip
  BY WritesType, StagesType
<1>2. Len(Writes(call)) \in 0 .. Len(Writes(call))
  BY WritesType
<1>. QED  BY <1>1, <1>2 DEF Done, Breaks, Written

(* What arming and disarming do, all the way or part of it.                  *)
LEMMA SwitchSteps ==
  ASSUME regs \in Chip, NEW call \in {"gen1_on", "gen1_off", "gen2_on", "gen2_off"}
  PROVE  \E k \in {2, 3} : \E byte :
           /\ byte = IF call \in {"gen1_on", "gen2_on"} THEN regs[31] \cup {k} ELSE regs[31] \ {k}
           /\ k = IF call \in {"gen1_on", "gen1_off"} THEN 2 ELSE 3
           /\ Done(call) => regs' = [regs EXCEPT ![31] = byte]
           /\ Breaks(call) => regs' = regs \/ regs' = [regs EXCEPT ![31] = byte]
<1>1. PICK k \in {2, 3}, conf \in {0, 1} :
        /\ Switches(Writes(call), 1, k, conf)
        /\ conf = IF call \in {"gen1_on", "gen2_on"} THEN 1 ELSE 0
        /\ k = IF call \in {"gen1_on", "gen1_off"} THEN 2 ELSE 3
  BY SwitchesDone
<1>2. PICK byte : byte = IF conf = 1 THEN regs[31] \cup {k} ELSE regs[31] \ {k}
  OBVIOUS
<1>3. Len(Writes(call)) = 2 /\ \A j \in 0 .. 2 : Stages(regs, Writes(call))[j]
                              = IF j < 1 THEN regs ELSE [regs EXCEPT ![31] = byte]
  BY <1>1, <1>2 DEF Switches
<1>4. Done(call) => regs' = [regs EXCEPT ![31] = byte]
  BY <1>3 DEF Done, Written
<1>5. Breaks(call) => regs' = regs \/ regs' = [regs EXCEPT ![31] = byte]
  BY <1>3 DEF Breaks
<1>. QED  BY <1>1, <1>2, <1>4, <1>5

LEMMA AllLeft == Start = Left(0)
<1>1. Start = [i \in 1 .. 13 |-> Start[i]]
  BY DEF Start
<1>2. \A i \in 1 .. 13 : 0 + i = i
  OBVIOUS
<1>. QED  BY <1>1, <1>2 DEF Left

LEMMA StartInvInit == ChipInit => StartInv
<1> SUFFICES ASSUME ChipInit PROVE StartInv
  OBVIOUS
<1>1. [a \in Addr |-> 0 .. 7] \in Chip
  BY DEF Chip, Byte
<1>2. regs \in Chip /\ driver = "boot" /\ todo = Start
  BY <1>1, DefaultType DEF ChipInit
<1>3. Start = Left(0)
  BY AllLeft
<1>4. SetUp(regs, 0)
  BY DEF SetUp
<1>. QED  BY <1>2, <1>3, <1>4 DEF StartInv

LEMMA StartInvStep == StartInv /\ [ChipNext]_chip_vars => StartInv'
<1> SUFFICES ASSUME StartInv, [ChipNext]_chip_vars PROVE StartInv'
  OBVIOUS
<1>1. regs \in Chip
  BY DEF StartInv
<1>2. CASE sensor_init
  <2>1. PICK n \in 0 .. 12 : todo = Left(n) /\ SetUp(regs, n)
    BY <1>2 DEF StartInv, sensor_init
  <2>2. Head(todo) = Start[n + 1] /\ Tail(todo) = Left(n + 1) /\ Len(todo) = 13 - n
    BY <2>1, LeftIs
  <2>3. CASE Breaks(Head(todo))
    BY <1>1, <2>3, CallsType DEF StartInv, Breaks
  <2>4. CASE Done(Head(todo)) /\ todo' = Tail(todo) /\ driver' = IF Len(todo) = 1 THEN "running" ELSE "boot"
    <3>1. regs' = Written(regs, Writes(Start[n + 1])) /\ regs' \in Chip
      BY <1>1, <2>2, <2>4, CallsType
    <3>2. SetUp(regs', n + 1)
      BY <1>1, <2>1, <3>1, CallsSetUp
    <3>3. CASE n = 12
      BY <2>2, <2>4, <3>1, <3>2, <3>3 DEF StartInv
    <3>4. CASE n \in 0 .. 11
      <4>1. driver' = "boot" /\ todo' = Left(n + 1) /\ n + 1 \in 0 .. 12
        BY <2>2, <2>4, <3>4
      <4>. QED  BY <3>1, <3>2, <4>1 DEF StartInv
    <3>. QED  BY <3>3, <3>4
  <2>. QED  BY <1>2, <2>3, <2>4 DEF sensor_init
<1>3. ASSUME NEW call \in {"gen1_on", "gen1_off", "gen2_on", "gen2_off"}, sensor_task(call)
      PROVE  StartInv'
  <2>1. SetUp(regs, 13) /\ driver = "running"
    BY <1>3 DEF StartInv, sensor_task
  <2>2. CASE Breaks(call)
    BY <1>1, <2>2, CallsType DEF StartInv, Breaks
  <2>3. CASE Done(call) /\ UNCHANGED <<driver, todo>>
    <3>0. PICK k \in {2, 3} : \E byte :
            /\ byte = IF call \in {"gen1_on", "gen2_on"} THEN regs[31] \cup {k} ELSE regs[31] \ {k}
            /\ regs' = [regs EXCEPT ![31] = byte]
      BY <1>1, <2>3, SwitchSteps
    <3>1. PICK byte :
            /\ byte = IF call \in {"gen1_on", "gen2_on"} THEN regs[31] \cup {k} ELSE regs[31] \ {k}
            /\ regs' = [regs EXCEPT ![31] = byte]
      BY <3>0
    <3>2. byte \subseteq {2, 3}
      BY <2>1, <3>1 DEF SetUp
    <3>3. SetUp(regs', 13)
      <4>1. PICK q : q = regs'
        OBVIOUS
      <4>2. PICK m \in 10 .. 13 : m = 13
        OBVIOUS
      <4>3. q = [regs EXCEPT ![31] = byte] /\ ~ (m < 13) /\ SetUp(regs, m)
        BY <2>1, <3>1, <4>1, <4>2
      <4>4. SetUp(q, m)
        BY <1>1, <3>2, <4>3, SwitchedSetUp
      <4>. QED  BY <4>1, <4>2, <4>4
    <3>4. regs' \in Chip
      BY <1>1, <2>3, CallsType
    <3>. QED  BY <2>1, <2>3, <3>3, <3>4 DEF StartInv
  <2>. QED  BY <1>3, <2>2, <2>3 DEF sensor_task
<1>4. CASE sensor_deinit
  BY <1>1, <1>4, CallsType DEF sensor_deinit, StartInv
<1>5. CASE Reboot
  <2>1. Start = Left(0)
    BY AllLeft
  <2>2. SetUp(regs', 0)
    BY DEF SetUp
  <2>. QED  BY <1>1, <1>5, <2>1, <2>2 DEF Reboot, StartInv
<1>6. CASE UNCHANGED chip_vars
  BY <1>6 DEF chip_vars, StartInv
<1>. QED  BY <1>2, <1>3, <1>4, <1>5, <1>6 DEF ChipNext

(* After any number of the calls of sensor_init, in a first start or in one  *)
(* after calls that failed halfway, everything those calls were to set up is *)
(* set up, and after the last of them it stays so: no later call, and no     *)
(* switching of an interrupt, undoes what an earlier one wrote.              *)
THEOREM StartedInOrder == ChipSpec => []StartInv
<1>. QED  BY StartInvInit, StartInvStep, PTL DEF ChipSpec

LEMMA RoutingAsMeant ==
  ASSUME NEW d, d = << {2, 3}, {}, {} >>, NEW int \in Interrupts
  PROVE  get_int_pin_map(d, int) = IF int \in {"gen1", "gen2"} THEN "channel_1" ELSE "unmap"
<1>1. d[1] = {2, 3} /\ d[2] = {} /\ d[3] = {}
  OBVIOUS
<1> DEFINE pins == {pin \in {1, 2} : Route(int)[pin][2] \in d[Route(int)[pin][1]]}
<1>2. pins = IF int \in {"gen1", "gen2"} THEN {1} ELSE {}
  <2>1. CASE int \in DOMAIN Own
    <3>1. Route(int) = << <<1, Own[int]>>, <<2, Own[int]>> >>
      BY <2>1 DEF Route
    <3>2. Own[int] \in {2, 3} <=> int \in {"gen1", "gen2"}
      BY <2>1 DEF Own
    <3>3. Route(int)[1][1] = 1 /\ Route(int)[1][2] = Own[int] /\ Route(int)[2][1] = 2
      BY <3>1
    <3>. QED  BY <1>1, <3>2, <3>3
  <2>2. CASE int \notin DOMAIN Own
    <3>1. Route(int) = << <<3, Shared[int][1]>>, <<3, Shared[int][2]>> >>
      BY <2>2 DEF Route
    <3>2. Route(int)[1][1] = 3 /\ Route(int)[2][1] = 3
      BY <3>1
    <3>3. int \notin {"gen1", "gen2"}
      BY <2>2 DEF Own
    <3>. QED  BY <1>1, <3>2, <3>3
  <2>. QED  BY <2>1, <2>2
<1> HIDE DEF pins
<1>3. /\ Wanted("channel_1") = {1} /\ Wanted("channel_2") = {2}
      /\ Wanted("both") = {1, 2} /\ Wanted("unmap") = {}
  BY DEF Wanted
<1>4. get_int_pin_map(d, int) = CHOOSE chan \in Channels : Wanted(chan) = pins
  BY DEF get_int_pin_map, pins
<1>5. CASE int \in {"gen1", "gen2"}
  <2>1. \A chan \in Channels : Wanted(chan) = pins <=> chan = "channel_1"
    BY <1>2, <1>3, <1>5 DEF Channels
  <2>. QED  BY <1>4, <1>5, <2>1 DEF Channels
<1>6. CASE int \notin {"gen1", "gen2"}
  <2>1. \A chan \in Channels : Wanted(chan) = pins <=> chan = "unmap"
    BY <1>2, <1>3, <1>6 DEF Channels
  <2>. QED  BY <1>4, <1>6, <2>1 DEF Channels
<1>. QED  BY <1>5, <1>6

(* A sensor sensor_init has started is set up as its caller meant, for any   *)
(* number of failing transfers and of restarts: the two interrupts have the  *)
(* settings of activity and inactivity, each is routed to its channel and to *)
(* nothing else, and the pin and the latch are as they were asked for.       *)
THEOREM AlwaysAsConfigured == ChipSpec => []RunsAsConfigured
<1>1. StartInv => RunsAsConfigured
  <2> SUFFICES ASSUME StartInv, driver = "running" PROVE ConfiguredAsMeant
    BY DEF RunsAsConfigured
  <2>1. SetUp(regs, 13) /\ regs \in Chip
    BY DEF StartInv
  <2>2. PICK d : d = Read(INT_MAP, 3)
    OBVIOUS
  <2>3. d = << {2, 3}, {}, {} >>
    <3>1. regs[33] = {2, 3} /\ regs[34] = {} /\ regs[35] = {}
      BY <2>1 DEF SetUp
    <3>2. d \in Seq(Byte) /\ Len(d) = 3 /\ d[1] = {2, 3} /\ d[2] = {} /\ d[3] = {}
      BY <2>1, <2>2, <3>1, ReadIs
    <3>. QED  BY <3>2
  <2>4. \A int \in Interrupts :
          get_int_pin_map(d, int) = IF int \in {"gen1", "gen2"} THEN "channel_1" ELSE "unmap"
    BY <2>3, RoutingAsMeant
  <2>5. regs[31] \subseteq {2, 3} /\ regs[32] = {7} /\ GetBits(regs[25], POWER_MODE) = NORMAL
        /\ GetBits(regs[26], RANGE) = 0 /\ GetBits(regs[26], ODR) = 8 /\ GetBits(regs[27], DATA_FILTER) = 0
        /\ GetBits(regs[36], PIN1_CONF) = 1
    BY <2>1 DEF SetUp
  <2>6. /\ [get_gen_int(regs, GEN1_CONFIG) EXCEPT !.ref = <<0, 0, 0>>] = Activity
        /\ [get_gen_int(regs, GEN2_CONFIG) EXCEPT !.ref = <<0, 0, 0>>] = Inactivity
    BY <2>1 DEF SetUp, NoRefs
  <2>. QED  BY <2>2, <2>4, <2>5, <2>6 DEF ConfiguredAsMeant, INT_CONF, INT_12_IO
<1>. QED  BY <1>1, StartedInOrder, PTL

(* In every state of the driver the settings that are written are the ones   *)
(* that are read back.                                                       *)
THEOREM SettingsAlwaysReadBack == ChipSpec => []GenConfReadsBack
<1>1. StartInv => GenConfReadsBack
  BY SettingsReadBack, GenConfsLegal DEF StartInv, GenConfReadsBack
<1>. QED  BY <1>1, StartedInOrder, PTL

(* Every step is a step of Detectors or changes nothing it can see.          *)
Shows(armed, byte) ==
  armed \subseteq {"gen1", "gen2"} /\ ("gen1" \in armed <=> 2 \in byte) /\ ("gen2" \in armed <=> 3 \in byte)
Turned(x, y, z) == y = x \cup {z} \/ y = x \ {z}

LEMMA ArmedAre == Shows(Armed, regs[31])
BY DEF Armed, EnableBit, INT_CONF, Shows

LEMMA SwitchedBits ==
  ASSUME NEW old, NEW now, NEW b, NEW c, NEW k \in {2, 3}, NEW d, d = IF k = 2 THEN "gen1" ELSE "gen2",
         Shows(old, b), Shows(now, c), Turned(b, c, k)
  PROVE  Turned(old, now, d)
<1>a. /\ old \subseteq {"gen1", "gen2"} /\ ("gen1" \in old <=> 2 \in b) /\ ("gen2" \in old <=> 3 \in b)
      /\ now \subseteq {"gen1", "gen2"} /\ ("gen1" \in now <=> 2 \in c) /\ ("gen2" \in now <=> 3 \in c)
      /\ c = b \cup {k} \/ c = b \ {k}
  BY DEF Shows, Turned
<1>1. \A x : x \in old => x = "gen1" \/ x = "gen2"
  BY <1>a
<1>2. \A x : x \in now => x = "gen1" \/ x = "gen2"
  BY <1>a
<1>3. CASE k = 2
  <2>1. ("gen2" \in now <=> "gen2" \in old) /\ d = "gen1"
    BY <1>a, <1>3
  <2>. QED  BY <1>1, <1>2, <2>1 DEF Turned
<1>4. CASE k = 3
  <2>1. ("gen1" \in now <=> "gen1" \in old) /\ d = "gen2"
    BY <1>a, <1>4
  <2>. QED  BY <1>1, <1>2, <2>1 DEF Turned
<1>. QED  BY <1>3, <1>4

(* Seen through its registers the driver is the pair of detectors the sensor *)
(* task is written against: none is armed until all of sensor_init is done,  *)
(* and from then on a call arms or disarms the one it names or, failing,     *)
(* leaves both as they were or does that.  Every step maps to a step of      *)
(* Detectors or to none.                                                     *)
THEOREM DriverImplementsDetectors == ChipSpec => ImplementsDetectors
<1>1. ChipInit => AsDetectors!Init
  BY ArmedAre DEF ChipInit, AsDetectors!Init, AsDetectors!Gen, Shows
<1>2. StartInv /\ [ChipNext]_chip_vars => [AsDetectors!Next]_<<driver = "running", Armed>>
  <2> SUFFICES ASSUME StartInv, [ChipNext]_chip_vars
               PROVE  [AsDetectors!Next]_<<driver = "running", Armed>>
    OBVIOUS
  <2>1. regs \in Chip
    BY DEF StartInv
  <2>2. Armed \in SUBSET {"gen1", "gen2"} /\ Armed' \in SUBSET {"gen1", "gen2"}
    BY DEF Armed
  <2>3. CASE driver # "running" /\ driver' # "running"
    BY <2>2, <2>3 DEF AsDetectors!Next, AsDetectors!Unready, AsDetectors!Gen
  <2>4. CASE sensor_init
    <3>1. driver = "boot"
      BY <2>4 DEF sensor_init
    <3>2. CASE driver' = "running"
      <4>1. PICK n \in 0 .. 12 : todo = Left(n) /\ SetUp(regs, n)
        BY <3>1 DEF StartInv
      <4>2. Head(todo) = Start[n + 1] /\ Len(todo) = 13 - n
        BY <4>1, LeftIs
      <4>3. Done(Head(todo)) /\ Len(todo) = 1
        BY <2>4, <3>2 DEF sensor_init, Breaks
      <4>4. n = 12
        <5>1. 13 - n = 1
          BY <4>2, <4>3
        <5>. QED  BY <5>1
      <4>5. Head(todo) = "worker"
        BY <4>2, <4>4 DEF Start
      <4>6. Writes("worker") = <<>>
        BY DEF Writes
      <4>7. regs' = regs
        BY <4>3, <4>5, <4>6, NothingWritten DEF Done
      <4>8. regs[31] = {}
        BY <4>1, <4>4 DEF SetUp
      <4>9. Armed' = {}
        BY <4>7, <4>8 DEF Armed, EnableBit, INT_CONF
      <4>. QED  BY <3>1, <3>2, <4>9 DEF AsDetectors!Next, AsDetectors!Started
    <3>. QED  BY <2>3, <3>1, <3>2
  <2>5. ASSUME NEW call \in {"gen1_on", "gen1_off", "gen2_on", "gen2_off"}, sensor_task(call)
        PROVE  [AsDetectors!Next]_<<driver = "running", Armed>>
    <3>1. driver = "running"
      BY <2>5 DEF sensor_task
    <3>0. PICK k \in {2, 3} : \E byte :
            /\ byte = IF call \in {"gen1_on", "gen2_on"} THEN regs[31] \cup {k} ELSE regs[31] \ {k}
            /\ Done(call) => regs' = [regs EXCEPT ![31] = byte]
            /\ Breaks(call) => regs' = regs \/ regs' = [regs EXCEPT ![31] = byte]
      BY <2>1, SwitchSteps
    <3>2. PICK byte :
            /\ byte = IF call \in {"gen1_on", "gen2_on"} THEN regs[31] \cup {k} ELSE regs[31] \ {k}
            /\ Done(call) => regs' = [regs EXCEPT ![31] = byte]
            /\ Breaks(call) => regs' = regs \/ regs' = [regs EXCEPT ![31] = byte]
      BY <3>0
    <3>3. PICK d \in {"gen1", "gen2"} : d = IF k = 2 THEN "gen1" ELSE "gen2"
      OBVIOUS
    <3>4. ASSUME regs' = [regs EXCEPT ![31] = byte]
          PROVE  Armed' = Armed \cup {d} \/ Armed' = Armed \ {d}
      <4>1. regs'[31] = byte
        BY <2>1, <3>4, AddrNat DEF Chip
      <4>2. Armed' \subseteq {"gen1", "gen2"} /\ ("gen1" \in Armed' <=> 2 \in byte) /\ ("gen2" \in Armed' <=> 3 \in byte)
        BY <4>1 DEF Armed, EnableBit, INT_CONF
      <4>3. Turned(regs[31], byte, k)
        BY <3>2 DEF Turned
      <4>4. PICK old, now, b : old = Armed /\ now = Armed' /\ b = regs[31]
        OBVIOUS
      <4>5. Shows(old, b) /\ Shows(now, byte) /\ Turned(b, byte, k)
        BY <4>2, <4>3, <4>4, ArmedAre DEF Shows
      <4>6. Turned(old, now, d)
        BY <3>3, <4>5, SwitchedBits
      <4>. QED  BY <4>4, <4>6 DEF Turned
    <3>5. CASE Done(call) /\ UNCHANGED <<driver, todo>>
      BY <3>1, <3>2, <3>3, <3>4, <3>5 DEF AsDetectors!Next, AsDetectors!Switch, AsDetectors!Switched, AsDetectors!Gen
    <3>6. CASE Breaks(call)
      <4>1. driver' = "dead"
        BY <3>6 DEF Breaks
      <4>2. regs' = regs => Armed' = Armed
        BY DEF Armed
      <4>. QED  BY <3>1, <3>2, <3>3, <3>4, <3>6, <4>1, <4>2
                DEF AsDetectors!Next, AsDetectors!GiveUp, AsDetectors!Switched, AsDetectors!Gen
    <3>. QED  BY <2>5, <3>5, <3>6 DEF sensor_task
  <2>6. CASE sensor_deinit
    BY <2>3, <2>6 DEF sensor_deinit
  <2>7. CASE Reboot
    <3>1. Armed' = Armed /\ driver' = "boot"
      BY <2>7 DEF Reboot, Armed
    <3>. QED  BY <2>3, <3>1 DEF AsDetectors!Next, AsDetectors!GiveUp
  <2>8. CASE UNCHANGED chip_vars
    BY <2>8 DEF chip_vars, Armed
  <2>. QED  BY <2>4, <2>5, <2>6, <2>7, <2>8 DEF ChipNext
<1>. QED  BY <1>1, <1>2, StartedInOrder, PTL DEF ChipSpec, ImplementsDetectors, AsDetectors!Spec

----------------------------------------------------------------------------
(* The display                                                               *)

Label    == {"blank", "text", "address", "pairing_code", "station_IP"}
Char     == Label \X Nat
Position == Row \X (0 .. Ram - 1)
Display  == [ram : [Row -> [0 .. Ram - 1 -> Char]], cursor : Position, in_step : BOOLEAN]
Device   == [on : BOOLEAN, mutex : {"none", "live", "deleted"}, pins : SUBSET Row, pos : Position]
State    == [chip : Display, dev : Device]

AllClears == {ClearDisplay}
AllGoTos  == {GoTo(at[1], at[2]) : at \in Position}
AllPuts   == {PutChar(ch) : ch \in Char}
AllPos    == {SetPos(at) : at \in Position}
AllPins   == {SetPins(pins) : pins \in SUBSET Row}
Command   == AllClears \cup AllGoTos \cup AllPuts \cup AllPos \cup AllPins

LEMMA Sizes ==
  /\ Cols \in Nat /\ Cols > 0 /\ Ram \in Nat /\ Ram >= 2 * Cols /\ Cols < Ram
  /\ 0 \in 0 .. Ram - 1 /\ Cols - 1 \in 0 .. Ram - 1 /\ 0 \in Row /\ 1 \in Row
BY LcdAssumption DEF Row

LEMMA Places ==
  /\ \A r \in Row, c \in 0 .. Cols - 1 : <<r, c>> \in Position
  /\ <<0, 0>> \in Position /\ <<1, 0>> \in Position /\ <<1, Cols - 1>> \in Position
BY Sizes DEF Position

LEMMA BlankChar == Blank \in Char
BY DEF Blank, Char, Label

LEMMA ClearedType == Cleared \in [Row -> [0 .. Ram - 1 -> Char]]
<1> DEFINE row == [c \in 0 .. Ram - 1 |-> Blank]
<1>1. row \in [0 .. Ram - 1 -> Char]
  BY BlankChar
<1>2. Cleared = [r \in Row |-> row]
  BY DEF Cleared
<1> HIDE DEF row
<1>. QED  BY <1>1, <1>2

LEMMA StartedType == Started \in Display
BY ClearedType, Places DEF Started, Display

----------------------------------------------------------------------------
(* A character at a time *)

LEMMA PutIs ==
  ASSUME NEW c \in Display, NEW ch \in Char, NEW r \in Row, NEW k \in 0 .. Ram - 1,
         c.cursor = <<r, k>>
  PROVE  /\ Put(c, ch) \in Display /\ Put(c, ch).in_step = c.in_step
         /\ k + 1 < Ram => Put(c, ch).cursor = <<r, k + 1>>
         /\ \A q \in Row, i \in 0 .. Ram - 1 :
              Put(c, ch).ram[q][i] = IF q = r /\ i = k THEN ch ELSE c.ram[q][i]
<1> DEFINE ram == [c.ram EXCEPT ![r][k] = ch]
           cursor == IF k + 1 < Ram THEN <<r, k + 1>> ELSE <<1 - r, 0>>
<1>1. c.cursor[1] = r /\ c.cursor[2] = k /\ c.ram \in [Row -> [0 .. Ram - 1 -> Char]]
  BY DEF Display
<1>2. ram \in [Row -> [0 .. Ram - 1 -> Char]]
  BY <1>1
<1>3. \A q \in Row, i \in 0 .. Ram - 1 : ram[q][i] = IF q = r /\ i = k THEN ch ELSE c.ram[q][i]
  BY <1>1
<1>4. cursor \in Position
  BY <1>1, Sizes DEF Position, Row
<1>5. Put(c, ch) = [c EXCEPT !.ram = ram, !.cursor = cursor]
  BY <1>1 DEF Put, Display
<1>6. k + 1 < Ram => cursor = <<r, k + 1>>
  OBVIOUS
<1> HIDE DEF ram, cursor
<1>7. /\ Put(c, ch).ram = ram /\ Put(c, ch).cursor = cursor /\ Put(c, ch).in_step = c.in_step
      /\ Put(c, ch) \in Display
  BY <1>2, <1>4, <1>5 DEF Display
<1>. QED  BY <1>3, <1>6, <1>7

LEMMA StepClear ==
  ASSUME NEW d \in State
  PROVE  LET e == Step(d, ClearDisplay)
         IN /\ e \in State /\ e.dev = d.dev /\ e.chip.in_step = d.chip.in_step
            /\ d.chip.in_step => e.chip.ram = Cleared /\ e.chip.cursor = <<0, 0>>
BY ClearedType, Places DEF Step, ClearDisplay, Transfer, State, Display

LEMMA StepGoTo ==
  ASSUME NEW d \in State, NEW at \in Position
  PROVE  LET e == Step(d, GoTo(at[1], at[2]))
         IN /\ e \in State /\ e.dev = d.dev /\ e.chip.in_step = d.chip.in_step
            /\ d.chip.in_step => e.chip.cursor = at
            /\ e.chip.ram = d.chip.ram
<1>1. <<at[1], at[2]>> = at
  BY DEF Position
<1>. QED  BY <1>1 DEF Step, GoTo, Transfer, State, Display

LEMMA StepPut ==
  ASSUME NEW d \in State, NEW ch \in Char
  PROVE  LET e == Step(d, PutChar(ch))
         IN /\ e \in State /\ e.dev = d.dev /\ e.chip.in_step = d.chip.in_step
            /\ d.chip.in_step => e.chip = Put(d.chip, ch)
<1>1. d.chip \in Display
  BY DEF State
<1>2. PICK r \in Row, k \in 0 .. Ram - 1 : d.chip.cursor = <<r, k>>
  BY <1>1 DEF Display, Position
<1>3. Put(d.chip, ch) \in Display /\ Put(d.chip, ch).in_step = d.chip.in_step
  BY <1>1, <1>2, PutIs
<1>. QED  BY <1>3 DEF Step, PutChar, Transfer, State

LEMMA StepPos ==
  ASSUME NEW d \in State, NEW at \in Position
  PROVE  LET e == Step(d, SetPos(at))
         IN /\ e \in State /\ e.chip = d.chip
            /\ e.dev.pos = at /\ e.dev.pins = d.dev.pins
            /\ e.dev.on = d.dev.on /\ e.dev.mutex = d.dev.mutex
BY DEF Step, SetPos, State, Device

LEMMA StepPins ==
  ASSUME NEW d \in State, NEW pins \in SUBSET Row
  PROVE  LET e == Step(d, SetPins(pins))
         IN /\ e \in State /\ e.chip = d.chip
            /\ e.dev.pos = d.dev.pos /\ e.dev.pins = pins
            /\ e.dev.on = d.dev.on /\ e.dev.mutex = d.dev.mutex
BY DEF Step, SetPins, State, Device

(* No step starts the display or puts it back in step with its driver.       *)
LEMMA StepKeeps ==
  ASSUME NEW d \in State, NEW b \in Command
  PROVE  /\ Step(d, b) \in State /\ Step(d, b).chip.in_step = d.chip.in_step
         /\ Step(d, b).dev.on = d.dev.on
<1>1. CASE b \in AllClears
  BY <1>1, StepClear DEF AllClears
<1>2. CASE b \in AllGoTos
  BY <1>2, StepGoTo DEF AllGoTos
<1>3. CASE b \in AllPuts
  BY <1>3, StepPut DEF AllPuts
<1>4. CASE b \in AllPos
  BY <1>4, StepPos DEF AllPos
<1>5. CASE b \in AllPins
  BY <1>5, StepPins DEF AllPins
<1>. QED  BY <1>1, <1>2, <1>3, <1>4, <1>5 DEF Command

----------------------------------------------------------------------------
(* A call, step by step *)

Now == [chip |-> chip, dev |-> lcd_dev]

IsRun(f, steps, n) ==
  f = [k \in 0 .. n |-> IF k = 0 THEN Now ELSE Step(f[k - 1], steps[k])]

(* The recursion has a solution, by induction on how far it goes.            *)
LEMMA RunDefined ==
  ASSUME NEW steps, Len(steps) \in Nat
  PROVE  IsRun(Ran(steps), steps, Len(steps))
<1> DEFINE S == {n \in Nat : \E f : IsRun(f, steps, n)}
<1>1. 0 \in S
  <2>1. IsRun([k \in 0 .. 0 |-> Now], steps, 0)
    BY DEF IsRun
  <2>. QED  BY <2>1
<1>2. ASSUME NEW n \in 0 .. Len(steps) - 1, n \in S PROVE n + 1 \in S
  <2>1. PICK f : IsRun(f, steps, n)
    BY <1>2
  <2> DEFINE g == [k \in 0 .. n + 1 |-> IF k = n + 1 THEN Step(f[n], steps[n + 1]) ELSE f[k]]
  <2>2. n \in Nat /\ n + 1 \in Nat
    OBVIOUS
  <2>3. g[n + 1] = Step(f[n], steps[n + 1]) /\ \A k \in 0 .. n : g[k] = f[k]
    BY <2>2
  <2>4. \A k \in 0 .. n : f[k] = IF k = 0 THEN Now ELSE Step(f[k - 1], steps[k])
    BY <2>1 DEF IsRun
  <2>5. ASSUME NEW k \in 0 .. n + 1
        PROVE  g[k] = IF k = 0 THEN Now ELSE Step(g[k - 1], steps[k])
    <3> HIDE DEF g
    <3>1. CASE k = n + 1
      BY <2>2, <2>3, <3>1
    <3>2. CASE k \in 0 .. n
      <4>1. k # 0 => k - 1 \in 0 .. n
        BY <2>2, <3>2
      <4>. QED  BY <2>3, <2>4, <3>2, <4>1
    <3>. QED  BY <2>2, <3>1, <3>2
  <2>6. IsRun(g, steps, n + 1)
    BY <2>5 DEF IsRun
  <2>. QED  BY <2>2, <2>6
<1>3. Len(steps) \in S
  <2> HIDE DEF S
  <2>1. 0 .. Len(steps) \subseteq S
    BY <1>1, <1>2, RangeInduction
  <2>. QED  BY <2>1
<1>4. \E f : IsRun(f, steps, Len(steps))
  BY <1>3
<1>. QED  BY <1>4 DEF Ran, IsRun, Now

LEMMA RunStep ==
  ASSUME NEW steps, Len(steps) \in Nat
  PROVE  /\ Ran(steps)[0] = Now
         /\ \A k \in 0 .. Len(steps) - 1 : Ran(steps)[k + 1] = Step(Ran(steps)[k], steps[k + 1])
<1> DEFINE s == Ran(steps)
<1>1. s = [k \in 0 .. Len(steps) |-> IF k = 0 THEN Now ELSE Step(s[k - 1], steps[k])]
  BY RunDefined DEF IsRun
<1> HIDE DEF s
<1>2. s[0] = Now
  BY <1>1
<1>3. ASSUME NEW k \in 0 .. Len(steps) - 1 PROVE s[k + 1] = Step(s[k], steps[k + 1])
  <2>1. k + 1 \in 0 .. Len(steps) /\ k + 1 # 0 /\ (k + 1) - 1 = k
    OBVIOUS
  <2>. QED  BY <1>1, <2>1
<1>. QED  BY <1>2, <1>3 DEF s

Ready == chip \in Display /\ lcd_dev \in Device

LEMMA RunKeeps ==
  ASSUME Ready, NEW steps \in Seq(Command)
  PROVE  /\ Len(steps) \in Nat
         /\ \A k \in 0 .. Len(steps) :
              /\ Ran(steps)[k] \in State
              /\ Ran(steps)[k].chip.in_step = chip.in_step
              /\ Ran(steps)[k].dev.on = lcd_dev.on
<1> DEFINE s == Ran(steps)
           S == {k \in Nat : /\ s[k] \in State /\ s[k].chip.in_step = chip.in_step
                             /\ s[k].dev.on = lcd_dev.on}
<1>1. Len(steps) \in Nat /\ \A k \in 1 .. Len(steps) : steps[k] \in Command
  OBVIOUS
<1>2. s[0] = Now /\ \A k \in 0 .. Len(steps) - 1 : s[k + 1] = Step(s[k], steps[k + 1])
  BY <1>1, RunStep
<1> HIDE DEF s
<1>3. 0 \in S
  BY <1>2 DEF Ready, Now, State
<1>4. ASSUME NEW k \in 0 .. Len(steps) - 1, k \in S PROVE k + 1 \in S
  <2>1. k + 1 \in 1 .. Len(steps) /\ k + 1 \in Nat
    BY <1>1
  <2>2. s[k] \in State /\ steps[k + 1] \in Command
    BY <1>1, <1>4, <2>1
  <2>. QED  BY <1>2, <1>4, <2>1, <2>2, StepKeeps
<1>5. 0 .. Len(steps) \subseteq S
  <2> HIDE DEF S
  <2>. QED  BY <1>1, <1>3, <1>4, RangeInduction
<1>. QED  BY <1>1, <1>5 DEF s

(* Characters written from the start of a row stand in it, and nothing else  *)
(* moves.                                                                    *)
Typed(e, d, r, text, m) ==
  /\ e \in State /\ e.dev = d.dev /\ e.chip.in_step /\ e.chip.cursor = <<r, m>>
  /\ \A q \in Row, i \in 0 .. Ram - 1 :
       e.chip.ram[q][i] = IF q = r /\ i < m THEN text[i + 1] ELSE d.chip.ram[q][i]

LEMMA TypedOn ==
  ASSUME NEW d \in State, NEW e \in State, NEW r \in Row, NEW text, NEW m \in Nat, m + 1 < Ram,
         text[m + 1] \in Char, Typed(e, d, r, text, m)
  PROVE  Typed(Step(e, PutChar(text[m + 1])), d, r, text, m + 1)
<1> DEFINE f == Step(e, PutChar(text[m + 1]))
           ch == text[m + 1]
<1>1. e.chip \in Display /\ e.chip.cursor = <<r, m>> /\ e.chip.in_step /\ e.dev = d.dev
  BY DEF Typed, State
<1>2. f \in State /\ f.dev = d.dev /\ f.chip.in_step /\ f.chip = Put(e.chip, ch)
  BY <1>1, StepPut
<1>3. /\ Put(e.chip, ch).cursor = <<r, m + 1>>
      /\ \A q \in Row, i \in 0 .. Ram - 1 :
           Put(e.chip, ch).ram[q][i] = IF q = r /\ i = m THEN ch ELSE e.chip.ram[q][i]
  <2>1. ch \in Char /\ m \in 0 .. Ram - 1
    BY Sizes
  <2> HIDE DEF ch
  <2>. QED  BY <1>1, <2>1, PutIs
<1>4. f.chip.cursor = <<r, m + 1>>
  BY <1>2, <1>3
<1>5. ASSUME NEW q \in Row, NEW i \in 0 .. Ram - 1
      PROVE  f.chip.ram[q][i] = IF q = r /\ i < m + 1 THEN text[i + 1] ELSE d.chip.ram[q][i]
  <2>1. Put(e.chip, ch).ram[q][i] = IF q = r /\ i = m THEN ch ELSE e.chip.ram[q][i]
    BY <1>3
  <2>2. e.chip.ram[q][i] = IF q = r /\ i < m THEN text[i + 1] ELSE d.chip.ram[q][i]
    BY DEF Typed
  <2>3. m + 1 \in Nat /\ i \in Nat /\ (i < m + 1 <=> i < m \/ i = m)
    BY Sizes
  <2> HIDE DEF f
  <2>. QED  BY <1>2, <2>1, <2>2, <2>3
<1> HIDE DEF f
<1>6. Typed(f, d, r, text, m + 1)
  BY <1>2, <1>4, <1>5 DEF Typed
<1>. QED  BY <1>6 DEF f

LEMMA TextWritten ==
  ASSUME Ready, NEW steps \in Seq(Command), NEW j \in Nat, NEW r \in Row,
         NEW text \in Seq(Char), Len(text) \in Nat, Len(text) < Ram, j + Len(text) <= Len(steps),
         \A i \in 1 .. Len(text) : steps[j + i] = PutChar(text[i]),
         Ran(steps)[j].chip.in_step, Ran(steps)[j].chip.cursor = <<r, 0>>
  PROVE  Typed(Ran(steps)[j + Len(text)], Ran(steps)[j], r, text, Len(text))
<1> DEFINE s == Ran(steps)
           d == s[j]
           S == {m \in Nat : Typed(s[j + m], d, r, text, m)}
<1>1. Len(steps) \in Nat /\ \A k \in 0 .. Len(steps) : s[k] \in State
  BY RunKeeps
<1>2. \A k \in 0 .. Len(steps) - 1 : s[k + 1] = Step(s[k], steps[k + 1])
  BY <1>1, RunStep
<1>3. d.chip.in_step /\ d.chip.cursor = <<r, 0>>
  OBVIOUS
<1>4. d \in State
  BY <1>1
<1> HIDE DEF s, d
<1>5. 0 \in S
  <2>1. s[j + 0] = d
    BY DEF d
  <2>2. Typed(d, d, r, text, 0)
    BY <1>3, <1>4 DEF Typed
  <2>. QED  BY <2>1, <2>2
<1>6. ASSUME NEW m \in 0 .. Len(text) - 1, m \in S PROVE m + 1 \in S
  <2>1. /\ j + m \in 0 .. Len(steps) - 1 /\ j + m \in 0 .. Len(steps) /\ m + 1 \in 1 .. Len(text)
        /\ (j + m) + 1 = j + (m + 1) /\ m \in Nat /\ m + 1 \in Nat /\ m + 1 < Ram
    BY <1>1, Sizes
  <2>2. PICK i \in 1 .. Len(text) : i = m + 1
    BY <2>1
  <2>3. steps[j + i] = PutChar(text[i]) /\ text[i] \in Char
    OBVIOUS
  <2>4. s[j + (m + 1)] = Step(s[j + m], steps[j + (m + 1)])
    BY <1>2, <2>1
  <2>5. s[j + (m + 1)] = Step(s[j + m], PutChar(text[m + 1]))
    BY <2>2, <2>3, <2>4
  <2>6. s[j + m] \in State /\ Typed(s[j + m], d, r, text, m)
    BY <1>1, <1>6, <2>1
  <2>7. Typed(s[j + (m + 1)], d, r, text, m + 1)
    BY <1>4, <2>1, <2>2, <2>3, <2>5, <2>6, TypedOn
  <2>. QED  BY <2>1, <2>7
<1>7. 0 .. Len(text) \subseteq S
  <2> HIDE DEF S
  <2>. QED  BY <1>5, <1>6, RangeInduction
<1>. QED  BY <1>7 DEF s, d

----------------------------------------------------------------------------
(* What the calls are made of *)

LEMMA CommandsAre ==
  /\ ClearDisplay \in Command
  /\ \A at \in Position : SetPos(at) \in Command /\ GoTo(at[1], at[2]) \in Command
  /\ GoTo(0, 0) \in Command /\ GoTo(1, 0) \in Command
  /\ \A ch \in Char : PutChar(ch) \in Command
  /\ \A pins \in SUBSET Row : SetPins(pins) \in Command
<1>1. \A at \in Position : SetPos(at) \in Command /\ GoTo(at[1], at[2]) \in Command
  BY DEF Command, AllPos, AllGoTos
<1>2. <<0, 0>>[1] = 0 /\ <<0, 0>>[2] = 0 /\ <<1, 0>>[1] = 1 /\ <<1, 0>>[2] = 0
  OBVIOUS
<1>3. GoTo(0, 0) \in Command
  BY <1>1, <1>2, Places
<1>4. GoTo(1, 0) \in Command
  BY <1>1, <1>2, Places
<1>5. ClearDisplay \in Command
  BY DEF Command, AllClears
<1>6. \A ch \in Char : PutChar(ch) \in Command
  BY DEF Command, AllPuts
<1>7. \A pins \in SUBSET Row : SetPins(pins) \in Command
  BY DEF Command, AllPins
<1>. QED  BY <1>1, <1>3, <1>4, <1>5, <1>6, <1>7

LEMMA ClearSteps ==
  /\ lcd_clear \in Seq(Command) /\ Len(lcd_clear) = 3
  /\ lcd_clear[1] = SetPos(<<0, 0>>) /\ lcd_clear[2] = SetPins({}) /\ lcd_clear[3] = ClearDisplay
<1>1. SetPos(<<0, 0>>) \in Command /\ SetPins({}) \in Command /\ ClearDisplay \in Command
  BY CommandsAre, Places
<1>. QED  BY <1>1 DEF lcd_clear

Puts(text) == [i \in 1 .. Len(text) |-> PutChar(text[i])]

LEMMA PutsAre ==
  ASSUME NEW text \in Seq(Char)
  PROVE  /\ Puts(text) \in Seq(Command) /\ Len(Puts(text)) = Len(text) /\ Len(text) \in Nat
         /\ \A i \in 1 .. Len(text) : Puts(text)[i] = PutChar(text[i])
<1>1. Len(text) \in Nat /\ \A i \in 1 .. Len(text) : text[i] \in Char
  OBVIOUS
<1>2. \A i \in 1 .. Len(text) : PutChar(text[i]) \in Command
  BY <1>1, CommandsAre
<1>. QED  BY <1>1, <1>2 DEF Puts

(* A text that fills its row ends with the cursor sent to row 1.             *)
LEMMA CharactersAre ==
  ASSUME NEW text \in Seq(Char)
  PROVE  /\ Characters(text) \in Seq(Command)
         /\ Len(text) < Cols => Characters(text) = Puts(text)
         /\ Len(text) = Cols => Characters(text) = Append(Puts(text), GoTo(1, 0))
<1>1. /\ Puts(text) \in Seq(Command) /\ Len(Puts(text)) = Len(text) /\ Len(text) \in Nat
  BY PutsAre
<1>2. PICK put : put = Puts(text)
  OBVIOUS
<1>3. Characters(text) = IF Len(text) < Cols THEN put
                         ELSE SubSeq(put, 1, Cols) \o <<GoTo(1, 0)>> \o SubSeq(put, Cols + 1, Len(text))
  BY <1>2 DEF Characters, Puts
<1>4. PICK g \in Command : g = GoTo(1, 0)
  BY CommandsAre
<1>5. put \in Seq(Command) /\ Len(put) = Len(text) /\ <<g>> \in Seq(Command)
  BY <1>1, <1>2
<1>6. CASE Len(text) < Cols
  BY <1>2, <1>3, <1>5, <1>6, Sizes
<1>7. CASE ~ (Len(text) < Cols)
  <2>1. SubSeq(put, 1, Cols) \in Seq(Command) /\ SubSeq(put, Cols + 1, Len(text)) \in Seq(Command)
    BY <1>1, <1>5, <1>7, Sizes
  <2>2. Characters(text) \in Seq(Command)
    BY <1>3, <1>4, <1>5, <1>7, <2>1
  <2>3. CASE Len(text) = Cols
    <3>1. SubSeq(put, 1, Cols) = put /\ SubSeq(put, Cols + 1, Len(text)) = <<>>
      BY <1>1, <1>5, <2>3, Sizes
    <3>2. PICK q : q = put \o <<g>>
      OBVIOUS
    <3>3. q \in Seq(Command) /\ q \o <<>> = q
      BY <1>5, <3>2
    <3>4. Characters(text) = put \o <<g>>
      BY <1>3, <1>4, <1>7, <3>1, <3>2, <3>3
    <3>. QED  BY <1>2, <1>4, <1>5, <1>7, <2>2, <3>4
  <2>. QED  BY <1>7, <2>2, <2>3
<1>. QED  BY <1>1, <1>6, <1>7, Sizes

LEMMA ClearRowSteps ==
  ASSUME lcd_dev.pins \in {{}, {0}, {1}}
  PROVE  lcd_clear_row \in Seq(Command)
<1>1. [i \in 1 .. Cols |-> PutChar(Blank)] \in Seq(Command)
  BY CommandsAre, BlankChar, Sizes
<1>2. {0} # {} /\ {1} # {} /\ {0} # {1}
  <2>1. 0 # 1
    OBVIOUS
  <2>. QED  BY <2>1, Zenon
<1>. QED  BY <1>1, <1>2, CommandsAre, ClearSteps DEF lcd_clear_row

(* What a text is preceded by.                                               *)
Before == IF lcd_dev.pins # {} THEN lcd_clear_row
                              ELSE Append(lcd_clear, GoTo(lcd_dev.pos[1], lcd_dev.pos[2]))

EndsAt(steps, at) ==
  Len(steps) >= 2 /\ steps[Len(steps) - 1] = SetPos(at) /\ steps[Len(steps)] = GoTo(at[1], at[2])

LEMMA PrintfSteps ==
  ASSUME Ready, lcd_dev.pins # Row, NEW text \in Seq(Char)
  PROVE  /\ Before \in Seq(Command)
         /\ lcd_printf(text) \in Seq(Command) /\ EndsAt(lcd_printf(text), lcd_dev.pos)
         /\ Len(lcd_printf(text)) = Len(Before) + Len(Characters(text)) + 2
         /\ \A k \in 1 .. Len(Before) : lcd_printf(text)[k] = Before[k]
         /\ \A k \in 1 .. Len(Characters(text)) :
              lcd_printf(text)[Len(Before) + k] = Characters(text)[k]
<1>1. lcd_dev.pos \in Position /\ lcd_dev.pins \in SUBSET Row
  BY DEF Ready, Device
<1>2. lcd_dev.pins \in {{}, {0}, {1}}
  BY <1>1 DEF Row
<1>3. PICK p \in Command, g \in Command :
        p = SetPos(lcd_dev.pos) /\ g = GoTo(lcd_dev.pos[1], lcd_dev.pos[2])
  BY <1>1, CommandsAre
<1>4. Before \in Seq(Command)
  BY <1>2, <1>3, ClearRowSteps, ClearSteps DEF Before
<1>5. PICK u \in Seq(Command), v \in Seq(Command) : u = Before /\ v = Characters(text)
  BY <1>4, CharactersAre
<1>6. lcd_printf(text) = u \o v \o <<p, g>>
  BY <1>3, <1>5 DEF lcd_printf, Before
<1>7. PICK w : w = <<p, g>>
  OBVIOUS
<1>8. w \in Seq(Command) /\ Len(w) = 2 /\ w[1] = p /\ w[2] = g
  BY <1>7
<1>9. PICK uv : uv = u \o v
  OBVIOUS
<1>10. /\ uv \in Seq(Command) /\ Len(uv) = Len(u) + Len(v) /\ Len(u) \in Nat /\ Len(v) \in Nat
       /\ \A k \in 1 .. Len(u) : uv[k] = u[k]
       /\ \A k \in 1 .. Len(v) : uv[Len(u) + k] = v[k]
  BY <1>9, Concatenation
<1>11. PICK t : t = uv \o w
  OBVIOUS
<1>12. /\ t \in Seq(Command) /\ Len(t) = Len(uv) + Len(w) /\ Len(uv) \in Nat
       /\ \A k \in 1 .. Len(uv) : t[k] = uv[k]
       /\ \A k \in 1 .. Len(w) : t[Len(uv) + k] = w[k]
  <2>1. w \in Seq(Command) /\ uv \in Seq(Command)
    BY <1>8, <1>10
  <2>. QED  BY <1>11, <2>1, Concatenation
<1>13. t = lcd_printf(text)
  BY <1>6, <1>7, <1>9, <1>11
<1>14. \A k \in 1 .. Len(u) : t[k] = u[k]
  BY <1>10, <1>12
<1>15. \A k \in 1 .. Len(v) : t[Len(u) + k] = v[k]
  BY <1>10, <1>12
<1>16. t[Len(uv) + 1] = p /\ t[Len(uv) + 2] = g
  <2>1. PICK i \in 1 .. Len(w), j \in 1 .. Len(w) : i = 1 /\ j = 2
    BY <1>8
  <2>2. t[Len(uv) + i] = w[i] /\ t[Len(uv) + j] = w[j]
    BY <1>12
  <2>. QED  BY <1>8, <2>1, <2>2
<1>17. EndsAt(t, lcd_dev.pos)
  <2>1. Len(t) - 1 = Len(uv) + 1 /\ Len(t) >= 2
    BY <1>8, <1>12
  <2>. QED  BY <1>3, <1>8, <1>12, <1>16, <2>1 DEF EndsAt
<1>. QED  BY <1>4, <1>5, <1>8, <1>10, <1>12, <1>13, <1>14, <1>15, <1>17

----------------------------------------------------------------------------
(* Where a call leaves the display *)

After(steps) == Ran(steps)[Len(steps)]

LEMMA Ends ==
  ASSUME Ready, NEW steps \in Seq(Command), NEW at \in Position, EndsAt(steps, at)
  PROVE  /\ Len(steps) - 2 \in 0 .. Len(steps)
         /\ After(steps).dev.pos = at
         /\ chip.in_step => After(steps).chip.cursor = at
         /\ After(steps).chip.ram = Ran(steps)[Len(steps) - 2].chip.ram
         /\ After(steps).dev.pins = Ran(steps)[Len(steps) - 2].dev.pins
<1> DEFINE n == Len(steps)
           s == Ran(steps)
<1>1. n \in Nat /\ \A k \in 0 .. n : s[k] \in State /\ s[k].chip.in_step = chip.in_step
  BY RunKeeps
<1>2. \A k \in 0 .. n - 1 : s[k + 1] = Step(s[k], steps[k + 1])
  BY <1>1, RunStep
<1>3. n >= 2 /\ steps[n - 1] = SetPos(at) /\ steps[n] = GoTo(at[1], at[2])
  BY DEF EndsAt
<1>4. After(steps) = s[n]
  BY DEF After
<1> HIDE DEF s, n
<1>5. n - 2 \in 0 .. n /\ n - 2 \in 0 .. n - 1 /\ n - 1 \in 0 .. n /\ n - 1 \in 0 .. n - 1
      /\ (n - 2) + 1 = n - 1 /\ (n - 1) + 1 = n
  BY <1>1, <1>3
<1>6. s[n - 1] = Step(s[n - 2], SetPos(at)) /\ s[n] = Step(s[n - 1], GoTo(at[1], at[2]))
  BY <1>2, <1>3, <1>5
<1>7. s[n - 2] \in State /\ s[n - 1] \in State /\ s[n - 1].chip.in_step = chip.in_step
  BY <1>1, <1>5
<1>8. /\ s[n - 1].chip = s[n - 2].chip /\ s[n - 1].dev.pos = at
      /\ s[n - 1].dev.pins = s[n - 2].dev.pins
  BY <1>6, <1>7, StepPos
<1>9. /\ s[n].dev = s[n - 1].dev /\ s[n].chip.ram = s[n - 1].chip.ram
      /\ s[n - 1].chip.in_step => s[n].chip.cursor = at
  BY <1>6, <1>7, StepGoTo
<1>. QED  BY <1>4, <1>5, <1>7, <1>8, <1>9 DEF s, n

LEMMA OneStep ==
  ASSUME Ready, NEW steps \in Seq(Command), NEW j \in Nat, NEW k \in Nat, k = j + 1, k <= Len(steps)
  PROVE  /\ Ran(steps)[j] \in State /\ Ran(steps)[k] \in State
         /\ Ran(steps)[j].chip.in_step = chip.in_step
         /\ Ran(steps)[k] = Step(Ran(steps)[j], steps[k])
<1>1. Len(steps) \in Nat /\ j \in 0 .. Len(steps) /\ k \in 0 .. Len(steps) /\ j \in 0 .. Len(steps) - 1
  BY RunKeeps
<1>. QED  BY <1>1, RunKeeps, RunStep

LEMMA AfterClear ==
  ASSUME Ready, NEW steps \in Seq(Command), Len(steps) >= 3, chip.in_step,
         \A k \in 1 .. 3 : steps[k] = lcd_clear[k]
  PROVE  /\ Ran(steps)[3] \in State
         /\ Ran(steps)[3].chip.ram = Cleared /\ Ran(steps)[3].chip.cursor = <<0, 0>>
         /\ Ran(steps)[3].dev.pins = {} /\ Ran(steps)[3].dev.pos = <<0, 0>>
<1> DEFINE s == Ran(steps)
<1>1. Len(steps) \in Nat
  BY RunKeeps
<1>2. steps[1] = SetPos(<<0, 0>>) /\ steps[2] = SetPins({}) /\ steps[3] = ClearDisplay
  BY ClearSteps
<1> HIDE DEF s
<1>3. s[0] \in State /\ s[1] = Step(s[0], SetPos(<<0, 0>>))
  <2>1. PICK j \in Nat, k \in Nat : j = 0 /\ k = 1
    OBVIOUS
  <2>2. k = j + 1 /\ k <= Len(steps)
    BY <1>1, <2>1
  <2>3. s[j] \in State /\ s[k] \in State /\ s[j].chip.in_step = chip.in_step /\ s[k] = Step(s[j], steps[k])
    BY <2>2, OneStep DEF s
  <2>. QED  BY <1>2, <2>1, <2>3
<1>4. s[1] \in State /\ s[2] = Step(s[1], SetPins({}))
  <2>1. PICK j \in Nat, k \in Nat : j = 1 /\ k = 2
    OBVIOUS
  <2>2. k = j + 1 /\ k <= Len(steps)
    BY <1>1, <2>1
  <2>3. s[j] \in State /\ s[k] \in State /\ s[j].chip.in_step = chip.in_step /\ s[k] = Step(s[j], steps[k])
    BY <2>2, OneStep DEF s
  <2>. QED  BY <1>2, <2>1, <2>3
<1>5. s[2] \in State /\ s[2].chip.in_step /\ s[3] \in State /\ s[3] = Step(s[2], ClearDisplay)
  <2>1. PICK j \in Nat, k \in Nat : j = 2 /\ k = 3
    OBVIOUS
  <2>2. k = j + 1 /\ k <= Len(steps)
    BY <1>1, <2>1
  <2>3. s[j] \in State /\ s[k] \in State /\ s[j].chip.in_step = chip.in_step /\ s[k] = Step(s[j], steps[k])
    BY <2>2, OneStep DEF s
  <2>. QED  BY <1>2, <2>1, <2>3
<1>7. s[1].dev.pos = <<0, 0>>
  BY <1>3, Places, StepPos
<1>8. s[2].dev.pins = {} /\ s[2].dev.pos = <<0, 0>>
  <2>1. {} \in SUBSET Row
    OBVIOUS
  <2>. QED  BY <1>4, <1>7, <2>1, StepPins
<1>9. s[3].dev = s[2].dev /\ s[3].chip.ram = Cleared /\ s[3].chip.cursor = <<0, 0>>
  BY <1>5, StepClear
<1>. QED  BY <1>5, <1>8, <1>9 DEF s

----------------------------------------------------------------------------
(* A text on its row *)

ShowsIn(ram, r, text) == \A c \in 1 .. Cols : ram[r][c - 1] = Padded(text)[c]
BlankIn(ram, r)       == \A c \in 1 .. Cols : ram[r][c - 1] = Blank
SameIn(ram, old, r)   == \A c \in 1 .. Cols : ram[r][c - 1] = old[r][c - 1]

(* The row a text goes to, with the display's cursor where it is taken to be *)
(* by the code: nothing pinned, or the title in row 0.                       *)
Aimed(r) ==
  \/ r = 0 /\ lcd_dev.pins = {} /\ lcd_dev.pos = <<0, 0>>
  \/ r = 1 /\ lcd_dev.pins = {0} /\ lcd_dev.pos = <<1, 0>> /\ chip.cursor = <<1, 0>>

Wiped(d, r) ==
  /\ d \in State /\ d.chip.in_step /\ d.chip.cursor = <<r, 0>> /\ BlankIn(d.chip.ram, r)
  /\ d.dev.pins = lcd_dev.pins
  /\ r = 1 => SameIn(d.chip.ram, chip.ram, 0)

LEMMA WipedByClear ==
  ASSUME Ready, chip.in_step, Aimed(0), NEW steps \in Seq(Command),
         Len(Before) <= Len(steps), \A k \in 1 .. Len(Before) : steps[k] = Before[k]
  PROVE  Wiped(Ran(steps)[Len(Before)], 0)
<1>1. lcd_dev.pins = {} /\ lcd_dev.pos = <<0, 0>>
  BY DEF Aimed
<1>2. PICK g \in Command : g = GoTo(0, 0)
  BY CommandsAre
<1>3. Before = Append(lcd_clear, g)
  BY <1>1, <1>2 DEF Before
<1>4. PICK u \in Seq(Command) : u = lcd_clear /\ Len(u) = 3
  BY ClearSteps
<1>5. Len(Before) = 4 /\ Before[4] = g /\ Before[1] = u[1] /\ Before[2] = u[2] /\ Before[3] = u[3]
  <2>1. PICK n \in Nat : n = Len(u)
    BY <1>4
  <2>2. Before = Append(u, g)
    BY <1>3, <1>4
  <2>3. Len(Before) = n + 1 /\ Before[n + 1] = g /\ \A k \in 1 .. n : Before[k] = u[k]
    BY <2>1, <2>2
  <2>4. n = 3 /\ n + 1 = 4
    BY <1>4, <2>1
  <2>5. 1 \in 1 .. n /\ 2 \in 1 .. n /\ 3 \in 1 .. n
    BY <2>4
  <2>. QED  BY <2>3, <2>4, <2>5
<1>6. Len(steps) \in Nat /\ Len(steps) >= 4
  BY <1>5, RunKeeps
<1>7. \A k \in 1 .. 3 : steps[k] = lcd_clear[k]
  BY <1>4, <1>5
<1>8. steps[4] = g
  <2>1. PICK k \in 1 .. Len(Before) : k = 4
    BY <1>5
  <2>. QED  BY <1>5, <2>1
<1>9. PICK d \in State, e \in State : d = Ran(steps)[3] /\ e = Ran(steps)[4]
  <2>1. PICK j \in 0 .. Len(steps), k \in 0 .. Len(steps) : j = 3 /\ k = 4
    BY <1>6
  <2>2. Ran(steps)[j] \in State /\ Ran(steps)[k] \in State
    BY RunKeeps
  <2>. QED  BY <2>1, <2>2
<1>10. d.chip.ram = Cleared /\ d.dev.pins = {}
  BY <1>6, <1>7, <1>9, AfterClear
<1>11. d.chip.in_step /\ e = Step(d, g)
  <2>1. PICK j \in Nat, k \in Nat : j = 3 /\ k = 4
    OBVIOUS
  <2>2. k = j + 1 /\ k <= Len(steps)
    BY <1>6, <2>1
  <2>3. Ran(steps)[j].chip.in_step = chip.in_step /\ Ran(steps)[k] = Step(Ran(steps)[j], steps[k])
    BY <2>2, OneStep
  <2>. QED  BY <1>8, <1>9, <2>1, <2>3
<1>12. e.dev = d.dev /\ e.chip.in_step /\ e.chip.cursor = <<0, 0>> /\ e.chip.ram = d.chip.ram
  <2>1. PICK at \in Position : at = <<0, 0>>
    BY Places
  <2>2. g = GoTo(at[1], at[2])
    BY <1>2, <2>1
  <2>. QED  BY <1>11, <2>1, <2>2, StepGoTo
<1>13. BlankIn(Cleared, 0)
  BY Sizes DEF BlankIn, Cleared
<1>. QED  BY <1>1, <1>5, <1>9, <1>10, <1>12, <1>13 DEF Wiped

LEMMA WipedBySpaces ==
  ASSUME Ready, chip.in_step, Aimed(1), NEW steps \in Seq(Command),
         Len(Before) <= Len(steps), \A k \in 1 .. Len(Before) : steps[k] = Before[k]
  PROVE  Wiped(Ran(steps)[Len(Before)], 1)
<1> DEFINE spaces == [i \in 1 .. Cols |-> Blank]
<1>1. lcd_dev.pins = {0} /\ chip.cursor = <<1, 0>>
  BY DEF Aimed
<1>2. PICK g \in Command : g = GoTo(1, 0)
  BY CommandsAre
<1>3. spaces \in Seq(Char) /\ Len(spaces) = Cols /\ \A i \in 1 .. Cols : spaces[i] = Blank
  BY BlankChar, Sizes
<1>4. PICK u : u = [i \in 1 .. Cols |-> PutChar(Blank)]
  OBVIOUS
<1>5. u \in Seq(Command) /\ Len(u) = Cols /\ \A i \in 1 .. Cols : u[i] = PutChar(Blank)
  BY <1>4, CommandsAre, BlankChar, Sizes
<1>6. Before = Append(u, g)
  <2>1. {0} # {}
    OBVIOUS
  <2>. QED  BY <1>1, <1>2, <1>4, <2>1 DEF Before, lcd_clear_row
<1>7. Len(Before) = Cols + 1 /\ Before[Cols + 1] = g /\ \A k \in 1 .. Cols : Before[k] = u[k]
  BY <1>5, <1>6, Sizes
<1>8. Len(steps) \in Nat /\ Len(steps) >= Cols + 1
  BY <1>7, RunKeeps
<1> HIDE DEF spaces
<1>9. steps[Cols + 1] = g /\ \A k \in 1 .. Cols : steps[k] = PutChar(Blank)
  <2>1. Cols + 1 \in 1 .. Len(Before) /\ \A k \in 1 .. Cols : k \in 1 .. Len(Before)
    BY <1>7, Sizes
  <2>. QED  BY <1>5, <1>7, <2>1
<1>10. PICK j \in Nat : j = 0
  OBVIOUS
<1>11. PICK s \in State, d \in State, e \in State :
         s = Ran(steps)[j] /\ d = Ran(steps)[Cols] /\ e = Ran(steps)[Cols + 1]
  <2>1. PICK n \in 0 .. Len(steps), m \in 0 .. Len(steps) : n = Cols /\ m = Cols + 1
    BY <1>8, Sizes
  <2>2. j \in 0 .. Len(steps)
    BY <1>8, <1>10, Sizes
  <2>3. Ran(steps)[j] \in State /\ Ran(steps)[n] \in State /\ Ran(steps)[m] \in State
    BY <2>2, RunKeeps
  <2>. QED  BY <2>1, <2>3
<1>12. s.chip = chip /\ s.dev = lcd_dev
  BY <1>8, <1>10, <1>11, RunStep DEF Now
<1>13. Typed(d, s, 1, spaces, Cols)
  <2>1. \A i \in 1 .. Len(spaces) : steps[j + i] = PutChar(spaces[i])
    BY <1>3, <1>9, <1>10, Sizes
  <2>2. PICK n \in Nat : n = Len(spaces)
    BY <1>3, Sizes
  <2>3. n < Ram /\ j + n <= Len(steps) /\ j + n = Cols
    BY <1>3, <1>8, <1>10, <2>2, Sizes
  <2>4. Ran(steps)[j].chip.in_step /\ Ran(steps)[j].chip.cursor = <<1, 0>>
    BY <1>1, <1>11, <1>12
  <2>5. Typed(Ran(steps)[j + n], Ran(steps)[j], 1, spaces, n)
    BY <1>3, <2>1, <2>2, <2>3, <2>4, TextWritten, Sizes
  <2>. QED  BY <1>3, <1>11, <2>2, <2>3, <2>5
<1>14. d.chip.in_step /\ e = Step(d, g)
  <2>1. Cols \in Nat /\ Cols + 1 \in Nat
    BY Sizes
  <2>. QED  BY <1>8, <1>9, <1>11, <2>1, OneStep
<1>15. e.dev = d.dev /\ e.chip.in_step /\ e.chip.cursor = <<1, 0>> /\ e.chip.ram = d.chip.ram
  <2>1. PICK at \in Position : at = <<1, 0>>
    BY Places
  <2>2. g = GoTo(at[1], at[2])
    BY <1>2, <2>1
  <2>. QED  BY <1>14, <2>1, <2>2, StepGoTo
<1>16. ASSUME NEW c \in 1 .. Cols
       PROVE  d.chip.ram[1][c - 1] = Blank /\ d.chip.ram[0][c - 1] = chip.ram[0][c - 1]
  <2>1. PICK i \in 0 .. Ram - 1 : i = c - 1
    BY Sizes
  <2>2. i < Cols /\ i + 1 = c
    BY <2>1, Sizes
  <2>3. \A q \in Row : d.chip.ram[q][i] = IF q = 1 /\ i < Cols THEN spaces[i + 1] ELSE s.chip.ram[q][i]
    BY <1>13 DEF Typed
  <2>4. 0 \in Row /\ 1 \in Row /\ 0 # 1
    BY Sizes
  <2>. QED  BY <1>3, <1>12, <2>1, <2>2, <2>3, <2>4
<1>17. BlankIn(e.chip.ram, 1) /\ SameIn(e.chip.ram, chip.ram, 0)
  BY <1>15, <1>16 DEF BlankIn, SameIn
<1>18. e.dev.pins = lcd_dev.pins
  BY <1>12, <1>13, <1>15 DEF Typed
<1>. QED  BY <1>7, <1>11, <1>15, <1>17, <1>18 DEF Wiped

(* A text shorter than its row or as long leaves it showing the text, padded *)
(* with what was there, which was blanks.                                    *)
LEMMA PrintfShows ==
  ASSUME Ready, chip.in_step, NEW r \in Row, Aimed(r), NEW text \in Seq(Char),
         Len(text) \in 1 .. Cols
  PROVE  /\ ShowsIn(After(lcd_printf(text)).chip.ram, r, text)
         /\ After(lcd_printf(text)).dev.pins = lcd_dev.pins
         /\ After(lcd_printf(text)).dev.pos = lcd_dev.pos
         /\ chip.in_step => After(lcd_printf(text)).chip.cursor = lcd_dev.pos
         /\ r = 1 => SameIn(After(lcd_printf(text)).chip.ram, chip.ram, 0)
<1>1. lcd_dev.pos \in Position /\ lcd_dev.pins # Row
  <2>1. lcd_dev.pos \in Position
    BY DEF Ready, Device
  <2>2. 1 \notin lcd_dev.pins /\ 1 \in Row
    BY Sizes DEF Aimed
  <2>. QED  BY <2>1, <2>2
<1>2. PICK steps : steps = lcd_printf(text)
  OBVIOUS
<1>3. PICK before \in Seq(Command), put \in Seq(Command) : before = Before /\ put = Characters(text)
  BY <1>1, PrintfSteps, CharactersAre
<1>4. PICK p \in Nat, n \in Nat : p = Len(before) /\ n = Len(text)
  OBVIOUS
<1>5. n > 0 /\ n <= Cols /\ n < Ram
  BY <1>4, Sizes
<1>6. /\ steps \in Seq(Command) /\ EndsAt(steps, lcd_dev.pos)
      /\ Len(steps) = p + Len(put) + 2 /\ Len(put) \in Nat
      /\ \A k \in 1 .. p : steps[k] = before[k]
      /\ \A k \in 1 .. Len(put) : steps[p + k] = put[k]
  BY <1>1, <1>2, <1>3, <1>4, PrintfSteps
<1>7. PICK u \in Seq(Command) :
        /\ u = Puts(text) /\ Len(u) = n
        /\ \A i \in 1 .. n : u[i] = PutChar(text[i])
  BY <1>4, PutsAre
<1>8. PICK g \in Command : g = GoTo(1, 0)
  BY CommandsAre
<1>9. /\ n < Cols => put = u
      /\ n = Cols => put = Append(u, g)
  BY <1>3, <1>4, <1>7, <1>8, CharactersAre
<1>10. /\ Len(put) = n \/ (Len(put) = n + 1 /\ put[n + 1] = g)
       /\ \A i \in 1 .. n : put[i] = u[i]
  <2>1. CASE n < Cols
    <3>1. put = u
      BY <1>9, <2>1
    <3>2. Len(u) = n
      BY <1>7
    <3>3. Len(put) = n
      BY <3>1, <3>2
    <3>4. \A i \in 1 .. n : put[i] = u[i]
      BY <3>1
    <3>. QED  BY <3>3, <3>4
  <2>2. CASE n = Cols
    <3>1. put = Append(u, g)
      BY <1>9, <2>2
    <3>. QED  BY <1>7, <3>1
  <2>. QED  BY <1>5, <2>1, <2>2, Sizes
<1>11. \A i \in 1 .. n : steps[p + i] = PutChar(text[i])
  <2>1. ASSUME NEW i \in 1 .. n PROVE steps[p + i] = PutChar(text[i])
    <3>1. i \in 1 .. Len(put)
      BY <1>6, <1>10
    <3>. QED  BY <1>6, <1>7, <1>10, <3>1
  <2>. QED  BY <2>1
<1>12. PICK b \in State, x \in State : b = Ran(steps)[p] /\ x = Ran(steps)[p + n]
  <2>1. p \in 0 .. Len(steps) /\ p + n \in 0 .. Len(steps)
    BY <1>6, <1>10
  <2>. QED  BY <1>6, <2>1, RunKeeps
<1>13. Wiped(b, r)
  <2>1. Len(Before) <= Len(steps) /\ \A k \in 1 .. Len(Before) : steps[k] = Before[k]
    BY <1>3, <1>4, <1>6
  <2>2. Len(Before) = p
    BY <1>3, <1>4
  <2>3. r = 0 \/ r = 1
    BY DEF Row
  <2>4. CASE r = 0
    BY <1>6, <1>12, <2>1, <2>2, <2>4, WipedByClear
  <2>5. CASE r = 1
    BY <1>6, <1>12, <2>1, <2>2, <2>5, WipedBySpaces
  <2>. QED  BY <2>3, <2>4, <2>5
<1>14. Typed(x, b, r, text, n)
  <2>1. p + n <= Len(steps)
    BY <1>6, <1>10
  <2>2. b.chip.in_step /\ b.chip.cursor = <<r, 0>>
    BY <1>13 DEF Wiped
  <2>. QED  BY <1>4, <1>5, <1>6, <1>11, <1>12, <2>1, <2>2, TextWritten
<1>15. PICK y \in State : y = Ran(steps)[Len(steps) - 2]
  BY <1>1, <1>6, Ends, RunKeeps
<1>16. y.chip.ram = x.chip.ram /\ y.dev.pins = x.dev.pins
  <2>1. CASE Len(put) = n
    <3>1. Len(steps) - 2 = p + n
      BY <1>6, <2>1
    <3>. QED  BY <1>12, <1>15, <3>1
  <2>2. CASE Len(put) = n + 1 /\ put[n + 1] = g
    <3>1. PICK j \in Nat, k \in Nat : j = p + n /\ k = p + (n + 1)
      OBVIOUS
    <3>2. k = j + 1 /\ k <= Len(steps) /\ Len(steps) - 2 = k
      BY <1>6, <2>2, <3>1
    <3>3. steps[k] = g
      <4>1. n + 1 \in 1 .. Len(put)
        BY <2>2
      <4>. QED  BY <1>6, <2>2, <3>1, <4>1
    <3>4. y = Step(x, g)
      <4>1. Ran(steps)[k] = Step(Ran(steps)[j], steps[k])
        BY <1>6, <3>2, OneStep
      <4>. QED  BY <1>12, <1>15, <3>1, <3>2, <3>3, <4>1
    <3>5. PICK at \in Position : at = <<1, 0>>
      BY Places
    <3>6. g = GoTo(at[1], at[2])
      BY <1>8, <3>5
    <3>. QED  BY <3>4, <3>6, StepGoTo
  <2>. QED  BY <1>10, <2>1, <2>2
<1>17. /\ After(steps).chip.ram = x.chip.ram /\ After(steps).dev.pins = x.dev.pins
       /\ After(steps).dev.pos = lcd_dev.pos
       /\ chip.in_step => After(steps).chip.cursor = lcd_dev.pos
  BY <1>1, <1>6, <1>15, <1>16, Ends
<1>18. ASSUME NEW c \in 1 .. Cols, NEW q \in Row
       PROVE  x.chip.ram[q][c - 1] = IF q = r /\ c <= n THEN text[c] ELSE b.chip.ram[q][c - 1]
  <2>1. PICK i \in 0 .. Ram - 1 : i = c - 1
    BY Sizes
  <2>2. i + 1 = c /\ (i < n <=> c <= n)
    BY <2>1, Sizes
  <2>3. x.chip.ram[q][i] = IF q = r /\ i < n THEN text[i + 1] ELSE b.chip.ram[q][i]
    BY <1>14 DEF Typed
  <2>. QED  BY <2>1, <2>2, <2>3
<1>19. ShowsIn(x.chip.ram, r, text)
  <2>1. \A c \in 1 .. Cols : b.chip.ram[r][c - 1] = Blank
    BY <1>13 DEF Wiped, BlankIn
  <2>2. \A c \in 1 .. Cols : Padded(text)[c] = IF c <= n THEN text[c] ELSE Blank
    BY <1>4 DEF Padded
  <2>. QED  BY <1>18, <2>1, <2>2 DEF ShowsIn
<1>20. r = 1 => SameIn(x.chip.ram, chip.ram, 0)
  <2>1. r = 1 => \A c \in 1 .. Cols : b.chip.ram[0][c - 1] = chip.ram[0][c - 1]
    BY <1>13 DEF Wiped, SameIn
  <2>2. 0 \in Row /\ 0 # 1
    BY Sizes
  <2>. QED  BY <1>18, <2>1, <2>2 DEF SameIn
<1>21. x.dev.pins = lcd_dev.pins
  BY <1>13, <1>14 DEF Wiped, Typed
<1>. QED  BY <1>2, <1>17, <1>19, <1>20, <1>21

----------------------------------------------------------------------------
(* Calls that succeed, fail or are refused *)

Home == ~lcd_dev.on => lcd_dev.pos = <<0, 0>>

LEMMA CallIs ==
  ASSUME Ready, Home, NEW steps, lcd_dev.on => steps \in Seq(Command), Call(steps)
  PROVE  /\ Ready' /\ Home' /\ result' # "boot" /\ (chip'.in_step => chip.in_step)
         /\ result' = "OK" => lcd_dev.on /\ chip' = After(steps).chip /\ lcd_dev' = After(steps).dev
<1>1. CASE ~lcd_dev.on
  BY <1>1 DEF Call, Refused, Ready, Home
<1>2. CASE lcd_dev.on
  <2>1. /\ steps \in Seq(Command) /\ Len(steps) \in Nat /\ DOMAIN steps = 1 .. Len(steps)
        /\ \A k \in 0 .. Len(steps) :
             /\ Ran(steps)[k] \in State
             /\ Ran(steps)[k].chip.in_step = chip.in_step
             /\ Ran(steps)[k].dev.on = lcd_dev.on
    <3>1. steps \in Seq(Command)
      BY <1>2
    <3>2. Len(steps) \in Nat /\ DOMAIN steps = 1 .. Len(steps)
      BY <3>1
    <3>. QED  BY <3>1, <3>2, RunKeeps
  <2>2. CASE Succeeds(steps)
    <3>1. PICK d : d = After(steps)
      OBVIOUS
    <3>2. d \in State /\ d.chip.in_step = chip.in_step /\ d.dev.on
      <4>1. Len(steps) \in 0 .. Len(steps)
        BY <2>1
      <4>. QED  BY <1>2, <2>1, <3>1, <4>1 DEF After
    <3>3. chip' = d.chip /\ lcd_dev' = d.dev /\ result' = "OK"
      BY <2>2, <3>1 DEF Succeeds, After
    <3>. QED  BY <1>2, <3>1, <3>2, <3>3 DEF State, Ready, Home
  <2>3. CASE FailsMidway(steps)
    <3>1. PICK k \in 1 .. Len(steps) :
            \/ LET d == Ran(steps)[k - 1] IN
                 /\ lcd_dev' = d.dev
                 /\ chip' \in {d.chip, [d.chip EXCEPT !.in_step = FALSE]}
            \/ LET d == Ran(steps)[k] IN lcd_dev' = d.dev /\ chip' = d.chip
      BY <2>1, <2>3 DEF FailsMidway
    <3>2. k \in 0 .. Len(steps) /\ k - 1 \in 0 .. Len(steps)
      BY <2>1
    <3>3. PICK d \in State :
            /\ d.chip.in_step = chip.in_step /\ d.dev.on
            /\ lcd_dev' = d.dev /\ chip' \in {d.chip, [d.chip EXCEPT !.in_step = FALSE]}
      BY <1>2, <2>1, <3>1, <3>2
    <3>4. result' = "error"
      BY <2>3 DEF FailsMidway
    <3>5. [d.chip EXCEPT !.in_step = FALSE] \in Display /\ ~ [d.chip EXCEPT !.in_step = FALSE].in_step
      BY DEF State, Display
    <3>. QED  BY <1>2, <3>3, <3>4, <3>5 DEF State, Ready, Home
  <2>. QED  BY <1>2, <2>2, <2>3 DEF Call
<1>. QED  BY <1>1, <1>2

LEMMA PrintfIs ==
  ASSUME Ready, Home, NEW text \in Seq(Char), Printf(text)
  PROVE  /\ Ready' /\ Home' /\ result' # "boot" /\ (chip'.in_step => chip.in_step)
         /\ result' = "OK" =>
              /\ lcd_dev.on /\ lcd_dev.pins # Row
              /\ chip' = After(lcd_printf(text)).chip /\ lcd_dev' = After(lcd_printf(text)).dev
<1>1. CASE lcd_dev.on /\ lcd_dev.pins = Row
  BY <1>1 DEF Printf, Refused, Ready, Home
<1>2. CASE ~ (lcd_dev.on /\ lcd_dev.pins = Row)
  <2>1. PICK steps : steps = lcd_printf(text)
    OBVIOUS
  <2>2. Call(steps)
    BY <1>2, <2>1 DEF Printf
  <2>3. lcd_dev.on => steps \in Seq(Command)
    BY <1>2, <2>1, PrintfSteps
  <2>4. /\ Ready' /\ Home' /\ result' # "boot" /\ (chip'.in_step => chip.in_step)
        /\ result' = "OK" => lcd_dev.on /\ chip' = After(steps).chip /\ lcd_dev' = After(steps).dev
    BY <2>2, <2>3, CallIs
  <2>. QED  BY <1>2, <2>1, <2>4
<1>. QED  BY <1>1, <1>2

LEMMA ClearRowIs ==
  ASSUME Ready, Home, ClearRow
  PROVE  Ready' /\ Home' /\ result' # "boot"
<1>1. CASE lcd_dev.on /\ lcd_dev.pins = Row
  BY <1>1 DEF ClearRow, Refused, Ready, Home
<1>2. CASE ~ (lcd_dev.on /\ lcd_dev.pins = Row)
  <2>1. PICK steps : steps = lcd_clear_row
    OBVIOUS
  <2>2. Call(steps)
    BY <1>2, <2>1 DEF ClearRow
  <2>3. lcd_dev.on => steps \in Seq(Command)
    <3>1. lcd_dev.on => lcd_dev.pins \in {{}, {0}, {1}}
      BY <1>2 DEF Ready, Device, Row
    <3>. QED  BY <2>1, <3>1, ClearRowSteps
  <2>. QED  BY <2>2, <2>3, CallIs
<1>. QED  BY <1>1, <1>2

LEMMA StuckIs == ASSUME Ready, Home, Stuck PROVE Ready' /\ Home' /\ result' = "stuck" /\ chip' = chip
BY DEF Stuck, Ready, Home

LEMMA InitialiseIs ==
  ASSUME Ready, Home, Initialise
  PROVE  /\ Ready' /\ Home' /\ result' # "boot"
         /\ result' = "OK" => chip'.cursor = lcd_dev'.pos
<1>1. CASE /\ ~lcd_dev.on
           /\ chip' = Started /\ lcd_dev' = [lcd_dev EXCEPT !.on = TRUE, !.mutex = "live"]
           /\ result' = "OK" /\ UNCHANGED lcd_failures
  <2>1. lcd_dev' \in Device /\ lcd_dev'.pos = lcd_dev.pos /\ lcd_dev'.on
    BY <1>1 DEF Ready, Device
  <2>2. Started.cursor = <<0, 0>>
    BY DEF Started
  <2>. QED  BY <1>1, <2>1, <2>2, StartedType DEF Ready, Home
<1>2. CASE /\ ~lcd_dev.on /\ lcd_failures < MaxLcdFailures /\ lcd_failures' = lcd_failures + 1
           /\ chip' \in {chip, Started, [chip EXCEPT !.in_step = FALSE]}
           /\ lcd_dev' = [lcd_dev EXCEPT !.mutex = "deleted"] /\ result' = "error"
  <2>1. lcd_dev' \in Device /\ lcd_dev'.pos = lcd_dev.pos /\ lcd_dev'.on = lcd_dev.on
    BY <1>2 DEF Ready, Device
  <2>2. [chip EXCEPT !.in_step = FALSE] \in Display
    BY DEF Ready, Display
  <2>. QED  BY <1>2, <2>1, <2>2, StartedType DEF Ready, Home
<1>3. CASE /\ lcd_dev.on /\ lcd_dev' = [lcd_dev EXCEPT !.mutex = "deleted"]
           /\ result' = "invalid_state" /\ UNCHANGED <<chip, lcd_failures>>
  <2>1. lcd_dev' \in Device /\ lcd_dev'.pos = lcd_dev.pos /\ lcd_dev'.on = lcd_dev.on
    BY <1>3 DEF Ready, Device
  <2>. QED  BY <1>3, <2>1 DEF Ready, Home
<1>. QED  BY <1>1, <1>2, <1>3 DEF Initialise

LEMMA DeinitialiseIs ==
  ASSUME Ready, Home, Deinitialise
  PROVE  Ready' /\ Home' /\ result' # "boot" /\ ~lcd_dev'.on
<1>1. Off \in Device /\ Off.pos = <<0, 0>> /\ ~Off.on
  BY Places DEF Off, Device
<1>. QED  BY <1>1 DEF Deinitialise, Ready, Home

(* The calls of one or two transfers.                                        *)
LEMMA PinSteps ==
  ASSUME Ready, NEW row \in Row
  PROVE  \E at \in Position :
           lcd_row_pin(row) \in Seq(Command) /\ EndsAt(lcd_row_pin(row), at)
<1>1. PICK pins \in SUBSET Row : pins = lcd_dev.pins \cup {row}
  BY DEF Ready, Device
<1>2. 1 - row \in Row
  BY DEF Row
<1>3. PICK at : at = IF pins = Row THEN <<1, Cols - 1>> ELSE <<1 - row, 0>>
  OBVIOUS
<1>4. at \in Position
  <2>1. <<1 - row, 0>> \in Position
    BY <1>2, Sizes DEF Position
  <2>. QED  BY <1>3, <2>1, Places
<1>5. lcd_row_pin(row) = <<SetPins(pins), SetPos(at), GoTo(at[1], at[2])>>
  BY <1>1, <1>3 DEF lcd_row_pin
<1>6. SetPins(pins) \in Command /\ SetPos(at) \in Command /\ GoTo(at[1], at[2]) \in Command
  BY <1>4, CommandsAre
<1>. QED  BY <1>4, <1>5, <1>6 DEF EndsAt

LEMMA UnpinSteps ==
  ASSUME Ready, NEW row \in Row
  PROVE  lcd_row_unpin(row) \in Seq(Command) /\ EndsAt(lcd_row_unpin(row), <<0, 0>>)
<1>1. PICK pins \in SUBSET Row : pins = lcd_dev.pins \ {row}
  BY DEF Ready, Device
<1>2. PICK at \in Position : at = <<0, 0>>
  BY Places
<1>3. lcd_row_unpin(row) = <<SetPins(pins), SetPos(at), GoTo(at[1], at[2])>>
  BY <1>1, <1>2 DEF lcd_row_unpin
<1>4. SetPins(pins) \in Command /\ SetPos(at) \in Command /\ GoTo(at[1], at[2]) \in Command
  BY CommandsAre
<1>5. EndsAt(lcd_row_unpin(row), at)
  BY <1>3 DEF EndsAt
<1>. QED  BY <1>2, <1>3, <1>4, <1>5

LEMMA CursorSteps ==
  ASSUME NEW row \in Row, NEW col \in 0 .. Cols - 1
  PROVE  /\ <<row, col>> \in Position
         /\ lcd_set_cursor(row, col) \in Seq(Command) /\ EndsAt(lcd_set_cursor(row, col), <<row, col>>)
<1>1. PICK at \in Position : at = <<row, col>>
  BY Places
<1>2. lcd_set_cursor(row, col) = <<SetPos(at), GoTo(at[1], at[2])>>
  BY <1>1 DEF lcd_set_cursor
<1>3. SetPos(at) \in Command /\ GoTo(at[1], at[2]) \in Command
  BY CommandsAre
<1>4. EndsAt(lcd_set_cursor(row, col), at)
  BY <1>2 DEF EndsAt
<1>. QED  BY <1>1, <1>2, <1>3, <1>4

(* A call that ends by sending the display's cursor where lcd_dev has it.    *)
Synced(steps) ==
  steps \in Seq(Command) /\ (chip.in_step => After(steps).chip.cursor = After(steps).dev.pos)

LEMMA EndsSynced ==
  ASSUME Ready, NEW steps \in Seq(Command), NEW at \in Position, EndsAt(steps, at)
  PROVE  Synced(steps)
BY Ends DEF Synced

LEMMA ClearLeaves ==
  ASSUME Ready, chip.in_step
  PROVE  /\ After(lcd_clear).dev.pins = {} /\ After(lcd_clear).dev.pos = <<0, 0>>
         /\ After(lcd_clear).chip.cursor = <<0, 0>>
<1>1. PICK steps : steps = lcd_clear
  OBVIOUS
<1>2. steps \in Seq(Command) /\ Len(steps) = 3
  BY <1>1, ClearSteps
<1>3. /\ Ran(steps)[3].chip.cursor = <<0, 0>>
      /\ Ran(steps)[3].dev.pins = {} /\ Ran(steps)[3].dev.pos = <<0, 0>>
  BY <1>1, <1>2, AfterClear
<1>4. After(steps) = Ran(steps)[3]
  BY <1>2 DEF After
<1>. QED  BY <1>1, <1>3, <1>4

LEMMA ClearSynced == ASSUME Ready PROVE Synced(lcd_clear)
BY ClearLeaves, ClearSteps DEF Synced

LEMMA CallSynced ==
  ASSUME Ready, Home, NEW steps, Synced(steps), Call(steps), result' = "OK", chip'.in_step
  PROVE  chip'.cursor = lcd_dev'.pos
BY CallIs DEF Synced

LEMMA PrintfSynced ==
  ASSUME Ready, Home, NEW text \in Seq(Char), Printf(text), result' = "OK", chip'.in_step
  PROVE  chip'.cursor = lcd_dev'.pos
<1>1. PICK steps : steps = lcd_printf(text)
  OBVIOUS
<1>2. lcd_dev.pins # Row /\ chip' = After(steps).chip /\ lcd_dev' = After(steps).dev /\ chip.in_step
  BY <1>1, PrintfIs
<1>3. steps \in Seq(Command) /\ EndsAt(steps, lcd_dev.pos)
  BY <1>1, <1>2, PrintfSteps
<1>4. lcd_dev.pos \in Position
  BY DEF Ready, Device
<1>. QED  BY <1>2, <1>3, <1>4, EndsSynced DEF Synced

----------------------------------------------------------------------------
(* The screens *)

ToDo(k) ==
  CASE k = 4 -> <<"clear", "title", "pin", "line">>
    [] k = 3 -> <<"title", "pin", "line">>
    [] k = 2 -> <<"pin", "line">>
    [] k = 1 -> <<"line">>
    [] k = 0 -> <<>>

Writer ==
  [screen : {"none", "pairing_code", "station_IP"}, title : Seq(Char), line : Seq(Char),
   todo : {ToDo(k) : k \in 0 .. 4}, clean : BOOLEAN]

(* What the calls made so far of a screen have left, none of them failing.   *)
Progress(k) ==
  /\ k = 3 => lcd_dev.pins = {} /\ lcd_dev.pos = <<0, 0>>
  /\ k = 2 => /\ lcd_dev.pins = {} /\ lcd_dev.pos = <<0, 0>>
              /\ ShowsIn(chip.ram, 0, writer.title)
  /\ k = 1 => /\ lcd_dev.pins = {0} /\ lcd_dev.pos = <<1, 0>> /\ chip.cursor = <<1, 0>>
              /\ ShowsIn(chip.ram, 0, writer.title)
  /\ k = 0 => ShowsIn(chip.ram, 0, writer.title) /\ ShowsIn(chip.ram, 1, writer.line)

OnScreen ==
  \E k \in 0 .. 4 :
    /\ writer.todo = ToDo(k)
    /\ Len(writer.title) \in 1 .. Cols /\ Len(writer.line) \in 1 .. Cols
    /\ writer.clean /\ chip.in_step => Progress(k)

LcdInv ==
  /\ Ready /\ Home /\ writer \in Writer
  /\ result = "boot" => writer = NoScreen
  /\ writer.screen = "none" => writer.todo = <<>>
  /\ writer.screen # "none" => OnScreen

LEMMA ToDoIs ==
  /\ ToDo(4) = <<"clear", "title", "pin", "line">> /\ ToDo(3) = <<"title", "pin", "line">>
  /\ ToDo(2) = <<"pin", "line">> /\ ToDo(1) = <<"line">> /\ ToDo(0) = <<>>
BY DEF ToDo

LEMMA ToDoSteps ==
  /\ ToDo(4) # <<>> /\ Head(ToDo(4)) = "clear" /\ Tail(ToDo(4)) = ToDo(3)
  /\ ToDo(3) # <<>> /\ Head(ToDo(3)) = "title" /\ Tail(ToDo(3)) = ToDo(2)
  /\ ToDo(2) # <<>> /\ Head(ToDo(2)) = "pin"   /\ Tail(ToDo(2)) = ToDo(1)
  /\ ToDo(1) # <<>> /\ Head(ToDo(1)) = "line"  /\ Tail(ToDo(1)) = ToDo(0)
  /\ ToDo(0) = <<>>
<1> DEFINE T == {"clear", "title", "pin", "line"}
<1>1. PICK a \in T, b \in T, c \in T, d \in T : a = "clear" /\ b = "title" /\ c = "pin" /\ d = "line"
  OBVIOUS
<1> HIDE DEF T
<1>2. <<a, b, c, d>> # <<>> /\ Head(<<a, b, c, d>>) = a /\ Tail(<<a, b, c, d>>) = <<b, c, d>>
  OBVIOUS
<1>3. <<b, c, d>> # <<>> /\ Head(<<b, c, d>>) = b /\ Tail(<<b, c, d>>) = <<c, d>>
  OBVIOUS
<1>4. <<c, d>> # <<>> /\ Head(<<c, d>>) = c /\ Tail(<<c, d>>) = <<d>>
  OBVIOUS
<1>5. <<d>> # <<>> /\ Head(<<d>>) = d /\ Tail(<<d>>) = <<>>
  OBVIOUS
<1>6. /\ ToDo(4) = <<a, b, c, d>> /\ ToDo(3) = <<b, c, d>>
      /\ ToDo(2) = <<c, d>> /\ ToDo(1) = <<d>> /\ ToDo(0) = <<>>
  BY <1>1, ToDoIs
<1>. QED  BY <1>1, <1>2, <1>3, <1>4, <1>5, <1>6, Zenon

LEMMA NoScreenIs ==
  NoScreen \in Writer /\ NoScreen.screen = "none" /\ NoScreen.todo = <<>>
<1>1. <<>> \in Seq(Char)
  OBVIOUS
<1>2. <<>> \in {ToDo(k) : k \in 0 .. 4}
  <2>1. 0 \in 0 .. 4
    OBVIOUS
  <2>. QED  BY <2>1, ToDoSteps
<1>. QED  BY <1>1, <1>2 DEF NoScreen, Writer

LEMMA TextIs ==
  ASSUME NEW id \in Label, NEW n \in Nat
  PROVE  Text(id, n) \in Seq(Char) /\ Len(Text(id, n)) = n
<1>1. \A i \in 1 .. n : <<id, i>> \in Char
  BY DEF Char
<1>. QED  BY <1>1 DEF Text

LEMMA NewScreen ==
  ASSUME NEW name \in {"pairing_code", "station_IP"}, NEW n \in 1 .. Cols, NEW m \in 1 .. Cols
  PROVE  /\ Screen(name, n, m) \in Writer /\ Screen(name, n, m).screen # "none"
         /\ Screen(name, n, m).todo = ToDo(4)
         /\ Len(Screen(name, n, m).title) = n /\ Len(Screen(name, n, m).line) = m
<1>1. PICK title \in Seq(Char) : title = Text(name, n) /\ Len(title) = n
  BY TextIs, Sizes DEF Label
<1>2. PICK line \in Seq(Char) : line = Text("address", m) /\ Len(line) = m
  BY TextIs, Sizes DEF Label
<1>3. PICK left \in {ToDo(k) : k \in 0 .. 4} : left = ToDo(4)
  <2>1. 4 \in 0 .. 4
    OBVIOUS
  <2>. QED  BY <2>1
<1>4. Screen(name, n, m) = [screen |-> name, title |-> title, line |-> line, todo |-> left, clean |-> TRUE]
  BY <1>1, <1>2, <1>3, ToDoIs DEF Screen
<1>. QED  BY <1>1, <1>2, <1>3, <1>4 DEF Writer

LEMMA WriterMoves ==
  ASSUME writer \in Writer, NEW k \in 1 .. 4, writer.todo = ToDo(k), Tail(ToDo(k)) = ToDo(k - 1),
         writer' = [writer EXCEPT !.todo = Tail(@), !.clean = @ /\ result' = "OK"]
  PROVE  /\ writer' \in Writer /\ writer'.screen = writer.screen
         /\ writer'.title = writer.title /\ writer'.line = writer.line
         /\ writer'.todo = ToDo(k - 1)
         /\ writer'.clean => writer.clean /\ result' = "OK"
<1>1. PICK left : left = ToDo(k - 1)
  OBVIOUS
<1>2. PICK clean \in BOOLEAN : clean = (writer.clean /\ result' = "OK")
  BY DEF Writer
<1>3. left \in {ToDo(i) : i \in 0 .. 4}
  <2>1. k - 1 \in 0 .. 4
    OBVIOUS
  <2>. QED  BY <1>1, <2>1
<1>4. writer' = [writer EXCEPT !.todo = left, !.clean = clean]
  BY <1>1, <1>2
<1>5. /\ writer' \in Writer /\ writer'.screen = writer.screen
      /\ writer'.title = writer.title /\ writer'.line = writer.line
      /\ writer'.todo = left /\ writer'.clean = clean
  BY <1>3, <1>4 DEF Writer
<1>. QED  BY <1>1, <1>2, <1>5

LEMMA PinShows ==
  ASSUME Ready, chip.in_step, lcd_dev.pins = {}
  PROVE  /\ lcd_row_pin(0) \in Seq(Command)
         /\ After(lcd_row_pin(0)).dev.pins = {0} /\ After(lcd_row_pin(0)).dev.pos = <<1, 0>>
         /\ After(lcd_row_pin(0)).chip.cursor = <<1, 0>>
         /\ After(lcd_row_pin(0)).chip.ram = chip.ram
<1>1. PICK at \in Position : at = <<1, 0>>
  BY Places
<1>2. PICK pins \in SUBSET Row : pins = {0}
  BY Sizes
<1>3. PICK steps : steps = lcd_row_pin(0)
  OBVIOUS
<1>4. steps = <<SetPins(pins), SetPos(at), GoTo(at[1], at[2])>>
  <2>1. pins = lcd_dev.pins \cup {0}
    BY <1>2
  <2>2. 1 \notin pins /\ 1 \in Row
    BY <1>2, Sizes
  <2>3. pins # Row
    BY <2>2
  <2>4. 1 - 0 = 1
    OBVIOUS
  <2>. QED  BY <1>1, <1>3, <2>1, <2>3, <2>4 DEF lcd_row_pin
<1>5. SetPins(pins) \in Command /\ SetPos(at) \in Command /\ GoTo(at[1], at[2]) \in Command
  BY CommandsAre
<1>6. /\ steps \in Seq(Command) /\ Len(steps) = 3 /\ EndsAt(steps, at) /\ steps[1] = SetPins(pins)
  BY <1>4, <1>5 DEF EndsAt
<1>7. PICK j \in Nat, k \in Nat : j = 0 /\ k = 1
  OBVIOUS
<1>8. k = j + 1 /\ k <= Len(steps) /\ Len(steps) - 2 = k
  BY <1>6, <1>7
<1>9. Ran(steps)[j] \in State /\ Ran(steps)[k] = Step(Ran(steps)[j], steps[k])
  BY <1>6, <1>8, OneStep
<1>10. Ran(steps)[j] = Now
  BY <1>6, <1>7, RunStep
<1>11. Ran(steps)[k].chip = chip /\ Ran(steps)[k].dev.pins = {0}
  BY <1>2, <1>6, <1>7, <1>9, <1>10, StepPins DEF Now
<1>12. /\ After(steps).dev.pos = at /\ After(steps).chip.cursor = at
       /\ After(steps).chip.ram = Ran(steps)[k].chip.ram
       /\ After(steps).dev.pins = Ran(steps)[k].dev.pins
  BY <1>6, <1>8, Ends
<1>. QED  BY <1>1, <1>3, <1>6, <1>11, <1>12

(* Each call of a screen, from what the one before it left.                  *)
LEMMA ScreenMoves ==
  ASSUME Ready, Home, writer \in Writer, NEW k \in 1 .. 4, writer.todo = ToDo(k),
         Len(writer.title) \in 1 .. Cols, Len(writer.line) \in 1 .. Cols,
         writer.clean /\ chip.in_step => Progress(k), Write
  PROVE  /\ Ready' /\ Home' /\ result' # "boot"
         /\ writer' \in Writer /\ writer'.screen = writer.screen
         /\ writer'.title = writer.title /\ writer'.line = writer.line
         /\ writer'.todo = ToDo(k - 1)
         /\ (writer'.clean /\ chip'.in_step => Progress(k - 1)')
<1>1. Tail(ToDo(k)) = ToDo(k - 1)
  <2>1. k = 1 \/ k = 2 \/ k = 3 \/ k = 4
    OBVIOUS
  <2>2. 1 - 1 = 0 /\ 2 - 1 = 1 /\ 3 - 1 = 2 /\ 4 - 1 = 3
    OBVIOUS
  <2>. QED  BY <2>1, <2>2, ToDoSteps
<1>2. writer' = [writer EXCEPT !.todo = Tail(@), !.clean = @ /\ result' = "OK"]
  BY DEF Write
<1>3. /\ writer' \in Writer /\ writer'.screen = writer.screen
      /\ writer'.title = writer.title /\ writer'.line = writer.line
      /\ writer'.todo = ToDo(k - 1)
      /\ writer'.clean => writer.clean /\ result' = "OK"
  BY <1>1, <1>2, WriterMoves
<1>4. writer.title \in Seq(Char) /\ writer.line \in Seq(Char)
  BY DEF Writer
<1>5. CASE Stuck
  <2>1. Ready' /\ Home' /\ result' = "stuck"
    BY <1>5, StuckIs
  <2>. QED  BY <1>3, <2>1
<1>6. CASE k = 4 /\ ~Stuck
  <2>1. Call(lcd_clear)
    BY <1>6, ToDoSteps DEF Write
  <2>2. PICK steps \in Seq(Command) : steps = lcd_clear /\ Len(steps) = 3
    BY ClearSteps
  <2>3. /\ Ready' /\ Home' /\ result' # "boot" /\ (chip'.in_step => chip.in_step)
        /\ result' = "OK" => lcd_dev' = After(steps).dev
    BY <2>1, <2>2, CallIs
  <2>4. chip.in_step => After(steps).dev.pins = {} /\ After(steps).dev.pos = <<0, 0>>
    BY <2>2, ClearLeaves
  <2>5. writer'.clean /\ chip'.in_step => Progress(k - 1)'
    <3>1. k - 1 = 3
      BY <1>6
    <3>. QED  BY <1>3, <2>3, <2>4, <3>1 DEF Progress
  <2>. QED  BY <1>3, <2>3, <2>5
<1>7. CASE k = 3 /\ ~Stuck
  <2>1. Printf(writer.title)
    BY <1>7, ToDoSteps DEF Write
  <2>2. /\ Ready' /\ Home' /\ result' # "boot" /\ (chip'.in_step => chip.in_step)
        /\ result' = "OK" => /\ chip' = After(lcd_printf(writer.title)).chip
                             /\ lcd_dev' = After(lcd_printf(writer.title)).dev
    BY <1>4, <2>1, PrintfIs
  <2>3. writer'.clean /\ chip'.in_step => Progress(k - 1)'
    <3> SUFFICES ASSUME writer'.clean, chip'.in_step PROVE Progress(k - 1)'
      OBVIOUS
    <3>1. result' = "OK" /\ chip.in_step /\ lcd_dev.pins = {} /\ lcd_dev.pos = <<0, 0>>
      BY <1>3, <1>7, <2>2 DEF Progress
    <3>2. Aimed(0) /\ 0 \in Row
      BY <3>1, Sizes DEF Aimed
    <3>3. /\ ShowsIn(After(lcd_printf(writer.title)).chip.ram, 0, writer.title)
          /\ After(lcd_printf(writer.title)).dev.pins = {}
          /\ After(lcd_printf(writer.title)).dev.pos = <<0, 0>>
      BY <1>4, <3>1, <3>2, PrintfShows
    <3>4. k - 1 = 2
      BY <1>7
    <3>. QED  BY <1>3, <2>2, <3>1, <3>3, <3>4 DEF Progress
  <2>. QED  BY <1>3, <2>2, <2>3
<1>8. CASE k = 2 /\ ~Stuck
  <2>1. Call(lcd_row_pin(0))
    BY <1>8, ToDoSteps DEF Write
  <2>2. lcd_row_pin(0) \in Seq(Command)
    BY PinSteps, Sizes
  <2>3. /\ Ready' /\ Home' /\ result' # "boot" /\ (chip'.in_step => chip.in_step)
        /\ result' = "OK" => /\ chip' = After(lcd_row_pin(0)).chip
                             /\ lcd_dev' = After(lcd_row_pin(0)).dev
    BY <2>1, <2>2, CallIs
  <2>4. writer'.clean /\ chip'.in_step => Progress(k - 1)'
    <3> SUFFICES ASSUME writer'.clean, chip'.in_step PROVE Progress(k - 1)'
      OBVIOUS
    <3>1. result' = "OK" /\ chip.in_step /\ lcd_dev.pins = {} /\ ShowsIn(chip.ram, 0, writer.title)
      BY <1>3, <1>8, <2>3 DEF Progress
    <3>2. k - 1 = 1
      BY <1>8
    <3>. QED  BY <1>3, <2>3, <3>1, <3>2, PinShows DEF Progress
  <2>. QED  BY <1>3, <2>3, <2>4
<1>9. CASE k = 1 /\ ~Stuck
  <2>1. Printf(writer.line)
    BY <1>9, ToDoSteps DEF Write
  <2>2. /\ Ready' /\ Home' /\ result' # "boot" /\ (chip'.in_step => chip.in_step)
        /\ result' = "OK" => /\ chip' = After(lcd_printf(writer.line)).chip
                             /\ lcd_dev' = After(lcd_printf(writer.line)).dev
    BY <1>4, <2>1, PrintfIs
  <2>3. writer'.clean /\ chip'.in_step => Progress(k - 1)'
    <3> SUFFICES ASSUME writer'.clean, chip'.in_step PROVE Progress(k - 1)'
      OBVIOUS
    <3>1. /\ result' = "OK" /\ chip.in_step /\ lcd_dev.pins = {0} /\ lcd_dev.pos = <<1, 0>>
          /\ chip.cursor = <<1, 0>> /\ ShowsIn(chip.ram, 0, writer.title)
      BY <1>3, <1>9, <2>2 DEF Progress
    <3>2. Aimed(1) /\ 1 \in Row
      BY <3>1, Sizes DEF Aimed
    <3>3. /\ ShowsIn(After(lcd_printf(writer.line)).chip.ram, 1, writer.line)
          /\ SameIn(After(lcd_printf(writer.line)).chip.ram, chip.ram, 0)
      BY <1>4, <3>1, <3>2, PrintfShows
    <3>4. ShowsIn(After(lcd_printf(writer.line)).chip.ram, 0, writer.title)
      BY <3>1, <3>3 DEF ShowsIn, SameIn
    <3>5. k - 1 = 0
      BY <1>9
    <3>. QED  BY <1>3, <2>2, <3>1, <3>3, <3>4, <3>5 DEF Progress
  <2>. QED  BY <1>3, <2>2, <2>3
<1>. QED  BY <1>5, <1>6, <1>7, <1>8, <1>9

LEMMA WriteKeeps == ASSUME LcdInv, Write PROVE LcdInv'
<1>1. writer.todo # <<>> /\ Ready /\ Home /\ writer \in Writer
  BY DEF Write, LcdInv
<1>2. writer.screen # "none" /\ OnScreen
  BY <1>1 DEF LcdInv
<1>3. PICK k \in 0 .. 4 :
        /\ writer.todo = ToDo(k)
        /\ Len(writer.title) \in 1 .. Cols /\ Len(writer.line) \in 1 .. Cols
        /\ writer.clean /\ chip.in_step => Progress(k)
  BY <1>2 DEF OnScreen
<1>4. k # 0
  BY <1>1, <1>3, ToDoSteps
<1>5. k \in 1 .. 4 /\ k - 1 \in 0 .. 4
  BY <1>4
<1>6. /\ Ready' /\ Home' /\ result' # "boot"
      /\ writer' \in Writer /\ writer'.screen = writer.screen
      /\ writer'.title = writer.title /\ writer'.line = writer.line
      /\ writer'.todo = ToDo(k - 1)
      /\ (writer'.clean /\ chip'.in_step => Progress(k - 1)')
  BY <1>1, <1>3, <1>5, ScreenMoves
<1>7. OnScreen'
  <2>1. /\ (writer.todo)' = ToDo(k - 1)
        /\ Len(writer'.title) \in 1 .. Cols /\ Len(writer'.line) \in 1 .. Cols
        /\ writer'.clean /\ chip'.in_step => Progress(k - 1)'
    BY <1>3, <1>6
  <2>. QED  BY <1>5, <2>1 DEF OnScreen, ToDo
<1>. QED  BY <1>2, <1>6, <1>7 DEF LcdInv

(* A call outside a screen leaves none under way.                            *)
LEMMA OtherKeeps ==
  ASSUME Ready', Home', result' # "boot", writer' = NoScreen
  PROVE  LcdInv'
BY NoScreenIs DEF LcdInv, Writer, ToDo

LEMMA OtherwiseIs ==
  ASSUME Ready, Home, Otherwise
  PROVE  /\ Ready' /\ Home' /\ result' # "boot" /\ writer' = NoScreen
         /\ result' = "OK" /\ chip'.in_step /\ lcd_dev'.on => chip'.cursor = lcd_dev'.pos
<1>1. writer' = NoScreen
  BY DEF Otherwise
<1>2. CASE Initialise
  BY <1>1, <1>2, InitialiseIs
<1>3. CASE Deinitialise
  BY <1>1, <1>3, DeinitialiseIs
<1>4. CASE Call(lcd_clear)
  <2>1. PICK steps : steps = lcd_clear
    OBVIOUS
  <2>2. Synced(steps) /\ Call(steps) /\ steps \in Seq(Command)
    BY <1>4, <2>1, ClearSynced, ClearSteps
  <2>. QED  BY <1>1, <2>2, CallIs, CallSynced
<1>5. CASE Stuck
  BY <1>1, <1>5, StuckIs
<1>6. ASSUME NEW n \in 0 .. 2 * Cols, Printf(Text("text", n))
      PROVE  /\ Ready' /\ Home' /\ result' # "boot"
             /\ result' = "OK" /\ chip'.in_step => chip'.cursor = lcd_dev'.pos
  <2>1. n \in Nat
    BY Sizes
  <2>2. PICK text \in Seq(Char) : text = Text("text", n)
    BY <2>1, TextIs DEF Label
  <2>. QED  BY <1>6, <2>2, PrintfIs, PrintfSynced
<1>7. ASSUME NEW r \in Row, Call(lcd_row_pin(r)) \/ Call(lcd_row_unpin(r))
      PROVE  /\ Ready' /\ Home' /\ result' # "boot"
             /\ result' = "OK" /\ chip'.in_step => chip'.cursor = lcd_dev'.pos
  <2>1. PICK steps : Call(steps) /\ steps \in Seq(Command) /\ \E at \in Position : EndsAt(steps, at)
    <3>1. CASE Call(lcd_row_pin(r))
      <4>1. PICK steps : steps = lcd_row_pin(r)
        OBVIOUS
      <4>2. PICK at \in Position : steps \in Seq(Command) /\ EndsAt(steps, at)
        BY <4>1, PinSteps
      <4>. QED  BY <3>1, <4>1, <4>2
    <3>2. CASE Call(lcd_row_unpin(r))
      <4>1. PICK steps : steps = lcd_row_unpin(r)
        OBVIOUS
      <4>2. PICK at \in Position : steps \in Seq(Command) /\ EndsAt(steps, at)
        BY <4>1, UnpinSteps, Places
      <4>. QED  BY <3>2, <4>1, <4>2
    <3>. QED  BY <1>7, <3>1, <3>2
  <2>. QED  BY <2>1, CallIs, EndsSynced, CallSynced
<1>8. ASSUME NEW r \in Row, NEW c \in 0 .. Cols - 1, Call(lcd_set_cursor(r, c))
      PROVE  /\ Ready' /\ Home' /\ result' # "boot"
             /\ result' = "OK" /\ chip'.in_step => chip'.cursor = lcd_dev'.pos
  <2>1. PICK steps : Call(steps) /\ steps \in Seq(Command) /\ \E at \in Position : EndsAt(steps, at)
    <3>1. PICK steps : steps = lcd_set_cursor(r, c)
      OBVIOUS
    <3>2. PICK at \in Position : steps \in Seq(Command) /\ EndsAt(steps, at)
      BY <3>1, CursorSteps
    <3>. QED  BY <1>8, <3>1, <3>2
  <2>. QED  BY <2>1, CallIs, EndsSynced, CallSynced
<1>. QED  BY <1>1, <1>2, <1>3, <1>4, <1>5, <1>6, <1>7, <1>8 DEF Otherwise

----------------------------------------------------------------------------
(* What the display promises *)

LEMMA LcdInitInv == LcdInit => LcdInv
<1> SUFFICES ASSUME LcdInit PROVE LcdInv
  OBVIOUS
<1>1. chip \in Display
  BY StartedType DEF LcdInit, Display
<1>2. lcd_dev \in Device /\ lcd_dev.pos = <<0, 0>>
  BY Places DEF LcdInit, Off, Device
<1>. QED  BY <1>1, <1>2, NoScreenIs DEF LcdInit, LcdInv, Ready, Home

LEMMA LcdStepInv == LcdInv /\ [LcdNext]_lcd_vars => LcdInv'
<1> SUFFICES ASSUME LcdInv, [LcdNext]_lcd_vars PROVE LcdInv'
  OBVIOUS
<1>1. Ready /\ Home
  BY DEF LcdInv
<1>2. CASE Boot
  <2>1. Ready' /\ Home' /\ result' # "boot" /\ writer' = NoScreen
    BY <1>1, <1>2, InitialiseIs DEF Boot, LcdInv
  <2>. QED  BY <2>1, OtherKeeps
<1>3. ASSUME NEW name \in {"pairing_code", "station_IP"}, result # "boot", Begin(name)
      PROVE  LcdInv'
  <2>1. PICK n \in 1 .. Cols, m \in 1 .. Cols : writer' = Screen(name, n, m)
    BY <1>3 DEF Begin
  <2>2. /\ writer' \in Writer /\ writer'.screen # "none" /\ writer'.todo = ToDo(4)
        /\ Len(writer'.title) \in 1 .. Cols /\ Len(writer'.line) \in 1 .. Cols
    BY <2>1, NewScreen
  <2>3. Ready' /\ Home' /\ result' # "boot"
    BY <1>1, <1>3 DEF Begin, Ready, Home
  <2>4. PICK k \in 0 .. 4 : k = 4
    OBVIOUS
  <2>5. Progress(k)'
    BY <2>4 DEF Progress
  <2>6. OnScreen'
    BY <2>2, <2>4, <2>5 DEF OnScreen, ToDo
  <2>. QED  BY <2>2, <2>3, <2>6 DEF LcdInv
<1>4. CASE Write
  BY <1>4, WriteKeeps
<1>5. CASE Otherwise
  BY <1>1, <1>5, OtherwiseIs, OtherKeeps
<1>6. CASE ClearOtherRow
  <2>1. Ready' /\ Home' /\ result' # "boot" /\ writer' = NoScreen
    BY <1>1, <1>6, ClearRowIs DEF ClearOtherRow
  <2>. QED  BY <2>1, OtherKeeps
<1>7. CASE UNCHANGED lcd_vars
  BY <1>7 DEF lcd_vars, LcdInv, Ready, Home, OnScreen, Progress, Writer, ToDo, NoScreen
<1>. QED  BY <1>2, <1>3, <1>4, <1>5, <1>6, <1>7 DEF LcdNext

(* While the Wi-Fi manager writes a screen and none of its calls has failed, *)
(* lcd_dev has the pins and the position the next of them counts on, and the *)
(* title already stands in row 0.                                            *)
THEOREM LcdInvariant == LcdSpec => []LcdInv
<1>1. LcdInit => LcdInv
  BY LcdInitInv
<1>2. LcdInv /\ [LcdNext]_lcd_vars => LcdInv'
  BY LcdStepInv
<1>. QED  BY <1>1, <1>2, PTL DEF LcdSpec

(* A screen the Wi-Fi manager wrote without a failure shows its title and    *)
(* its address and nothing of what was there, for every width of the display *)
(* and whatever was pinned, half written or failed before it.                *)
THEOREM ScreenAlwaysRight == LcdSpec => []ScreenIsRight
<1>1. LcdInv => ScreenIsRight
  <2> SUFFICES ASSUME LcdInv, writer.screen # "none", writer.todo = <<>>, writer.clean, chip.in_step
               PROVE  Shown(0) = Padded(writer.title) /\ Shown(1) = Padded(writer.line)
    BY DEF ScreenIsRight
  <2>1. PICK k \in 0 .. 4 : writer.todo = ToDo(k) /\ Progress(k)
    BY DEF LcdInv, OnScreen
  <2>2. k = 0
    <3>1. k = 0 \/ k = 1 \/ k = 2 \/ k = 3 \/ k = 4
      OBVIOUS
    <3>. QED  BY <2>1, <3>1, ToDoSteps
  <2>3. ShowsIn(chip.ram, 0, writer.title) /\ ShowsIn(chip.ram, 1, writer.line)
    BY <2>1, <2>2 DEF Progress
  <2>. QED  BY <2>3 DEF ShowsIn, Shown, Padded
<1>. QED  BY <1>1, LcdInvariant, PTL

(* After a call of the display's API that succeeds the display's cursor is   *)
(* where lcd_dev has it, whatever calls failed halfway before.               *)
THEOREM CursorAlwaysKnown == LcdSpec => CursorIsKnown
<1>1. /\ LcdInv
      => [Write \/ Otherwise =>
            (result' = "OK" /\ chip'.in_step /\ lcd_dev'.on => chip'.cursor = lcd_dev'.pos)]_lcd_vars
  <2> SUFFICES ASSUME LcdInv, Write \/ Otherwise, result' = "OK", chip'.in_step, lcd_dev'.on
               PROVE  chip'.cursor = lcd_dev'.pos
    OBVIOUS
  <2>1. Ready /\ Home /\ writer.title \in Seq(Char) /\ writer.line \in Seq(Char)
    BY DEF LcdInv, Writer
  <2>2. CASE Otherwise
    BY <2>1, <2>2, OtherwiseIs
  <2>3. CASE Write
    <3>1. ~Stuck
      BY <2>1, StuckIs
    <3>2. Call(lcd_clear) \/ Printf(writer.title) \/ Call(lcd_row_pin(0)) \/ Printf(writer.line)
      <4>1. writer.todo # <<>> /\ writer.screen # "none"
        BY <2>3 DEF Write, LcdInv
      <4>2. PICK k \in 0 .. 4 : writer.todo = ToDo(k)
        BY <4>1 DEF LcdInv, OnScreen
      <4>3. k = 1 \/ k = 2 \/ k = 3 \/ k = 4
        BY <4>1, <4>2, ToDoSteps
      <4>4. Head(writer.todo) \in {"clear", "title", "pin", "line"}
        BY <4>2, <4>3, ToDoSteps
      <4>. QED  BY <2>3, <3>1, <4>4 DEF Write
    <3>3. CASE Call(lcd_clear)
      <4>1. PICK steps : steps = lcd_clear
        OBVIOUS
      <4>. QED  BY <2>1, <3>3, <4>1, ClearSynced, CallSynced
    <3>4. CASE Call(lcd_row_pin(0))
      <4>1. PICK steps : steps = lcd_row_pin(0)
        OBVIOUS
      <4>2. Synced(steps)
        BY <2>1, <4>1, PinSteps, EndsSynced, Sizes
      <4>. QED  BY <2>1, <3>4, <4>1, <4>2, CallSynced
    <3>5. CASE Printf(writer.title)
      BY <2>1, <3>5, PrintfSynced
    <3>6. CASE Printf(writer.line)
      BY <2>1, <3>6, PrintfSynced
    <3>. QED  BY <3>2, <3>3, <3>4, <3>5, <3>6
  <2>. QED  BY <2>2, <2>3
<1>. QED  BY <1>1, LcdInvariant, PTL DEF CursorIsKnown
====
