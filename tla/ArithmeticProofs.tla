---- MODULE ArithmeticProofs ----
(***************************************************************************)
(* The two computations: the vote of a batch of samples and the checksum   *)
(* of a packet, for every reading, every number of samples, every size of  *)
(* packet and every byte.                                                  *)
(***************************************************************************)
EXTENDS Samples, WireChecksum, Induction, TLAPS

----------------------------------------------------------------------------
(* The vote of a batch.  A sample that decides for an axis exceeds the       *)
(* others there by at least one, as readings are whole numbers; so the sums  *)
(* differ by at least the number of samples that were read, which is what    *)
(* they are divided by, and the truncated means still differ.                *)

Who == {"none", "worker", "manager"}

BatchType ==
  [by : Who, count : Nat, left : Nat, recvd : Nat, x : Int, y : Int, z : Int]

SamplesType ==
  /\ batch \in BatchType
  /\ seen \subseteq Orientations \cup {"flat"}

(* On the axis of o the sum is ahead of both others by one for each sample   *)
(* read; a board on its side may tie with the axis that comes after.         *)
Ahead(o, b) ==
  /\ o = "ORIENT_0"   => b.x >= Abs(b.y) /\ b.x >= Abs(b.z) + b.recvd
  /\ o = "ORIENT_180" => -b.x >= Abs(b.y) /\ -b.x >= Abs(b.z) + b.recvd
  /\ o = "ORIENT_90"  => b.y >= Abs(b.x) + b.recvd /\ b.y >= Abs(b.z) + b.recvd
  /\ o = "ORIENT_270" => -b.y >= Abs(b.x) + b.recvd /\ -b.y >= Abs(b.z) + b.recvd

Voting ==
  /\ SamplesType
  /\ batch.by = "none" => batch = NoBatch
  /\ batch.by # "none" => (batch.recvd = 0 <=> seen = {})
  /\ batch.recvd = 0 => batch.x = 0 /\ batch.y = 0 /\ batch.z = 0
  /\ batch.by # "none" => derived = "none"
  /\ batch.by # "none" => \A o \in Orientations : seen = {o} => Ahead(o, batch)

----------------------------------------------------------------------------
(* Whole-number division is monotone, and a lead of the divisor is a lead of *)
(* one in the quotients.                                                     *)
LEMMA QuotientBounds ==
  ASSUME NEW a \in Nat, NEW n \in Nat \ {0}
  PROVE  a \div n \in Nat /\ n * (a \div n) <= a /\ a < n * (a \div n) + n
BY SMTT(30)

LEMMA QuotientOrder ==
  ASSUME NEW a \in Nat, NEW b \in Nat, NEW n \in Nat \ {0}, a >= b
  PROVE  a \div n >= b \div n
<1>1. n * (b \div n) < n * (a \div n) + n
  BY QuotientBounds
<1>. QED  BY <1>1, QuotientBounds, SMTT(30)

LEMMA QuotientLead ==
  ASSUME NEW a \in Nat, NEW b \in Nat, NEW n \in Nat \ {0}, a >= b + n
  PROVE  a \div n > b \div n
<1>1. n * (b \div n) + n < n * (a \div n) + n
  BY QuotientBounds
<1>. QED  BY <1>1, QuotientBounds, SMTT(30)

LEMMA AbsNat == ASSUME NEW a \in Int PROVE Abs(a) \in Nat
BY DEF Abs

(* Truncation towards zero commutes with the absolute value.                 *)
LEMMA AbsQuotient ==
  ASSUME NEW a \in Int, NEW n \in Nat \ {0}
  PROVE  /\ Quotient(a, n) \in Int
         /\ Abs(Quotient(a, n)) = Abs(a) \div n
         /\ a >= 0 => Quotient(a, n) = a \div n
         /\ a < 0 => Quotient(a, n) = -((-a) \div n)
<1>1. CASE a >= 0
  BY <1>1, QuotientBounds DEF Quotient, Abs
<1>2. CASE a < 0
  <2>1. -a \in Nat
    BY <1>2
  <2>2. (-a) \div n \in Nat
    BY <2>1, QuotientBounds
  <2>. QED  BY <1>2, <2>2 DEF Quotient, Abs
<1>. QED  BY <1>1, <1>2

LEMMA SignedInt == ASSUME NEW r \in RawValues PROVE Signed(r) \in Int
BY SamplesAssumption DEF Signed

----------------------------------------------------------------------------
Point == [x : Int, y : Int, z : Int]

(* _derive_orientation_ returns one of five, and what it returns says how    *)
(* the three axes compare.                                                   *)
LEMMA DeriveSays ==
  ASSUME NEW g \in Point
  PROVE  /\ _derive_orientation_(g, "flat") \in Orientations \cup {"flat"}
         /\ _derive_orientation_(g, "flat") = "ORIENT_0"
              => g.x > 0 /\ g.x >= Abs(g.y) /\ g.x > Abs(g.z)
         /\ _derive_orientation_(g, "flat") = "ORIENT_180"
              => g.x < 0 /\ -g.x >= Abs(g.y) /\ -g.x > Abs(g.z)
         /\ _derive_orientation_(g, "flat") = "ORIENT_90"
              => g.y > 0 /\ g.y > Abs(g.x) /\ g.y > Abs(g.z)
         /\ _derive_orientation_(g, "flat") = "ORIENT_270"
              => g.y < 0 /\ -g.y > Abs(g.x) /\ -g.y > Abs(g.z)
<1>1. g.x \in Int /\ g.y \in Int /\ g.z \in Int
  BY DEF Point
<1>. QED  BY <1>1 DEF _derive_orientation_, Abs, Orientations

LEMMA DeriveIs ==
  ASSUME NEW g \in Point, NEW last
  PROVE  /\ g.x > 0 /\ Abs(g.x) >= Abs(g.y) /\ Abs(g.x) > Abs(g.z)
              => _derive_orientation_(g, last) = "ORIENT_0"
         /\ g.x < 0 /\ Abs(g.x) >= Abs(g.y) /\ Abs(g.x) > Abs(g.z)
              => _derive_orientation_(g, last) = "ORIENT_180"
         /\ g.y > 0 /\ Abs(g.y) > Abs(g.x) /\ Abs(g.y) > Abs(g.z)
              => _derive_orientation_(g, last) = "ORIENT_90"
         /\ g.y < 0 /\ Abs(g.y) > Abs(g.x) /\ Abs(g.y) > Abs(g.z)
              => _derive_orientation_(g, last) = "ORIENT_270"
<1>1. g.x \in Int /\ g.y \in Int /\ g.z \in Int
  BY DEF Point
<1>. QED  BY <1>1 DEF _derive_orientation_, Abs

----------------------------------------------------------------------------
(* One more sample that points like the ones before keeps the lead.          *)
LEMMA TakenKeepsTheLead ==
  ASSUME NEW b \in BatchType, NEW g \in Point, NEW o \in Orientations,
         Ahead(o, b), _derive_orientation_(g, "flat") = o
  PROVE  Ahead(o, [b EXCEPT !.left = @ - 1, !.recvd = @ + 1,
                            !.x = @ + g.x, !.y = @ + g.y, !.z = @ + g.z])
<1> DEFINE c == [b EXCEPT !.left = @ - 1, !.recvd = @ + 1,
                          !.x = @ + g.x, !.y = @ + g.y, !.z = @ + g.z]
<1>1. /\ c.x = b.x + g.x /\ c.y = b.y + g.y /\ c.z = b.z + g.z
      /\ c.recvd = b.recvd + 1
  BY DEF BatchType
<1>2. /\ b.x \in Int /\ b.y \in Int /\ b.z \in Int /\ b.recvd \in Nat
      /\ g.x \in Int /\ g.y \in Int /\ g.z \in Int
  BY DEF BatchType, Point
<1> HIDE DEF c
<1>3. CASE o = "ORIENT_0"
  <2>1. g.x >= Abs(g.y) /\ g.x > Abs(g.z)
    BY <1>3, DeriveSays
  <2>. QED  BY <1>1, <1>2, <1>3, <2>1 DEF Ahead, Abs
<1>4. CASE o = "ORIENT_180"
  <2>1. -g.x >= Abs(g.y) /\ -g.x > Abs(g.z)
    BY <1>4, DeriveSays
  <2>. QED  BY <1>1, <1>2, <1>4, <2>1 DEF Ahead, Abs
<1>5. CASE o = "ORIENT_90"
  <2>1. g.y > Abs(g.x) /\ g.y > Abs(g.z)
    BY <1>5, DeriveSays
  <2>. QED  BY <1>1, <1>2, <1>5, <2>1 DEF Ahead, Abs
<1>6. CASE o = "ORIENT_270"
  <2>1. -g.y > Abs(g.x) /\ -g.y > Abs(g.z)
    BY <1>6, DeriveSays
  <2>. QED  BY <1>1, <1>2, <1>6, <2>1 DEF Ahead, Abs
<1>. QED  BY <1>3, <1>4, <1>5, <1>6 DEF Orientations, c

(* A lead of the sums is a lead of the means.                                *)
LEMMA MeanDecides ==
  ASSUME NEW b \in BatchType, NEW o \in Orientations, NEW last,
         b.recvd # 0, Ahead(o, b)
  PROVE  _derive_orientation_(Mean(b), last) = o
<1> DEFINE n == b.recvd
           ax == Abs(b.x)
           ay == Abs(b.y)
           az == Abs(b.z)
<1>1. b.x \in Int /\ b.y \in Int /\ b.z \in Int /\ n \in Nat \ {0}
  BY DEF BatchType
<1>2. ax \in Nat /\ ay \in Nat /\ az \in Nat
  BY <1>1, AbsNat
<1>3. /\ Mean(b) \in Point
      /\ Abs(Mean(b).x) = ax \div n /\ Abs(Mean(b).y) = ay \div n /\ Abs(Mean(b).z) = az \div n
      /\ Mean(b).x = Quotient(b.x, n) /\ Mean(b).y = Quotient(b.y, n)
  BY <1>1, AbsQuotient DEF Mean, Point
<1>4. ax \div n \in Nat /\ ay \div n \in Nat /\ az \div n \in Nat
  BY <1>1, <1>2, QuotientBounds
<1>5. CASE o = "ORIENT_0"
  <2>1. b.x >= 0 /\ ax >= ay /\ ax >= az + n
    BY <1>1, <1>2, <1>5 DEF Ahead, Abs
  <2>2. ax \div n >= ay \div n /\ ax \div n > az \div n
    BY <1>1, <1>2, <2>1, QuotientOrder, QuotientLead
  <2>3. ax = b.x
    BY <1>1, <2>1 DEF Abs
  <2>4. Mean(b).x = ax \div n
    BY <1>1, <1>3, <2>1, <2>3, AbsQuotient
  <2>. QED  BY <1>3, <1>4, <1>5, <2>2, <2>4, DeriveIs
<1>6. CASE o = "ORIENT_180"
  <2>1. b.x < 0 /\ ax >= ay /\ ax >= az + n
    BY <1>1, <1>2, <1>6 DEF Ahead, Abs
  <2>2. ax \div n >= ay \div n /\ ax \div n > az \div n
    BY <1>1, <1>2, <2>1, QuotientOrder, QuotientLead
  <2>3. Mean(b).x = -(ax \div n)
    BY <1>1, <1>3, <2>1, AbsQuotient DEF Abs
  <2>. QED  BY <1>3, <1>4, <1>6, <2>2, <2>3, DeriveIs
<1>7. CASE o = "ORIENT_90"
  <2>1. b.y >= 0 /\ ay >= ax + n /\ ay >= az + n
    BY <1>1, <1>2, <1>7 DEF Ahead, Abs
  <2>2. ay \div n > ax \div n /\ ay \div n > az \div n
    BY <1>1, <1>2, <2>1, QuotientLead
  <2>3. ay = b.y
    BY <1>1, <2>1 DEF Abs
  <2>4. Mean(b).y = ay \div n
    BY <1>1, <1>3, <2>1, <2>3, AbsQuotient
  <2>. QED  BY <1>3, <1>4, <1>7, <2>2, <2>4, DeriveIs
<1>8. CASE o = "ORIENT_270"
  <2>1. b.y < 0 /\ ay >= ax + n /\ ay >= az + n
    BY <1>1, <1>2, <1>8 DEF Ahead, Abs
  <2>2. ay \div n > ax \div n /\ ay \div n > az \div n
    BY <1>1, <1>2, <2>1, QuotientLead
  <2>3. Mean(b).y = -(ay \div n)
    BY <1>1, <1>3, <2>1, AbsQuotient DEF Abs
  <2>. QED  BY <1>3, <1>4, <1>8, <2>2, <2>3, DeriveIs
<1>. QED  BY <1>5, <1>6, <1>7, <1>8 DEF Orientations

----------------------------------------------------------------------------
LEMMA VotingInit == SamplesInit => Voting
BY DEF SamplesInit, Voting, SamplesType, BatchType, NoBatch, Who, Orientations

LEMMA BeginsVoting ==
  ASSUME Voting, NEW who \in {"worker", "manager"}, NEW count \in Nat, Begins(who, count)
  PROVE  Voting' /\ UnanimousBatch'
BY DEF Begins, Voting, SamplesType, BatchType, NoBatch, Who, Orientations, Ahead, UnanimousBatch

LEMMA TakenVoting ==
  ASSUME Voting, Taken
  PROVE  Voting' /\ (UnanimousBatch => UnanimousBatch')
<1>1. PICK x, y, z \in RawValues :
        LET g == [x |-> Signed(x), y |-> Signed(y), z |-> Signed(z)]
        IN /\ batch' = [batch EXCEPT !.left = @ - 1, !.recvd = @ + 1,
                                     !.x = @ + g.x, !.y = @ + g.y, !.z = @ + g.z]
           /\ seen' = seen \cup {_derive_orientation_(g, "flat")}
  BY DEF Taken
<1> DEFINE g == [x |-> Signed(x), y |-> Signed(y), z |-> Signed(z)]
           d == _derive_orientation_(g, "flat")
<1>2. g \in Point
  BY SignedInt DEF Point
<1>3. /\ batch' = [batch EXCEPT !.left = @ - 1, !.recvd = @ + 1,
                                !.x = @ + g.x, !.y = @ + g.y, !.z = @ + g.z]
      /\ seen' = seen \cup {d} /\ derived' = derived
  BY <1>1 DEF Taken
<1>4. batch \in BatchType /\ batch.left > 0
  BY DEF Voting, SamplesType, Taken
<1>41. batch.by # "none" /\ derived = "none"
  BY <1>4 DEF Voting, NoBatch
<1>5. d \in Orientations \cup {"flat"}
  BY <1>2, DeriveSays
<1> HIDE DEF g, d
<1>6. batch' \in BatchType /\ batch'.by = batch.by /\ batch'.recvd # 0
  <2>1. g.x \in Int /\ g.y \in Int /\ g.z \in Int
    BY <1>2 DEF Point
  <2>2. batch.left - 1 \in Nat /\ batch.recvd + 1 \in Nat \ {0}
    BY <1>4 DEF BatchType
  <2>3. batch.x + g.x \in Int /\ batch.y + g.y \in Int /\ batch.z + g.z \in Int
    BY <1>4, <2>1 DEF BatchType
  <2>. QED  BY <1>3, <1>4, <2>2, <2>3 DEF BatchType
<1>7. SamplesType'
  BY <1>3, <1>5, <1>6 DEF Voting, SamplesType
<1>8. ASSUME batch.by # "none", NEW o \in Orientations, seen' = {o}
      PROVE  Ahead(o, batch')
  <2>1. d = o /\ seen \in {{}, {o}}
    BY <1>3, <1>8
  <2>2. CASE seen = {o}
    <3>1. Ahead(o, batch)
      BY <1>8, <2>2 DEF Voting
    <3>. QED  BY <1>2, <1>3, <1>4, <2>1, <3>1, TakenKeepsTheLead DEF d
  <2>3. CASE seen = {}
    <3>1. batch.recvd = 0 /\ batch.x = 0 /\ batch.y = 0 /\ batch.z = 0
      BY <1>8, <2>3 DEF Voting
    <3>2. Ahead(o, batch)
      BY <3>1 DEF Ahead, Abs
    <3>. QED  BY <1>2, <1>3, <1>4, <2>1, <3>2, TakenKeepsTheLead DEF d
  <2>. QED  BY <2>1, <2>2, <2>3
<1>. QED  BY <1>3, <1>41, <1>6, <1>7, <1>8 DEF Voting, UnanimousBatch

LEMMA NotReadVoting ==
  ASSUME Voting, NotRead
  PROVE  Voting' /\ (UnanimousBatch => UnanimousBatch')
<1>1. batch \in BatchType /\ batch' = [batch EXCEPT !.left = @ - 1] /\ batch.left > 0
  BY DEF Voting, SamplesType, NotRead
<1>2. /\ batch' \in BatchType /\ batch'.by = batch.by /\ batch'.recvd = batch.recvd
      /\ batch'.x = batch.x /\ batch'.y = batch.y /\ batch'.z = batch.z
  BY <1>1 DEF BatchType
<1>3. \A o : Ahead(o, batch) => Ahead(o, batch')
  BY <1>2 DEF Ahead
<1>4. batch.by # "none" /\ derived = "none"
  BY <1>1 DEF Voting, NoBatch
<1>5. seen' = seen /\ derived' = derived
  BY DEF NotRead
<1>. QED  BY <1>2, <1>3, <1>4, <1>5 DEF Voting, SamplesType, UnanimousBatch

LEMMA EndsVoting ==
  ASSUME Voting, Ends
  PROVE  Voting' /\ UnanimousBatch'
<1>1. Voting'
  BY DEF Ends, Voting, SamplesType, BatchType, NoBatch, Who
<1>2. ASSUME derived' # "none", NEW o \in Orientations, seen' = {o}
      PROVE  derived' = o
  <2>1. batch.recvd # 0 /\ derived' = _derive_orientation_(Mean(batch), last_orient)
    BY <1>2 DEF Ends
  <2>2. batch \in BatchType /\ Ahead(o, batch)
    BY <1>2 DEF Ends, Voting, SamplesType
  <2>. QED  BY <2>1, <2>2, MeanDecides
<1>. QED  BY <1>1, <1>2 DEF UnanimousBatch

(* Whatever the readings, whatever the number of samples a batch asks for    *)
(* and however many of them are lost: when those that could be read agree,   *)
(* the batch says what they say.                                             *)
THEOREM UnanimousAlways == SamplesSpec => []UnanimousBatch
<1>1. SamplesInit => Voting /\ UnanimousBatch
  BY VotingInit DEF SamplesInit, UnanimousBatch
<1>2. Voting /\ UnanimousBatch /\ [SamplesNext]_samples_vars => Voting' /\ UnanimousBatch'
  <2>. SUFFICES ASSUME Voting, UnanimousBatch, [SamplesNext]_samples_vars
                PROVE  Voting' /\ UnanimousBatch'
    OBVIOUS
  <2>1. CASE Begins("worker", SettleCount) \/ Begins("manager", ImmediateCount)
    BY <2>1, BeginsVoting, SamplesAssumption
  <2>2. CASE Taken
    BY <2>2, TakenVoting
  <2>3. CASE NotRead
    BY <2>3, NotReadVoting
  <2>4. CASE Ends
    BY <2>4, EndsVoting
  <2>5. CASE UNCHANGED samples_vars
    BY <2>5 DEF samples_vars, Voting, SamplesType, UnanimousBatch
  <2>. QED  BY <2>1, <2>2, <2>3, <2>4, <2>5 DEF SamplesNext
<1>. QED  BY <1>1, <1>2, PTL DEF SamplesSpec

----------------------------------------------------------------------------
(* The checksum of a packet.  The sum after each byte is a recursive         *)
(* function; what it does with one byte changed goes by induction on the     *)
(* bytes before.                                                             *)

LEMMA Sizes ==
  /\ MaxPayload \in Nat /\ Header = 8 /\ LENGTH = 4 /\ CHKSUM = 6
  /\ Size \in Nat /\ Size = MaxPayload + 8 /\ 255 * Size < 65536
BY WireAssumption DEF Size, Header, CHKSUM, LENGTH

Byte == 0 .. 255

LEMMA ByteIs == \A b : b \in Byte <=> b \in Nat /\ b < 256
BY DEF Byte

Packet == [0 .. Size - 1 -> Byte]

With(p, i, b) == [p EXCEPT ![i] = b]

LEMMA WithType ==
  ASSUME NEW p \in Packet, NEW i \in 0 .. Size - 1, NEW b \in Byte
  PROVE  /\ With(p, i, b) \in Packet /\ p[i] \in Byte
         /\ \A k \in 0 .. Size - 1 : With(p, i, b)[k] = IF k = i THEN b ELSE p[k]
BY DEF With, Packet

Summand(p, skipped, i) == IF i \in skipped THEN 0 ELSE p[i]

IsSums(f, p, skipped, n) ==
  f = [i \in 0 .. n |-> IF i = 0 THEN 0 ELSE f[i - 1] + Summand(p, skipped, i - 1)]

(* The recursion has a solution, by induction on how far it goes.            *)
LEMMA SumsDefined ==
  ASSUME NEW p, NEW skipped
  PROVE  IsSums(Sums(p, skipped), p, skipped, Size)
<1> DEFINE S == {n \in Nat : \E f : IsSums(f, p, skipped, n)}
<1>1. 0 \in S
  <2>1. IsSums([i \in 0 .. 0 |-> 0], p, skipped, 0)
    BY DEF IsSums
  <2>. QED  BY <2>1
<1>2. ASSUME NEW n \in 0 .. Size - 1, n \in S PROVE n + 1 \in S
  <2>1. PICK f : IsSums(f, p, skipped, n)
    BY <1>2
  <2> DEFINE g == [i \in 0 .. n + 1 |-> IF i = n + 1 THEN f[n] + Summand(p, skipped, n) ELSE f[i]]
  <2>2. n \in Nat /\ n + 1 \in Nat
    BY Sizes
  <2>3. g[n + 1] = f[n] + Summand(p, skipped, n) /\ \A i \in 0 .. n : g[i] = f[i]
    BY <2>2
  <2>4. \A i \in 0 .. n : f[i] = IF i = 0 THEN 0 ELSE f[i - 1] + Summand(p, skipped, i - 1)
    BY <2>1 DEF IsSums
  <2>5. ASSUME NEW i \in 0 .. n + 1
        PROVE  g[i] = IF i = 0 THEN 0 ELSE g[i - 1] + Summand(p, skipped, i - 1)
    <3> HIDE DEF g
    <3>1. CASE i = n + 1
      BY <2>2, <2>3, <3>1
    <3>2. CASE i \in 0 .. n
      <4>1. i # 0 => i - 1 \in 0 .. n
        BY <2>2, <3>2
      <4>. QED  BY <2>3, <2>4, <3>2, <4>1
    <3>. QED  BY <2>2, <3>1, <3>2
  <2>6. IsSums(g, p, skipped, n + 1)
    BY <2>5 DEF IsSums
  <2>. QED  BY <2>2, <2>6
<1>3. Size \in S
  <2>1. Size \in Nat
    BY Sizes
  <2> HIDE DEF S
  <2>2. 0 .. Size \subseteq S
    BY <1>1, <1>2, <2>1, RangeInduction
  <2>. QED  BY <2>1, <2>2
<1>4. \E f : IsSums(f, p, skipped, Size)
  BY <1>3
<1>. QED  BY <1>4 DEF Sums, IsSums, Summand

LEMMA SumsStep ==
  ASSUME NEW p, NEW skipped
  PROVE  /\ Sums(p, skipped)[0] = 0
         /\ \A i \in 0 .. Size - 1 :
              Sums(p, skipped)[i + 1] = Sums(p, skipped)[i] + Summand(p, skipped, i)
<1> DEFINE s == Sums(p, skipped)
<1>1. s = [i \in 0 .. Size |-> IF i = 0 THEN 0 ELSE s[i - 1] + Summand(p, skipped, i - 1)]
  BY SumsDefined DEF IsSums
<1> HIDE DEF s
<1>2. s[0] = 0
  BY <1>1, Sizes
<1>3. ASSUME NEW i \in 0 .. Size - 1 PROVE s[i + 1] = s[i] + Summand(p, skipped, i)
  <2>1. i + 1 \in 0 .. Size /\ i + 1 # 0 /\ (i + 1) - 1 = i
    BY Sizes
  <2>. QED  BY <1>1, <2>1
<1>. QED  BY <1>2, <1>3 DEF s

LEMMA SummandType ==
  ASSUME NEW p \in Packet, NEW skipped, NEW i \in 0 .. Size - 1
  PROVE  Summand(p, skipped, i) \in Byte
BY ByteIs, Sizes DEF Summand, Packet

(* A sum fits in 16 bits, and no byte takes anything away.                   *)
LEMMA SumsBound ==
  ASSUME NEW p \in Packet, NEW skipped
  PROVE  \A i \in 0 .. Size : Sums(p, skipped)[i] \in Nat /\ Sums(p, skipped)[i] < 65536
<1> DEFINE s == Sums(p, skipped)
           S == {n \in 0 .. Size : s[n] \in Nat /\ s[n] <= 255 * n}
<1>1. 0 \in S
  BY SumsStep, Sizes
<1>2. ASSUME NEW n \in 0 .. Size - 1, n \in S PROVE n + 1 \in S
  <2>1. s[n + 1] = s[n] + Summand(p, skipped, n) /\ Summand(p, skipped, n) \in Byte
    BY SumsStep, SummandType
  <2> HIDE DEF s
  <2>. QED  BY ByteIs, <1>2, <2>1, Sizes
<1>3. 0 .. Size \subseteq S
  <2>1. Size \in Nat
    BY Sizes
  <2> HIDE DEF S
  <2>. QED  BY <1>1, <1>2, <2>1, RangeInduction
<1>4. ASSUME NEW i \in 0 .. Size PROVE s[i] \in Nat /\ s[i] < 65536
  <2>1. s[i] \in Nat /\ s[i] <= 255 * i
    BY <1>3
  <2> HIDE DEF s
  <2>2. 255 * i <= 255 * Size
    BY Sizes
  <2>. QED  BY <2>1, <2>2, Sizes
<1>. QED  BY <1>4

LEMMA SumsGrow ==
  ASSUME NEW p \in Packet, NEW skipped, NEW m \in 0 .. Size, NEW n \in m .. Size
  PROVE  Sums(p, skipped)[m] <= Sums(p, skipped)[n]
<1> DEFINE s == Sums(p, skipped)
           S == {k \in 0 .. Size : m + k <= Size => s[m] <= s[m + k]}
<1>0. \A i \in 0 .. Size : s[i] \in Nat
  BY SumsBound
<1>1. 0 \in S
  <2> HIDE DEF s
  <2>1. m + 0 = m /\ s[m] \in Nat
    BY <1>0, Sizes
  <2>. QED  BY <2>1, Sizes
<1>2. ASSUME NEW k \in 0 .. Size - 1, k \in S PROVE k + 1 \in S
  <2>1. ASSUME m + k + 1 <= Size PROVE s[m] <= s[m + k + 1]
    <3>1. m + k \in 0 .. Size - 1 /\ m + k + 1 \in 0 .. Size
      BY <2>1, Sizes
    <3>2. s[m + k + 1] = s[m + k] + Summand(p, skipped, m + k)
      BY <3>1, SumsStep
    <3>3. s[m + k] \in Nat /\ s[m] \in Nat /\ Summand(p, skipped, m + k) \in Nat
      <4>1. m + k \in 0 .. Size
        BY <3>1, Sizes
      <4>2. Summand(p, skipped, m + k) \in Nat
        BY ByteIs, <3>1, SummandType
      <4> HIDE DEF s
      <4>. QED  BY <1>0, <4>1, <4>2
    <3> HIDE DEF s
    <3>4. s[m] <= s[m + k]
      BY <1>2, <2>1, Sizes
    <3>. QED  BY <3>2, <3>3, <3>4
  <2>. QED  BY <2>1, Sizes
<1>3. 0 .. Size \subseteq S
  <2>1. Size \in Nat
    BY Sizes
  <2> HIDE DEF S
  <2>. QED  BY <1>1, <1>2, <2>1, RangeInduction
<1>4. n - m \in S /\ m + (n - m) = n
  BY <1>3, Sizes
<1>. QED  BY <1>4

(* One byte changed: the sums behind it all differ by what it changed by.    *)
LEMMA SumsChange ==
  ASSUME NEW p \in Packet, NEW skipped, NEW j \in 0 .. Size - 1, NEW b \in Byte,
         NEW n \in 0 .. Size, NEW q, q = With(p, j, b)
  PROVE  Sums(q, skipped)[n]
           = Sums(p, skipped)[n] + (IF j < n /\ j \notin skipped THEN b - p[j] ELSE 0)
<1> DEFINE s == Sums(p, skipped)
           t == Sums(q, skipped)
           d == IF j \notin skipped THEN b - p[j] ELSE 0
           S == {k \in 0 .. Size : t[k] = s[k] + (IF j < k THEN d ELSE 0)}
<1>0. \A k \in 0 .. Size - 1 : p[k] \in Byte /\ q[k] = IF k = j THEN b ELSE p[k]
  BY WithType
<1>1. q \in Packet /\ p[j] \in Byte
  BY WithType
<1>2. \A k \in 0 .. Size : s[k] \in Nat
  BY SumsBound
<1>3. 0 \in S
  BY <1>2, SumsStep, Sizes
<1>4. ASSUME NEW k \in 0 .. Size - 1, k \in S PROVE k + 1 \in S
  <2>1. /\ s[k + 1] = s[k] + Summand(p, skipped, k)
        /\ t[k + 1] = t[k] + Summand(q, skipped, k)
    BY SumsStep
  <2>2. s[k] \in Nat /\ Summand(p, skipped, k) \in Byte
    BY <1>2, SummandType, Sizes
  <2>3. Summand(q, skipped, k) = Summand(p, skipped, k) + (IF j = k THEN d ELSE 0)
    <3>1. p[k] \in Byte /\ q[k] = IF k = j THEN b ELSE p[k]
      BY <1>0, WithType
    <3>. QED  BY ByteIs, <1>1, <3>1 DEF Summand
  <2>4. d \in Int /\ t[k] = s[k] + (IF j < k THEN d ELSE 0)
    BY ByteIs, <1>1, <1>4
  <2> HIDE DEF s, t, d
  <2>. QED  BY ByteIs, <2>1, <2>2, <2>3, <2>4, Sizes
<1>5. 0 .. Size \subseteq S
  <2>1. Size \in Nat
    BY Sizes
  <2> HIDE DEF S
  <2>. QED  BY <1>3, <1>4, <2>1, RangeInduction
<1>6. t[n] = s[n] + (IF j < n THEN d ELSE 0)
  BY <1>5
<1>. QED  BY <1>6

LEMMA FoldOfWord == ASSUME NEW n \in Nat, n < 65536 PROVE Fold(n) = n
<1>1. Carry(n) = n
  BY SMTT(30) DEF Carry
<1>. QED  BY <1>1 DEF Fold

----------------------------------------------------------------------------
Skipped == {CHKSUM, CHKSUM + 1}

LEMMA WordType ==
  ASSUME NEW p \in Packet, NEW at \in {LENGTH, CHKSUM}
  PROVE  /\ p[at] \in Byte /\ p[at + 1] \in Byte /\ Word(p, at) \in Nat
         /\ at \in 0 .. Size - 1 /\ at + 1 \in 0 .. Size - 1
<1>1. at \in 0 .. Size - 1 /\ at + 1 \in 0 .. Size - 1
  BY Sizes
<1>2. p[at] \in Byte /\ p[at + 1] \in Byte
  BY <1>1 DEF Packet
<1>. QED  BY ByteIs, <1>1, <1>2 DEF Word

(* What is summed covers the header and stays within the packet.             *)
LEMMA CoverType ==
  ASSUME NEW p \in Packet
  PROVE  chksum_len(p) \in Header .. Size
<1>1. Word(p, LENGTH) \in Nat
  BY WordType
<1>. QED  BY <1>1, Sizes DEF chksum_len

(* For a packet the checksum is the complement of the plain sum: it never    *)
(* has a carry.                                                              *)
LEMMA ChecksumIs ==
  ASSUME NEW p \in Packet, NEW len \in 0 .. Size
  PROVE  checksum_bytes(p, len) = 65535 - Sums(p, Skipped)[len]
<1>1. Sums(p, Skipped)[len] \in Nat /\ Sums(p, Skipped)[len] < 65536
  BY SumsBound
<1>. QED  BY <1>1, FoldOfWord DEF checksum_bytes, Skipped

(* A changed byte of the length covers more with a larger sum or less with a *)
(* smaller one; of the checksum, changes the word and not the sum; any other *)
(* changes the sum.                                                          *)
LEMMA ChangeRefused ==
  ASSUME NEW p \in Packet, Word(p, LENGTH) <= MaxPayload, proto_verify_chksum(p),
         NEW i \in 0 .. Header + Word(p, LENGTH) - 1, NEW b \in Byte, b # p[i],
         NEW q, q = With(p, i, b)
  PROVE  ~proto_verify_chksum(q)
<1>1. Word(p, LENGTH) \in Nat /\ i \in 0 .. Size - 1
  BY WordType, Sizes
<1>2. q \in Packet /\ p[i] \in Byte
  BY <1>1, WithType
<1>3. PICK m \in 8 .. Size, n \in 8 .. Size :
        m = chksum_len(p) /\ n = chksum_len(q) /\ m = Word(p, LENGTH) + 8
  <2>1. chksum_len(p) = Word(p, LENGTH) + 8
    BY <1>1, Sizes DEF chksum_len
  <2>. QED  BY <2>1, <1>2, CoverType, Sizes
<1>4. m \in 0 .. Size /\ n \in 0 .. Size /\ i < m
  BY <1>1, <1>3, Sizes
<1>5. PICK s, t : s = Sums(p, Skipped) /\ t = Sums(q, Skipped)
  OBVIOUS
<1>6. /\ proto_verify_chksum(p) <=> Word(p, CHKSUM) = 65535 - s[m]
      /\ proto_verify_chksum(q) <=> Word(q, CHKSUM) = 65535 - t[n]
  BY <1>2, <1>3, <1>4, <1>5, ChecksumIs DEF proto_verify_chksum, proto_generate_chksum
<1>7. \A k \in 0 .. Size : t[k] = s[k] + (IF i < k /\ i \notin Skipped THEN b - p[i] ELSE 0)
  <2>. SUFFICES ASSUME NEW k \in 0 .. Size
                PROVE  Sums(q, Skipped)[k] = Sums(p, Skipped)[k]
                         + (IF i < k /\ i \notin Skipped THEN b - p[i] ELSE 0)
    BY <1>5
  <2>. QED  BY <1>1, SumsChange
<1>8. \A k \in 0 .. Size : s[k] \in Nat /\ t[k] \in Nat
  BY <1>2, <1>5, SumsBound
<1>9. \A k \in 0 .. Size - 1 : q[k] = IF k = i THEN b ELSE p[k]
  BY <1>1, WithType
<1>10. \A k \in {4, 5, 6, 7} : k \in 0 .. Size - 1 /\ p[k] \in Nat
  <2>1. \A k \in 0 .. Size - 1 : p[k] \in Byte
    BY DEF Packet
  <2>2. \A k \in {4, 5, 6, 7} : k \in 0 .. Size - 1
    BY Sizes
  <2>. QED  BY ByteIs, <2>1, <2>2
<1>11. /\ Word(p, LENGTH) = p[4] + 256 * p[5] /\ Word(q, LENGTH) = q[4] + 256 * q[5]
       /\ Word(p, CHKSUM) = p[6] + 256 * p[7] /\ Word(q, CHKSUM) = q[6] + 256 * q[7]
  BY Sizes DEF Word
<1>12. CASE i \in Skipped
  <2>1. i \in {6, 7}
    BY <1>12, Sizes DEF Skipped
  <2>2. Word(q, LENGTH) = Word(p, LENGTH) /\ n = m
    BY <1>3, <1>9, <1>10, <1>11, <2>1 DEF chksum_len
  <2>3. t[n] = s[m]
    BY <1>4, <1>7, <1>8, <1>12, <2>2
  <2>4. Word(q, CHKSUM) # Word(p, CHKSUM)
    BY ByteIs, <1>9, <1>10, <1>11, <2>1
  <2>. QED  BY <1>6, <2>3, <2>4
<1>13. CASE i \notin Skipped /\ i \notin {4, 5}
  <2>1. i \notin {4, 5, 6, 7}
    BY <1>13, Sizes DEF Skipped
  <2>2. Word(q, LENGTH) = Word(p, LENGTH) /\ n = m /\ Word(q, CHKSUM) = Word(p, CHKSUM)
    BY <1>3, <1>9, <1>10, <1>11, <2>1 DEF chksum_len
  <2>3. t[n] = s[m] + (b - p[i])
    BY <1>4, <1>7, <1>13, <2>2
  <2>. QED  BY ByteIs, <1>2, <1>4, <1>6, <1>8, <2>2, <2>3
<1>14. CASE i \in {4, 5}
  <2>1. i \notin Skipped
    BY <1>14, Sizes DEF Skipped
  <2>2. Word(q, CHKSUM) = Word(p, CHKSUM)
    BY <1>9, <1>10, <1>11, <1>14
  <2>3. i < n
    BY <1>3, <1>14
  <2>4. t[n] = s[n] + (b - p[i]) /\ s[n] \in Nat /\ s[m] \in Nat
    BY <1>4, <1>7, <1>8, <2>1, <2>3
  <2>5. Word(q, LENGTH) \in Nat
    BY <1>2, WordType
  <2>6. CASE b > p[i]
    <3>1. Word(q, LENGTH) > Word(p, LENGTH)
      BY ByteIs, <1>9, <1>10, <1>11, <1>14, <1>2, <2>6
    <3>2. n >= m
      BY <1>1, <1>3, <2>5, <3>1, Sizes DEF chksum_len
    <3>3. s[m] <= s[n]
      BY <1>4, <1>5, <3>2, SumsGrow
    <3>. QED  BY ByteIs, <1>2, <1>6, <2>2, <2>4, <2>6, <3>3
  <2>7. CASE b < p[i]
    <3>1. Word(q, LENGTH) < Word(p, LENGTH)
      BY ByteIs, <1>9, <1>10, <1>11, <1>14, <1>2, <2>7
    <3>2. n <= m
      BY <1>1, <1>3, <2>5, <3>1, Sizes DEF chksum_len
    <3>3. s[n] <= s[m]
      BY <1>4, <1>5, <3>2, SumsGrow
    <3>. QED  BY ByteIs, <1>2, <1>6, <2>2, <2>4, <2>7, <3>3
  <2>. QED  BY ByteIs, <1>2, <2>6, <2>7
<1>. QED  BY <1>12, <1>13, <1>14

----------------------------------------------------------------------------
(* A packet under way verifies until its byte is changed, and never after.   *)
WireInv ==
  /\ stage \in {"idle", "sent", "in flight", "received"}
  /\ stage = "sent" => /\ pkt \in Packet /\ Word(pkt, LENGTH) <= MaxPayload
                       /\ changed = FALSE /\ proto_verify_chksum(pkt)
  /\ stage = "in flight" => changed = TRUE /\ ~proto_verify_chksum(pkt)
  /\ stage = "received" => verified = ~changed

LEMMA WordBytes ==
  ASSUME NEW n \in Nat, n < 65536
  PROVE  n % 256 \in Byte /\ n \div 256 \in Byte /\ (n % 256) + 256 * (n \div 256) = n
<1>1. n % 256 \in Nat /\ n % 256 < 256 /\ n \div 256 \in Nat /\ n \div 256 < 256
  BY SMTT(30)
<1>2. (n % 256) + 256 * (n \div 256) = n
  BY SMTT(30)
<1>. QED  BY <1>1, <1>2, ByteIs

LEMMA SetWordIs ==
  ASSUME NEW p, NEW at, NEW n
  PROVE  SetWord(p, at, n) = With(With(p, at, n % 256), at + 1, n \div 256)
BY DEF SetWord, With

LEMMA WordWritten ==
  ASSUME NEW p \in Packet, NEW at \in {LENGTH, CHKSUM}, NEW lo \in Byte, NEW hi \in Byte,
         NEW r, r = With(p, at, lo), NEW q, q = With(r, at + 1, hi)
  PROVE  /\ r \in Packet /\ q \in Packet /\ Word(q, at) = lo + 256 * hi
         /\ at = CHKSUM => Word(q, LENGTH) = Word(p, LENGTH)
<1>1. at \in 0 .. Size - 1 /\ at + 1 \in 0 .. Size - 1 /\ at + 1 # at
  BY Sizes
<1>2. r \in Packet /\ \A k \in 0 .. Size - 1 : r[k] = IF k = at THEN lo ELSE p[k]
  BY <1>1, WithType
<1>3. q \in Packet /\ \A k \in 0 .. Size - 1 : q[k] = IF k = at + 1 THEN hi ELSE r[k]
  BY <1>1, <1>2, WithType
<1>4. q[at] = lo /\ q[at + 1] = hi
  BY <1>1, <1>2, <1>3
<1>5. Word(q, at) = lo + 256 * hi
  BY <1>4 DEF Word
<1>6. at = CHKSUM => Word(q, LENGTH) = Word(p, LENGTH)
  BY <1>2, <1>3, Sizes DEF Word
<1>. QED  BY <1>2, <1>3, <1>5, <1>6

LEMMA SetWordType ==
  ASSUME NEW p \in Packet, NEW at \in {LENGTH, CHKSUM}, NEW n \in Nat, n < 65536
  PROVE  /\ SetWord(p, at, n) \in Packet /\ Word(SetWord(p, at, n), at) = n
<1>1. PICK lo, hi : lo = n % 256 /\ hi = n \div 256
  OBVIOUS
<1>2. lo \in Byte /\ hi \in Byte /\ lo + 256 * hi = n
  BY <1>1, WordBytes
<1>3. PICK r, q : r = With(p, at, lo) /\ q = With(r, at + 1, hi)
  OBVIOUS
<1>4. SetWord(p, at, n) = q
  BY <1>1, <1>3, SetWordIs
<1>5. q \in Packet /\ Word(q, at) = lo + 256 * hi
  BY <1>2, <1>3, WordWritten
<1>. QED  BY <1>2, <1>4, <1>5

(* The checksum is written into bytes it does not cover.                     *)
LEMMA SealedVerifies ==
  ASSUME NEW p \in Packet
  PROVE  LET q == SetWord(p, CHKSUM, proto_generate_chksum(p))
         IN q \in Packet /\ Word(q, LENGTH) = Word(p, LENGTH) /\ proto_verify_chksum(q)
<1> DEFINE k == chksum_len(p)
           sum == proto_generate_chksum(p)
<1>1. k \in 0 .. Size
  BY CoverType, Sizes
<1> HIDE DEF k
<1>2. sum \in Nat /\ sum < 65536
  <2>1. sum = 65535 - Sums(p, Skipped)[k]
    BY <1>1, ChecksumIs DEF proto_generate_chksum, k
  <2>2. Sums(p, Skipped)[k] \in Nat /\ Sums(p, Skipped)[k] < 65536
    BY <1>1, SumsBound
  <2>. QED  BY <2>1, <2>2
<1> HIDE DEF sum
<1>3. PICK lo, hi : lo = sum % 256 /\ hi = sum \div 256
  OBVIOUS
<1>a. PICK at \in {LENGTH, CHKSUM} : at = CHKSUM
  OBVIOUS
<1>4. PICK r, q : at = CHKSUM /\ r = With(p, at, lo) /\ q = With(r, at + 1, hi)
  BY <1>a
<1>5. /\ SetWord(p, CHKSUM, sum) = q /\ Word(q, CHKSUM) = sum
      /\ lo \in Byte /\ hi \in Byte /\ r \in Packet /\ q \in Packet
      /\ Word(q, LENGTH) = Word(p, LENGTH)
  <2>1. lo \in Byte /\ hi \in Byte /\ lo + 256 * hi = sum
    BY <1>2, <1>3, WordBytes
  <2>2. SetWord(p, CHKSUM, sum) = q
    BY <1>3, <1>4, SetWordIs
  <2>3. /\ r \in Packet /\ q \in Packet /\ Word(q, at) = lo + 256 * hi
        /\ Word(q, LENGTH) = Word(p, LENGTH)
    BY <1>4, <2>1, WordWritten
  <2>. QED  BY <1>4, <2>1, <2>2, <2>3
<1>7. Sums(q, Skipped)[k] = Sums(p, Skipped)[k]
  <2>1. CHKSUM \in Skipped /\ CHKSUM + 1 \in Skipped /\ CHKSUM \in 0 .. Size - 1 /\ CHKSUM + 1 \in 0 .. Size - 1
    BY Sizes DEF Skipped
  <2>2. Sums(r, Skipped)[k] = Sums(p, Skipped)[k] + 0
    BY <1>1, <1>4, <1>5, <2>1, SumsChange
  <2>3. Sums(q, Skipped)[k] = Sums(r, Skipped)[k] + 0
    BY <1>1, <1>4, <1>5, <2>1, SumsChange
  <2>4. Sums(p, Skipped)[k] \in Nat
    BY <1>1, SumsBound
  <2>. QED  BY <2>2, <2>3, <2>4
<1>8. chksum_len(q) = k
  BY <1>5 DEF chksum_len, k
<1>9. proto_generate_chksum(q) = sum
  <2>1. checksum_bytes(q, k) = checksum_bytes(p, k)
    BY <1>1, <1>5, <1>7, ChecksumIs
  <2>. QED  BY <1>8, <2>1 DEF proto_generate_chksum, sum, k
<1>10. proto_verify_chksum(q)
  BY <1>5, <1>9 DEF proto_verify_chksum
<1>. QED  BY <1>5, <1>10 DEF sum

(* The header but for its length and its checksum, and the payload.          *)
LEMMA SendInv ==
  ASSUME NEW n \in 0 .. MaxPayload, Send(n)
  PROVE  WireInv'
<1> DEFINE h(id, old) == [i \in 0 .. Header - 1 |->
             CASE i \in {0, 1} -> 165 [] i = 2 -> id [] i = CHKSUM -> old [] OTHER -> 0]
           blank(id, old, data) == [i \in 0 .. Size - 1 |-> IF i < Header THEN h(id, old)[i] ELSE data[i]]
<1>1. PICK id, old \in Bytes, data \in [Header .. Size - 1 -> Bytes] :
        LET p == SetWord(blank(id, old, data), LENGTH, n)
        IN pkt' = SetWord(p, CHKSUM, proto_generate_chksum(p))
  BY DEF Send
<1>2. blank(id, old, data) \in Packet
  <2>1. \A b \in Bytes : b \in Byte
    BY WireAssumption DEF Byte
  <2>2. \A i \in 0 .. Header - 1 : h(id, old)[i] \in Byte
    BY <2>1, ByteIs
  <2>3. ASSUME NEW i \in 0 .. Size - 1 PROVE blank(id, old, data)[i] \in Byte
    <3> HIDE DEF h
    <3>1. CASE i < Header
      BY <3>1, <2>2, Sizes
    <3>2. CASE ~(i < Header)
      BY <3>2, <2>1, Sizes
    <3>. QED  BY <3>1, <3>2
  <2>. QED  BY <2>3 DEF Packet
<1>3. PICK p0 : p0 = blank(id, old, data)
  OBVIOUS
<1>4. PICK p : p = SetWord(p0, LENGTH, n)
  OBVIOUS
<1>5. pkt' = SetWord(p, CHKSUM, proto_generate_chksum(p)) /\ p0 \in Packet
  BY <1>1, <1>2, <1>3, <1>4
<1> HIDE DEF h, blank
<1>6. p \in Packet /\ Word(p, LENGTH) = n
  <2>1. n \in Nat /\ n < 65536
    BY Sizes
  <2>. QED  BY <1>4, <1>5, <2>1, SetWordType
<1>7. PICK q : q = SetWord(p, CHKSUM, proto_generate_chksum(p))
  OBVIOUS
<1>8. q \in Packet /\ Word(q, LENGTH) = n /\ proto_verify_chksum(q)
  BY <1>6, <1>7, SealedVerifies
<1>9. stage' = "sent" /\ changed' = FALSE /\ pkt' = q
  BY <1>5, <1>7 DEF Send
<1>10. Packet' = Packet /\ MaxPayload' = MaxPayload
  BY DEF Packet
<1>11. (Word(pkt, LENGTH))' = Word(q, LENGTH)
  BY <1>9 DEF Word
<1>12. (proto_verify_chksum(pkt))' = proto_verify_chksum(q)
  BY <1>9 DEF proto_verify_chksum, proto_generate_chksum, chksum_len, Word, checksum_bytes, Sums
<1>. QED  BY <1>8, <1>9, <1>10, <1>11, <1>12, Sizes DEF WireInv

LEMMA CorruptInv == ASSUME WireInv, Corrupt PROVE WireInv'
<1>1. PICK i \in 0 .. Header + Word(pkt, LENGTH) - 1, b \in Bytes :
        b # pkt[i] /\ pkt' = [pkt EXCEPT ![i] = b]
  BY DEF Corrupt
<1>2. PICK q : q = With(pkt, i, b)
  OBVIOUS
<1>3. b \in Byte
  BY WireAssumption DEF Byte
<1>4. ~proto_verify_chksum(q)
  BY <1>1, <1>2, <1>3, ChangeRefused DEF WireInv, Corrupt
<1>5. (proto_verify_chksum(pkt))' = proto_verify_chksum(q)
  <2>1. pkt' = q
    BY <1>1, <1>2 DEF With
  <2>. QED  BY <2>1 DEF proto_verify_chksum, proto_generate_chksum, chksum_len, Word, checksum_bytes, Sums
<1>. QED  BY <1>4, <1>5 DEF WireInv, Corrupt

LEMMA ReceiveInv == ASSUME WireInv, Receive PROVE WireInv'
BY DEF WireInv, Receive, proto_verify_chksum

(* For every size of the payload that the sum of a packet's bytes stays      *)
(* below 2^16 with, every payload and every single byte that arrives         *)
(* changed: the receiver refuses the packet then, and only then.             *)
THEOREM ChangeAlwaysNoticed == WireSpec => []OneChangeIsNoticed
<1>1. WireInit => WireInv
  BY DEF WireInit, WireInv
<1>2. WireInv /\ [WireNext]_wire_vars => WireInv'
  <2>. SUFFICES ASSUME WireInv, [WireNext]_wire_vars PROVE WireInv'
    OBVIOUS
  <2>1. CASE \E n \in 0 .. MaxPayload : Send(n)
    BY <2>1, SendInv
  <2>2. CASE Corrupt
    BY <2>2, CorruptInv
  <2>3. CASE Receive
    BY <2>3, ReceiveInv
  <2>4. CASE UNCHANGED wire_vars
    <3>1. (proto_verify_chksum(pkt))' = proto_verify_chksum(pkt) /\ (Word(pkt, LENGTH))' = Word(pkt, LENGTH)
      BY <2>4 DEF wire_vars, proto_verify_chksum, proto_generate_chksum, chksum_len, Word, checksum_bytes, Sums
    <3>. QED  BY <2>4, <3>1 DEF wire_vars, WireInv, Packet
  <2>. QED  BY <2>1, <2>2, <2>3, <2>4 DEF WireNext
<1>3. WireInv => OneChangeIsNoticed
  BY DEF WireInv, OneChangeIsNoticed
<1>. QED  BY <1>1, <1>2, <1>3, PTL DEF WireSpec

====
