---------------------------- MODULE LinuxWSIProofs ----------------------------
(***************************************************************************)
(* Proofs about FrameCodec and LinuxWSI.                                   *)
(*                                                                         *)
(* About the code, for every largest count, shortest run and gain and for  *)
(* frames of any length: what compress_frame writes is a sequence of       *)
(* tokens for consecutive parts of the frame, decompress_rle reads it      *)
(* token by token, and so a frame is decoded as it was coded and a payload *)
(* cut short is refused.  Encode and Decode are recursive functions: that  *)
(* there are such functions, and what they give, is proved by induction    *)
(* from the end of the frame and of the payload.  Induction is a statement *)
(* about sets.                                                             *)
(*                                                                         *)
(* About the window system, for any backends, number of images, frames and *)
(* mishaps: types, that a shown buffer holds its frame, that in_use says   *)
(* who has a buffer, and that a present is not stuck.                      *)
(***************************************************************************)
EXTENDS MCLinuxWSI, SequenceTheorems, WellFoundedInduction, FiniteSetTheorems,
        FunctionTheorems, TLAPS

-----------------------------------------------------------------------------
(* Numbers.                                                                *)

LEMMA LeastNat ==
    ASSUME NEW T \in SUBSET Nat, T # {}
    PROVE  \E n \in T : \A m \in T : n <= m
<1> DEFINE R == {ss \in Nat \X Nat : ss[1] < ss[2]}
<1>1. IsWellFoundedOn(R, Nat)
  BY NatLessThanWellFounded DEF OpToRel
<1>2. \E x \in T : \A y \in T : ~ (<<y, x>> \in R)
  <2> HIDE DEF R
  <2> QED
    BY <1>1, WFMin, Zenon
<1>3. PICK x \in T : \A y \in T : <<y, x>> \notin R
  BY <1>2
<1>4. ASSUME NEW y \in T, y < x PROVE FALSE
  <2>1. y \in Nat /\ x \in Nat
    OBVIOUS
  <2>2. <<y, x>> \in R
    BY <1>4, <2>1
  <2> QED
    BY <1>3, <2>2
<1> QED
  BY <1>4

\* Induction over the numbers, for a property given as the set of the numbers
\* that have it.
LEMMA Induction ==
    ASSUME NEW S, 0 \in S, \A n \in Nat : n \in S => n + 1 \in S
    PROVE  Nat \subseteq S
<1> DEFINE T == {n \in Nat : n \notin S}
<1> SUFFICES ASSUME T # {} PROVE FALSE
  OBVIOUS
<1>1. PICK n \in T : \A m \in T : n <= m
  BY LeastNat
<1>2. n # 0 /\ n \in Nat
  OBVIOUS
<1>3. n - 1 \in Nat /\ n - 1 \in S
  BY <1>1, <1>2
<1>4. (n - 1) + 1 \in S
  BY <1>3
<1> QED
  BY <1>2, <1>4

LEMMA MaxIsIn ==
    ASSUME NEW m \in Nat, NEW T \in SUBSET (1 .. m), T # {}
    PROVE  Max(T) \in T
<1> DEFINE D == {m - x : x \in T}
<1>0. \A x \in T : x \in Nat /\ x <= m
  OBVIOUS
<1>1. D \in SUBSET Nat /\ D # {}
  <2>1. \A x \in T : m - x \in Nat
    BY <1>0
  <2> QED
    BY <2>1
<1>2. PICK d \in D : \A e \in D : d <= e
  BY <1>1, LeastNat
<1>3. PICK x \in T : d = m - x
  OBVIOUS
<1>4. \A y \in T : m - y \in D
  OBVIOUS
<1>5. \A y \in T : m - x <= m - y
  <2> HIDE DEF D
  <2> QED
    BY <1>2, <1>3, <1>4
<1>6. \A y \in T : x >= y
  <2> HIDE DEF D
  <2> QED
    BY <1>0, <1>5
<1> QED
  BY <1>6 DEF Max

LEMMA MinOfTwo ==
    ASSUME NEW a \in Nat, NEW b \in Nat
    PROVE  Min({a, b}) = IF a <= b THEN a ELSE b
<1>1. \A x \in {a, b} : (\A y \in {a, b} : x <= y) => x = IF a <= b THEN a ELSE b
  OBVIOUS
<1>2. \E x \in {a, b} : \A y \in {a, b} : x <= y
  OBVIOUS
<1> QED
  BY <1>1, <1>2 DEF Min

-----------------------------------------------------------------------------
(* The tokens of a frame.                                                  *)

\* A run is not empty, fits in its count and ends in the frame.
LEMMA RunOfFrame ==
    ASSUME NEW s \in Seq(Nat), NEW i \in 1 .. Len(s)
    PROVE  /\ RunLength(s, i) \in 1 .. MaxCount
           /\ RunLength(s, i) <= Len(s) - i + 1
           /\ \A k \in i .. i + RunLength(s, i) - 1 : s[k] = s[i]
<1> DEFINE m == Min({RunLimit, Len(s) - i + 1})
           T == {n \in 1 .. m : \A k \in i .. i + n - 1 : s[k] = s[i]}
<1>1. MaxCount \in Nat /\ MaxCount >= 1 /\ Len(s) - i + 1 \in Nat /\ Len(s) - i + 1 >= 1
  BY CodecAssumption
<1>2. m \in Nat /\ m >= 1 /\ m <= MaxCount /\ m <= Len(s) - i + 1
  BY <1>1, MinOfTwo DEF RunLimit
<1> HIDE DEF m
<1>3. 1 \in T
  <2>1. \A k \in i .. i + 1 - 1 : k = i
    OBVIOUS
  <2> QED
    BY <1>2, <2>1
<1>4. T \in SUBSET (1 .. m)
  OBVIOUS
<1>5. Max(T) \in T
  <2> HIDE DEF T
  <2> QED
    BY <1>2, <1>3, <1>4, MaxIsIn
<1>6. RunLength(s, i) = Max(T)
  BY DEF RunLength, m
<1>7. RunLength(s, i) \in T
  BY <1>5, <1>6
<1> QED
  BY <1>2, <1>7, <1>1

LEMMA LiteralOfFrame ==
    ASSUME NEW s \in Seq(Nat), NEW i \in 1 .. Len(s)
    PROVE  /\ Min({MaxCount, Len(s) - i + 1}) \in 1 .. MaxCount
           /\ Min({MaxCount, Len(s) - i + 1}) <= Len(s) - i + 1
<1>1. MaxCount \in Nat /\ MaxCount >= 1 /\ Len(s) - i + 1 \in Nat /\ Len(s) - i + 1 >= 1
  BY CodecAssumption
<1> QED
  BY <1>1, MinOfTwo

LEMMA ByteOfCount ==
    ASSUME NEW n \in 1 .. MaxCount
    PROVE  Byte(n) = n
<1>1. MaxCount \in Nat /\ n \in Nat /\ n < MaxCount + 1 /\ MaxCount + 1 > 0
  BY CodecAssumption
<1> QED
  BY <1>1 DEF Byte

\* What the loop writes from s[i] on, given by f what it writes later.
Token(s, f, i) ==
    LET run     == RunLength(s, i)
        literal == Min({MaxCount, Len(s) - i + 1})
    IN  IF i > Len(s) THEN <<>>
        ELSE IF run >= MinRun
        THEN <<1, Byte(run), s[i]>> \o f[i + run]
        ELSE <<0, Byte(literal)>> \o SubSeq(s, i, i + literal - 1) \o f[i + literal]

EncodesFrom(s, a, f) == f = [i \in a .. Len(s) + 1 |-> Token(s, f, i)]

LEMMA EncodeUnfolds ==
    ASSUME NEW s
    PROVE  Encode(s) = (CHOOSE f : EncodesFrom(s, 1, f))[1]
BY DEF Encode, EncodesFrom, Token

LEMMA EncodesExists ==
    ASSUME NEW s \in Seq(Nat)
    PROVE  \E f : EncodesFrom(s, 1, f)
<1> DEFINE S == {n \in Nat : n <= Len(s) => \E f : EncodesFrom(s, Len(s) + 1 - n, f)}
<1>0. Len(s) \in Nat
  OBVIOUS
<1>1. 0 \in S
  <2> DEFINE f == [i \in Len(s) + 1 .. Len(s) + 1 |-> <<>>]
  <2>1. \A i \in Len(s) + 1 .. Len(s) + 1 : i > Len(s)
    BY <1>0
  <2>2. \A i \in Len(s) + 1 .. Len(s) + 1 : Token(s, f, i) = <<>>
    BY <2>1 DEF Token
  <2>3. EncodesFrom(s, Len(s) + 1 - 0, f)
    BY <1>0, <2>2 DEF EncodesFrom
  <2> HIDE DEF f
  <2> QED
    BY <2>3
<1>2. ASSUME NEW n \in Nat, n \in S PROVE n + 1 \in S
  <2> SUFFICES ASSUME n + 1 <= Len(s) PROVE \E f : EncodesFrom(s, Len(s) + 1 - (n + 1), f)
    OBVIOUS
  <2> DEFINE a == Len(s) - n
  <2>1. a \in 1 .. Len(s) /\ Len(s) + 1 - (n + 1) = a /\ Len(s) + 1 - n = a + 1
    BY <1>0
  <2>2. PICK f : EncodesFrom(s, a + 1, f)
    BY <1>2, <2>1
  <2> HIDE DEF a
  <2> DEFINE g == [i \in a .. Len(s) + 1 |-> IF i = a THEN Token(s, f, i) ELSE f[i]]
  <2>3. \A i \in a + 1 .. Len(s) + 1 : g[i] = f[i]
    BY <2>1
  <2>4. ASSUME NEW i \in a .. Len(s) + 1 PROVE Token(s, g, i) = Token(s, f, i)
    <3>1. CASE i > Len(s)
      BY <3>1 DEF Token
    <3>2. CASE ~(i > Len(s))
      <4>1. i \in 1 .. Len(s)
        BY <2>1, <3>2
      <4> DEFINE run == RunLength(s, i)  literal == Min({MaxCount, Len(s) - i + 1})
      <4>2. run \in Nat /\ run >= 1 /\ run <= Len(s) - i + 1
        BY <4>1, RunOfFrame, CodecAssumption
      <4>3. literal \in Nat /\ literal >= 1 /\ literal <= Len(s) - i + 1
        BY <4>1, LiteralOfFrame, CodecAssumption
      <4> HIDE DEF run, literal
      <4>4. i + run \in a + 1 .. Len(s) + 1 /\ i + literal \in a + 1 .. Len(s) + 1
        BY <2>1, <4>1, <4>2, <4>3
      <4>5. g[i + run] = f[i + run] /\ g[i + literal] = f[i + literal]
        BY <2>3, <4>4
      <4> HIDE DEF g
      <4> QED
        BY <4>5 DEF Token, run, literal
    <3> QED
      BY <3>1, <3>2
  <2>5. ASSUME NEW i \in a .. Len(s) + 1 PROVE g[i] = Token(s, f, i)
    <3>1. CASE i = a
      BY <3>1
    <3>2. CASE i # a
      <4>1. i \in a + 1 .. Len(s) + 1
        BY <2>1, <3>2
      <4>2. f[i] = Token(s, f, i)
        BY <2>2, <4>1 DEF EncodesFrom
      <4>3. g[i] = f[i]
        BY <2>3, <4>1
      <4> HIDE DEF g
      <4> QED
        BY <4>2, <4>3
    <3> QED
      BY <3>1, <3>2
  <2>6. g = [i \in a .. Len(s) + 1 |-> g[i]]
    OBVIOUS
  <2> HIDE DEF g
  <2>7. g = [i \in a .. Len(s) + 1 |-> Token(s, g, i)]
    BY <2>4, <2>5, <2>6
  <2>8. EncodesFrom(s, a, g)
    BY <2>7 DEF EncodesFrom
  <2> QED
    BY <2>1, <2>8
<1> HIDE DEF S
<1>3. Nat \subseteq S
  BY <1>1, <1>2, Induction
<1>4. Len(s) + 1 - Len(s) = 1
  BY <1>0
<1> QED
  BY <1>0, <1>3, <1>4 DEF S

\* What Encode writes, from every place of the frame s.
Written(s) == CHOOSE f : EncodesFrom(s, 1, f)

\* The payload e starts with one token, for the c bytes of s from s[i] on, and
\* goes on with the payload rest.
Width(e, c) == IF e[1] = 1 THEN 1 ELSE c
StartsWithToken(e, rest, s, i, c) ==
    /\ e \in Seq(Nat)
    /\ e[1] \in {0, 1} /\ e[2] = c
    /\ Len(e) = 2 + Width(e, c) + Len(rest)
    /\ \A k \in 1 .. c : e[2 + Width(e, k)] = s[i + k - 1]
    /\ \A k \in 1 .. Len(rest) : e[2 + Width(e, c) + k] = rest[k]

LEMMA Concat ==
    ASSUME NEW t \in Seq(Nat), NEW r \in Seq(Nat)
    PROVE  /\ t \o r \in Seq(Nat)
           /\ Len(t \o r) = Len(t) + Len(r)
           /\ \A k \in 1 .. Len(t) : (t \o r)[k] = t[k]
           /\ \A k \in 1 .. Len(r) : (t \o r)[Len(t) + k] = r[k]
<1>1. /\ t \o r \in Seq(Nat)
      /\ Len(t \o r) = Len(t) + Len(r)
  OBVIOUS
<1>2. \A k \in 1 .. Len(t) + Len(r) : (t \o r)[k] = IF k <= Len(t) THEN t[k] ELSE r[k - Len(t)]
  OBVIOUS
<1>3. \A k \in 1 .. Len(t) : (t \o r)[k] = t[k]
  BY <1>2
<1>4. ASSUME NEW k \in 1 .. Len(r) PROVE (t \o r)[Len(t) + k] = r[k]
  <2>1. Len(t) + k \in 1 .. Len(t) + Len(r) /\ ~(Len(t) + k <= Len(t)) /\ (Len(t) + k) - Len(t) = k
    OBVIOUS
  <2> QED
    BY <1>2, <2>1
<1> QED
  BY <1>1, <1>3, <1>4

LEMMA RunToken ==
    ASSUME NEW s, NEW i \in Nat, NEW c \in 1 .. MaxCount, NEW rest \in Seq(Nat), s[i] \in Nat,
           \A k \in i .. i + c - 1 : s[k] = s[i]
    PROVE  StartsWithToken(<<1, c, s[i]>> \o rest, rest, s, i, c)
<1> DEFINE t == <<1, c, s[i]>>
           e == t \o rest
<1>1. /\ t \in Seq(Nat) /\ Len(t) = 3
      /\ t[1] = 1 /\ t[2] = c /\ t[3] = s[i]
  BY CodecAssumption
<1> HIDE DEF t
<1>2. /\ e \in Seq(Nat) /\ Len(e) = 3 + Len(rest)
      /\ e[1] = 1 /\ e[2] = c /\ e[3] = s[i]
      /\ \A k \in 1 .. Len(rest) : e[3 + k] = rest[k]
  <2>1. /\ e \in Seq(Nat) /\ Len(e) = Len(t) + Len(rest)
        /\ \A k \in 1 .. Len(t) : e[k] = t[k]
        /\ \A k \in 1 .. Len(rest) : e[Len(t) + k] = rest[k]
    BY <1>1, Concat
  <2> HIDE DEF e
  <2>2. 1 \in 1 .. Len(t) /\ 2 \in 1 .. Len(t) /\ 3 \in 1 .. Len(t)
    BY <1>1
  <2> QED
    BY <1>1, <2>1, <2>2
<1> HIDE DEF e
<1>3. \A k : Width(e, k) = 1
  BY <1>2 DEF Width
<1>4. \A k \in 1 .. c : s[i + k - 1] = s[i]
  <2>1. \A k \in 1 .. c : i + k - 1 \in i .. i + c - 1
    BY CodecAssumption
  <2> QED
    BY <2>1
<1>5. /\ \A k \in 1 .. c : e[2 + Width(e, k)] = s[i + k - 1]
      /\ \A k \in 1 .. Len(rest) : e[2 + Width(e, c) + k] = rest[k]
      /\ Len(e) = 2 + Width(e, c) + Len(rest)
  <2>1. 2 + 1 = 3
    OBVIOUS
  <2>2. Width(e, c) = 1 /\ \A k \in 1 .. c : 2 + Width(e, k) = 3
    BY <1>3
  <2> QED
    BY <1>2, <1>4, <2>1, <2>2
<1>6. StartsWithToken(e, rest, s, i, c)
  BY <1>2, <1>5 DEF StartsWithToken
<1> QED
  BY <1>6 DEF e, t

LEMMA LiteralToken ==
    ASSUME NEW s \in Seq(Nat), NEW i \in 1 .. Len(s), NEW c \in 1 .. Len(s) - i + 1,
           NEW rest \in Seq(Nat)
    PROVE  StartsWithToken(<<0, c>> \o SubSeq(s, i, i + c - 1) \o rest, rest, s, i, c)
<1> DEFINE h == <<0, c>>
           b == SubSeq(s, i, i + c - 1)
           t == h \o b
           e == t \o rest
<1>1. h \in Seq(Nat) /\ Len(h) = 2 /\ h[1] = 0 /\ h[2] = c
  OBVIOUS
<1>2. b \in Seq(Nat) /\ Len(b) = c /\ \A k \in 1 .. c : b[k] = s[i + k - 1]
  <2>1. i \in Nat /\ c \in Nat /\ i >= 1 /\ c >= 1 /\ i + c - 1 <= Len(s)
    OBVIOUS
  <2> QED
    BY <2>1
<1> HIDE DEF h, b
<1>3. /\ t \in Seq(Nat) /\ Len(t) = 2 + c
      /\ t[1] = 0 /\ t[2] = c
      /\ \A k \in 1 .. c : t[2 + k] = s[i + k - 1]
  <2>1. /\ t \in Seq(Nat) /\ Len(t) = Len(h) + Len(b)
        /\ \A k \in 1 .. Len(h) : t[k] = h[k]
        /\ \A k \in 1 .. Len(b) : t[Len(h) + k] = b[k]
    BY <1>1, <1>2, Concat
  <2> HIDE DEF t
  <2>2. 1 \in 1 .. Len(h) /\ 2 \in 1 .. Len(h)
    BY <1>1
  <2> QED
    BY <1>1, <1>2, <2>1, <2>2
<1> HIDE DEF t
<1>4. \A k \in 1 .. c : 2 + k \in 1 .. Len(t)
  BY <1>3
<1>5. /\ e \in Seq(Nat) /\ Len(e) = 2 + c + Len(rest)
      /\ e[1] = 0 /\ e[2] = c
      /\ \A k \in 1 .. Len(rest) : e[2 + c + k] = rest[k]
  <2>1. 1 \in 1 .. Len(t) /\ 2 \in 1 .. Len(t)
    BY <1>3
  <2>2. /\ e \in Seq(Nat) /\ Len(e) = Len(t) + Len(rest)
        /\ \A k \in 1 .. Len(t) : e[k] = t[k]
        /\ \A k \in 1 .. Len(rest) : e[Len(t) + k] = rest[k]
    BY <1>3, Concat
  <2> HIDE DEF e
  <2> QED
    BY <1>3, <2>1, <2>2
<1>6. \A k \in 1 .. c : e[2 + k] = s[i + k - 1]
  BY <1>3, <1>4, Concat
<1> HIDE DEF e
<1>7. \A k : Width(e, k) = k
  BY <1>5 DEF Width
<1>8. StartsWithToken(e, rest, s, i, c)
  BY <1>5, <1>6, <1>7 DEF StartsWithToken
<1> QED
  BY <1>8 DEF e, t, h, b

\* Encode writes tokens to the end of the frame.
LEMMA WrittenAsTokens ==
    ASSUME NEW s \in Seq(Nat)
    PROVE  /\ Encode(s) = Written(s)[1]
           /\ Written(s)[Len(s) + 1] = <<>>
           /\ \A i \in 1 .. Len(s) + 1 : Written(s)[i] \in Seq(Nat)
           /\ \A i \in 1 .. Len(s) : \E c \in 1 .. Len(s) - i + 1 :
                StartsWithToken(Written(s)[i], Written(s)[i + c], s, i, c)
<1> DEFINE W == Written(s)
<1>0. Len(s) \in Nat /\ \A i \in 1 .. Len(s) : s[i] \in Nat
  OBVIOUS
<1>1. Encode(s) = W[1]
  BY EncodeUnfolds DEF Written
<1>2. EncodesFrom(s, 1, W)
  BY EncodesExists DEF Written
<1> HIDE DEF W
<1>3. \A i \in 1 .. Len(s) + 1 : W[i] = Token(s, W, i)
  BY <1>2 DEF EncodesFrom
<1>4. W[Len(s) + 1] = <<>>
  <2>1. Len(s) + 1 \in 1 .. Len(s) + 1 /\ Len(s) + 1 > Len(s)
    BY <1>0
  <2>2. Token(s, W, Len(s) + 1) = <<>>
    BY <2>1 DEF Token
  <2> QED
    BY <1>3, <2>1, <2>2
<1>5. ASSUME NEW i \in 1 .. Len(s), \A j \in i + 1 .. Len(s) + 1 : W[j] \in Seq(Nat)
      PROVE  \E c \in 1 .. Len(s) - i + 1 : StartsWithToken(W[i], W[i + c], s, i, c)
  <2> DEFINE run == RunLength(s, i)  literal == Min({MaxCount, Len(s) - i + 1})
  <2>1. /\ run \in 1 .. MaxCount /\ run <= Len(s) - i + 1
        /\ \A k \in i .. i + run - 1 : s[k] = s[i]
    BY RunOfFrame
  <2>2. literal \in 1 .. MaxCount /\ literal <= Len(s) - i + 1
    BY LiteralOfFrame
  <2>3. Byte(run) = run /\ Byte(literal) = literal
    BY <2>1, <2>2, ByteOfCount
  <2>4. i \in 1 .. Len(s) + 1 /\ ~(i > Len(s)) /\ i \in Nat /\ s[i] \in Nat
    BY <1>0
  <2>5. W[i] = IF run >= MinRun
               THEN <<1, run, s[i]>> \o W[i + run]
               ELSE <<0, literal>> \o SubSeq(s, i, i + literal - 1) \o W[i + literal]
    <3>1. W[i] = Token(s, W, i)
      BY <1>3, <2>4
    <3>2. Token(s, W, i) = IF run >= MinRun
               THEN <<1, Byte(run), s[i]>> \o W[i + run]
               ELSE <<0, Byte(literal)>> \o SubSeq(s, i, i + literal - 1) \o W[i + literal]
      BY <2>4 DEF Token
    <3> HIDE DEF run, literal
    <3> QED
      BY <2>3, <3>1, <3>2
  <2> HIDE DEF run, literal
  <2>6. CASE run >= MinRun
    <3>1. run \in 1 .. Len(s) - i + 1 /\ i + run \in i + 1 .. Len(s) + 1
      BY <1>0, <2>1, CodecAssumption
    <3>2. W[i + run] \in Seq(Nat)
      BY <1>5, <3>1
    <3>3. StartsWithToken(<<1, run, s[i]>> \o W[i + run], W[i + run], s, i, run)
      BY <2>1, <2>4, <3>2, RunToken
    <3>4. W[i] = <<1, run, s[i]>> \o W[i + run]
      BY <2>5, <2>6
    <3> QED
      BY <3>1, <3>3, <3>4
  <2>7. CASE ~(run >= MinRun)
    <3>1. literal \in 1 .. Len(s) - i + 1 /\ i + literal \in i + 1 .. Len(s) + 1
      BY <1>0, <2>2, CodecAssumption
    <3>2. W[i + literal] \in Seq(Nat)
      BY <1>5, <3>1
    <3>3. StartsWithToken(<<0, literal>> \o SubSeq(s, i, i + literal - 1) \o W[i + literal],
                          W[i + literal], s, i, literal)
      BY <3>1, <3>2, LiteralToken
    <3>4. W[i] = <<0, literal>> \o SubSeq(s, i, i + literal - 1) \o W[i + literal]
      BY <2>5, <2>7
    <3> QED
      BY <3>1, <3>3, <3>4
  <2> QED
    BY <2>6, <2>7
<1> DEFINE S == {n \in Nat : \A i \in 1 .. Len(s) + 1 : i + n >= Len(s) + 1 => W[i] \in Seq(Nat)}
<1>6. 0 \in S
  <2>1. \A i \in 1 .. Len(s) + 1 : i + 0 >= Len(s) + 1 => i = Len(s) + 1
    BY <1>0
  <2>2. <<>> \in Seq(Nat)
    OBVIOUS
  <2> QED
    BY <1>4, <2>1, <2>2
<1>7. ASSUME NEW n \in Nat, n \in S PROVE n + 1 \in S
  <2> SUFFICES ASSUME NEW i \in 1 .. Len(s) + 1, i + (n + 1) >= Len(s) + 1 PROVE W[i] \in Seq(Nat)
    OBVIOUS
  <2>1. CASE i = Len(s) + 1
    <3>1. <<>> \in Seq(Nat)
      OBVIOUS
    <3> QED
      BY <1>4, <2>1, <3>1
  <2>2. CASE i # Len(s) + 1
    <3>1. i \in 1 .. Len(s)
      BY <1>0, <2>2
    <3>2. \A j \in i + 1 .. Len(s) + 1 : j \in 1 .. Len(s) + 1 /\ j + n >= Len(s) + 1
      BY <1>0
    <3>3. \A j \in i + 1 .. Len(s) + 1 : W[j] \in Seq(Nat)
      BY <1>7, <3>2
    <3> QED
      BY <1>5, <3>1, <3>3 DEF StartsWithToken
  <2> QED
    BY <2>1, <2>2
<1> HIDE DEF S
<1>8. Nat \subseteq S
  BY <1>6, <1>7, Induction
<1>9. \A i \in 1 .. Len(s) + 1 : W[i] \in Seq(Nat)
  <2>1. \A i \in 1 .. Len(s) + 1 : i + (Len(s) + 1) >= Len(s) + 1
    BY <1>0
  <2>2. Len(s) + 1 \in S
    BY <1>0, <1>8
  <2> QED
    BY <2>1, <2>2 DEF S
<1>10. ASSUME NEW i \in 1 .. Len(s)
       PROVE  \E c \in 1 .. Len(s) - i + 1 : StartsWithToken(W[i], W[i + c], s, i, c)
  <2>1. \A j \in i + 1 .. Len(s) + 1 : j \in 1 .. Len(s) + 1
    BY <1>0
  <2> QED
    BY <1>5, <1>9, <2>1
<1> QED
  BY <1>1, <1>4, <1>9, <1>10 DEF W

-----------------------------------------------------------------------------
(* The payload as the client reads it.                                     *)

\* What decompress_rle makes of the payload from i on, given by f what it makes
\* of it later.
Read(payload, f, i) ==
    LET count == At(payload, i + 1)
        run   == payload[i] = 1
        last  == i + 1 + IF run THEN 1 ELSE count
        rest  == f[last + 1]
        bytes == [k \in 1 .. count |-> At(payload, i + 1 + IF run THEN 1 ELSE k)]
    IN  IF i > Len(payload) THEN [ok |-> TRUE, bytes |-> <<>>]
        ELSE IF ~Fits(payload, i + 1) \/ ~Fits(payload, last) THEN Refused
        ELSE IF ~rest.ok THEN Refused
        ELSE [ok |-> TRUE, bytes |-> bytes \o rest.bytes]

End(payload) == 2 * Len(payload) + MaxCount + 2
DecodesFrom(payload, a, f) == f = [i \in a .. End(payload) |-> Read(payload, f, i)]

LEMMA DecodeUnfolds ==
    ASSUME NEW p
    PROVE  Decode(p) = (CHOOSE f : DecodesFrom(p, 1, f))[1]
BY DEF Decode, DecodesFrom, Read, End

LEMMA ReadsAhead ==
    ASSUME NEW p \in Seq(Nat), NEW i \in 1 .. End(p), NEW f, NEW g,
           \A j \in i + 1 .. End(p) : f[j] = g[j]
    PROVE  Read(p, f, i) = Read(p, g, i)
<1>0. Len(p) \in Nat /\ End(p) \in Nat /\ i \in Nat /\ End(p) >= Len(p) + 2
  BY CodecAssumption DEF End
<1> DEFINE count == At(p, i + 1)
           run   == p[i] = 1
           last  == i + 1 + IF run THEN 1 ELSE count
<1>1. CASE i > Len(p)
  BY <1>1 DEF Read
<1>2. CASE ~(i > Len(p)) /\ (~Fits(p, i + 1) \/ ~Fits(p, last))
  BY <1>2 DEF Read
<1>3. CASE ~(i > Len(p)) /\ Fits(p, i + 1) /\ Fits(p, last)
  <2>1. count \in Nat
    <3>1. i + 1 \in 1 .. Len(p)
      BY <1>0, <1>3 DEF Fits
    <3> QED
      BY <3>1 DEF At
  <2>2. last \in Nat /\ last >= i + 1 /\ last <= Len(p)
    <3>1. last <= Len(p)
      BY <1>3 DEF Fits
    <3> HIDE DEF count
    <3> QED
      BY <1>0, <2>1, <3>1
  <2> HIDE DEF last
  <2>3. last + 1 \in i + 1 .. End(p)
    BY <1>0, <2>2
  <2>4. f[last + 1] = g[last + 1]
    BY <2>3
  <2> QED
    BY <2>4 DEF Read, last
<1> QED
  BY <1>1, <1>2, <1>3

LEMMA DecodesExists ==
    ASSUME NEW p \in Seq(Nat)
    PROVE  \E f : DecodesFrom(p, 1, f)
<1> DEFINE S == {n \in Nat : n <= Len(p) => \E f : DecodesFrom(p, Len(p) + 1 - n, f)}
<1>0. Len(p) \in Nat /\ End(p) \in Nat /\ End(p) >= Len(p) + 2
  BY CodecAssumption DEF End
<1>1. 0 \in S
  <2> DEFINE f == [i \in Len(p) + 1 .. End(p) |-> [ok |-> TRUE, bytes |-> <<>>]]
  <2>1. \A i \in Len(p) + 1 .. End(p) : i > Len(p)
    BY <1>0
  <2>2. \A i \in Len(p) + 1 .. End(p) : Read(p, f, i) = [ok |-> TRUE, bytes |-> <<>>]
    BY <2>1 DEF Read
  <2>3. DecodesFrom(p, Len(p) + 1, f)
    BY <2>2 DEF DecodesFrom
  <2>4. Len(p) + 1 - 0 = Len(p) + 1
    BY <1>0
  <2> HIDE DEF f
  <2> QED
    BY <2>3, <2>4
<1>2. ASSUME NEW n \in Nat, n \in S PROVE n + 1 \in S
  <2> SUFFICES ASSUME n + 1 <= Len(p) PROVE \E f : DecodesFrom(p, Len(p) + 1 - (n + 1), f)
    OBVIOUS
  <2> DEFINE a == Len(p) - n
  <2>1. a \in 1 .. Len(p) /\ Len(p) + 1 - (n + 1) = a /\ Len(p) + 1 - n = a + 1
    BY <1>0
  <2>2. PICK f : DecodesFrom(p, a + 1, f)
    BY <1>2, <2>1
  <2> HIDE DEF a
  <2> DEFINE g == [i \in a .. End(p) |-> IF i = a THEN Read(p, f, i) ELSE f[i]]
  <2>3. \A i \in a + 1 .. End(p) : g[i] = f[i]
    BY <1>0, <2>1
  <2>4. ASSUME NEW i \in a .. End(p) PROVE g[i] = Read(p, g, i)
    <3>1. i \in 1 .. End(p) /\ \A j \in i + 1 .. End(p) : j \in a + 1 .. End(p)
      BY <1>0, <2>1
    <3>2. Read(p, f, i) = Read(p, g, i)
      <4> HIDE DEF g
      <4> QED
        BY <2>3, <3>1, ReadsAhead
    <3>3. CASE i = a
      <4>1. g[i] = Read(p, f, i)
        BY <3>3
      <4> HIDE DEF g
      <4> QED
        BY <3>2, <4>1
    <3>4. CASE i # a
      <4>1. i \in a + 1 .. End(p)
        BY <1>0, <2>1, <3>4
      <4>2. f[i] = Read(p, f, i)
        BY <2>2, <4>1 DEF DecodesFrom
      <4>3. g[i] = f[i]
        BY <2>3, <4>1
      <4> HIDE DEF g
      <4> QED
        BY <3>2, <4>2, <4>3
    <3> QED
      BY <3>3, <3>4
  <2>5. g = [i \in a .. End(p) |-> g[i]]
    OBVIOUS
  <2> HIDE DEF g
  <2>6. g = [i \in a .. End(p) |-> Read(p, g, i)]
    BY <2>4, <2>5
  <2>7. DecodesFrom(p, a, g)
    BY <2>6 DEF DecodesFrom
  <2> QED
    BY <2>1, <2>7
<1> HIDE DEF S
<1>3. Nat \subseteq S
  BY <1>1, <1>2, Induction
<1>4. Len(p) + 1 - Len(p) = 1
  BY <1>0
<1> QED
  BY <1>0, <1>3, <1>4 DEF S

\* What Decode reads, from every place of the payload p.
Decoded(p) == CHOOSE f : DecodesFrom(p, 1, f)

LEMMA DecodedReads ==
    ASSUME NEW p \in Seq(Nat)
    PROVE  /\ Decode(p) = Decoded(p)[1]
           /\ \A i \in 1 .. Len(p) + 1 : Decoded(p)[i] = Read(p, Decoded(p), i)
<1> DEFINE D == Decoded(p)
<1>1. Decode(p) = D[1]
  BY DecodeUnfolds DEF Decoded
<1>2. DecodesFrom(p, 1, D)
  BY DecodesExists DEF Decoded
<1> HIDE DEF D
<1>3. \A i \in 1 .. Len(p) + 1 : i \in 1 .. End(p)
  BY CodecAssumption DEF End
<1>4. \A i \in 1 .. Len(p) + 1 : D[i] = Read(p, D, i)
  BY <1>2, <1>3 DEF DecodesFrom
<1> QED
  BY <1>1, <1>4 DEF D

\* Behind o, the payload p holds the first m values of e.
Holds(p, o, e, m) ==
    /\ p \in Seq(Nat) /\ Len(p) = o + m
    /\ \A k \in 1 .. m : p[o + k] = e[k]

\* The c bytes of s from s[i] on.
Chunk(s, i, c) == [k \in 1 .. c |-> s[i + k - 1]]

\* Nothing is read behind the payload, a token that was cut short is refused,
\* and a whole one gives its bytes before those of the rest.
LEMMA ReadToken ==
    ASSUME NEW s \in Seq(Nat), NEW i \in 1 .. Len(s), NEW c \in 1 .. Len(s) - i + 1,
           NEW e, NEW rest \in Seq(Nat), StartsWithToken(e, rest, s, i, c),
           NEW o \in Nat, NEW m \in 0 .. Len(e), NEW p, Holds(p, o, e, m)
    PROVE  /\ m = 0 => Decoded(p)[o + 1] = [ok |-> TRUE, bytes |-> <<>>]
           /\ m > 0 /\ m < 2 + Width(e, c) => Decoded(p)[o + 1] = Refused
           /\ m >= 2 + Width(e, c) =>
                Decoded(p)[o + 1] =
                  IF ~Decoded(p)[(o + 2 + Width(e, c)) + 1].ok THEN Refused
                  ELSE [ok |-> TRUE,
                        bytes |-> Chunk(s, i, c) \o Decoded(p)[(o + 2 + Width(e, c)) + 1].bytes]
<1> DEFINE D == Decoded(p)
           w == Width(e, c)
<1>1. /\ p \in Seq(Nat) /\ Len(p) = o + m /\ Len(p) \in Nat
      /\ \A k \in 1 .. m : p[o + k] = e[k]
  BY DEF Holds
<1>2. /\ e \in Seq(Nat) /\ e[1] \in {0, 1} /\ e[2] = c
      /\ Len(e) = 2 + w + Len(rest)
      /\ \A k \in 1 .. c : e[2 + Width(e, k)] = s[i + k - 1]
      /\ Len(e) \in Nat /\ m \in Nat /\ c \in Nat /\ c >= 1
  BY DEF StartsWithToken
<1>3. w \in Nat /\ w >= 1
  BY <1>2 DEF Width
<1>4. D[o + 1] = Read(p, D, o + 1)
  <2>1. o + 1 \in 1 .. Len(p) + 1
    BY <1>1, <1>2
  <2> QED
    BY <1>1, <2>1, DecodedReads
<1> HIDE DEF D, w
<1> DEFINE Goal == /\ m = 0 => D[o + 1] = [ok |-> TRUE, bytes |-> <<>>]
                   /\ m > 0 /\ m < 2 + w => D[o + 1] = Refused
                   /\ m >= 2 + w =>
                        D[o + 1] = IF ~D[(o + 2 + w) + 1].ok THEN Refused
                                   ELSE [ok |-> TRUE,
                                         bytes |-> Chunk(s, i, c) \o D[(o + 2 + w) + 1].bytes]
<1>5. ASSUME m = 0 PROVE Goal
  <2>1. o + 1 > Len(p)
    BY <1>1, <1>5
  <2> QED
    BY <1>2, <1>3, <1>4, <1>5, <2>1 DEF Read
<1>6. ASSUME m = 1 PROVE Goal
  <2>1. ~(o + 1 > Len(p)) /\ ~Fits(p, (o + 1) + 1)
    BY <1>1, <1>6 DEF Fits
  <2>2. D[o + 1] = Refused
    BY <1>4, <2>1 DEF Read
  <2> QED
    BY <1>3, <1>6, <2>2
<1>7. ASSUME m >= 2 PROVE Goal
  <2>1. p[o + 1] = e[1] /\ p[(o + 1) + 1] = c
    <3>1. 1 \in 1 .. m /\ 2 \in 1 .. m /\ (o + 1) + 1 = o + 2
      BY <1>2, <1>7
    <3> QED
      BY <1>1, <1>2, <3>1
  <2>2. ~(o + 1 > Len(p)) /\ Fits(p, (o + 1) + 1) /\ At(p, (o + 1) + 1) = c
    BY <1>1, <1>2, <1>7, <2>1 DEF Fits, At
  <2>3. (IF p[o + 1] = 1 THEN 1 ELSE At(p, (o + 1) + 1)) = w
    BY <2>1, <2>2 DEF w, Width
  <2> DEFINE last  == (o + 1) + 1 + w
             bytes == [k \in 1 .. c |-> At(p, (o + 1) + 1 + IF p[o + 1] = 1 THEN 1 ELSE k)]
  <2>4. D[o + 1] = IF ~Fits(p, last) THEN Refused
                   ELSE IF ~D[last + 1].ok THEN Refused
                   ELSE [ok |-> TRUE, bytes |-> bytes \o D[last + 1].bytes]
    BY <1>4, <2>2, <2>3 DEF Read
  <2>5. last = o + 2 + w /\ (Fits(p, last) <=> m >= 2 + w)
    BY <1>1, <1>2, <1>3 DEF Fits
  <2>6. m >= 2 + w => bytes = Chunk(s, i, c)
    <3> SUFFICES ASSUME m >= 2 + w, NEW k \in 1 .. c
                 PROVE  At(p, (o + 1) + 1 + IF p[o + 1] = 1 THEN 1 ELSE k) = s[i + k - 1]
      BY DEF Chunk
    <3> DEFINE v == Width(e, k)
    <3>1. (IF p[o + 1] = 1 THEN 1 ELSE k) = v
      BY <2>1 DEF Width
    <3>2. v \in Nat /\ v <= w /\ v >= 1
      BY <1>2 DEF Width, w
    <3>3. e[2 + v] = s[i + k - 1]
      BY <1>2
    <3> HIDE DEF v
    <3>4. 2 + v \in 1 .. m /\ (o + 1) + 1 + v = o + (2 + v) /\ o + (2 + v) <= Len(p)
      BY <1>1, <1>2, <1>3, <3>2
    <3>5. p[o + (2 + v)] = s[i + k - 1]
      BY <1>1, <3>3, <3>4
    <3>6. At(p, (o + 1) + 1 + v) = s[i + k - 1]
      BY <3>4, <3>5 DEF At
    <3> QED
      BY <3>1, <3>6
  <2> HIDE DEF last, bytes
  <2>7. /\ m < 2 + w => D[o + 1] = Refused
        /\ m >= 2 + w =>
             D[o + 1] = IF ~D[(o + 2 + w) + 1].ok THEN Refused
                        ELSE [ok |-> TRUE, bytes |-> Chunk(s, i, c) \o D[(o + 2 + w) + 1].bytes]
    <3>1. last = o + 2 + w
      BY <2>5
    <3>2. ASSUME m < 2 + w PROVE D[o + 1] = Refused
      <4>1. ~(m >= 2 + w)
        BY <1>2, <1>3, <3>2
      <4> QED
        BY <2>4, <2>5, <4>1
    <3>3. ASSUME m >= 2 + w
          PROVE  D[o + 1] = IF ~D[(o + 2 + w) + 1].ok THEN Refused
                            ELSE [ok |-> TRUE,
                                  bytes |-> Chunk(s, i, c) \o D[(o + 2 + w) + 1].bytes]
      <4>1. Fits(p, last) /\ bytes = Chunk(s, i, c)
        BY <2>5, <2>6, <3>3
      <4> QED
        BY <2>4, <3>1, <4>1, Zenon
    <3> QED
      BY <3>2, <3>3, Zenon
  <2>8. m # 0
    BY <1>7
  <2> QED
    BY <2>7, <2>8, Zenon
<1>8. Goal
  <2>1. m = 0 \/ m = 1 \/ m >= 2
    BY <1>2
  <2> HIDE DEF Goal
  <2> QED
    BY <1>5, <1>6, <1>7, <2>1
<1> QED
  BY <1>8, Zenon DEF D, w

LEMMA ChunkThenRest ==
    ASSUME NEW s \in Seq(Nat), NEW i \in 1 .. Len(s), NEW c \in 1 .. Len(s) - i + 1
    PROVE  /\ Chunk(s, i, c) \in Seq(Nat) /\ Len(Chunk(s, i, c)) = c
           /\ Chunk(s, i, c) \o SubSeq(s, i + c, Len(s)) = SubSeq(s, i, Len(s))
<1> DEFINE a == Chunk(s, i, c)
           b == SubSeq(s, i + c, Len(s))
           w == SubSeq(s, i, Len(s))
<1>0. Len(s) \in Nat /\ c \in Nat /\ i \in Nat /\ i + c - 1 <= Len(s) /\ i + c - 1 >= i
  OBVIOUS
<1>1. \A k \in 1 .. c : i + k - 1 \in 1 .. Len(s) /\ s[i + k - 1] \in Nat
  BY <1>0
<1>2. a \in Seq(Nat) /\ Len(a) = c /\ \A k \in 1 .. c : a[k] = s[i + k - 1]
  <2>1. a \in [1 .. c -> Nat]
    BY <1>1 DEF Chunk
  <2>2. \A k \in 1 .. c : a[k] = s[i + k - 1]
    BY DEF Chunk
  <2> HIDE DEF a
  <2> QED
    BY <1>0, <2>1, <2>2
<1>3. /\ b \in Seq(Nat) /\ Len(b) = Len(s) - (i + c) + 1
      /\ \A k \in 1 .. Len(s) - (i + c) + 1 : b[k] = s[i + c + k - 1]
  BY <1>0
<1>4. /\ w \in Seq(Nat) /\ Len(w) = Len(s) - i + 1
      /\ \A k \in 1 .. Len(s) - i + 1 : w[k] = s[i + k - 1]
  BY <1>0
<1> HIDE DEF a, b, w
<1>5. /\ a \o b \in Seq(Nat) /\ Len(a \o b) = Len(s) - i + 1
      /\ \A k \in 1 .. Len(a) : (a \o b)[k] = a[k]
      /\ \A k \in 1 .. Len(b) : (a \o b)[Len(a) + k] = b[k]
  <2>1. /\ a \o b \in Seq(Nat) /\ Len(a \o b) = Len(a) + Len(b)
        /\ \A k \in 1 .. Len(a) : (a \o b)[k] = a[k]
        /\ \A k \in 1 .. Len(b) : (a \o b)[Len(a) + k] = b[k]
    BY <1>2, <1>3, Concat
  <2>2. Len(a) + Len(b) = Len(s) - i + 1
    BY <1>0, <1>2, <1>3
  <2> QED
    BY <2>1, <2>2
<1>6. ASSUME NEW k \in 1 .. Len(s) - i + 1 PROVE (a \o b)[k] = w[k]
  <2>1. CASE k <= c
    <3>1. k \in 1 .. c /\ k \in 1 .. Len(a)
      BY <1>0, <1>2, <2>1
    <3>2. (a \o b)[k] = a[k] /\ a[k] = s[i + k - 1] /\ w[k] = s[i + k - 1]
      BY <1>2, <1>4, <1>5, <3>1
    <3> QED
      BY <3>2
  <2>2. CASE ~(k <= c)
    <3>1. k - c \in 1 .. Len(b) /\ Len(a) + (k - c) = k /\ i + c + (k - c) - 1 = i + k - 1
      BY <1>0, <1>2, <1>3, <2>2
    <3>2. (a \o b)[k] = b[k - c]
      BY <1>5, <3>1
    <3>3. b[k - c] = s[i + c + (k - c) - 1]
      BY <1>3, <3>1
    <3> QED
      BY <1>4, <3>1, <3>2, <3>3
  <2> QED
    BY <2>1, <2>2
<1>7. a \o b = w
  BY <1>4, <1>5, <1>6, SeqEqual
<1> QED
  BY <1>2, <1>7 DEF a, b, w

\* What the client makes of the first m values the server writes from s[i] on:
\* the frame from s[i] on when it has them all, less or nothing otherwise.
Outcome(s, i, m, d) ==
    /\ m = Len(Written(s)[i]) => d = [ok |-> TRUE, bytes |-> SubSeq(s, i, Len(s))]
    /\ m < Len(Written(s)[i]) =>
         \/ d = Refused
         \/ d.ok = TRUE /\ d.bytes \in Seq(Nat) /\ Len(d.bytes) < Len(s) - i + 1

ReadsWhatIsWritten(s, i) ==
    \A o \in Nat, m \in 0 .. Len(Written(s)[i]), p \in Seq(Nat) :
        Holds(p, o, Written(s)[i], m) => Outcome(s, i, m, Decoded(p)[o + 1])

LEMMA ReadsNothing ==
    ASSUME NEW s \in Seq(Nat)
    PROVE  ReadsWhatIsWritten(s, Len(s) + 1)
<1>1. Len(s) \in Nat /\ Written(s)[Len(s) + 1] = <<>> /\ Len(<<>>) = 0
  BY WrittenAsTokens
<1>2. SubSeq(s, Len(s) + 1, Len(s)) = <<>>
  <2>1. Len(s) + 1 > Len(s)
    BY <1>1
  <2> QED
    BY <1>1, <2>1
<1>3. ASSUME NEW o \in Nat, NEW p \in Seq(Nat), Len(p) = o
      PROVE  Decoded(p)[o + 1] = [ok |-> TRUE, bytes |-> <<>>]
  <2>1. o + 1 \in 1 .. Len(p) + 1 /\ o + 1 > Len(p)
    BY <1>3
  <2>2. Decoded(p)[o + 1] = Read(p, Decoded(p), o + 1)
    BY <2>1, DecodedReads
  <2> QED
    BY <2>1, <2>2 DEF Read
<1>4. ASSUME NEW o \in Nat, NEW m \in 0 .. Len(Written(s)[Len(s) + 1]), NEW p \in Seq(Nat),
             Holds(p, o, Written(s)[Len(s) + 1], m)
      PROVE  Outcome(s, Len(s) + 1, m, Decoded(p)[o + 1])
  <2>1. m = 0 /\ Len(p) = o
    <3>1. m = 0
      BY <1>1
    <3>2. Len(p) = o + m
      BY <1>4 DEF Holds
    <3> QED
      BY <3>1, <3>2
  <2>2. Decoded(p)[o + 1] = [ok |-> TRUE, bytes |-> <<>>]
    BY <1>3, <2>1
  <2> QED
    <3>1. ~(m < Len(Written(s)[Len(s) + 1]))
      BY <1>1, <2>1
    <3> QED
      BY <1>2, <2>2, <3>1, Zenon DEF Outcome
<1> QED
  BY <1>4 DEF ReadsWhatIsWritten

LEMMA ReadsOneMore ==
    ASSUME NEW s \in Seq(Nat), NEW i \in 1 .. Len(s),
           \A j \in i + 1 .. Len(s) + 1 : ReadsWhatIsWritten(s, j)
    PROVE  ReadsWhatIsWritten(s, i)
<1>0. Len(s) \in Nat /\ i \in Nat
  OBVIOUS
<1>1. PICK c \in 1 .. Len(s) - i + 1 : StartsWithToken(Written(s)[i], Written(s)[i + c], s, i, c)
  BY WrittenAsTokens
<1> DEFINE e == Written(s)[i]
           r == Written(s)[i + c]
<1> DEFINE w == Width(e, c)
<1>2. i + c \in i + 1 .. Len(s) + 1 /\ i + c \in 1 .. Len(s) + 1 /\ c \in Nat /\ c >= 1
  BY <1>0
<1>3. r \in Seq(Nat) /\ ReadsWhatIsWritten(s, i + c)
  BY <1>2, WrittenAsTokens DEF r
<1> HIDE DEF w, e, r
<1>4. /\ e \in Seq(Nat) /\ Len(e) = 2 + w + Len(r)
      /\ \A k \in 1 .. Len(r) : e[2 + w + k] = r[k]
      /\ Len(r) \in Nat /\ Len(e) \in Nat
  <2>1. /\ e \in Seq(Nat) /\ Len(e) = 2 + w + Len(r)
        /\ \A k \in 1 .. Len(r) : e[2 + w + k] = r[k]
    BY <1>1 DEF StartsWithToken, w, e, r
  <2>2. Len(e) \in Nat
    BY <2>1, LenProperties
  <2>3. Len(r) \in Nat
    BY <1>3, LenProperties
  <2> QED
    BY <2>1, <2>2, <2>3
<1>5. w \in Nat /\ w >= 1
  BY <1>2 DEF Width, w
<1> SUFFICES ASSUME NEW o \in Nat, NEW m \in 0 .. Len(e), NEW p \in Seq(Nat),
                    Holds(p, o, e, m)
             PROVE  Outcome(s, i, m, Decoded(p)[o + 1])
  BY DEF ReadsWhatIsWritten, e
<1> DEFINE D == Decoded(p)
           o2 == o + 2 + w
           later == D[o2 + 1]
<1>6. /\ m = 0 => D[o + 1] = [ok |-> TRUE, bytes |-> <<>>]
      /\ m > 0 /\ m < 2 + w => D[o + 1] = Refused
      /\ m >= 2 + w =>
           D[o + 1] = IF ~later.ok THEN Refused
                      ELSE [ok |-> TRUE, bytes |-> Chunk(s, i, c) \o later.bytes]
  BY <1>1, <1>3, ReadToken DEF w, e, r
<1> HIDE DEF D, later
<1>7. m \in Nat /\ m <= Len(e)
  BY <1>4
<1>8. CASE m = 0
  <2>1. m < Len(e) /\ Len(s) - i + 1 > 0
    BY <1>0, <1>4, <1>5, <1>8
  <2>2. <<>> \in Seq(Nat) /\ Len(<<>>) = 0
    OBVIOUS
  <2> HIDE DEF D, e, w
  <2>3. D[o + 1].ok = TRUE /\ D[o + 1].bytes = <<>>
    BY <1>6, <1>8
  <2>4. D[o + 1].bytes \in Seq(Nat) /\ Len(D[o + 1].bytes) < Len(s) - i + 1 /\ m # Len(e)
    BY <1>7, <2>1, <2>2, <2>3, <1>4
  <2> QED
    BY <2>3, <2>4 DEF Outcome, D, e
<1>9. CASE m > 0 /\ m < 2 + w
  <2>1. m < Len(e) /\ m # Len(e)
    BY <1>4, <1>5, <1>7, <1>9
  <2> HIDE DEF D, e, w
  <2> QED
    BY <1>6, <1>9, <2>1 DEF Outcome, D, e
<1>10. CASE m >= 2 + w
  <2> DEFINE n == m - (2 + w)
  <2>1. n \in 0 .. Len(r) /\ o2 \in Nat
    BY <1>4, <1>5, <1>7, <1>10
  <2>2. Holds(p, o2, r, n)
    <3> HIDE DEF e, r, w
    <3>1. /\ Len(p) = o + m
          /\ \A k \in 1 .. m : p[o + k] = e[k]
      BY DEF Holds
    <3>2. Len(p) = o2 + n
      BY <1>5, <1>7, <3>1
    <3>3. ASSUME NEW k \in 1 .. n PROVE p[o2 + k] = r[k]
      <4>1. /\ k \in 1 .. Len(r)
            /\ 2 + w + k \in 1 .. m
            /\ o2 + k = o + (2 + w + k)
        BY <1>4, <1>5, <1>7, <1>10, <2>1
      <4>2. p[o + (2 + w + k)] = e[2 + w + k]
        BY <3>1, <4>1
      <4>3. e[2 + w + k] = r[k]
        BY <1>4, <4>1
      <4> QED
        BY <4>1, <4>2, <4>3
    <3> HIDE DEF n, o2
    <3> QED
      BY <3>2, <3>3 DEF Holds
  <2>3. Outcome(s, i + c, n, later)
    BY <1>3, <2>1, <2>2 DEF ReadsWhatIsWritten, r, D, later
  <2> HIDE DEF e, r, w, D
  <2>4. (n = Len(r) <=> m = Len(e)) /\ (n < Len(r) <=> m < Len(e))
    BY <1>4, <1>5, <1>7
  <2> HIDE DEF later, n
  <2>5. D[o + 1] = IF ~later.ok THEN Refused
                   ELSE [ok |-> TRUE, bytes |-> Chunk(s, i, c) \o later.bytes]
    BY <1>6, <1>10
  <2>6. /\ Chunk(s, i, c) \in Seq(Nat) /\ Len(Chunk(s, i, c)) = c
        /\ Chunk(s, i, c) \o SubSeq(s, i + c, Len(s)) = SubSeq(s, i, Len(s))
    BY ChunkThenRest
  <2>7. ASSUME m = Len(e) PROVE D[o + 1] = [ok |-> TRUE, bytes |-> SubSeq(s, i, Len(s))]
    <3>1. later = [ok |-> TRUE, bytes |-> SubSeq(s, i + c, Len(s))]
      BY <2>3, <2>4, <2>7 DEF Outcome, r
    <3>2. later.ok /\ later.bytes = SubSeq(s, i + c, Len(s))
      BY <3>1
    <3> QED
      BY <2>5, <2>6, <3>2
  <2>8. ASSUME m < Len(e)
        PROVE  \/ D[o + 1] = Refused
               \/ /\ D[o + 1].ok = TRUE /\ D[o + 1].bytes \in Seq(Nat)
                  /\ Len(D[o + 1].bytes) < Len(s) - i + 1
    <3>1. \/ later = Refused
          \/ later.ok = TRUE /\ later.bytes \in Seq(Nat) /\ Len(later.bytes) < Len(s) - (i + c) + 1
      BY <2>3, <2>4, <2>8 DEF Outcome, r
    <3>2. CASE later = Refused
      <4>1. ~later.ok
        BY <3>2 DEF Refused
      <4> QED
        BY <2>5, <4>1
    <3>3. CASE later.ok = TRUE /\ later.bytes \in Seq(Nat) /\ Len(later.bytes) < Len(s) - (i + c) + 1
      <4> DEFINE a == Chunk(s, i, c)  b == later.bytes
      <4>1. D[o + 1].ok = TRUE /\ D[o + 1].bytes = a \o b
        <5>1. later.ok
          BY <3>3
        <5>2. D[o + 1] = [ok |-> TRUE, bytes |-> a \o b]
          BY <2>5, <5>1, Zenon
        <5> DEFINE d == D[o + 1]  z == a \o b
        <5>3. d = [ok |-> TRUE, bytes |-> z]
          BY <5>2
        <5> HIDE DEF a, b, d, z
        <5>4. d.ok = TRUE /\ d.bytes = z
          BY <5>3
        <5> QED
          BY <5>4 DEF d, z
      <4>2. a \in Seq(Nat) /\ b \in Seq(Nat) /\ Len(a) = c /\ Len(b) < Len(s) - (i + c) + 1
        BY <2>6, <3>3
      <4> HIDE DEF a, b
      <4>3. a \o b \in Seq(Nat) /\ Len(a \o b) = Len(a) + Len(b) /\ Len(b) \in Nat
        <5>1. Len(b) \in Nat
          BY <4>2, LenProperties
        <5> QED
          BY <4>2, <5>1, Concat
      <4>4. Len(a) + Len(b) < Len(s) - i + 1
        BY <1>0, <1>2, <4>2, <4>3
      <4> QED
        BY <4>1, <4>3, <4>4
    <3> QED
      BY <3>1, <3>2, <3>3
  <2> QED
    BY <2>7, <2>8, Zenon DEF Outcome, D, e
<1>11. m = 0 \/ (m > 0 /\ m < 2 + w) \/ m >= 2 + w
  BY <1>5, <1>7
<1> QED
  BY <1>8, <1>9, <1>10, <1>11

LEMMA ReadsEverything ==
    ASSUME NEW s \in Seq(Nat)
    PROVE  ReadsWhatIsWritten(s, 1)
<1> DEFINE S == {n \in Nat : \A i \in 1 .. Len(s) + 1 :
                   i + n >= Len(s) + 1 => ReadsWhatIsWritten(s, i)}
<1>0. Len(s) \in Nat
  OBVIOUS
<1>1. 0 \in S
  <2>1. \A i \in 1 .. Len(s) + 1 : i + 0 >= Len(s) + 1 => i = Len(s) + 1
    BY <1>0
  <2> QED
    BY <2>1, ReadsNothing
<1>2. ASSUME NEW n \in Nat, n \in S PROVE n + 1 \in S
  <2> SUFFICES ASSUME NEW i \in 1 .. Len(s) + 1, i + (n + 1) >= Len(s) + 1
               PROVE  ReadsWhatIsWritten(s, i)
    OBVIOUS
  <2>1. CASE i = Len(s) + 1
    BY <2>1, ReadsNothing
  <2>2. CASE i # Len(s) + 1
    <3>1. i \in 1 .. Len(s)
      BY <1>0, <2>2
    <3>2. \A j \in i + 1 .. Len(s) + 1 : j \in 1 .. Len(s) + 1 /\ j + n >= Len(s) + 1
      BY <1>0
    <3>3. \A j \in i + 1 .. Len(s) + 1 : ReadsWhatIsWritten(s, j)
      BY <1>2, <3>2
    <3> QED
      BY <3>1, <3>3, ReadsOneMore
  <2> QED
    BY <2>1, <2>2
<1> HIDE DEF S
<1>3. Nat \subseteq S
  BY <1>1, <1>2, Induction
<1>4. Len(s) \in S /\ 1 \in 1 .. Len(s) + 1 /\ 1 + Len(s) >= Len(s) + 1
  BY <1>0, <1>3
<1> QED
  BY <1>4 DEF S

-----------------------------------------------------------------------------
(* The code of frames.                                                     *)

\* Of any frame, of whatever length and bytes, the client decodes that frame,
\* compressed or not, and of a payload cut short nothing: compress_frame and
\* handle_frame fit together for every largest count, shortest run and gain.
THEOREM CodeIsExact == \A s \in Seq(Nat) : CodedFaithfully(s)
<1> SUFFICES ASSUME NEW s \in Seq(Nat) PROVE CodedFaithfully(s)
  OBVIOUS
<1> DEFINE e     == Encode(s)
           whole == [ok |-> TRUE, bytes |-> s]
           coded == [rle |-> TRUE, size |-> Len(s), payload |-> e]
           raw   == [Compress(s) EXCEPT !.rle = FALSE]
<1>0. Len(s) \in Nat /\ SubSeq(s, 1, Len(s)) = s
  OBVIOUS
<1>1. e = Written(s)[1] /\ e \in Seq(Nat) /\ Len(e) \in Nat
  <2>1. 1 \in 1 .. Len(s) + 1
    BY <1>0
  <2>2. e = Written(s)[1] /\ e \in Seq(Nat)
    BY <2>1, WrittenAsTokens
  <2> QED
    BY <2>2
<1> HIDE DEF e
<1>2. ASSUME NEW n \in 0 .. Len(e)
      PROVE  /\ SubSeq(e, 1, n) \in Seq(Nat) /\ Len(SubSeq(e, 1, n)) = n
             /\ Outcome(s, 1, n, Decode(SubSeq(e, 1, n)))
  <2> DEFINE p == SubSeq(e, 1, n)
  <2>1. p \in Seq(Nat) /\ Len(p) = n /\ \A k \in 1 .. n : p[k] = e[k]
    BY <1>1
  <2> HIDE DEF p
  <2>2. Holds(p, 0, e, n)
    <3>1. n \in Nat /\ 0 + n = n /\ \A k \in 1 .. n : 0 + k = k
      BY <1>1
    <3> QED
      BY <2>1, <3>1 DEF Holds
  <2>3. Outcome(s, 1, n, Decoded(p)[0 + 1])
    BY <1>1, <2>1, <2>2, ReadsEverything DEF ReadsWhatIsWritten
  <2>4. Decoded(p)[0 + 1] = Decode(p)
    BY <2>1, DecodedReads
  <2> QED
    BY <2>1, <2>3, <2>4 DEF p
<1>3. Decode(e) = whole
  <2>1. Len(e) \in 0 .. Len(e) /\ SubSeq(e, 1, Len(e)) = e
    BY <1>1
  <2>2. Outcome(s, 1, Len(e), Decode(e))
    BY <1>2, <2>1
  <2> QED
    BY <1>0, <1>1, <2>2 DEF Outcome
<1>4. Decompress(Compress(s)) = whole
  <2>1. CASE Len(e) + Gain < Len(s)
    <3>1. Compress(s) = coded
      BY <2>1 DEF Compress, e
    <3>2. coded.rle = TRUE /\ coded.payload = e /\ coded.size = Len(s)
      OBVIOUS
    <3> HIDE DEF coded
    <3>3. whole.ok = TRUE /\ whole.bytes = s
      OBVIOUS
    <3> HIDE DEF whole
    <3> QED
      BY <1>0, <1>3, <3>1, <3>2, <3>3 DEF Decompress
  <2>2. CASE ~(Len(e) + Gain < Len(s))
    <3> DEFINE f == [rle |-> FALSE, size |-> Len(s), payload |-> s]
    <3>0. (Len(e) + Gain < Len(s)) = FALSE
      BY <2>2
    <3>1. Compress(s) = f
      BY <3>0, Zenon DEF Compress, e
    <3>2. f.rle = FALSE /\ f.payload = s /\ f.size = Len(s)
      OBVIOUS
    <3> HIDE DEF f
    <3>3. whole.ok = TRUE /\ whole.bytes = s
      OBVIOUS
    <3> QED
      BY <1>0, <3>1, <3>2, <3>3 DEF Decompress
  <2> QED
    BY <2>1, <2>2
<1>5. ASSUME NEW p \in Truncated(e) PROVE Decompress([coded EXCEPT !.payload = p]) = Refused
  <2>1. PICK n \in 0 .. Len(e) - 1 : p = SubSeq(e, 1, n)
    BY DEF Truncated
  <2>2. n \in 0 .. Len(e) /\ n < Len(e)
    BY <1>1
  <2>3. Outcome(s, 1, n, Decode(p))
    BY <1>2, <2>1, <2>2
  <2> DEFINE f == [coded EXCEPT !.payload = p]
             d == Decode(p)
  <2>4. f.rle = TRUE /\ f.payload = p /\ f.size = Len(s)
    OBVIOUS
  <2> HIDE DEF f
  <2>5. \/ d = Refused
        \/ d.ok = TRUE /\ Len(d.bytes) \in Nat /\ Len(d.bytes) < Len(s) - 1 + 1
    BY <1>1, <2>2, <2>3 DEF Outcome
  <2> HIDE DEF d
  <2>6. CASE d = Refused
    <3>1. ~d.ok
      BY <2>6 DEF Refused
    <3> QED
      BY <2>4, <3>1 DEF Decompress, d, f
  <2>7. CASE d.ok = TRUE /\ Len(d.bytes) \in Nat /\ Len(d.bytes) < Len(s) - 1 + 1
    <3>1. Len(s) # 0 /\ Len(d.bytes) # Len(s)
      BY <1>0, <2>7
    <3>2. Decompress(f) = Refused
      BY <2>4, <3>1 DEF Decompress, d
    <3> QED
      BY <3>2 DEF f
  <2> QED
    BY <2>5, <2>6, <2>7
<1>6. ASSUME NEW p \in Truncated(s)
      PROVE  Decompress([Compress(s) EXCEPT !.rle = FALSE, !.payload = p]) = Refused
  <2>1. PICK n \in 0 .. Len(s) - 1 : p = SubSeq(s, 1, n)
    BY DEF Truncated
  <2>2. Len(p) = n /\ n \in Nat /\ n < Len(s)
    BY <1>0, <2>1
  <2> DEFINE f == [Compress(s) EXCEPT !.rle = FALSE, !.payload = p]
             pixels == [ok |-> TRUE, bytes |-> p]
  <2>3. f.rle = FALSE /\ f.payload = p /\ f.size = Len(s)
    BY DEF Compress
  <2>4. pixels.bytes = p
    OBVIOUS
  <2> HIDE DEF f
  <2>5. ~(Len(p) >= Len(s))
    BY <1>0, <2>2
  <2>6. Decompress(f) = Refused
    BY <2>3, <2>4, <2>5 DEF Decompress
  <2> QED
    BY <2>6 DEF f
<1> QED
  BY <1>3, <1>4, <1>5, <1>6, Zenon DEF CodedFaithfully, e

-----------------------------------------------------------------------------
(* Buffers that are out.                                                   *)

ImagesOf(s) == [n \in DOMAIN s |-> s[n].image]

\* The buffers given away and not taken back, in the order they come back:
\* their event is to be read, they are shown, they are queued.
OutOf(e, s, q) == e \o ImagesOf(s) \o ImagesOf(q)

OnceIn(w)    == \A m, n \in 1 .. Len(w) : w[m] = w[n] => m = n
Occurs(w, i) == \E n \in 1 .. Len(w) : w[n] = i

LEMMA ImagesOfSeq ==
    ASSUME NEW s \in Seq(Entry)
    PROVE  /\ ImagesOf(s) \in Seq(Image)
           /\ Len(ImagesOf(s)) = Len(s)
           /\ \A n \in 1 .. Len(s) : ImagesOf(s)[n] = s[n].image
<1>1. s \in [1 .. Len(s) -> Entry] /\ DOMAIN s = 1 .. Len(s) /\ Len(s) \in Nat
  BY LenProperties
<1>2. ImagesOf(s) = [n \in 1 .. Len(s) |-> s[n].image]
  BY <1>1 DEF ImagesOf
<1>3. ImagesOf(s) \in [1 .. Len(s) -> Image]
  BY <1>1, <1>2 DEF Entry
<1> QED
  BY <1>1, <1>2, <1>3

LEMMA ConcatAt ==
    ASSUME NEW s \in Seq(Image), NEW t \in Seq(Image)
    PROVE  /\ s \o t \in Seq(Image) /\ Len(s \o t) = Len(s) + Len(t)
           /\ \A n \in 1 .. Len(s) : (s \o t)[n] = s[n]
           /\ \A n \in 1 .. Len(t) : (s \o t)[Len(s) + n] = t[n]
<1>1. Len(s) \in Nat /\ Len(t) \in Nat
  OBVIOUS
<1>2. /\ s \o t \in Seq(Image) /\ Len(s \o t) = Len(s) + Len(t)
      /\ \A i \in 1 .. Len(s) + Len(t) :
           (s \o t)[i] = IF i <= Len(s) THEN s[i] ELSE t[i - Len(s)]
  BY ConcatProperties
<1>3. ASSUME NEW n \in 1 .. Len(t)
      PROVE  (s \o t)[Len(s) + n] = t[n]
  <2>1. /\ Len(s) + n \in 1 .. Len(s) + Len(t)
        /\ ~(Len(s) + n <= Len(s)) /\ Len(s) + n - Len(s) = n
    BY <1>1
  <2> QED
    BY <1>2, <2>1
<1>4. ASSUME NEW n \in 1 .. Len(s)
      PROVE  (s \o t)[n] = s[n]
  <2>1. n \in 1 .. Len(s) + Len(t) /\ n <= Len(s)
    BY <1>1
  <2> QED
    BY <1>2, <2>1
<1> QED
  BY <1>2, <1>3, <1>4

LEMMA ImagesInEntries ==
    ASSUME NEW s \in Seq(Entry)
    PROVE  \A n \in 1 .. Len(s) : s[n] \in Entry /\ s[n].image \in Image
<1>1. \A n \in 1 .. Len(s) : s[n] \in Entry
  OBVIOUS
<1> QED
  BY <1>1 DEF Entry

LEMMA OutOfSeq ==
    ASSUME NEW e \in Seq(Image), NEW s \in Seq(Entry), NEW q \in Seq(Entry)
    PROVE  LET w == OutOf(e, s, q)
           IN  /\ w \in Seq(Image)
               /\ Len(w) = Len(e) + Len(s) + Len(q)
               /\ \A n \in 1 .. Len(e) : w[n] = e[n]
               /\ \A n \in 1 .. Len(s) : w[Len(e) + n] = s[n].image
               /\ \A n \in 1 .. Len(q) : w[Len(e) + Len(s) + n] = q[n].image
<1> DEFINE a == ImagesOf(s)
           b == ImagesOf(q)
<1>1. /\ a \in Seq(Image) /\ Len(a) = Len(s)
      /\ b \in Seq(Image) /\ Len(b) = Len(q)
      /\ \A n \in 1 .. Len(s) : a[n] = s[n].image
      /\ \A n \in 1 .. Len(q) : b[n] = q[n].image
  BY ImagesOfSeq
<1>2. OutOf(e, s, q) = e \o a \o b
  BY DEF OutOf
<1> HIDE DEF a, b
<1>3. /\ e \o a \in Seq(Image) /\ Len(e \o a) = Len(e) + Len(a)
      /\ \A n \in 1 .. Len(e) : (e \o a)[n] = e[n]
      /\ \A n \in 1 .. Len(a) : (e \o a)[Len(e) + n] = a[n]
  BY <1>1, ConcatAt
<1> DEFINE c == e \o a
<1> HIDE DEF c
<1>4. c \in Seq(Image) /\ Len(c) = Len(e) + Len(a)
  BY <1>3 DEF c
<1>5. /\ c \o b \in Seq(Image) /\ Len(c \o b) = Len(c) + Len(b)
      /\ \A n \in 1 .. Len(c) : (c \o b)[n] = c[n]
      /\ \A n \in 1 .. Len(b) : (c \o b)[Len(c) + n] = b[n]
  BY <1>1, <1>4, ConcatAt
<1>6. OutOf(e, s, q) = c \o b
  BY <1>2 DEF c
<1>7. /\ \A n \in 1 .. Len(e) : c[n] = e[n]
      /\ \A n \in 1 .. Len(a) : c[Len(e) + n] = a[n]
  BY <1>3 DEF c
<1>8. Len(e) \in Nat /\ Len(s) \in Nat /\ Len(q) \in Nat
  OBVIOUS
<1> QED
  BY <1>1, <1>4, <1>5, <1>6, <1>7, <1>8

\* A buffer that is out is in one of the three places.
LEMMA OccursSomewhere ==
    ASSUME NEW e \in Seq(Image), NEW s \in Seq(Entry), NEW q \in Seq(Entry), NEW i
    PROVE  Occurs(OutOf(e, s, q), i) <=>
             \/ \E n \in 1 .. Len(e) : e[n] = i
             \/ \E n \in 1 .. Len(s) : s[n].image = i
             \/ \E n \in 1 .. Len(q) : q[n].image = i
<1> DEFINE w == OutOf(e, s, q)
<1>1. /\ Len(w) = Len(e) + Len(s) + Len(q)
      /\ \A n \in 1 .. Len(e) : w[n] = e[n]
      /\ \A n \in 1 .. Len(s) : w[Len(e) + n] = s[n].image
      /\ \A n \in 1 .. Len(q) : w[Len(e) + Len(s) + n] = q[n].image
  BY OutOfSeq
<1>2. Len(e) \in Nat /\ Len(s) \in Nat /\ Len(q) \in Nat
  OBVIOUS
<1> HIDE DEF w
<1>3. ASSUME NEW n \in 1 .. Len(w)
      PROVE  \/ n \in 1 .. Len(e)
             \/ n - Len(e) \in 1 .. Len(s) /\ Len(e) + (n - Len(e)) = n
             \/ /\ n - Len(e) - Len(s) \in 1 .. Len(q)
                /\ Len(e) + Len(s) + (n - Len(e) - Len(s)) = n
  BY <1>1, <1>2
<1>4. ASSUME NEW n \in 1 .. Len(w), w[n] = i
      PROVE  \/ \E k \in 1 .. Len(e) : e[k] = i
             \/ \E k \in 1 .. Len(s) : s[k].image = i
             \/ \E k \in 1 .. Len(q) : q[k].image = i
  BY <1>1, <1>3, <1>4
<1>5. /\ \A n \in 1 .. Len(e) : n \in 1 .. Len(w)
      /\ \A n \in 1 .. Len(s) : Len(e) + n \in 1 .. Len(w)
      /\ \A n \in 1 .. Len(q) : Len(e) + Len(s) + n \in 1 .. Len(w)
  BY <1>1, <1>2
<1> QED
  BY <1>1, <1>4, <1>5 DEF Occurs, w

\* Reading the first k events takes their buffers back and no other.
LEMMA ReadEvents ==
    ASSUME NEW e \in Seq(Image), NEW s \in Seq(Entry), NEW q \in Seq(Entry),
           NEW k \in 0 .. Len(e), OnceIn(OutOf(e, s, q))
    PROVE  LET rest == SubSeq(e, k + 1, Len(e))
           IN  /\ rest \in Seq(Image)
               /\ OnceIn(OutOf(rest, s, q))
               /\ \A i : Occurs(OutOf(rest, s, q), i) <=>
                    /\ Occurs(OutOf(e, s, q), i)
                    /\ ~ \E n \in 1 .. k : e[n] = i
<1> DEFINE rest == SubSeq(e, k + 1, Len(e))
           v == OutOf(e, s, q)
           w == OutOf(rest, s, q)
<1>1. /\ rest \in Seq(Image) /\ Len(rest) = Len(e) - k
      /\ \A n \in 1 .. Len(rest) : rest[n] = e[n + k]
  OBVIOUS
<1>2. Len(e) \in Nat /\ Len(s) \in Nat /\ Len(q) \in Nat /\ k \in Nat /\ k <= Len(e)
  OBVIOUS
<1> HIDE DEF rest
<1>3. /\ Len(v) = Len(e) + Len(s) + Len(q)
      /\ \A n \in 1 .. Len(e) : v[n] = e[n]
      /\ \A n \in 1 .. Len(s) : v[Len(e) + n] = s[n].image
      /\ \A n \in 1 .. Len(q) : v[Len(e) + Len(s) + n] = q[n].image
  BY OutOfSeq
<1>4. /\ Len(w) = Len(rest) + Len(s) + Len(q)
      /\ \A n \in 1 .. Len(rest) : w[n] = rest[n]
      /\ \A n \in 1 .. Len(s) : w[Len(rest) + n] = s[n].image
      /\ \A n \in 1 .. Len(q) : w[Len(rest) + Len(s) + n] = q[n].image
  BY <1>1, OutOfSeq
<1> HIDE DEF v, w
<1>5. Len(w) = Len(v) - k /\ Len(v) \in Nat
  BY <1>1, <1>2, <1>3, <1>4
<1>6. ASSUME NEW n \in 1 .. Len(w)
      PROVE  n + k \in 1 .. Len(v) /\ w[n] = v[n + k]
  <2>1. n + k \in 1 .. Len(v)
    BY <1>2, <1>5
  <2>2. ASSUME n \in 1 .. Len(rest)
        PROVE  w[n] = v[n + k]
    <3>1. n + k \in 1 .. Len(e)
      BY <1>1, <1>2, <2>2
    <3> QED
      BY <1>1, <1>3, <1>4, <2>2, <3>1
  <2>3. ASSUME NEW j \in 1 .. Len(s), n = Len(rest) + j
        PROVE  w[n] = v[n + k]
    <3>1. n + k = Len(e) + j
      BY <1>1, <1>2, <2>3
    <3>2. w[n] = s[j].image /\ v[Len(e) + j] = s[j].image
      BY <1>3, <1>4, <2>3
    <3> QED
      BY <3>1, <3>2
  <2>4. ASSUME NEW j \in 1 .. Len(q), n = Len(rest) + Len(s) + j
        PROVE  w[n] = v[n + k]
    <3>1. n + k = Len(e) + Len(s) + j
      BY <1>1, <1>2, <2>4
    <3>2. w[n] = q[j].image /\ v[Len(e) + Len(s) + j] = q[j].image
      BY <1>3, <1>4, <2>4
    <3> QED
      BY <3>1, <3>2
  <2>5. \/ n \in 1 .. Len(rest)
        \/ \E j \in 1 .. Len(s) : n = Len(rest) + j
        \/ \E j \in 1 .. Len(q) : n = Len(rest) + Len(s) + j
    <3>1. Len(rest) \in Nat /\ n \in 1 .. Len(rest) + Len(s) + Len(q)
      BY <1>1, <1>2, <1>4
    <3>2. CASE n > Len(rest) /\ n <= Len(rest) + Len(s)
      <4>1. n - Len(rest) \in 1 .. Len(s) /\ n = Len(rest) + (n - Len(rest))
        BY <1>2, <3>1, <3>2
      <4> QED
        BY <4>1
    <3>3. CASE n > Len(rest) + Len(s)
      <4>1. /\ n - Len(rest) - Len(s) \in 1 .. Len(q)
            /\ n = Len(rest) + Len(s) + (n - Len(rest) - Len(s))
        BY <1>2, <3>1, <3>3
      <4> QED
        BY <4>1
    <3> QED
      BY <1>2, <3>1, <3>2, <3>3
  <2> QED
    BY <2>1, <2>2, <2>3, <2>4, <2>5
<1>7. OnceIn(v)
  BY DEF v
<1>8. OnceIn(w)
  <2> SUFFICES ASSUME NEW m \in 1 .. Len(w), NEW n \in 1 .. Len(w), w[m] = w[n]
               PROVE  m = n
    BY DEF OnceIn
  <2>1. m + k = n + k
    BY <1>6, <1>7 DEF OnceIn
  <2> QED
    BY <1>2, <2>1
<1>9. ASSUME NEW i
      PROVE  Occurs(w, i) <=> Occurs(v, i) /\ ~ \E n \in 1 .. k : e[n] = i
  <2>1. ASSUME NEW n \in 1 .. Len(w), w[n] = i
        PROVE  Occurs(v, i) /\ ~ \E m \in 1 .. k : e[m] = i
    <3>1. n + k \in 1 .. Len(v) /\ v[n + k] = i
      BY <1>6, <2>1
    <3>2. ASSUME NEW m \in 1 .. k, e[m] = i PROVE FALSE
      <4>1. m \in 1 .. Len(v) /\ m \in 1 .. Len(e) /\ v[m] = i
        BY <1>2, <1>3, <3>2
      <4>2. m = n + k
        BY <1>7, <3>1, <4>1 DEF OnceIn
      <4> QED
        BY <1>2, <4>2
    <3> QED
      BY <3>1, <3>2 DEF Occurs
  <2>2. ASSUME NEW n \in 1 .. Len(v), v[n] = i, ~ \E m \in 1 .. k : e[m] = i
        PROVE  Occurs(w, i)
    <3>1. n > k
      BY <1>2, <1>3, <2>2
    <3>2. n - k \in 1 .. Len(w) /\ (n - k) + k = n
      BY <1>2, <1>5, <3>1
    <3> QED
      BY <1>6, <2>2, <3>2 DEF Occurs
  <2> QED
    BY <2>1, <2>2 DEF Occurs
<1> QED
  BY <1>1, <1>8, <1>9 DEF rest, v, w

\* The images of given back presents are added to the events.
LEMMA GivenBack ==
    ASSUME NEW e \in Seq(Image), NEW s \in Seq(Entry)
    PROVE  LET back == e \o ImagesOf(s)
           IN  /\ back \in Seq(Image) /\ Len(back) = Len(e) + Len(s)
               /\ \A n \in 1 .. Len(e) : back[n] = e[n]
               /\ \A n \in 1 .. Len(s) : back[Len(e) + n] = s[n].image
<1> DEFINE a == ImagesOf(s)
<1>1. /\ a \in Seq(Image) /\ Len(a) = Len(s)
      /\ \A n \in 1 .. Len(s) : a[n] = s[n].image
  BY ImagesOfSeq
<1> HIDE DEF a
<1>2. /\ e \o a \in Seq(Image) /\ Len(e \o a) = Len(e) + Len(a)
      /\ \A n \in 1 .. Len(e) : (e \o a)[n] = e[n]
      /\ \A n \in 1 .. Len(a) : (e \o a)[Len(e) + n] = a[n]
  BY <1>1, ConcatAt
<1> QED
  BY <1>1, <1>2 DEF a

\* A shown present gives back what was on the screen: what was shown moves to
\* the events and the head of the queue to the screen, in the same order.
LEMMA FlipKeepsOut ==
    ASSUME NEW e \in Seq(Image), NEW s \in Seq(Entry), NEW q \in Seq(Entry), q # <<>>
    PROVE  /\ e \o ImagesOf(s) \in Seq(Image)
           /\ OutOf(e \o ImagesOf(s), <<Head(q)>>, Tail(q)) = OutOf(e, s, q)
<1>1. ImagesOf(s) \in Seq(Image) /\ Len(ImagesOf(s)) = Len(s)
  BY ImagesOfSeq
<1> DEFINE back == e \o ImagesOf(s)
           v == OutOf(e, s, q)
           w == OutOf(back, <<Head(q)>>, Tail(q))
<1>2. /\ back \in Seq(Image) /\ Len(back) = Len(e) + Len(s)
      /\ \A n \in 1 .. Len(e) : back[n] = e[n]
      /\ \A n \in 1 .. Len(s) : back[Len(e) + n] = s[n].image
  BY GivenBack
<1>3. /\ <<Head(q)>> \in Seq(Entry) /\ Len(<<Head(q)>>) = 1 /\ <<Head(q)>>[1] = q[1]
      /\ Tail(q) \in Seq(Entry) /\ Len(Tail(q)) = Len(q) - 1
      /\ \A n \in 1 .. Len(q) - 1 : Tail(q)[n] = q[n + 1]
      /\ Len(e) \in Nat /\ Len(s) \in Nat /\ Len(q) \in Nat \ {0}
  OBVIOUS
<1> HIDE DEF back
<1> DEFINE h == <<Head(q)>>
           r == Tail(q)
<1> HIDE DEF h, r
<1>4. /\ v \in Seq(Image) /\ Len(v) = Len(e) + Len(s) + Len(q)
      /\ \A n \in 1 .. Len(e) : v[n] = e[n]
      /\ \A n \in 1 .. Len(s) : v[Len(e) + n] = s[n].image
      /\ \A n \in 1 .. Len(q) : v[Len(e) + Len(s) + n] = q[n].image
  BY OutOfSeq
<1>5. h \in Seq(Entry) /\ r \in Seq(Entry)
  BY <1>3 DEF h, r
<1>6. /\ OutOf(back, h, r) \in Seq(Image)
      /\ Len(OutOf(back, h, r)) = Len(back) + Len(h) + Len(r)
      /\ \A n \in 1 .. Len(back) : OutOf(back, h, r)[n] = back[n]
      /\ \A n \in 1 .. Len(h) : OutOf(back, h, r)[Len(back) + n] = h[n].image
      /\ \A n \in 1 .. Len(r) : OutOf(back, h, r)[Len(back) + Len(h) + n] = r[n].image
  BY <1>2, <1>5, OutOfSeq
<1>7. w = OutOf(back, h, r)
  BY DEF h, r
<1>8. /\ Len(h) = 1 /\ h[1] = q[1] /\ Len(r) = Len(q) - 1
      /\ \A n \in 1 .. Len(q) - 1 : r[n] = q[n + 1]
  BY <1>3 DEF h, r
<1> HIDE DEF v, w
<1>9. Len(w) = Len(v)
  BY <1>2, <1>3, <1>4, <1>6, <1>7, <1>8
<1>10. ASSUME NEW n \in 1 .. Len(v)
       PROVE  v[n] = w[n]
  <2>1. n \in 1 .. Len(e) + Len(s) + Len(q)
    BY <1>4
  <2>2. CASE n <= Len(e)
    <3>1. n \in 1 .. Len(e) /\ n \in 1 .. Len(back)
      BY <1>2, <1>3, <2>1, <2>2
    <3> QED
      BY <1>2, <1>4, <1>6, <1>7, <3>1
  <2>3. CASE n > Len(e) /\ n <= Len(e) + Len(s)
    <3> DEFINE j == n - Len(e)
    <3>1. j \in 1 .. Len(s) /\ n = Len(e) + j /\ n \in 1 .. Len(back)
      BY <1>2, <1>3, <2>1, <2>3
    <3> HIDE DEF j
    <3>2. v[n] = s[j].image
      BY <1>4, <3>1
    <3>3. back[n] = s[j].image
      BY <1>2, <3>1
    <3> QED
      BY <1>6, <1>7, <3>1, <3>2, <3>3
  <2>4. CASE n = Len(e) + Len(s) + 1
    <3>1. 1 \in 1 .. Len(q) /\ 1 \in 1 .. Len(h) /\ n = Len(back) + 1
      BY <1>2, <1>3, <1>8, <2>4
    <3>2. v[n] = q[1].image
      BY <1>4, <2>4, <3>1
    <3>3. w[n] = h[1].image
      BY <1>6, <1>7, <3>1
    <3> QED
      BY <1>8, <3>2, <3>3
  <2>5. CASE n > Len(e) + Len(s) + 1
    <3> DEFINE j == n - (Len(e) + Len(s) + 1)
    <3>1. /\ j \in 1 .. Len(r) /\ j \in 1 .. Len(q) - 1 /\ j + 1 \in 1 .. Len(q)
          /\ n = Len(e) + Len(s) + (j + 1) /\ n = Len(back) + Len(h) + j
      BY <1>2, <1>3, <1>8, <2>1, <2>5
    <3> HIDE DEF j
    <3>2. v[n] = q[j + 1].image
      BY <1>4, <3>1
    <3>3. w[n] = r[j].image
      BY <1>6, <1>7, <3>1
    <3> QED
      BY <1>8, <3>1, <3>2, <3>3
  <2> QED
    BY <1>3, <2>1, <2>2, <2>3, <2>4, <2>5
<1>11. v = w
  BY <1>4, <1>6, <1>7, <1>9, <1>10, SeqEqual
<1> QED
  BY <1>2, <1>11 DEF back, v, w

\* A present that is copied gives back what was on the screen and itself.
LEMMA CopyKeepsOut ==
    ASSUME NEW e \in Seq(Image), NEW s \in Seq(Entry), NEW q \in Seq(Entry), q # <<>>
    PROVE  /\ e \o ImagesOf(Append(s, Head(q))) \in Seq(Image)
           /\ OutOf(e \o ImagesOf(Append(s, Head(q))), <<>>, Tail(q)) = OutOf(e, s, q)
<1> DEFINE b == Append(s, Head(q))
           none == <<>>
<1>1. /\ b \in Seq(Entry) /\ Len(b) = Len(s) + 1 /\ b[Len(s) + 1] = q[1]
      /\ \A n \in 1 .. Len(s) : b[n] = s[n]
      /\ Tail(q) \in Seq(Entry) /\ Len(Tail(q)) = Len(q) - 1
      /\ \A n \in 1 .. Len(q) - 1 : Tail(q)[n] = q[n + 1]
      /\ Len(e) \in Nat /\ Len(s) \in Nat /\ Len(q) \in Nat \ {0}
      /\ none \in Seq(Entry) /\ Len(none) = 0
  OBVIOUS
<1> HIDE DEF b, none
<1>2. ImagesOf(b) \in Seq(Image) /\ Len(ImagesOf(b)) = Len(b)
  BY <1>1, ImagesOfSeq
<1> DEFINE back == e \o ImagesOf(b)
           r == Tail(q)
           v == OutOf(e, s, q)
           w == OutOf(back, none, r)
<1>3. /\ back \in Seq(Image) /\ Len(back) = Len(e) + Len(b)
      /\ \A n \in 1 .. Len(e) : back[n] = e[n]
      /\ \A n \in 1 .. Len(b) : back[Len(e) + n] = b[n].image
  <2>1. b \in Seq(Entry)
    BY <1>1
  <2> QED
    BY <2>1, GivenBack
<1> HIDE DEF back
<1>4. /\ v \in Seq(Image) /\ Len(v) = Len(e) + Len(s) + Len(q)
      /\ \A n \in 1 .. Len(e) : v[n] = e[n]
      /\ \A n \in 1 .. Len(s) : v[Len(e) + n] = s[n].image
      /\ \A n \in 1 .. Len(q) : v[Len(e) + Len(s) + n] = q[n].image
  BY OutOfSeq
<1>5. r \in Seq(Entry)
  BY <1>1
<1>6. /\ Len(r) = Len(q) - 1
      /\ \A n \in 1 .. Len(q) - 1 : r[n] = q[n + 1]
  BY <1>1
<1> HIDE DEF r
<1>7. /\ w \in Seq(Image) /\ Len(w) = Len(back) + Len(none) + Len(r)
      /\ \A n \in 1 .. Len(back) : w[n] = back[n]
      /\ \A n \in 1 .. Len(r) : w[Len(back) + Len(none) + n] = r[n].image
  <2>1. back \in Seq(Image) /\ none \in Seq(Entry) /\ r \in Seq(Entry)
    BY <1>1, <1>3, <1>5
  <2> QED
    BY <2>1, OutOfSeq
<1> HIDE DEF v, w
<1>8. Len(back) = Len(e) + Len(s) + 1 /\ Len(w) = Len(v)
  BY <1>1, <1>3, <1>4, <1>6, <1>7
<1>9. ASSUME NEW n \in 1 .. Len(v)
      PROVE  v[n] = w[n]
  <2>1. n \in 1 .. Len(e) + Len(s) + Len(q)
    BY <1>4
  <2>2. CASE n <= Len(e)
    <3>1. n \in 1 .. Len(e) /\ n \in 1 .. Len(back)
      BY <1>1, <1>8, <2>1, <2>2
    <3> QED
      BY <1>3, <1>4, <1>7, <3>1
  <2>3. CASE n > Len(e) /\ n <= Len(e) + Len(s)
    <3> DEFINE j == n - Len(e)
    <3>1. j \in 1 .. Len(s) /\ j \in 1 .. Len(b) /\ n = Len(e) + j /\ n \in 1 .. Len(back)
      BY <1>1, <1>8, <2>1, <2>3
    <3> HIDE DEF j
    <3>2. v[n] = s[j].image
      BY <1>4, <3>1
    <3>3. back[n] = b[j].image
      BY <1>3, <3>1
    <3> QED
      BY <1>1, <1>7, <3>1, <3>2, <3>3
  <2>4. CASE n = Len(e) + Len(s) + 1
    <3> DEFINE j == Len(s) + 1
    <3>1. 1 \in 1 .. Len(q) /\ j \in 1 .. Len(b) /\ n = Len(e) + j /\ n \in 1 .. Len(back)
      BY <1>1, <1>8, <2>4
    <3>2. b[j] = q[1]
      BY <1>1
    <3> HIDE DEF j
    <3>3. v[n] = q[1].image
      BY <1>4, <2>4, <3>1
    <3>4. back[n] = b[j].image
      BY <1>3, <3>1
    <3> QED
      BY <1>7, <3>1, <3>2, <3>3, <3>4
  <2>5. CASE n > Len(e) + Len(s) + 1
    <3> DEFINE j == n - (Len(e) + Len(s) + 1)
    <3>1. /\ j \in 1 .. Len(r) /\ j \in 1 .. Len(q) - 1 /\ j + 1 \in 1 .. Len(q)
          /\ n = Len(e) + Len(s) + (j + 1) /\ n = Len(back) + Len(none) + j
      BY <1>1, <1>6, <1>8, <2>1, <2>5
    <3> HIDE DEF j
    <3>2. v[n] = q[j + 1].image
      BY <1>4, <3>1
    <3>3. w[n] = r[j].image
      BY <1>7, <3>1
    <3> QED
      BY <1>6, <3>1, <3>2, <3>3
  <2>6. Len(e) \in Nat /\ Len(s) \in Nat /\ n \in Nat
    BY <1>1, <2>1
  <2> QED
    BY <2>2, <2>3, <2>4, <2>5, <2>6
<1>10. v = w
  BY <1>4, <1>7, <1>8, <1>9, SeqEqual
<1> QED
  BY <1>3, <1>10 DEF back, b, none, r, v, w

\* A present that is passed over gives its buffer back before those shown:
\* the same buffers are out, each once, in another order.
LEMMA SkipKeepsOut ==
    ASSUME NEW e \in Seq(Image), NEW s \in Seq(Entry), NEW q \in Seq(Entry), q # <<>>,
           OnceIn(OutOf(e, s, q))
    PROVE  LET back == e \o ImagesOf(<<Head(q)>>)
           IN  /\ back \in Seq(Image)
               /\ OnceIn(OutOf(back, s, Tail(q)))
               /\ \A i : Occurs(OutOf(back, s, Tail(q)), i) <=> Occurs(OutOf(e, s, q), i)
<1> DEFINE h == <<Head(q)>>
           r == Tail(q)
<1>1. /\ h \in Seq(Entry) /\ Len(h) = 1 /\ h[1] = q[1]
      /\ r \in Seq(Entry) /\ Len(r) = Len(q) - 1
      /\ \A n \in 1 .. Len(q) - 1 : r[n] = q[n + 1]
      /\ Len(e) \in Nat /\ Len(s) \in Nat /\ Len(q) \in Nat \ {0}
  OBVIOUS
<1> HIDE DEF h, r
<1> DEFINE back == e \o ImagesOf(h)
           v == OutOf(e, s, q)
           w == OutOf(back, s, r)
<1>2. /\ back \in Seq(Image) /\ Len(back) = Len(e) + Len(h)
      /\ \A n \in 1 .. Len(e) : back[n] = e[n]
      /\ \A n \in 1 .. Len(h) : back[Len(e) + n] = h[n].image
  <2>1. h \in Seq(Entry)
    BY <1>1
  <2> QED
    BY <2>1, GivenBack
<1> HIDE DEF back
<1>3. /\ v \in Seq(Image) /\ Len(v) = Len(e) + Len(s) + Len(q)
      /\ \A n \in 1 .. Len(e) : v[n] = e[n]
      /\ \A n \in 1 .. Len(s) : v[Len(e) + n] = s[n].image
      /\ \A n \in 1 .. Len(q) : v[Len(e) + Len(s) + n] = q[n].image
  BY OutOfSeq
<1>4. /\ w \in Seq(Image) /\ Len(w) = Len(back) + Len(s) + Len(r)
      /\ \A n \in 1 .. Len(back) : w[n] = back[n]
      /\ \A n \in 1 .. Len(s) : w[Len(back) + n] = s[n].image
      /\ \A n \in 1 .. Len(r) : w[Len(back) + Len(s) + n] = r[n].image
  <2>1. back \in Seq(Image) /\ r \in Seq(Entry)
    BY <1>1, <1>2
  <2> QED
    BY <2>1, OutOfSeq
<1> HIDE DEF v, w
<1> DEFINE x == Len(e)
           y == Len(s)
           z == Len(q)
           from(n) == IF n <= x THEN n ELSE IF n = x + 1 THEN x + y + 1
                      ELSE IF n <= x + y + 1 THEN n - 1 ELSE n
<1>5. x \in Nat /\ y \in Nat /\ z \in Nat \ {0}
  BY <1>1
<1>6. Len(back) = x + 1 /\ Len(w) = x + y + z /\ Len(v) = x + y + z
  BY <1>1, <1>2, <1>3, <1>4
<1> HIDE DEF x, y, z
<1>7. ASSUME NEW n \in 1 .. Len(w)
      PROVE  from(n) \in 1 .. Len(v) /\ w[n] = v[from(n)]
  <2>1. from(n) \in 1 .. Len(v) /\ n \in 1 .. x + y + z
    BY <1>5, <1>6
  <2>2. CASE n <= x
    <3>1. n \in 1 .. Len(e) /\ n \in 1 .. Len(back) /\ from(n) = n
      BY <1>5, <1>6, <2>1, <2>2 DEF x
    <3>2. w[n] = e[n]
      BY <1>2, <1>4, <3>1
    <3>3. v[from(n)] = e[n]
      BY <1>3, <3>1
    <3> QED
      BY <2>1, <3>2, <3>3
  <2>3. CASE n = x + 1
    <3>1. /\ n \in 1 .. Len(back) /\ 1 \in 1 .. Len(h) /\ 1 \in 1 .. Len(q)
          /\ n = Len(e) + 1 /\ from(n) = Len(e) + Len(s) + 1
      BY <1>1, <1>5, <1>6, <2>1, <2>3 DEF x, y
    <3>2. w[n] = h[1].image
      BY <1>2, <1>4, <3>1
    <3>3. v[from(n)] = q[1].image
      BY <1>3, <3>1
    <3> QED
      BY <1>1, <2>1, <3>2, <3>3
  <2>4. CASE n > x + 1 /\ n <= x + y + 1
    <3> DEFINE j == n - (x + 1)
    <3>1. j \in 1 .. Len(s) /\ n = Len(back) + j /\ from(n) = Len(e) + j
      BY <1>5, <1>6, <2>1, <2>4 DEF x, y
    <3> HIDE DEF j
    <3>2. w[n] = s[j].image /\ v[from(n)] = s[j].image
      BY <1>3, <1>4, <3>1
    <3> QED
      BY <2>1, <3>2
  <2>5. CASE n > x + y + 1
    <3> DEFINE j == n - (x + y + 1)
    <3>1. /\ j \in 1 .. Len(q) - 1 /\ j \in 1 .. Len(r) /\ j + 1 \in 1 .. Len(q)
          /\ n = Len(back) + Len(s) + j /\ from(n) = Len(e) + Len(s) + (j + 1)
      BY <1>1, <1>5, <1>6, <2>1, <2>5 DEF x, y, z
    <3> HIDE DEF j
    <3>2. w[n] = r[j].image /\ v[from(n)] = q[j + 1].image
      BY <1>3, <1>4, <3>1
    <3> QED
      BY <1>1, <2>1, <3>1, <3>2
  <2> QED
    BY <1>5, <2>1, <2>2, <2>3, <2>4, <2>5
<1>8. ASSUME NEW m \in 1 .. Len(w), NEW n \in 1 .. Len(w), from(m) = from(n)
      PROVE  m = n
  BY <1>5, <1>6, <1>8
<1>9. ASSUME NEW k \in 1 .. Len(v)
      PROVE  \E n \in 1 .. Len(w) : from(n) = k
  <2> DEFINE n == IF k <= x THEN k ELSE IF k <= x + y THEN k + 1
                  ELSE IF k = x + y + 1 THEN x + 1 ELSE k
  <2>1. n \in 1 .. Len(w) /\ from(n) = k
    BY <1>5, <1>6
  <2> QED
    BY <2>1
<1> HIDE DEF from
<1>10. OnceIn(w)
  <2>1. OnceIn(v)
    BY DEF v
  <2> QED
    BY <1>7, <1>8, <2>1 DEF OnceIn
<1>11. ASSUME NEW i PROVE Occurs(w, i) <=> Occurs(v, i)
  BY <1>7, <1>9 DEF Occurs
<1> QED
  BY <1>2, <1>10, <1>11 DEF back, v, w, h, r

\* A present of a buffer that is not out.
LEMMA PresentedOut ==
    ASSUME NEW e \in Seq(Image), NEW s \in Seq(Entry), NEW q \in Seq(Entry),
           NEW b \in Entry, OnceIn(OutOf(e, s, q)), ~Occurs(OutOf(e, s, q), b.image)
    PROVE  /\ Append(q, b) \in Seq(Entry)
           /\ OnceIn(OutOf(e, s, Append(q, b)))
           /\ \A i : Occurs(OutOf(e, s, Append(q, b)), i) <=>
                       Occurs(OutOf(e, s, q), i) \/ i = b.image
<1> DEFINE p == Append(q, b)
           v == OutOf(e, s, q)
           w == OutOf(e, s, p)
<1>1. /\ p \in Seq(Entry) /\ Len(p) = Len(q) + 1 /\ p[Len(q) + 1] = b
      /\ \A n \in 1 .. Len(q) : p[n] = q[n]
      /\ Len(e) \in Nat /\ Len(s) \in Nat /\ Len(q) \in Nat
  OBVIOUS
<1> HIDE DEF p
<1>2. /\ Len(v) = Len(e) + Len(s) + Len(q)
      /\ \A n \in 1 .. Len(e) : v[n] = e[n]
      /\ \A n \in 1 .. Len(s) : v[Len(e) + n] = s[n].image
      /\ \A n \in 1 .. Len(q) : v[Len(e) + Len(s) + n] = q[n].image
  BY OutOfSeq
<1>3. /\ Len(w) = Len(e) + Len(s) + Len(p)
      /\ \A n \in 1 .. Len(e) : w[n] = e[n]
      /\ \A n \in 1 .. Len(s) : w[Len(e) + n] = s[n].image
      /\ \A n \in 1 .. Len(p) : w[Len(e) + Len(s) + n] = p[n].image
  <2>1. p \in Seq(Entry)
    BY <1>1
  <2> QED
    BY <2>1, OutOfSeq
<1> HIDE DEF v, w
<1>4. Len(v) \in Nat /\ Len(w) = Len(v) + 1
  BY <1>1, <1>2, <1>3
<1>5. w[Len(v) + 1] = b.image
  <2>1. Len(q) + 1 \in 1 .. Len(p) /\ Len(v) + 1 = Len(e) + Len(s) + (Len(q) + 1)
    BY <1>1, <1>2
  <2> QED
    BY <1>1, <1>3, <2>1
<1>6. ASSUME NEW n \in 1 .. Len(v)
      PROVE  w[n] = v[n]
  <2>1. CASE n <= Len(e)
    <3>1. n \in 1 .. Len(e)
      BY <1>1, <2>1
    <3> QED
      BY <1>2, <1>3, <3>1
  <2>2. CASE n > Len(e) /\ n <= Len(e) + Len(s)
    <3> DEFINE j == n - Len(e)
    <3>1. j \in 1 .. Len(s) /\ n = Len(e) + j
      BY <1>1, <2>2
    <3> HIDE DEF j
    <3> QED
      BY <1>2, <1>3, <3>1
  <2>3. CASE n > Len(e) + Len(s)
    <3> DEFINE j == n - (Len(e) + Len(s))
    <3>1. j \in 1 .. Len(q) /\ j \in 1 .. Len(p) /\ n = Len(e) + Len(s) + j
      BY <1>1, <1>2, <2>3
    <3> HIDE DEF j
    <3>2. v[n] = q[j].image /\ w[n] = p[j].image
      BY <1>2, <1>3, <3>1
    <3> QED
      BY <1>1, <3>1, <3>2
  <2> QED
    BY <1>1, <1>4, <2>1, <2>2, <2>3
<1>7. OnceIn(v) /\ ~Occurs(v, b.image)
  BY DEF v
<1>8. OnceIn(w)
  <2> SUFFICES ASSUME NEW m \in 1 .. Len(w), NEW n \in 1 .. Len(w), w[m] = w[n]
               PROVE  m = n
    BY DEF OnceIn
  <2>1. /\ m \in 1 .. Len(v) \/ m = Len(v) + 1
        /\ n \in 1 .. Len(v) \/ n = Len(v) + 1
    BY <1>4
  <2> QED
    BY <1>5, <1>6, <1>7, <2>1 DEF OnceIn, Occurs
<1>9. ASSUME NEW i PROVE Occurs(w, i) <=> Occurs(v, i) \/ i = b.image
  <2>1. /\ Len(v) + 1 \in 1 .. Len(w)
        /\ \A n \in 1 .. Len(w) : n \in 1 .. Len(v) \/ n = Len(v) + 1
        /\ \A n \in 1 .. Len(v) : n \in 1 .. Len(w)
    BY <1>4
  <2> QED
    BY <1>5, <1>6, <2>1 DEF Occurs
<1> QED
  BY <1>1, <1>8, <1>9 DEF p, v, w

\* No more are out than there are buffers.
LEMMA OutFits ==
    ASSUME NEW e \in Seq(Image), NEW s \in Seq(Entry), NEW q \in Seq(Entry),
           OnceIn(OutOf(e, s, q))
    PROVE  Len(e) + Len(s) + Len(q) <= Images
<1> DEFINE w == OutOf(e, s, q)
<1>1. w \in Seq(Image) /\ Len(w) = Len(e) + Len(s) + Len(q)
  BY OutOfSeq
<1>2. OnceIn(w)
  OBVIOUS
<1> HIDE DEF w
<1>3. Len(w) \in Nat /\ w \in [1 .. Len(w) -> Image]
  BY <1>1, LenProperties
<1>4. w \in Injection(1 .. Len(w), Image)
  BY <1>2, <1>3, Fun_IsInj DEF OnceIn
<1>5. Images \in Nat \ {0, 1}
  BY WSIAssumption
<1>6. IsFiniteSet(Image) /\ Cardinality(Image) = Images
  <2> DEFINE last == Images - 1
  <2>1. last \in Int /\ 0 \in Int /\ 0 <= last /\ last - 0 + 1 = Images
    BY <1>5
  <2> HIDE DEF last
  <2>2. IsFiniteSet(0 .. last) /\ Cardinality(0 .. last) = Images
    BY <2>1, FS_Interval
  <2> QED
    BY <2>2 DEF Image, last
<1>7. Cardinality(1 .. Len(w)) = Len(w)
  <2> DEFINE l == Len(w)
  <2>1. l \in Nat /\ l \in Int /\ 1 \in Int
    BY <1>3
  <2> HIDE DEF l
  <2>2. Cardinality(1 .. l) = IF 1 > l THEN 0 ELSE l - 1 + 1
    BY <2>1, FS_Interval
  <2>3. Cardinality(1 .. l) = l
    BY <2>1, <2>2
  <2> QED
    BY <2>3 DEF l
<1>8. Cardinality(1 .. Len(w)) <= Cardinality(Image)
  BY <1>4, <1>6, FS_Injection
<1> QED
  BY <1>1, <1>6, <1>7, <1>8

-----------------------------------------------------------------------------
(* The inductive invariant.                                                *)

Buffers == [pixels : Frames \cup {<<>>}, in_use : BOOLEAN, mapped : BOOLEAN]
Call    == [at : {"wait", "pump"}, image : Image, frame : Frames, pixels : Frames]

\* Types, without the bound on what is out.
Typed ==
  /\ kind \in Kinds \cup {"none"} /\ online \in BOOLEAN /\ dropped \in BOOLEAN
  /\ turn \in Image
  /\ buffers \in [Image -> Buffers]
  /\ call \in {Idle} \cup Call
  /\ queue \in Seq(Entry) /\ screen \in Seq(Entry) /\ events \in Seq(Image)

Out == OutOf(events, screen, queue)

\* No buffer is out twice.
Once == OnceIn(Out)

\* While the window system is there, the buffers marked in use are those out.
Marked ==
  (online /\ kind # "cpu") =>
    \A i \in Image : buffers[i].in_use <=> Occurs(Out, i)

\* Where nothing can be: with a window system that went away, without a window,
\* and, for what is given back, with XPutImage.
Quiet ==
  /\ ~online => queue = <<>> /\ screen = <<>>
  /\ kind = "none" => queue = <<>> /\ screen = <<>> /\ events = <<>> /\ call = Idle
  /\ kind = "cpu" => queue = <<>> /\ events = <<>> /\ Len(screen) <= 1

\* What handle_frame remembers of the frame it was given.
Underway ==
  call # Idle => call.pixels = call.frame /\ (call.at = "pump" => kind = "gbm")

\* The buffers in the sequence s of presents hold the frames of those presents.
Shows(s) == \A n \in 1 .. Len(s) : buffers[s[n].image].pixels = s[n].frame

IInv == Typed /\ Once /\ Marked /\ Quiet /\ Underway /\ Shows(screen) /\ Shows(queue)

LEMMA NothingOut ==
    /\ <<>> \in Seq(Image) /\ <<>> \in Seq(Entry) /\ Len(<<>>) = 0
    /\ Len(OutOf(<<>>, <<>>, <<>>)) = 0
    /\ OnceIn(OutOf(<<>>, <<>>, <<>>))
    /\ \A i : ~Occurs(OutOf(<<>>, <<>>, <<>>), i)
<1>1. <<>> \in Seq(Image) /\ <<>> \in Seq(Entry) /\ Len(<<>>) = 0
  OBVIOUS
<1>2. Len(OutOf(<<>>, <<>>, <<>>)) = Len(<<>>) + Len(<<>>) + Len(<<>>)
  BY <1>1, OutOfSeq
<1>3. Len(OutOf(<<>>, <<>>, <<>>)) = 0
  BY <1>1, <1>2
<1> QED
  BY <1>1, <1>3 DEF OnceIn, Occurs

LEMMA InitHolds == Init => IInv
<1> SUFFICES ASSUME Init PROVE IInv
  OBVIOUS
<1>1. Typed
  <2>1. 0 \in Image
    BY WSIAssumption DEF Image
  <2>2. [i \in Image |-> Buffer] \in [Image -> Buffers]
    BY DEF Buffers, Buffer
  <2>3. queue = <<>> /\ screen = <<>> /\ events = <<>>
    BY DEF Init
  <2>4. queue \in Seq(Entry) /\ screen \in Seq(Entry) /\ events \in Seq(Image)
    BY <2>3
  <2> QED
    BY <2>1, <2>2, <2>4 DEF Init, Typed
<1>2. queue = <<>> /\ screen = <<>> /\ events = <<>> /\ call = Idle /\ kind = "none"
      /\ \A i \in Image : ~buffers[i].in_use
  BY DEF Init, Buffer
<1>3. Out = OutOf(<<>>, <<>>, <<>>)
  BY <1>2 DEF Out
<1>4. Once /\ Marked
  BY <1>2, <1>3, NothingOut DEF Once, Marked
<1>5. Quiet /\ Underway /\ Shows(screen) /\ Shows(queue)
  BY <1>2 DEF Quiet, Underway, Shows
<1> QED
  BY <1>1, <1>4, <1>5 DEF IInv

\* A frame the server sends is decoded, and is that frame.
LEMMA DecodedIsSent ==
    ASSUME NEW f \in Frames
    PROVE  Decompress(Compress(f)).ok /\ Decompress(Compress(f)).bytes = f
<1>1. Decompress(Compress(f)) = [ok |-> TRUE, bytes |-> f]
  <2>1. f \in Seq(Nat)
    <3>1. f \in Seq(0 .. MaxCount) /\ 0 .. MaxCount \subseteq Nat
      BY WSIAssumption, CodecAssumption
    <3> QED
      BY <3>1, SeqMonotonic
  <2>2. CodedFaithfully(f)
    BY <2>1, CodeIsExact
  <2> QED
    BY <2>2, Zenon DEF CodedFaithfully
<1> QED
  BY <1>1

\* Handling the first k events clears their marks and changes no pixels.
LEMMA HandledMarks ==
    ASSUME Typed, NEW k \in 0 .. Len(events), NEW ok \in BOOLEAN
    PROVE  LET h == Handled(SubSeq(events, 1, k), ok)
           IN  /\ h \in [Image -> Buffers]
               /\ \A i \in Image :
                    /\ h[i].pixels = buffers[i].pixels
                    /\ h[i].in_use <=> /\ buffers[i].in_use
                                       /\ ~ \E n \in 1 .. k : events[n] = i
<1> DEFINE es == SubSeq(events, 1, k)
<1>1. es \in Seq(Image) /\ Len(es) = k /\ \A n \in 1 .. k : es[n] = events[n]
  BY DEF Typed
<1>2. DOMAIN es = 1 .. k
  BY <1>1
<1>3. buffers \in [Image -> Buffers]
  BY DEF Typed
<1> HIDE DEF es
<1> DEFINE h == Handled(es, ok)
<1>4. h = [i \in Image |->
             IF \E n \in 1 .. k : es[n] = i
             THEN [buffers[i] EXCEPT !.in_use = FALSE,
                                     !.mapped = @ \/ (kind = "gbm" /\ ok)]
             ELSE buffers[i]]
  BY <1>2 DEF Handled, Released
<1>5. ASSUME NEW i \in Image
      PROVE  /\ h[i] \in Buffers
             /\ h[i].pixels = buffers[i].pixels
             /\ h[i].in_use <=> buffers[i].in_use /\ ~ \E n \in 1 .. k : events[n] = i
  <2>1. buffers[i] \in Buffers
    BY <1>3
  <2>2. CASE \E n \in 1 .. k : es[n] = i
    <3>1. h[i] = [buffers[i] EXCEPT !.in_use = FALSE,
                                    !.mapped = @ \/ (kind = "gbm" /\ ok)]
      BY <1>4, <2>2
    <3>2. h[i] \in Buffers /\ h[i].pixels = buffers[i].pixels /\ h[i].in_use = FALSE
      BY <2>1, <3>1 DEF Buffers
    <3> QED
      BY <1>1, <2>2, <3>2
  <2>3. CASE ~ \E n \in 1 .. k : es[n] = i
    <3>1. h[i] = buffers[i]
      BY <1>4, <2>3
    <3> QED
      BY <1>1, <2>1, <2>3, <3>1
  <2> QED
    BY <2>2, <2>3
<1>6. h \in [Image -> Buffers]
  BY <1>4, <1>5
<1> QED
  BY <1>5, <1>6 DEF h, es

\* What a step that handles the first k events keeps.
LEMMA EventsKeep ==
    ASSUME IInv, NEW k \in 0 .. Len(events), NEW ok \in BOOLEAN,
           buffers' = Handled(SubSeq(events, 1, k), ok),
           events' = SubSeq(events, k + 1, Len(events)),
           UNCHANGED <<kind, online, queue, screen>>
    PROVE  /\ buffers' \in [Image -> Buffers] /\ events' \in Seq(Image)
           /\ Once' /\ Marked' /\ Shows(screen)' /\ Shows(queue)'
<1>1. /\ Typed /\ Once /\ Marked /\ Shows(screen) /\ Shows(queue)
      /\ events \in Seq(Image) /\ screen \in Seq(Entry) /\ queue \in Seq(Entry)
  BY DEF IInv, Typed
<1>2. /\ buffers' \in [Image -> Buffers]
      /\ \A i \in Image :
           /\ buffers'[i].pixels = buffers[i].pixels
           /\ buffers'[i].in_use <=> buffers[i].in_use /\ ~ \E n \in 1 .. k : events[n] = i
  BY <1>1, HandledMarks
<1>3. OnceIn(OutOf(events, screen, queue))
  BY <1>1 DEF Once, Out
<1>4. /\ events' \in Seq(Image)
      /\ OnceIn(OutOf(events', screen, queue))
      /\ \A i : Occurs(OutOf(events', screen, queue), i) <=>
           Occurs(OutOf(events, screen, queue), i) /\ ~ \E n \in 1 .. k : events[n] = i
  BY <1>1, <1>3, ReadEvents
<1>5. Out' = OutOf(events', screen, queue)
  BY DEF Out
<1>6. Once' /\ Marked'
  BY <1>1, <1>2, <1>4, <1>5 DEF Once, Marked, Out
<1>7. Shows(screen)' /\ Shows(queue)'
  <2>1. /\ \A n \in 1 .. Len(screen) : screen[n].image \in Image
        /\ \A n \in 1 .. Len(queue) : queue[n].image \in Image
    BY <1>1, ImagesInEntries
  <2>2. screen' = screen /\ queue' = queue
    OBVIOUS
  <2>3. ASSUME NEW n \in 1 .. Len(screen)
        PROVE  buffers'[screen[n].image].pixels = screen[n].frame
    BY <1>1, <1>2, <2>1 DEF Shows
  <2>4. ASSUME NEW n \in 1 .. Len(queue)
        PROVE  buffers'[queue[n].image].pixels = queue[n].frame
    BY <1>1, <1>2, <2>1 DEF Shows
  <2> QED
    BY <2>2, <2>3, <2>4 DEF Shows
<1> QED
  BY <1>2, <1>4, <1>6, <1>7

-----------------------------------------------------------------------------
(* Steps of the client.                                                    *)

LEMMA OpenStep ==
    ASSUME IInv, NEW k \in Kinds, Open(k)
    PROVE  IInv'
<1>1. /\ Typed
      /\ queue' = <<>> /\ screen' = <<>> /\ events' = <<>> /\ call' = Idle
      /\ online' = online /\ dropped' = FALSE /\ turn' = 0
      /\ buffers' = [i \in Image |-> Buffer]
      /\ kind' \in Kinds
  BY DEF IInv, Quiet, Open, windowVars
<1>2. buffers' \in [Image -> Buffers] /\ \A i \in Image : buffers'[i].in_use = FALSE
  BY <1>1 DEF Buffers, Buffer
<1>3. 0 \in Image
  BY WSIAssumption DEF Image
<1>4. Typed'
  BY <1>1, <1>2, <1>3, NothingOut DEF Typed
<1>5. Out' = OutOf(<<>>, <<>>, <<>>)
  BY <1>1 DEF Out
<1>6. Once' /\ Marked'
  BY <1>2, <1>5, NothingOut DEF Once, Marked
<1>7. "none" \notin Kinds
  BY WSIAssumption
<1>8. Quiet' /\ Underway' /\ Shows(screen)' /\ Shows(queue)'
  BY <1>1, <1>7, NothingOut DEF Quiet, Underway, Shows
<1> QED
  BY <1>4, <1>6, <1>8 DEF IInv

LEMMA ShutdownStep ==
    ASSUME IInv, Shutdown
    PROVE  IInv'
<1>1. /\ Typed /\ call = Idle
      /\ queue' = <<>> /\ screen' = <<>> /\ events' = <<>> /\ call' = call
      /\ online' = online /\ dropped' = dropped /\ turn' = turn
      /\ buffers' = [i \in Image |-> Buffer]
      /\ kind' = "none"
  BY DEF IInv, Shutdown
<1>2. buffers' \in [Image -> Buffers] /\ \A i \in Image : buffers'[i].in_use = FALSE
  BY <1>1 DEF Buffers, Buffer
<1>3. Typed'
  BY <1>1, <1>2, NothingOut DEF Typed
<1>4. Out' = OutOf(<<>>, <<>>, <<>>)
  BY <1>1 DEF Out
<1>5. Once' /\ Marked'
  BY <1>2, <1>4, NothingOut DEF Once, Marked
<1>6. Quiet' /\ Underway' /\ Shows(screen)' /\ Shows(queue)'
  BY <1>1, NothingOut DEF Quiet, Underway, Shows
<1> QED
  BY <1>3, <1>5, <1>6 DEF IInv

LEMMA TurnGoesOn ==
    ASSUME turn \in Image
    PROVE  (turn + 1) % Images \in Image
<1>1. Images \in Nat \ {0} /\ turn \in Nat
  BY WSIAssumption DEF Image
<1>2. (turn + 1) % Images \in 0 .. Images - 1
  BY <1>1
<1> QED
  BY <1>2 DEF Image

\* A present handles some of the events that came, the oldest first.
LEMMA EarlyEvents ==
    ASSUME Typed, NEW n \in Early
    PROVE  n \in 0 .. Len(events)
<1>1. events \in Seq(Image) /\ Len(events) \in Nat /\ (events # <<>> => Len(events) > 0)
  BY DEF Typed
<1>2. CASE kind = "gbm"
  BY <1>1, <1>2 DEF Early
<1>3. CASE kind = "dmabuf"
  BY <1>1, <1>3 DEF Early
<1>4. CASE kind # "gbm" /\ kind # "dmabuf"
  BY <1>1, <1>4 DEF Early
<1> QED
  BY <1>2, <1>3, <1>4

LEMMA MapResultsAreBoolean == MapResults \subseteq BOOLEAN
BY DEF MapResults

LEMMA HandleFrameStep ==
    ASSUME IInv, NEW f \in Frames, HandleFrame(f)
    PROVE  IInv'
<1> DEFINE pixels == Decompress(Compress(f))
<1>1. pixels.ok /\ pixels.bytes = f
  BY DecodedIsSent
<1>2. /\ call = Idle /\ kind # "none"
      /\ turn' = (turn + 1) % Images
      /\ UNCHANGED <<kind, online, queue, screen>>
  BY DEF HandleFrame
<1>3. PICK n \in Early, ok \in MapResults :
        /\ buffers' = Handled(SubSeq(events, 1, n), ok)
        /\ events' = SubSeq(events, n + 1, Len(events))
        /\ call' = [at |-> "wait", image |-> turn, frame |-> f, pixels |-> pixels.bytes]
        /\ UNCHANGED dropped
  BY <1>1 DEF HandleFrame
<1> HIDE DEF pixels
<1>4. Typed /\ Quiet /\ n \in 0 .. Len(events) /\ ok \in BOOLEAN
  BY EarlyEvents, MapResultsAreBoolean DEF IInv
<1>5. /\ buffers' \in [Image -> Buffers] /\ events' \in Seq(Image)
      /\ Once' /\ Marked' /\ Shows(screen)' /\ Shows(queue)'
  BY <1>2, <1>3, <1>4, EventsKeep
<1>6. turn \in Image /\ turn' \in Image
  BY <1>2, <1>4, TurnGoesOn DEF Typed
<1>7. call' \in Call /\ call'.pixels = call'.frame /\ call'.at = "wait"
  BY <1>1, <1>3, <1>6 DEF Call
<1>8. Typed'
  BY <1>2, <1>3, <1>4, <1>5, <1>6, <1>7 DEF Typed
<1>9. Quiet'
  <2>1. kind = "cpu" => events' = <<>>
    <3>1. ASSUME kind = "cpu" PROVE events' = <<>>
      <4>1. events = <<>> /\ n = 0
        BY <1>3, <1>4, <3>1 DEF Quiet, Early
      <4> QED
        BY <1>3, <4>1
    <3> QED
      BY <3>1
  <2> QED
    BY <1>2, <1>4, <2>1 DEF Quiet
<1>10. Underway'
  BY <1>7 DEF Underway
<1> QED
  BY <1>5, <1>8, <1>9, <1>10 DEF IInv

\* A call that waits remembers its frame, decoded.
LEMMA WaitingCall ==
    ASSUME Typed, Underway, call.at # "idle"
    PROVE  /\ call \in Call /\ call # Idle /\ call.image \in Image
           /\ call.frame \in Frames /\ call.pixels = call.frame
<1>1. call # Idle
  BY DEF Idle
<1> QED
  BY <1>1 DEF Typed, Underway, Call

\* A step that leaves alone what is out, and the marks and pixels.
LEMMA OutUntouched ==
    ASSUME IInv, UNCHANGED <<kind, online, buffers, queue, screen, events>>
    PROVE  /\ Once' /\ Marked' /\ Shows(screen)' /\ Shows(queue)'
           /\ call' = Idle \/ kind # "none" => Quiet'
BY DEF IInv, Once, Marked, Shows, Out, Quiet

LEMMA PresentStep ==
    ASSUME IInv, Present
    PROVE  IInv'
<1> DEFINE i == call.image
<1>1. /\ call.at = "wait" /\ kind # "cpu" /\ Free(i) /\ call' = Idle
      /\ UNCHANGED <<kind, online, turn, screen, events>>
  BY DEF Present
<1>2. /\ i \in Image /\ call.frame \in Frames /\ call.pixels = call.frame
      /\ Typed /\ Once /\ Marked /\ Quiet /\ Shows(screen) /\ Shows(queue)
      /\ events \in Seq(Image) /\ screen \in Seq(Entry) /\ queue \in Seq(Entry)
      /\ buffers \in [Image -> Buffers]
  BY <1>1, WaitingCall DEF IInv, Typed
<1> HIDE DEF i
<1>3. Underway'
  BY <1>1 DEF Underway
<1>4. kind # "none"
  BY <1>1 DEF IInv, Quiet, Idle
<1>5. CASE UNCHANGED buffers /\ UNCHANGED queue /\ dropped' = TRUE
  <2>1. Typed'
    BY <1>1, <1>2, <1>5 DEF Typed
  <2> QED
    BY <1>1, <1>3, <1>5, <2>1, OutUntouched DEF IInv
<1>6. CASE /\ buffers' = [buffers EXCEPT ![i] =
                [pixels |-> call.pixels, in_use |-> TRUE, mapped |-> kind \notin Mapping]]
           /\ queue' = IF online THEN Append(queue, [image |-> i, frame |-> call.frame])
                                 ELSE queue
           /\ dropped' = dropped
  <2> DEFINE b == [image |-> i, frame |-> call.frame]
  <2>1. /\ buffers' \in [Image -> Buffers]
        /\ buffers'[i].in_use = TRUE /\ buffers'[i].pixels = call.frame
        /\ \A j \in Image \ {i} : buffers'[j] = buffers[j]
    BY <1>2, <1>6 DEF Buffers
  <2>2. b \in Entry /\ b.image = i /\ b.frame = call.frame
    BY <1>2 DEF Entry
  <2>3. CASE ~online
    <3>1. /\ queue' = queue /\ queue = <<>> /\ screen = <<>>
          /\ Out' = Out
      BY <1>1, <1>2, <1>6, <2>3 DEF Quiet, Out
    <3>2. Typed' /\ Quiet'
      BY <1>1, <1>2, <1>4, <1>6, <2>1, <3>1 DEF Typed, Quiet
    <3>3. Once' /\ Marked' /\ Shows(screen)' /\ Shows(queue)'
      BY <1>1, <1>2, <2>3, <3>1 DEF Once, Marked, Shows
    <3> QED
      BY <1>3, <3>2, <3>3 DEF IInv
  <2>4. CASE online
    <3> HIDE DEF b
    <3>1. /\ queue' = Append(queue, b) /\ ~buffers[i].in_use
      BY <1>1, <1>6, <2>4 DEF Free, b
    <3>2. OnceIn(OutOf(events, screen, queue)) /\ ~Occurs(OutOf(events, screen, queue), b.image)
      BY <1>1, <1>2, <2>2, <2>4, <3>1 DEF Once, Marked, Out
    <3>3. /\ queue' \in Seq(Entry)
          /\ OnceIn(OutOf(events, screen, queue'))
          /\ \A j : Occurs(OutOf(events, screen, queue'), j) <=>
                      Occurs(OutOf(events, screen, queue), j) \/ j = i
      BY <1>2, <2>2, <3>1, <3>2, PresentedOut
    <3>4. Out' = OutOf(events, screen, queue') /\ Out = OutOf(events, screen, queue)
      BY <1>1 DEF Out
    <3>5. Typed' /\ Quiet'
      BY <1>1, <1>2, <1>4, <1>6, <2>1, <2>4, <3>3 DEF Typed, Quiet
    <3>6. Once'
      BY <3>3, <3>4 DEF Once
    <3>7. Marked'
      <4> SUFFICES ASSUME NEW j \in Image
                   PROVE  buffers'[j].in_use <=> Occurs(Out', j)
        BY DEF Marked
      <4>1. Occurs(Out', j) <=> Occurs(Out, j) \/ j = i
        BY <3>3, <3>4
      <4>2. buffers[j].in_use <=> Occurs(Out, j)
        BY <1>1, <1>2, <2>4 DEF Marked
      <4> QED
        BY <2>1, <4>1, <4>2
    <3>8. /\ \A n \in 1 .. Len(screen) : screen[n].image \in Image \ {i}
          /\ \A n \in 1 .. Len(queue) : queue[n].image \in Image \ {i}
      BY <1>2, <2>2, <3>2, ImagesInEntries, OccursSomewhere
    <3>9. Shows(screen)'
      <4> SUFFICES ASSUME NEW n \in 1 .. Len(screen)
                   PROVE  buffers'[screen[n].image].pixels = screen[n].frame
        BY <1>1 DEF Shows
      <4> QED
        BY <1>2, <2>1, <3>8 DEF Shows
    <3>10. Shows(queue)'
      <4> SUFFICES ASSUME NEW n \in 1 .. Len(queue')
                   PROVE  buffers'[queue'[n].image].pixels = queue'[n].frame
        BY DEF Shows
      <4>1. CASE n \in 1 .. Len(queue)
        <5>1. queue'[n] = queue[n]
          BY <1>2, <3>1, <4>1
        <5> QED
          BY <1>2, <2>1, <3>8, <4>1, <5>1 DEF Shows
      <4>2. CASE n = Len(queue) + 1
        <5>1. queue'[n] = b
          BY <1>2, <3>1, <4>2
        <5> QED
          BY <2>1, <2>2, <5>1
      <4>3. Len(queue') = Len(queue) + 1 /\ Len(queue) \in Nat
        BY <1>2, <3>1
      <4> QED
        BY <4>1, <4>2, <4>3
    <3> QED
      BY <1>3, <3>5, <3>6, <3>7, <3>9, <3>10 DEF IInv
  <2> QED
    BY <2>3, <2>4
<1> QED
  BY <1>5, <1>6 DEF Present, i

LEMMA PutImageStep ==
    ASSUME IInv, PutImage
    PROVE  IInv'
<1> DEFINE i == call.image
           b == [image |-> i, frame |-> call.frame]
<1>1. /\ call.at = "wait" /\ kind = "cpu" /\ call' = Idle
      /\ buffers' = [buffers EXCEPT ![i].pixels = call.pixels]
      /\ screen' = IF online THEN <<b>> ELSE screen
      /\ UNCHANGED <<kind, online, turn, queue, events, dropped>>
  BY DEF PutImage
<1>2. /\ i \in Image /\ call.frame \in Frames /\ call.pixels = call.frame
      /\ Typed /\ Once /\ Marked /\ Quiet
      /\ events = <<>> /\ queue = <<>> /\ screen \in Seq(Entry) /\ Len(screen) <= 1
      /\ (~online => screen = <<>>)
      /\ buffers \in [Image -> Buffers]
  BY <1>1, WaitingCall DEF IInv, Typed, Quiet
<1>3. b \in Entry /\ b.image = i /\ b.frame = call.frame
  BY <1>2 DEF Entry
<1> HIDE DEF i, b
<1>4. buffers' \in [Image -> Buffers] /\ buffers'[i].pixels = call.frame
  BY <1>1, <1>2 DEF Buffers
<1>5. screen' \in Seq(Entry) /\ Len(screen') <= 1 /\ (~online => screen' = <<>>)
  <2>1. <<b>> \in Seq(Entry) /\ Len(<<b>>) = 1
    BY <1>3
  <2> QED
    BY <1>1, <1>2, <2>1
<1>6. Typed' /\ Quiet' /\ Underway'
  <2>1. Typed'
    BY <1>1, <1>2, <1>4, <1>5 DEF Typed
  <2> QED
    BY <1>1, <1>2, <1>5, <2>1 DEF Quiet, Underway
<1>7. Once'
  <2>1. /\ Out' = OutOf(<<>>, screen', <<>>)
        /\ <<>> \in Seq(Image) /\ <<>> \in Seq(Entry) /\ Len(<<>>) = 0
    BY <1>1, <1>2, NothingOut DEF Out
  <2>2. Len(OutOf(<<>>, screen', <<>>)) = Len(<<>>) + Len(screen') + Len(<<>>)
    BY <1>5, <2>1, OutOfSeq
  <2>3. Len(screen') \in Nat
    BY <1>5
  <2>4. Len(Out') \in Nat /\ Len(Out') <= 1
    BY <1>5, <2>1, <2>2, <2>3
  <2> QED
    BY <2>4 DEF Once, OnceIn
<1>8. Marked'
  BY <1>1 DEF Marked
<1>9. Shows(queue)'
  BY <1>1, <1>2, NothingOut DEF Shows
<1>10. Shows(screen)'
  <2>1. CASE online
    <3>1. screen' = <<b>>
      BY <1>1, <2>1
    <3>2. Len(screen') = 1 /\ screen'[1] = b
      BY <3>1
    <3>3. \A n \in 1 .. Len(screen') : n = 1
      BY <3>2
    <3> QED
      BY <1>3, <1>4, <3>2, <3>3 DEF Shows
  <2>2. CASE ~online
    BY <1>5, <2>2, NothingOut DEF Shows
  <2> QED
    BY <2>1, <2>2
<1> QED
  BY <1>6, <1>7, <1>8, <1>9, <1>10 DEF IInv

\* All events handled at once.
LEMMA AllEventsKeep ==
    ASSUME IInv, NEW ok \in BOOLEAN, buffers' = Handled(events, ok), events' = <<>>,
           UNCHANGED <<kind, online, queue, screen>>
    PROVE  /\ buffers' \in [Image -> Buffers] /\ events' \in Seq(Image)
           /\ Once' /\ Marked' /\ Shows(screen)' /\ Shows(queue)'
<1> DEFINE k == Len(events)
<1>1. /\ events \in Seq(Image) /\ k \in 0 .. Len(events)
      /\ SubSeq(events, 1, k) = events /\ SubSeq(events, k + 1, Len(events)) = <<>>
  BY DEF IInv, Typed
<1> HIDE DEF k
<1>2. /\ buffers' = Handled(SubSeq(events, 1, k), ok)
      /\ events' = SubSeq(events, k + 1, Len(events))
  BY <1>1
<1> QED
  BY <1>1, <1>2, EventsKeep

\* Both ways in which Wayland's events are handled.
LEMMA DispatchedEvents ==
    ASSUME IInv, kind \in Wayland, buffers' = Handled(events, TRUE), events' = <<>>,
           UNCHANGED <<kind, online, turn, call, queue, screen, dropped>>
    PROVE  IInv'
<1>1. /\ buffers' \in [Image -> Buffers] /\ events' \in Seq(Image)
      /\ Once' /\ Marked' /\ Shows(screen)' /\ Shows(queue)'
  BY AllEventsKeep
<1>2. Typed' /\ Quiet' /\ Underway'
  BY <1>1 DEF IInv, Typed, Quiet, Underway, Wayland
<1> QED
  BY <1>1, <1>2 DEF IInv

LEMMA DispatchStep ==
    ASSUME IInv, Dispatch \/ AppDispatches
    PROVE  IInv'
BY DispatchedEvents DEF Dispatch, AppDispatches

LEMMA StartPumpStep ==
    ASSUME IInv, StartPump
    PROVE  IInv'
<1>1. /\ call.at = "wait" /\ kind = "gbm" /\ call' = [call EXCEPT !.at = "pump"]
      /\ UNCHANGED <<kind, online, buffers, turn, queue, screen, events, dropped>>
  BY DEF StartPump, windowVars
<1>2. call \in Call /\ call.pixels = call.frame
  BY <1>1, WaitingCall DEF IInv
<1>3. call' \in Call /\ call'.pixels = call'.frame
  BY <1>1, <1>2 DEF Call
<1>4. Typed' /\ Underway'
  BY <1>1, <1>3 DEF IInv, Typed, Underway
<1> QED
  BY <1>1, <1>4, OutUntouched DEF IInv

LEMMA PumpStep ==
    ASSUME IInv, Pump
    PROVE  IInv'
<1>1. /\ call.at = "pump"
      /\ UNCHANGED <<kind, online, turn, queue, screen, dropped>>
  BY DEF Pump
<1>2. /\ call \in Call /\ call # Idle /\ call.pixels = call.frame /\ kind = "gbm"
      /\ Typed /\ Quiet /\ events \in Seq(Image)
  BY <1>1, WaitingCall DEF IInv, Underway, Typed
<1>3. CASE events # <<>>
  <2>1. PICK ok \in MapResults :
          /\ buffers' = Handled(<<Head(events)>>, ok)
          /\ events' = Tail(events)
          /\ call' = call
    BY <1>3 DEF Pump
  <2>2. /\ 1 \in 0 .. Len(events) /\ <<Head(events)>> = SubSeq(events, 1, 1)
        /\ Tail(events) = SubSeq(events, 1 + 1, Len(events))
    BY <1>2, <1>3
  <2>3. /\ buffers' = Handled(SubSeq(events, 1, 1), ok)
        /\ events' = SubSeq(events, 1 + 1, Len(events)) /\ ok \in BOOLEAN
    BY <2>1, <2>2, MapResultsAreBoolean
  <2>4. /\ buffers' \in [Image -> Buffers] /\ events' \in Seq(Image)
        /\ Once' /\ Marked' /\ Shows(screen)' /\ Shows(queue)'
    BY <1>1, <2>2, <2>3, EventsKeep
  <2>5. Typed' /\ Quiet' /\ Underway'
    BY <1>1, <1>2, <2>1, <2>4 DEF IInv, Typed, Quiet, Underway
  <2> QED
    BY <2>4, <2>5 DEF IInv
<1>4. CASE events = <<>>
  <2>1. /\ call' = [call EXCEPT !.at = "wait"]
        /\ UNCHANGED <<buffers, events>>
    BY <1>4 DEF Pump
  <2>2. call' \in Call /\ call'.pixels = call'.frame /\ call'.at = "wait"
    BY <1>2, <2>1 DEF Call
  <2>3. Typed' /\ Underway'
    BY <1>1, <1>2, <2>1, <2>2 DEF Typed, Underway
  <2> QED
    BY <1>1, <1>2, <2>1, <2>3, OutUntouched DEF IInv
<1> QED
  BY <1>3, <1>4

-----------------------------------------------------------------------------
(* Steps of the window system.                                             *)

\* What follows when the window system moves what is out.
LEMMA MovedOut ==
    ASSUME IInv, UNCHANGED <<kind, online, buffers, turn, call, dropped>>,
           online, queue # <<>>,
           events' \in Seq(Image), screen' \in Seq(Entry), queue' \in Seq(Entry),
           OnceIn(Out'), \A i : Occurs(Out', i) <=> Occurs(Out, i),
           Shows(screen)', Shows(queue)'
    PROVE  IInv'
<1>1. kind # "none" /\ kind # "cpu"
  BY DEF IInv, Quiet
<1>2. Typed' /\ Quiet' /\ Underway'
  BY <1>1 DEF IInv, Typed, Quiet, Underway
<1>3. Once' /\ Marked'
  BY DEF IInv, Once, Marked
<1> QED
  BY <1>2, <1>3 DEF IInv

\* The queue without its head, and its head.
LEMMA QueueParts ==
    ASSUME IInv, queue # <<>>
    PROVE  /\ Head(queue) \in Entry /\ Tail(queue) \in Seq(Entry)
           /\ buffers[Head(queue).image].pixels = Head(queue).frame
           /\ Shows(Tail(queue))
<1>1. queue \in Seq(Entry) /\ Shows(queue)
  BY DEF IInv, Typed
<1>2. /\ Head(queue) = queue[1] /\ 1 \in 1 .. Len(queue) /\ Head(queue) \in Entry
      /\ Tail(queue) \in Seq(Entry)
      /\ \A n \in 1 .. Len(Tail(queue)) : n + 1 \in 1 .. Len(queue) /\ Tail(queue)[n] = queue[n + 1]
  BY <1>1
<1> QED
  BY <1>1, <1>2 DEF Shows

LEMMA FlipStep ==
    ASSUME IInv, Flip
    PROVE  IInv'
<1>1. /\ online /\ queue # <<>> /\ screen' = <<Head(queue)>> /\ queue' = Tail(queue)
      /\ events' = events \o ImagesOf(screen)
      /\ UNCHANGED <<kind, online, buffers, turn, call, dropped>>
  BY DEF Flip, GiveBack, ImagesOf
<1>2. events \in Seq(Image) /\ screen \in Seq(Entry) /\ queue \in Seq(Entry)
  BY DEF IInv, Typed
<1>3. /\ events' \in Seq(Image)
      /\ OutOf(events', screen', queue') = OutOf(events, screen, queue)
  BY <1>1, <1>2, FlipKeepsOut
<1>4. Out' = Out
  BY <1>3 DEF Out
<1>5. /\ Head(queue) \in Entry /\ queue' \in Seq(Entry)
      /\ buffers[Head(queue).image].pixels = Head(queue).frame
      /\ Shows(Tail(queue))
  BY <1>1, QueueParts
<1>6. screen' \in Seq(Entry) /\ Len(screen') = 1 /\ screen'[1] = Head(queue)
  BY <1>1, <1>5
<1>7. \A n \in 1 .. Len(screen') : n = 1
  BY <1>6
<1>8. Shows(screen)' /\ Shows(queue)'
  BY <1>1, <1>5, <1>6, <1>7 DEF Shows
<1>9. OnceIn(Out')
  BY <1>4 DEF IInv, Once
<1> QED
  BY <1>1, <1>3, <1>4, <1>5, <1>6, <1>8, <1>9, MovedOut

LEMMA CopyStep ==
    ASSUME IInv, Copy
    PROVE  IInv'
<1>1. /\ online /\ queue # <<>> /\ screen' = <<>> /\ queue' = Tail(queue)
      /\ events' = events \o ImagesOf(Append(screen, Head(queue)))
      /\ UNCHANGED <<kind, online, buffers, turn, call, dropped>>
  BY DEF Copy, GiveBack, ImagesOf
<1>2. events \in Seq(Image) /\ screen \in Seq(Entry) /\ queue \in Seq(Entry)
  BY DEF IInv, Typed
<1>3. /\ events' \in Seq(Image)
      /\ OutOf(events', screen', queue') = OutOf(events, screen, queue)
  BY <1>1, <1>2, CopyKeepsOut
<1>4. Out' = Out
  BY <1>3 DEF Out
<1>5. queue' \in Seq(Entry) /\ Shows(Tail(queue)) /\ screen' \in Seq(Entry) /\ Len(screen') = 0
  BY <1>1, QueueParts
<1>6. Shows(screen)' /\ Shows(queue)'
  BY <1>1, <1>5 DEF Shows
<1>7. OnceIn(Out')
  BY <1>4 DEF IInv, Once
<1> QED
  BY <1>1, <1>3, <1>4, <1>5, <1>6, <1>7, MovedOut

LEMMA SkipStep ==
    ASSUME IInv, Skip
    PROVE  IInv'
<1>1. events \in Seq(Image) /\ screen \in Seq(Entry) /\ queue \in Seq(Entry)
  BY DEF IInv, Typed
<1>2. /\ online /\ queue # <<>> /\ screen' = screen /\ queue' = Tail(queue)
      /\ events' = events \o ImagesOf(<<Head(queue)>>)
      /\ UNCHANGED <<kind, online, buffers, turn, call, dropped>>
  BY <1>1 DEF Skip, GiveBack, ImagesOf
<1>3. OnceIn(OutOf(events, screen, queue))
  BY DEF IInv, Once, Out
<1>4. /\ events' \in Seq(Image)
      /\ OnceIn(OutOf(events', screen, Tail(queue)))
      /\ \A i : Occurs(OutOf(events', screen, Tail(queue)), i)
                  <=> Occurs(OutOf(events, screen, queue), i)
  BY <1>1, <1>2, <1>3, SkipKeepsOut
<1>5. OnceIn(Out') /\ \A i : Occurs(Out', i) <=> Occurs(Out, i)
  BY <1>2, <1>4 DEF Out
<1>6. queue' \in Seq(Entry) /\ Shows(Tail(queue)) /\ screen' \in Seq(Entry)
  BY <1>1, <1>2, QueueParts
<1>7. Shows(screen)' /\ Shows(queue)'
  BY <1>2, <1>6 DEF IInv, Shows
<1> QED
  BY <1>2, <1>4, <1>5, <1>6, <1>7, MovedOut

LEMMA HangupStep ==
    ASSUME IInv, Hangup
    PROVE  IInv'
<1>1. /\ online' = FALSE /\ queue' = <<>> /\ screen' = <<>>
      /\ UNCHANGED <<kind, buffers, turn, call, events, dropped>>
  BY DEF Hangup
<1>2. /\ events \in Seq(Image) /\ screen \in Seq(Entry) /\ queue \in Seq(Entry)
      /\ Typed /\ Quiet /\ Underway /\ OnceIn(Out)
  BY DEF IInv, Typed, Once
<1>3. Typed' /\ Quiet' /\ Underway' /\ Marked'
  <2>1. screen' \in Seq(Entry) /\ Len(screen') = 0 /\ queue' \in Seq(Entry)
    BY <1>1, NothingOut
  <2>2. Typed'
    BY <1>1, <1>2, <2>1 DEF Typed
  <2>3. Quiet'
    BY <1>1, <1>2, <2>1 DEF Quiet
  <2> QED
    BY <1>1, <1>2, <2>2, <2>3 DEF Underway, Marked
<1>4. Shows(screen)' /\ Shows(queue)'
  BY <1>1, NothingOut DEF Shows
<1>5. /\ Len(Out) = Len(events) + Len(screen) + Len(queue)
      /\ \A n \in 1 .. Len(events) : Out[n] = events[n]
  BY <1>2, OutOfSeq DEF Out
<1> DEFINE w == OutOf(events, <<>>, <<>>)
<1>6. /\ Len(w) = Len(events) + Len(<<>>) + Len(<<>>)
      /\ \A n \in 1 .. Len(events) : w[n] = events[n]
  BY <1>2, NothingOut, OutOfSeq
<1>7. Out' = w
  BY <1>1 DEF Out
<1> HIDE DEF w
<1>8. /\ Len(w) = Len(events)
      /\ \A n \in 1 .. Len(w) : n \in 1 .. Len(Out) /\ w[n] = Out[n]
  <2>1. Len(events) \in Nat /\ Len(screen) \in Nat /\ Len(queue) \in Nat /\ Len(<<>>) = 0
    BY <1>2
  <2> QED
    BY <1>5, <1>6, <2>1
<1>9. Once'
  BY <1>2, <1>7, <1>8 DEF Once, OnceIn
<1> QED
  BY <1>3, <1>4, <1>9 DEF IInv

LEMMA StepHolds == IInv /\ [Next]_vars => IInv'
<1> SUFFICES ASSUME IInv, [Next]_vars PROVE IInv'
  OBVIOUS
<1>1. ASSUME NEW k \in Kinds, Open(k) PROVE IInv'
  BY <1>1, OpenStep
<1>2. CASE Shutdown
  BY <1>2, ShutdownStep
<1>3. ASSUME NEW f \in Frames, HandleFrame(f) PROVE IInv'
  BY <1>3, HandleFrameStep
<1>4. CASE Present
  BY <1>4, PresentStep
<1>5. CASE PutImage
  BY <1>5, PutImageStep
<1>6. CASE Dispatch \/ AppDispatches
  BY <1>6, DispatchStep
<1>7. CASE StartPump
  BY <1>7, StartPumpStep
<1>8. CASE Pump
  BY <1>8, PumpStep
<1>9. CASE Flip
  BY <1>9, FlipStep
<1>10. CASE Copy
  BY <1>10, CopyStep
<1>11. CASE Skip
  BY <1>11, SkipStep
<1>12. CASE Hangup
  BY <1>12, HangupStep
<1>13. CASE UNCHANGED vars
  <2>1. UNCHANGED <<kind, online, buffers, turn, call, queue, screen, events, dropped>>
    BY <1>13 DEF vars, windowVars
  <2>2. Typed' /\ Quiet' /\ Underway'
    BY <2>1 DEF IInv, Typed, Quiet, Underway
  <2>3. Once' /\ Marked' /\ Shows(screen)' /\ Shows(queue)'
    BY <2>1 DEF IInv, Once, Marked, Shows, Out
  <2> QED
    BY <2>2, <2>3 DEF IInv
<1> QED
  BY <1>1, <1>2, <1>3, <1>4, <1>5, <1>6, <1>7, <1>8, <1>9, <1>10, <1>11, <1>12, <1>13
  DEF Next, Waiting

-----------------------------------------------------------------------------
(* What the invariant says.                                                *)

LEMMA InvariantTypes == IInv => TypeOK
<1> SUFFICES ASSUME IInv PROVE TypeOK
  OBVIOUS
<1>1. Typed /\ Quiet /\ OnceIn(OutOf(events, screen, queue))
  BY DEF IInv, Once, Out
<1>2. events \in Seq(Image) /\ screen \in Seq(Entry) /\ queue \in Seq(Entry)
  BY <1>1 DEF Typed
<1>3. Len(events) + Len(screen) + Len(queue) <= Images
  BY <1>1, <1>2, OutFits
<1>4. Len(queue) + Len(screen) + Len(events) <= Images
  BY <1>2, <1>3
<1>5. \A i \in Image : /\ buffers[i].pixels \in Frames \cup {<<>>}
                       /\ buffers[i].in_use \in BOOLEAN
                       /\ buffers[i].mapped \in BOOLEAN
  BY <1>1 DEF Typed, Buffers
<1>6. /\ call.at \in {"idle", "wait", "pump"}
      /\ call.at # "idle" => call.image \in Image /\ call.frame \in Frames
  BY <1>1 DEF Typed, Call, Idle
<1> QED
  BY <1>1, <1>4, <1>5, <1>6 DEF TypeOK, Typed

\* Where an element of what is shown or queued stands.
LEMMA HeldAt ==
    ASSUME NEW s \in Seq(Entry), NEW q \in Seq(Entry)
    PROVE  /\ DOMAIN (s \o q) = 1 .. Len(s) + Len(q)
           /\ \A n \in 1 .. Len(s) : (s \o q)[n] = s[n]
           /\ \A n \in 1 .. Len(q) : (s \o q)[Len(s) + n] = q[n]
<1>1. Len(s) \in Nat /\ Len(q) \in Nat
  OBVIOUS
<1>2. /\ s \o q \in Seq(Entry) /\ Len(s \o q) = Len(s) + Len(q)
      /\ \A n \in 1 .. Len(s) + Len(q) :
           (s \o q)[n] = IF n <= Len(s) THEN s[n] ELSE q[n - Len(s)]
  BY ConcatProperties
<1>3. DOMAIN (s \o q) = 1 .. Len(s) + Len(q)
  BY <1>2, LenProperties
<1>4. ASSUME NEW n \in 1 .. Len(q)
      PROVE  (s \o q)[Len(s) + n] = q[n]
  <2>1. /\ Len(s) + n \in 1 .. Len(s) + Len(q)
        /\ ~(Len(s) + n <= Len(s)) /\ Len(s) + n - Len(s) = n
    BY <1>1
  <2> QED
    BY <1>2, <2>1
<1>5. ASSUME NEW n \in 1 .. Len(s)
      PROVE  (s \o q)[n] = s[n]
  <2>1. n \in 1 .. Len(s) + Len(q) /\ n <= Len(s)
    BY <1>1
  <2> QED
    BY <1>2, <2>1
<1> QED
  BY <1>3, <1>4, <1>5

LEMMA InvariantShows == IInv => FramesStayIntact
<1> SUFFICES ASSUME IInv PROVE FramesStayIntact
  OBVIOUS
<1>1. /\ screen \in Seq(Entry) /\ queue \in Seq(Entry)
      /\ Shows(screen) /\ Shows(queue)
      /\ Len(screen) \in Nat /\ Len(queue) \in Nat
  BY DEF IInv, Typed
<1> DEFINE held == screen \o queue
<1>2. /\ DOMAIN held = 1 .. Len(screen) + Len(queue)
      /\ \A n \in 1 .. Len(screen) : held[n] = screen[n]
      /\ \A n \in 1 .. Len(queue) : held[Len(screen) + n] = queue[n]
  BY <1>1, HeldAt
<1> HIDE DEF held
<1>3. ASSUME NEW n \in DOMAIN held
      PROVE  buffers[held[n].image].pixels = held[n].frame
  <2>1. CASE n \in 1 .. Len(screen)
    BY <1>1, <1>2, <2>1 DEF Shows
  <2>2. CASE n > Len(screen)
    <3> DEFINE j == n - Len(screen)
    <3>1. j \in 1 .. Len(queue) /\ n = Len(screen) + j
      BY <1>1, <1>2, <2>2
    <3> HIDE DEF j
    <3> QED
      BY <1>1, <1>2, <3>1 DEF Shows
  <2> QED
    BY <1>1, <1>2, <2>1, <2>2
<1> QED
  BY <1>3 DEF FramesStayIntact, held

LEMMA InvariantAccounts == IInv => InUseIsAccounted
<1> SUFFICES ASSUME IInv, online, kind # "cpu", NEW i \in Image
             PROVE  LET there == {n \in DOMAIN (screen \o queue) : (screen \o queue)[n].image = i}
                        back  == {n \in DOMAIN events : events[n] = i}
                    IN  Cardinality(there) + Cardinality(back)
                          = IF buffers[i].in_use THEN 1 ELSE 0
  BY DEF InUseIsAccounted
<1> DEFINE held == screen \o queue
           there == {n \in DOMAIN held : held[n].image = i}
           back  == {n \in DOMAIN events : events[n] = i}
<1> SUFFICES Cardinality(there) + Cardinality(back) = IF buffers[i].in_use THEN 1 ELSE 0
  OBVIOUS
<1> HIDE DEF there, back
<1>1. /\ events \in Seq(Image) /\ screen \in Seq(Entry) /\ queue \in Seq(Entry)
      /\ Len(events) \in Nat /\ Len(screen) \in Nat /\ Len(queue) \in Nat
      /\ DOMAIN events = 1 .. Len(events)
  BY DEF IInv, Typed
<1>2. /\ DOMAIN held = 1 .. Len(screen) + Len(queue)
      /\ \A n \in 1 .. Len(screen) : held[n] = screen[n]
      /\ \A n \in 1 .. Len(queue) : held[Len(screen) + n] = queue[n]
  BY <1>1, HeldAt
<1>3. /\ Len(Out) = Len(events) + Len(screen) + Len(queue)
      /\ \A n \in 1 .. Len(events) : Out[n] = events[n]
      /\ \A n \in 1 .. Len(screen) : Out[Len(events) + n] = screen[n].image
      /\ \A n \in 1 .. Len(queue) : Out[Len(events) + Len(screen) + n] = queue[n].image
  BY <1>1, OutOfSeq DEF Out
<1> HIDE DEF held
<1>4. ASSUME NEW n \in DOMAIN held
      PROVE  /\ Len(events) + n \in 1 .. Len(Out)
             /\ Out[Len(events) + n] = held[n].image
  <2>1. CASE n \in 1 .. Len(screen)
    BY <1>1, <1>2, <1>3, <2>1
  <2>2. CASE n > Len(screen)
    <3> DEFINE j == n - Len(screen)
    <3>1. /\ j \in 1 .. Len(queue) /\ n = Len(screen) + j
          /\ Len(events) + n = Len(events) + Len(screen) + j
      BY <1>1, <1>2, <2>2
    <3> HIDE DEF j
    <3>2. Out[Len(events) + n] = queue[j].image /\ held[n] = queue[j]
      BY <1>2, <1>3, <3>1
    <3>3. Len(events) + n \in 1 .. Len(Out)
      BY <1>1, <1>2, <1>3
    <3> QED
      BY <3>2, <3>3
  <2> QED
    BY <1>1, <1>2, <2>1, <2>2
<1>5. /\ OnceIn(Out)
      /\ buffers[i].in_use <=> Occurs(Out, i)
  BY DEF IInv, Once, Marked
<1>6. buffers[i].in_use \in BOOLEAN
  BY DEF IInv, Typed, Buffers
<1>7. \A n \in 1 .. Len(Out) :
        \/ n \in DOMAIN events
        \/ n - Len(events) \in DOMAIN held /\ Len(events) + (n - Len(events)) = n
  BY <1>1, <1>2, <1>3
<1>8. \A n \in DOMAIN events : n \in 1 .. Len(Out)
  BY <1>1, <1>3
<1>9. CASE ~buffers[i].in_use
  <2>1. there = {}
    BY <1>4, <1>5, <1>9 DEF Occurs, there
  <2>2. back = {}
    BY <1>1, <1>3, <1>5, <1>8, <1>9 DEF Occurs, back
  <2>3. Cardinality(there) = 0 /\ Cardinality(back) = 0
    BY <2>1, <2>2, FS_EmptySet, Zenon
  <2> QED
    BY <1>9, <2>3
<1>10. CASE buffers[i].in_use
  <2>1. PICK m \in 1 .. Len(Out) : Out[m] = i
    BY <1>5, <1>10 DEF Occurs
  <2>2. /\ \A n \in there : Len(events) + n = m
        /\ \A n \in back : n = m
    BY <1>1, <1>3, <1>4, <1>5, <1>8, <2>1 DEF OnceIn, there, back
  <2>3. CASE m \in DOMAIN events
    <3>1. back = {m} /\ there = {}
      BY <1>1, <1>2, <1>3, <2>1, <2>2, <2>3 DEF there, back
    <3>2. Cardinality(there) = 0 /\ Cardinality(back) = 1
      BY <3>1, FS_EmptySet, FS_Singleton, Zenon
    <3> QED
      BY <1>10, <3>2
  <2>4. CASE m \notin DOMAIN events
    <3> DEFINE j == m - Len(events)
    <3>1. j \in DOMAIN held /\ Len(events) + j = m
      BY <1>7, <2>4
    <3>2. j \in Int /\ \A n \in DOMAIN held : Len(events) + n = m => n = j
      BY <1>1, <1>2
    <3> HIDE DEF j
    <3>3. back = {} /\ there = {j}
      BY <1>4, <2>1, <2>2, <2>4, <3>1, <3>2 DEF there, back
    <3>4. Cardinality(there) = 1 /\ Cardinality(back) = 0
      BY <3>3, FS_EmptySet, FS_Singleton, Zenon
    <3> QED
      BY <1>10, <3>4
  <2> QED
    BY <2>3, <2>4
<1> QED
  BY <1>6, <1>9, <1>10

-----------------------------------------------------------------------------
(* The theorems.                                                           *)

LEMMA Invariance == Spec => []IInv
<1>1. IInv /\ [Next]_vars => IInv'
  BY StepHolds
<1> QED
  BY InitHolds, <1>1, PTL DEF Spec

\* Types, and that no more presents are queued, shown or given back than there
\* are buffers (LinuxWSI and its backends, linux_wsi.cpp).
THEOREM TypeCorrect == Spec => []TypeOK
<1>1. Spec => []IInv
  BY Invariance
<1> QED
  BY <1>1, InvariantTypes, PTL

\* What is shown or queued is the frame the server sent, whatever the window
\* system and the connection do (handle_frame and wait_for_buffer).
THEOREM ShownFramesStayIntact == Spec => []FramesStayIntact
<1>1. Spec => []IInv
  BY Invariance
<1> QED
  BY <1>1, InvariantShows, PTL

\* A buffer is marked in use exactly while the window system has it or its
\* event is to be read (process_events and the release listeners).
THEOREM InUseMarksAreTrue == Spec => []InUseIsAccounted
<1>1. Spec => []IInv
  BY Invariance
<1> QED
  BY <1>1, InvariantAccounts, PTL

\* Whatever the window is doing, a frame comes through its code as it was, and a
\* payload cut short is refused (compress_frame and handle_frame).
THEOREM FramesComeThrough == Spec => []RoundTrip
<1>1. ASSUME NEW s \in SmallFrames PROVE CodedFaithfully(s)
  <2>1. PICK n \in 0 .. MaxSize : s \in [1 .. n -> {1, 2}]
    BY DEF SmallFrames
  <2>2. n \in Nat /\ s \in [1 .. n -> Nat]
    BY <2>1
  <2>3. s \in Seq(Nat)
    BY <2>2
  <2> QED
    BY <2>3, CodeIsExact
<1>2. RoundTrip
  BY <1>1 DEF RoundTrip, AllSmallFrames
<1> QED
  BY <1>2, PTL

-----------------------------------------------------------------------------
(* Presents.  That a present returns is liveness; without fairness it can  *)
(* be said that it is never stuck and how little separates it from its end.*)

\* Can the call take a step, can the window system show a present?
CanGoOn ==
  /\ call.at = "wait"
  /\ \/ kind = "cpu" \/ Free(call.image)
     \/ kind \in Wayland /\ events # <<>>
CanShow == online /\ queue # <<>>

\* A present waits for its buffer only while there is an event to read or the
\* window system has presents to show; with "gbm", and after a frame of the
\* window was dropped, it may wait for what does not come.
NotStuck == call # Idle /\ kind # "gbm" /\ ~dropped => CanGoOn \/ CanShow

\* What a waiting present can see happen: the presents before it are shown, one
\* after the other, and the events read.
Left == 2 * Len(queue) + (IF events = <<>> THEN 0 ELSE 1)

\* A step during a present ends it, takes away some of what is left to happen,
\* or is the end of the connection.
Advances ==
  call # Idle /\ kind # "gbm" =>
    \/ call' = Idle
    \/ call' = call /\ kind' = kind /\ Left' < Left
    \/ call' = call /\ kind' = kind /\ online /\ ~online' /\ Left' <= Left

\* The image of the present in progress, or of the next one.
Expected == IF call = Idle THEN turn ELSE call.image

\* Images take turns: the latest present of a window without dropped frames is
\* of the image before the expected one, and it is the last to be shown.
InTurn ==
  /\ call # Idle => turn = (call.image + 1) % Images
  /\ Len(screen) <= 1
  /\ ~dropped =>
       /\ queue # <<>> => (queue[Len(queue)].image + 1) % Images = Expected
       /\ queue = <<>> /\ screen # <<>> => (screen[1].image + 1) % Images = Expected

LEMMA InitTurn == Init => InTurn
BY DEF Init, InTurn

\* Steps that move no present.
LEMMA TurnUntouched ==
  ASSUME InTurn, UNCHANGED <<turn, queue, screen>>, dropped => dropped',
         call' = Idle <=> call = Idle, call # Idle => call'.image = call.image
  PROVE  InTurn'
BY DEF InTurn, Expected

\* The last of a sequence without its head, and with one element more.
LEMMA LastOfTail ==
  ASSUME NEW s \in Seq(Entry), s # <<>>
  PROVE  /\ Tail(s) # <<>> => Tail(s)[Len(Tail(s))] = s[Len(s)]
         /\ Tail(s) = <<>> => Head(s) = s[Len(s)]
         /\ Len(Tail(s)) = Len(s) - 1 /\ Len(s) \in Nat \ {0}
<1>1. /\ Len(s) \in Nat \ {0} /\ Head(s) = s[1]
      /\ Tail(s) \in Seq(Entry) /\ Len(Tail(s)) = Len(s) - 1
      /\ \A n \in 1 .. Len(s) - 1 : Tail(s)[n] = s[n + 1]
  OBVIOUS
<1>2. Tail(s) = <<>> <=> Len(Tail(s)) = 0
  BY <1>1
<1>3. Tail(s) # <<>> => Len(s) - 1 \in 1 .. Len(s) - 1 /\ (Len(s) - 1) + 1 = Len(s)
  BY <1>1, <1>2
<1>4. Tail(s) = <<>> => Len(s) = 1
  BY <1>1, <1>2
<1> QED
  BY <1>1, <1>3, <1>4

LEMMA TurnStep == IInv /\ InTurn /\ [Next]_vars => InTurn'
<1> SUFFICES ASSUME IInv, InTurn, [Next]_vars PROVE InTurn'
  OBVIOUS
<1>0. /\ queue \in Seq(Entry) /\ screen \in Seq(Entry) /\ call \in {Idle} \cup Call
      /\ call.at # "idle" => call # Idle
  BY DEF IInv, Typed, Idle
<1>1. CASE Shutdown \/ \E k \in Kinds : Open(k)
  <2>1. queue' = <<>> /\ screen' = <<>> /\ call' = Idle
    BY <1>1 DEF Shutdown, Open, windowVars, IInv, Quiet
  <2> QED
    BY <2>1 DEF InTurn
<1>2. ASSUME NEW f \in Frames, HandleFrame(f) PROVE InTurn'
  <2>1. UNCHANGED <<queue, screen>> /\ call = Idle /\ turn' = (turn + 1) % Images
    BY <1>2 DEF HandleFrame
  <2>2. \/ dropped' = TRUE /\ call' = Idle
        \/ dropped' = dropped /\ call' # Idle /\ call'.image = turn
    BY <1>2, <2>1 DEF HandleFrame, Idle
  <2> QED
    BY <2>1, <2>2 DEF InTurn, Expected
<1>3. CASE Present
  <2> DEFINE e == [image |-> call.image, frame |-> call.frame]
  <2>1. call # Idle /\ call' = Idle /\ UNCHANGED <<turn, screen, online>>
    BY <1>0, <1>3 DEF Present
  <2>2. \/ dropped' = TRUE
        \/ dropped' = dropped /\ queue' = IF online THEN Append(queue, e) ELSE queue
    BY <1>3 DEF Present
  <2>3. e \in Entry /\ e.image = call.image
    BY <1>0, <2>1 DEF Call, Entry
  <2>4. ~online => queue = <<>> /\ screen = <<>>
    BY DEF IInv, Quiet
  <2> HIDE DEF e
  <2>5. ASSUME online, dropped' # TRUE
        PROVE  queue' # <<>> /\ queue'[Len(queue')] = e
    <3>1. queue' = Append(queue, e)
      BY <2>2, <2>5
    <3>2. /\ Append(queue, e) \in Seq(Entry) /\ Len(queue) \in Nat
          /\ Len(Append(queue, e)) = Len(queue) + 1
          /\ Append(queue, e)[Len(queue) + 1] = e
      BY <1>0, <2>3
    <3>3. Append(queue, e) # <<>>
      BY <3>2
    <3> QED
      BY <3>1, <3>2, <3>3
  <2> QED
    BY <2>1, <2>2, <2>3, <2>4, <2>5 DEF InTurn, Expected
<1>4. CASE PutImage
  <2> DEFINE e == [image |-> call.image, frame |-> call.frame]
  <2>1. /\ call # Idle /\ call' = Idle /\ UNCHANGED <<turn, queue, online, dropped>>
        /\ screen' = (IF online THEN <<e>> ELSE screen)
    BY <1>0, <1>4 DEF PutImage
  <2>2. queue = <<>> /\ (~online => screen = <<>>)
    BY <1>4 DEF PutImage, IInv, Quiet
  <2>3. e.image = call.image
    OBVIOUS
  <2> HIDE DEF e
  <2>4. online => screen' # <<>> /\ screen'[1] = e /\ Len(screen') = 1
    BY <2>1
  <2> QED
    BY <2>1, <2>2, <2>3, <2>4 DEF InTurn, Expected
<1>5. CASE Dispatch \/ AppDispatches
  <2>1. UNCHANGED <<turn, queue, screen, dropped, call>>
    BY <1>5 DEF Dispatch, AppDispatches
  <2> QED
    BY <2>1, TurnUntouched
<1>6. CASE StartPump \/ Pump
  <2>1. UNCHANGED <<turn, queue, screen, dropped>> /\ call # Idle
    BY <1>0, <1>6 DEF StartPump, Pump, windowVars
  <2>2. call' # Idle /\ call'.image = call.image
    <3>1. call \in Call
      BY <1>0, <2>1
    <3>2. call' = call \/ \E at \in {"wait", "pump"} : call' = [call EXCEPT !.at = at]
      BY <1>6 DEF StartPump, Pump
    <3> QED
      BY <2>1, <3>1, <3>2 DEF Call, Idle
  <2> QED
    BY <2>1, <2>2, TurnUntouched
<1>7. CASE Flip
  <2>1. /\ queue # <<>> /\ queue' = Tail(queue) /\ screen' = <<Head(queue)>>
        /\ UNCHANGED <<turn, call, dropped>>
    BY <1>7 DEF Flip
  <2>2. /\ Tail(queue) # <<>> => Tail(queue)[Len(Tail(queue))] = queue[Len(queue)]
        /\ Tail(queue) = <<>> => Head(queue) = queue[Len(queue)]
    BY <1>0, <2>1, LastOfTail
  <2>3. screen'[1] = Head(queue) /\ Len(screen') = 1
    BY <2>1
  <2> QED
    BY <2>1, <2>2, <2>3 DEF InTurn, Expected
<1>8. CASE Copy
  <2>1. /\ queue # <<>> /\ queue' = Tail(queue) /\ screen' = <<>>
        /\ UNCHANGED <<turn, call, dropped>>
    BY <1>8 DEF Copy
  <2>2. Tail(queue) # <<>> => Tail(queue)[Len(Tail(queue))] = queue[Len(queue)]
    BY <1>0, <2>1, LastOfTail
  <2>3. Len(<<>>) <= 1
    OBVIOUS
  <2> QED
    BY <2>1, <2>2, <2>3 DEF InTurn, Expected
<1>9. CASE Skip
  <2>1. /\ Len(queue) > 1 /\ queue' = Tail(queue)
        /\ UNCHANGED <<turn, call, dropped, screen>>
    BY <1>9 DEF Skip
  <2>2. queue # <<>>
    BY <2>1
  <2>3. /\ Tail(queue) # <<>> => Tail(queue)[Len(Tail(queue))] = queue[Len(queue)]
        /\ Len(Tail(queue)) = Len(queue) - 1 /\ Len(queue) \in Nat
    BY <1>0, <2>2, LastOfTail
  <2>4. Tail(queue) # <<>>
    <3>1. Len(Tail(queue)) # 0
      BY <2>1, <2>3
    <3>2. Tail(queue) = <<>> => Len(Tail(queue)) = Len(<<>>) /\ Len(<<>>) = 0
      OBVIOUS
    <3> QED
      BY <3>1, <3>2
  <2> QED
    BY <2>1, <2>2, <2>3, <2>4 DEF InTurn, Expected
<1>10. CASE Hangup
  <2>1. queue' = <<>> /\ screen' = <<>> /\ UNCHANGED <<turn, call>> /\ Len(<<>>) <= 1
    BY <1>10 DEF Hangup
  <2> QED
    BY <2>1 DEF InTurn
<1>11. CASE UNCHANGED vars
  BY <1>11, TurnUntouched DEF vars, windowVars
<1> QED
  BY <1>1, <1>2, <1>3, <1>4, <1>5, <1>6, <1>7, <1>8, <1>9, <1>10, <1>11 DEF Next, Waiting

LEMMA TurnAlways == Spec => [](IInv /\ InTurn)
<1>1. IInv /\ [Next]_vars => IInv'
  BY StepHolds
<1> QED
  BY InitHolds, InitTurn, <1>1, TurnStep, PTL DEF Spec

\* Of two images or more, the next is another one.
LEMMA NextIsOther ==
  ASSUME NEW i \in Image
  PROVE  (i + 1) % Images # i
<1>1. Images \in Nat /\ Images > 1 /\ i \in Nat /\ i <= Images - 1
  BY WSIAssumption DEF Image
<1>2. CASE i + 1 < Images
  <2>1. (i + 1) % Images = i + 1
    BY <1>1, <1>2
  <2> QED
    BY <1>1, <2>1
<1>3. CASE i + 1 = Images
  <2>1. (i + 1) % Images = 0
    BY <1>1, <1>3
  <2> QED
    BY <1>1, <1>3, <2>1
<1> QED
  BY <1>1, <1>2, <1>3

LEMMA InTurnIsNotStuck == IInv /\ InTurn => NotStuck
<1> SUFFICES ASSUME IInv, InTurn, call # Idle, kind # "gbm", ~dropped, ~CanShow
             PROVE  CanGoOn
  BY DEF NotStuck
<1>1. /\ call \in Call /\ call.at = "wait" /\ kind \in {"cpu"} \cup Wayland
      /\ events \in Seq(Image) /\ screen \in Seq(Entry) /\ queue \in Seq(Entry)
      /\ buffers \in [Image -> Buffers]
  <2>1. Typed /\ Quiet /\ Underway
    BY DEF IInv
  <2>2. kind \in {"gbm", "cpu", "dmabuf", "shm"}
    BY <2>1, WSIAssumption DEF Typed, Quiet
  <2>3. call \in Call /\ call.at = "wait"
    BY <2>1 DEF Typed, Underway, Call
  <2> QED
    BY <2>1, <2>2, <2>3 DEF Wayland, Typed
<1>2. CASE kind = "cpu"
  BY <1>1, <1>2 DEF CanGoOn
<1>3. CASE kind \in Wayland /\ events # <<>>
  BY <1>1, <1>3 DEF CanGoOn
<1>4. CASE kind \in Wayland /\ events = <<>>
  <2> DEFINE i == call.image
  <2> SUFFICES ASSUME ~Free(i) PROVE FALSE
    BY <1>1 DEF CanGoOn
  <2>1. buffers[i].in_use /\ online /\ i \in Image
    BY <1>1, <1>4 DEF Free, Call
  <2>2. queue = <<>>
    BY <2>1 DEF CanShow
  <2>3. Occurs(Out, i)
    BY <1>4, <2>1 DEF IInv, Marked, Wayland
  <2> HIDE DEF i
  <2>4. \E n \in 1 .. Len(screen) : screen[n].image = i
    <3>1. Len(events) = 0 /\ Len(queue) = 0
      BY <1>4, <2>2
    <3>2. \/ \E n \in 1 .. Len(events) : events[n] = i
          \/ \E n \in 1 .. Len(screen) : screen[n].image = i
          \/ \E n \in 1 .. Len(queue) : queue[n].image = i
      BY <1>1, <2>3, OccursSomewhere DEF Out
    <3> QED
      BY <3>1, <3>2
  <2>5. screen # <<>> /\ screen[1].image = i
    <3>1. Len(screen) \in Nat /\ Len(screen) <= 1
      BY <1>1 DEF InTurn
    <3>2. PICK n \in 1 .. Len(screen) : screen[n].image = i
      BY <2>4
    <3>3. n = 1 /\ Len(screen) # 0
      BY <3>1, <3>2
    <3> QED
      BY <3>2, <3>3
  <2>6. (i + 1) % Images = i
    BY <2>2, <2>5 DEF InTurn, Expected, i
  <2> QED
    BY <2>1, <2>6, NextIsOther
<1> QED
  BY <1>1, <1>2, <1>3, <1>4

LEMMA PresentAdvances == IInv /\ [Next]_vars => [Advances]_vars
<1> SUFFICES ASSUME IInv, Next, call # Idle, kind # "gbm"
             PROVE  \/ call' = Idle
                    \/ call' = call /\ kind' = kind /\ Left' < Left
                    \/ call' = call /\ kind' = kind /\ online /\ ~online' /\ Left' <= Left
  BY DEF Advances
<1>1. /\ call.at = "wait" /\ kind # "none"
      /\ queue \in Seq(Entry) /\ events \in Seq(Image)
      /\ Len(queue) \in Nat
  BY DEF IInv, Typed, Quiet, Underway, Call
<1>2. Next <=> \/ Present \/ PutImage \/ Dispatch \/ StartPump \/ Pump
               \/ Flip \/ Copy \/ Skip \/ Hangup
  BY <1>1 DEF Next, Waiting, Open, Shutdown, HandleFrame, AppDispatches
<1>3. CASE Present \/ PutImage
  BY <1>3 DEF Present, PutImage
<1>4. CASE Dispatch
  <2>1. UNCHANGED <<kind, call, queue>> /\ events # <<>> /\ events' = <<>>
    BY <1>4 DEF Dispatch
  <2>2. Left = 2 * Len(queue) + 1 /\ Left' = 2 * Len(queue)
    BY <1>1, <2>1 DEF Left
  <2> QED
    BY <1>1, <2>1, <2>2
<1>5. CASE StartPump \/ Pump
  BY <1>1, <1>5 DEF StartPump, Pump
<1>6. CASE Flip \/ Copy \/ Skip
  <2>1. UNCHANGED <<kind, call>> /\ queue # <<>> /\ queue' = Tail(queue)
    BY <1>1, <1>6 DEF Flip, Copy, Skip
  <2>2. Len(queue') = Len(queue) - 1
    BY <1>1, <2>1, LastOfTail
  <2>3. Left' <= 2 * Len(queue') + 1 /\ Left >= 2 * Len(queue)
    BY <1>1, <2>1, <2>2 DEF Left
  <2>4. Left' \in Int /\ Left \in Int
    BY <1>1, <2>2 DEF Left
  <2> QED
    BY <1>1, <2>1, <2>2, <2>3, <2>4
<1>7. CASE Hangup
  <2>1. UNCHANGED <<kind, call, events>> /\ queue' = <<>> /\ online /\ ~online'
    BY <1>7 DEF Hangup
  <2>2. Len(queue') = 0
    BY <2>1
  <2>3. Left' <= Left
    BY <1>1, <2>1, <2>2 DEF Left
  <2> QED
    BY <2>1, <2>3
<1> QED
  BY <1>2, <1>3, <1>4, <1>5, <1>6, <1>7

\* As long as no frame of the window was dropped, wait_for_buffer is never stuck
\* but with "gbm": the buffer it waits for is not the one that stays on the
\* screen, since images take turns and the one before was presented after it.
THEOREM PresentsAreNotStuck == Spec => []NotStuck
<1> QED
  BY TurnAlways, InTurnIsNotStuck, PTL

\* While a present waits nothing is added to what it waits behind: each step
\* ends it, shows a queued present, reads the events, or is the one loss of the
\* connection (wait_for_buffer, and the window system's side).
THEOREM PresentsAdvance == Spec => [][Advances]_vars
<1>1. Spec => []IInv
  BY Invariance
<1> QED
  BY <1>1, PresentAdvances, PTL DEF Spec
=============================================================================
