------------------------- MODULE NodeMessagesProofs -------------------------
(***************************************************************************)
(* Proofs about the host file and the messages between the nodes, for      *)
(* every list of machines, lengths, buffers and number of messages: that   *)
(* the hosts are read as they were written, that messages are delivered in *)
(* order, and what can end a daemon.                                       *)
(***************************************************************************)
EXTENDS NodeMessages, SequenceTheorems, WellFoundedInduction, TLAPS

-----------------------------------------------------------------------------
(* Induction, for which a set takes the place of the predicate.            *)

\* What holds of 0, and of n + 1 if it holds of n, holds of every number.  A set
\* takes the place of the predicate.
LEMMA Induction ==
  ASSUME NEW T, 0 \in T, \A n \in Nat : n \in T => n + 1 \in T
  PROVE  \A n \in Nat : n \in T
<1> DEFINE U == Nat \ T
           R == OpToRel(<, Nat)
<1>1. SUFFICES ASSUME U # {} PROVE FALSE
  OBVIOUS
<1>2. PICK m \in U : \A y \in U : <<y, m>> \notin R
  <2>1. U \subseteq Nat
    OBVIOUS
  <2> HIDE DEF U, R
  <2>2. IsWellFoundedOn(R, Nat)
    BY NatLessThanWellFounded DEF R
  <2> QED BY <1>1, <2>1, <2>2, WFMin
<1>3. m # 0 /\ m \in Nat
  OBVIOUS
<1>4. m - 1 \in Nat /\ (m - 1) + 1 = m
  BY <1>3
<1>5. <<m - 1, m>> \in R
  BY <1>3, <1>4 DEF OpToRel
<1>6. m - 1 \in T
  BY <1>2, <1>4, <1>5
<1> QED BY <1>4, <1>6

\* Every set of numbers has a least.
LEMMA LeastOf ==
  ASSUME NEW S, S \subseteq Nat, S # {}
  PROVE  Min(S) \in S /\ \A y \in S : Min(S) <= y
<1> DEFINE R == OpToRel(<, Nat)
<1>1. PICK m \in S : \A y \in S : <<y, m>> \notin R
  <2> HIDE DEF R
  <2>1. IsWellFoundedOn(R, Nat)
    BY NatLessThanWellFounded DEF R
  <2> QED BY <2>1, WFMin
<1>2. \A y \in S : ~(y < m)
  BY <1>1 DEF OpToRel
<1>3. \A y \in S : m <= y
  BY <1>2
<1> QED BY <1>3 DEF Min

LEMMA LeastIs ==
  ASSUME NEW S, S \subseteq Nat, NEW m \in S, \A y \in S : m <= y
  PROVE  Min(S) = m
<1>1. Min(S) \in Nat /\ m \in Nat /\ Min(S) <= m /\ m <= Min(S)
  BY LeastOf
<1> QED BY <1>1

\* f begins with a and goes on by steps, each of which may differ.
Goes(f, N, S, a, step) ==
  f \in [0 .. N -> S] /\ f[0] = a /\ \A k \in 1 .. N : f[k] = step[k][f[k - 1]]

\* A function that is defined by recursion exists.
LEMMA Recursion ==
  ASSUME NEW N \in Nat, NEW S, NEW a \in S, NEW step \in [1 .. N -> [S -> S]]
  PROVE  \E f : Goes(f, N, S, a, step)
<1> DEFINE Upto(n) == \E f : Goes(f, n, S, a, step)
           T == {n \in Nat : n <= N => Upto(n)}
<1>1. 0 \in T
  <2>1. [k \in 0 .. 0 |-> a] \in [0 .. 0 -> S] /\ [k \in 0 .. 0 |-> a][0] = a
    OBVIOUS
  <2>2. \A k \in 1 .. 0 : FALSE
    OBVIOUS
  <2>3. Goes([k \in 0 .. 0 |-> a], 0, S, a, step)
    BY <2>1, <2>2 DEF Goes
  <2> QED BY <2>3
<1>2. ASSUME NEW n \in Nat, n \in T PROVE n + 1 \in T
  <2> SUFFICES ASSUME n + 1 <= N PROVE Upto(n + 1)
    OBVIOUS
  <2>0. PICK f : Goes(f, n, S, a, step)
    BY <1>2
  <2>1. f \in [0 .. n -> S] /\ f[0] = a /\ \A k \in 1 .. n : f[k] = step[k][f[k - 1]]
    BY <2>0 DEF Goes
  <2>2. n + 1 \in 1 .. N /\ n \in 0 .. n
    OBVIOUS
  <2> DEFINE b == step[n + 1][f[n]]
             g == [k \in 0 .. n + 1 |-> IF k = n + 1 THEN b ELSE f[k]]
  <2>3. b \in S
    BY <2>1, <2>2
  <2>4. \A k \in 0 .. n : k \in 0 .. n + 1 /\ k # n + 1
    OBVIOUS
  <2>5. \A k \in 0 .. n + 1 : k \in 0 .. n \/ k = n + 1
    OBVIOUS
  <2> HIDE DEF b
  <2>6. g \in [0 .. n + 1 -> S]
    BY <2>1, <2>3, <2>5
  <2>7. g[0] = a
    BY <2>1, <2>4
  <2>8. ASSUME NEW k \in 1 .. n + 1 PROVE g[k] = step[k][g[k - 1]]
    <3>1. CASE k \in 1 .. n
      <4>1. k \in 0 .. n /\ k - 1 \in 0 .. n
        BY <3>1
      <4>2. g[k] = f[k] /\ g[k - 1] = f[k - 1]
        BY <2>4, <4>1
      <4> QED BY <2>1, <3>1, <4>2
    <3>2. CASE k = n + 1
      <4>1. k - 1 = n /\ g[k - 1] = f[n] /\ g[k] = b
        BY <2>4, <3>2
      <4> QED BY <3>2, <4>1 DEF b
    <3> QED BY <3>1, <3>2
  <2> HIDE DEF g
  <2>9. Goes(g, n + 1, S, a, step)
    BY <2>6, <2>7, <2>8 DEF Goes
  <2> QED BY <2>9
<1> HIDE DEF T
<1>3. N \in T
  BY <1>1, <1>2, Induction
<1> QED BY <1>3 DEF T

-----------------------------------------------------------------------------
\* What a file consists of.
Token == Character \cup {OpenTag, CloseTag}

LEMMA BytesType == \A token : Bytes(token) \in Nat \ {0}
BY DEF Bytes

LEMMA SizesType ==
  ASSUME NEW text \in Seq(Token)
  PROVE  /\ Sizes(text) \in [0 .. Len(text) -> Nat] /\ Sizes(text)[0] = 0
         /\ \A n \in 1 .. Len(text) : Sizes(text)[n] = Sizes(text)[n - 1] + Bytes(text[n])
         /\ Size(text) \in Nat
<1> DEFINE N == Len(text)
           Is(g) == g = [n \in 0 .. N |-> IF n = 0 THEN 0 ELSE g[n - 1] + Bytes(text[n])]
           step == [n \in 1 .. N |-> [x \in Nat |-> x + Bytes(text[n])]]
<1>1. step \in [1 .. N -> [Nat -> Nat]]
  BY BytesType
<1>2. N \in Nat
  OBVIOUS
<1>3. PICK f \in [0 .. N -> Nat] : f[0] = 0 /\ \A k \in 1 .. N : f[k] = step[k][f[k - 1]]
  <2> HIDE DEF step, N
  <2>1. \E f : Goes(f, N, Nat, 0, step)
    BY <1>1, <1>2, Recursion
  <2> QED BY <2>1 DEF Goes
<1>4. \A k \in 1 .. N : k \in 0 .. N /\ k - 1 \in 0 .. N /\ k # 0
  BY <1>2
<1>5. \A k \in 1 .. N : f[k] = f[k - 1] + Bytes(text[k])
  BY <1>3, <1>4
<1>6. Is(f)
  <2>1. \A k \in 0 .. N : k = 0 \/ k \in 1 .. N
    BY <1>2
  <2>2. \A k \in 0 .. N : f[k] = IF k = 0 THEN 0 ELSE f[k - 1] + Bytes(text[k])
    BY <1>3, <1>5, <2>1
  <2> HIDE DEF N
  <2> QED BY <2>2
<1>7. Sizes(text) = CHOOSE g : Is(g)
  BY DEF Sizes
<1> HIDE DEF Is
<1>8. Is(Sizes(text))
  BY <1>6, <1>7
<1> DEFINE c == Sizes(text)
<1> HIDE DEF N, c
<1>9. c = [n \in 0 .. N |-> IF n = 0 THEN 0 ELSE c[n - 1] + Bytes(text[n])]
  BY <1>8 DEF Is, c
<1>10. c[0] = 0 /\ \A k \in 1 .. N : c[k] = c[k - 1] + Bytes(text[k])
  BY <1>2, <1>4, <1>9
<1> DEFINE T == {n \in Nat : n <= N => c[n] \in Nat}
<1>11. \A n \in Nat : n \in T
  <2>1. 0 \in T
    BY <1>10
  <2>2. ASSUME NEW n \in Nat, n \in T PROVE n + 1 \in T
    <3> SUFFICES ASSUME n + 1 <= N PROVE c[n + 1] \in Nat
      OBVIOUS
    <3>1. n + 1 \in 1 .. N /\ (n + 1) - 1 = n /\ n <= N
      BY <1>2
    <3> QED BY <1>10, <2>2, <3>1, BytesType
  <2> HIDE DEF T
  <2> QED BY <2>1, <2>2, Induction
<1>12. \A n \in 0 .. N : c[n] \in Nat
  BY <1>2, <1>11
<1>13. c \in [0 .. N -> Nat]
  BY <1>9, <1>12
<1>14. c[N] \in Nat
  BY <1>2, <1>12
<1> QED BY <1>10, <1>13, <1>14 DEF c, N, Size
\* A longer beginning takes more bytes.
LEMMA SizesGrow ==
  ASSUME NEW text \in Seq(Token), NEW p \in 0 .. Len(text), NEW q \in 0 .. Len(text), p <= q
  PROVE  Sizes(text)[p] <= Sizes(text)[q] /\ (p < q => Sizes(text)[p] < Sizes(text)[q])
<1> DEFINE c == Sizes(text)
           N == Len(text)
           T == {d \in Nat : p + d <= N => c[p] + d <= c[p + d]}
<1>1. /\ c \in [0 .. N -> Nat] /\ N \in Nat
      /\ \A n \in 1 .. N : c[n] = c[n - 1] + Bytes(text[n])
  BY SizesType
<1> HIDE DEF c, N
<1>2. 0 \in T
  BY <1>1 DEF N
<1>3. ASSUME NEW d \in Nat, d \in T PROVE d + 1 \in T
  <2> SUFFICES ASSUME p + (d + 1) <= N PROVE c[p] + (d + 1) <= c[p + (d + 1)]
    OBVIOUS
  <2>1. p \in 0 .. N
    BY DEF N
  <2>2. p + (d + 1) \in 1 .. N /\ (p + (d + 1)) - 1 = p + d /\ p + d \in 0 .. N
    BY <1>1, <2>1
  <2>3. c[p + (d + 1)] = c[p + d] + Bytes(text[p + (d + 1)])
    BY <1>1, <2>2
  <2>4. c[p] + d <= c[p + d]
    BY <1>3, <2>2
  <2>5. c[p] \in Nat /\ c[p + d] \in Nat
    BY <1>1, <2>1, <2>2
  <2>6. \A x, y \in Nat : \A z \in Nat \ {0} : x + d <= y => x + (d + 1) <= y + z
    OBVIOUS
  <2>7. Bytes(text[p + (d + 1)]) \in Nat \ {0}
    BY BytesType
  <2> QED BY <2>3, <2>4, <2>5, <2>6, <2>7
<1>4. q - p \in Nat /\ p + (q - p) = q /\ q <= N /\ p \in 0 .. N /\ q \in 0 .. N
  BY DEF N
<1>5. q - p \in T
  <2> HIDE DEF T
  <2> QED BY <1>2, <1>3, <1>4, Induction
<1>6. c[p] + (q - p) <= c[q]
  BY <1>4, <1>5
<1>7. c[p] \in Nat /\ c[q] \in Nat
  BY <1>1, <1>4
<1> QED BY <1>4, <1>6, <1>7 DEF c

\* Bytes are counted alike wherever a part stands in a text.
LEMMA SizesShift ==
  ASSUME NEW text \in Seq(Token), NEW part \in Seq(Token), NEW p \in Nat,
         p + Len(part) <= Len(text), \A q \in 1 .. Len(part) : text[p + q] = part[q]
  PROVE  \A n \in 0 .. Len(part) : Sizes(text)[p + n] = Sizes(text)[p] + Sizes(part)[n]
<1> DEFINE c == Sizes(text)
           b == Sizes(part)
           N == Len(text)
           M == Len(part)
           T == {n \in Nat : n <= M => c[p + n] = c[p] + b[n]}
<1>1. /\ c \in [0 .. N -> Nat] /\ N \in Nat
      /\ \A n \in 1 .. N : c[n] = c[n - 1] + Bytes(text[n])
  BY SizesType
<1>2. /\ b \in [0 .. M -> Nat] /\ M \in Nat /\ b[0] = 0
      /\ \A n \in 1 .. M : b[n] = b[n - 1] + Bytes(part[n])
  BY SizesType
<1>3. p + M <= N /\ \A q \in 1 .. M : text[p + q] = part[q]
  OBVIOUS
<1> HIDE DEF c, b, N, M
<1>4. 0 \in T
  <2>1. p \in 0 .. N
    BY <1>1, <1>2, <1>3
  <2> QED BY <1>1, <1>2, <2>1
<1>5. ASSUME NEW n \in Nat, n \in T PROVE n + 1 \in T
  <2> SUFFICES ASSUME n + 1 <= M PROVE c[p + (n + 1)] = c[p] + b[n + 1]
    OBVIOUS
  <2>1. n + 1 \in 1 .. M /\ (n + 1) - 1 = n /\ n \in 0 .. M /\ n <= M
    BY <1>2
  <2>2. /\ p + (n + 1) \in 1 .. N /\ (p + (n + 1)) - 1 = p + n
        /\ p \in 0 .. N
    BY <1>1, <1>2, <1>3, <2>1
  <2>3. c[p + (n + 1)] = c[p + n] + Bytes(text[p + (n + 1)])
    BY <1>1, <2>2
  <2>4. b[n + 1] = b[n] + Bytes(part[n + 1])
    BY <1>2, <2>1
  <2>5. text[p + (n + 1)] = part[n + 1]
    BY <1>3, <2>1
  <2>6. c[p + n] = c[p] + b[n]
    BY <1>5, <2>1
  <2>7. c[p] \in Nat /\ b[n] \in Nat
    BY <1>1, <1>2, <2>1, <2>2
  <2> QED BY <2>3, <2>4, <2>5, <2>6, <2>7, BytesType
<1>6. \A n \in Nat : n \in T
  <2> HIDE DEF T
  <2> QED BY <1>4, <1>5, Induction
<1>7. \A n \in 0 .. M : c[p + n] = c[p] + b[n]
  BY <1>2, <1>6
<1> QED BY <1>7 DEF c, b, M

\* What is read is the longest beginning that fits: all of the file, or it is too long.
LEMMA BufferIs ==
  ASSUME NEW file \in Seq(Token)
  PROVE  \E n \in 0 .. Len(file) :
           InBuffer(file) = SubSeq(file, 1, n) /\ (n = Len(file) \/ Size(file) > FileBuffer)
<1> DEFINE c == Sizes(file)
           N == Len(file)
           S == {n \in 0 .. N : c[n] <= FileBuffer}
           Most(m, n) == m \in S /\ m <= n /\ \A x \in S : x <= n => x <= m
           T == {n \in Nat : n <= N => \E m \in 0 .. N : Most(m, n)}
<1>1. c \in [0 .. N -> Nat] /\ c[0] = 0 /\ N \in Nat
  BY SizesType
<1> HIDE DEF c, N
<1>2. 0 \in S
  BY <1>1, FileBufferAssumption
<1>3. 0 \in T
  <2>1. Most(0, 0)
    BY <1>2
  <2>2. 0 \in 0 .. N
    BY <1>1
  <2> HIDE DEF Most
  <2> QED BY <2>1, <2>2
<1>4. ASSUME NEW n \in Nat, n \in T PROVE n + 1 \in T
  <2> SUFFICES ASSUME n + 1 <= N PROVE \E m \in 0 .. N : Most(m, n + 1)
    OBVIOUS
  <2>1. n + 1 \in 0 .. N /\ n <= N
    BY <1>1
  <2>2. CASE n + 1 \in S
    <3>1. Most(n + 1, n + 1)
      BY <2>2
    <3> QED BY <2>1, <3>1
  <2>3. CASE n + 1 \notin S
    <3>1. PICK m \in 0 .. N : Most(m, n)
      BY <1>4, <2>1
    <3>2. \A x \in S : x <= n + 1 => x <= n
      BY <2>3
    <3>3. Most(m, n + 1)
      BY <1>1, <3>1, <3>2
    <3> QED BY <3>3
  <2> QED BY <2>2, <2>3
<1>5. N \in T
  <2> HIDE DEF T
  <2> QED BY <1>1, <1>3, <1>4, Induction
<1>6. PICK m \in 0 .. N : m \in S /\ \A x \in S : x <= m
  <2>1. PICK m \in 0 .. N : Most(m, N)
    BY <1>1, <1>5
  <2>2. \A x \in S : x <= N
    BY <1>1
  <2> QED BY <2>1, <2>2
<1>7. Max(S) = m
  <2>1. \A x \in S : x \in Int
    OBVIOUS
  <2>2. \A y \in S : m >= y
    BY <1>6, <2>1
  <2>3. ASSUME NEW x \in S, \A y \in S : x >= y PROVE x = m
    <3>1. x >= m /\ x <= m /\ x \in Int /\ m \in Int
      BY <1>6, <2>1, <2>3
    <3> QED BY <3>1
  <2> HIDE DEF S
  <2> QED BY <1>6, <2>2, <2>3 DEF Max
<1>8. InBuffer(file) = SubSeq(file, 1, m)
  BY <1>7 DEF InBuffer, c, N
<1>9. m = N \/ Size(file) > FileBuffer
  <2>1. CASE N \in S
    BY <1>1, <1>6, <2>1
  <2>2. CASE N \notin S
    <3>1. ~(c[N] <= FileBuffer) /\ c[N] \in Nat
      BY <1>1, <2>2
    <3> QED BY <3>1, FileBufferAssumption DEF Size, c, N
  <2> QED BY <2>1, <2>2
<1> QED BY <1>8, <1>9 DEF N

-----------------------------------------------------------------------------
(* The file of a list of addresses.                                        *)

LEMMA CharacterIs == \A x \in Character : x \in Token /\ x # OpenTag /\ x # CloseTag
BY DEF Character, Token

LEMMA TextIs == \A s \in Seq(Character) : /\ s \in Seq(Token)
                                         /\ \A q \in 1 .. Len(s) : s[q] # OpenTag /\ s[q] # CloseTag
<1> TAKE s \in Seq(Character)
<1>1. \A q \in 1 .. Len(s) : s[q] \in Character
  OBVIOUS
<1>2. \A q \in 1 .. Len(s) : s[q] \in Token /\ s[q] # OpenTag /\ s[q] # CloseTag
  BY <1>1, CharacterIs
<1> QED BY <1>2

LEMMA AddressIs ==
  ASSUME addresses \in AddressLists
  PROVE  /\ Len(addresses) \in Nat /\ Len(Between) \in Nat /\ Between \in Seq(Token)
         /\ \A n \in 1 .. Len(addresses) :
              /\ addresses[n] \in Seq(Token) /\ Len(addresses[n]) \in Nat \ {0}
              /\ \A q \in 1 .. Len(addresses[n]) :
                   addresses[n][q] # OpenTag /\ addresses[n][q] # CloseTag
         /\ \A q \in 1 .. Len(Between) : Between[q] # OpenTag /\ Between[q] # CloseTag
<1>1. addresses \in Seq(Seq(Character) \ {<<>>})
  BY AddressAssumption
<1>2. Len(addresses) \in Nat /\ \A n \in 1 .. Len(addresses) : addresses[n] \in Seq(Character) \ {<<>>}
  BY <1>1
<1>3. \A s \in Seq(Character) : Len(s) \in Nat /\ (s # <<>> => Len(s) # 0)
  OBVIOUS
<1>4. Between \in Seq(Token) /\ Len(Between) \in Nat
      /\ \A q \in 1 .. Len(Between) : Between[q] # OpenTag /\ Between[q] # CloseTag
  BY <1>3, BetweenAssumption, TextIs
<1>5. ASSUME NEW n \in 1 .. Len(addresses)
      PROVE  /\ addresses[n] \in Seq(Token) /\ Len(addresses[n]) \in Nat \ {0}
             /\ \A q \in 1 .. Len(addresses[n]) :
                  addresses[n][q] # OpenTag /\ addresses[n][q] # CloseTag
  BY <1>2, <1>3, TextIs
<1> QED BY <1>2, <1>4, <1>5

LEMMA Joined ==
  ASSUME NEW v \in Seq(Token), NEW u \in Seq(Token)
  PROVE  /\ v \o u \in Seq(Token) /\ Len(v \o u) = Len(v) + Len(u)
         /\ \A q \in 1 .. Len(v) : (v \o u)[q] = v[q]
         /\ \A q \in 1 .. Len(u) : (v \o u)[Len(v) + q] = u[q]
<1>1. v \o u \in Seq(Token) /\ Len(v \o u) = Len(v) + Len(u)
  OBVIOUS
<1>2. ASSUME NEW q \in 1 .. Len(v) PROVE (v \o u)[q] = v[q]
  OBVIOUS
<1>3. ASSUME NEW q \in 1 .. Len(u) PROVE (v \o u)[Len(v) + q] = u[q]
  OBVIOUS
<1> QED BY <1>1, <1>2, <1>3

LEMMA AddressesAre ==
  ASSUME addresses \in AddressLists
  PROVE  addresses \in Seq(Seq(Token)) /\ Len(addresses) \in Nat
<1>1. addresses \in Seq(Seq(Character) \ {<<>>})
  BY AddressAssumption
<1>2. Len(addresses) \in Nat /\ \A m \in 1 .. Len(addresses) : addresses[m] \in Seq(Token)
  BY AddressIs
<1> QED BY <1>1, <1>2

\* A beginning of a file with one more entry, part by part.
Longer(w, a, b) == w \o <<OpenTag>> \o a \o <<CloseTag>> \o b

Lengthens(v, w, a, b) ==
  LET at == Len(w) + 1 + Len(a) + 1 IN
  /\ v \in Seq(Token) /\ Len(v) = at + Len(b)
  /\ \A q \in 1 .. Len(w) : v[q] = w[q]
  /\ v[Len(w) + 1] = OpenTag
  /\ \A q \in 1 .. Len(a) : v[Len(w) + 1 + q] = a[q]
  /\ v[at] = CloseTag
  /\ \A q \in 1 .. Len(b) : v[at + q] = b[q]

LEMMA LongerIs ==
  ASSUME NEW w \in Seq(Token), NEW a \in Seq(Token), NEW b \in Seq(Token)
  PROVE  Lengthens(Longer(w, a, b), w, a, b)
<1>1. OpenTag \in Token /\ CloseTag \in Token
  BY DEF Token
<1>2. /\ <<OpenTag>> \in Seq(Token) /\ Len(<<OpenTag>>) = 1 /\ <<OpenTag>>[1] = OpenTag
      /\ <<CloseTag>> \in Seq(Token) /\ Len(<<CloseTag>>) = 1 /\ <<CloseTag>>[1] = CloseTag
  BY <1>1
<1> DEFINE open == <<OpenTag>>
           close == <<CloseTag>>
<1>3. open \in Seq(Token) /\ Len(open) = 1 /\ open[1] = OpenTag
  BY <1>2
<1>4. close \in Seq(Token) /\ Len(close) = 1 /\ close[1] = CloseTag
  BY <1>2
<1> DEFINE w1 == w \o open
           w2 == w1 \o a
           w3 == w2 \o close
           w4 == w3 \o b
<1>5. w4 = Longer(w, a, b)
  BY DEF Longer
<1>6. Len(w) \in Nat /\ Len(a) \in Nat /\ Len(b) \in Nat
  OBVIOUS
<1> HIDE DEF open, close, w1, w2, w3, w4
<1>7. /\ w1 \in Seq(Token) /\ Len(w1) = Len(w) + 1 /\ w1[Len(w) + 1] = OpenTag
      /\ \A q \in 1 .. Len(w) : w1[q] = w[q]
  <2>1. 1 \in 1 .. Len(open)
    BY <1>3
  <2>2. /\ w1 \in Seq(Token) /\ Len(w1) = Len(w) + Len(open)
        /\ \A q \in 1 .. Len(w) : w1[q] = w[q]
        /\ \A q \in 1 .. Len(open) : w1[Len(w) + q] = open[q]
    <3>1. open \in Seq(Token)
      BY <1>3
    <3> QED BY <3>1, Joined DEF w1
  <2> QED BY <1>3, <2>1, <2>2
<1>8. /\ w2 \in Seq(Token) /\ Len(w2) = Len(w1) + Len(a)
      /\ \A q \in 1 .. Len(w1) : w2[q] = w1[q]
      /\ \A q \in 1 .. Len(a) : w2[Len(w1) + q] = a[q]
  <2>1. w1 \in Seq(Token)
    BY <1>7
  <2> QED BY <2>1, Joined DEF w2
<1>9. /\ w3 \in Seq(Token) /\ Len(w3) = Len(w2) + 1 /\ w3[Len(w2) + 1] = CloseTag
      /\ \A q \in 1 .. Len(w2) : w3[q] = w2[q]
  <2>1. 1 \in 1 .. Len(close)
    BY <1>4
  <2>2. /\ w3 \in Seq(Token) /\ Len(w3) = Len(w2) + Len(close)
        /\ \A q \in 1 .. Len(w2) : w3[q] = w2[q]
        /\ \A q \in 1 .. Len(close) : w3[Len(w2) + q] = close[q]
    <3>1. close \in Seq(Token) /\ w2 \in Seq(Token)
      BY <1>4, <1>8
    <3> QED BY <3>1, Joined DEF w3
  <2> QED BY <1>4, <2>1, <2>2
<1>10. /\ w4 \in Seq(Token) /\ Len(w4) = Len(w3) + Len(b)
       /\ \A q \in 1 .. Len(w3) : w4[q] = w3[q]
       /\ \A q \in 1 .. Len(b) : w4[Len(w3) + q] = b[q]
  <2>1. w3 \in Seq(Token)
    BY <1>9
  <2> QED BY <2>1, Joined DEF w4
<1>11. Len(w1) = Len(w) + 1 /\ Len(w2) = Len(w) + 1 + Len(a) /\ Len(w3) = Len(w) + 1 + Len(a) + 1
  <2>1. Len(w1) = Len(w) + 1 /\ Len(w2) = Len(w1) + Len(a) /\ Len(w3) = Len(w2) + 1
    BY <1>7, <1>8, <1>9
  <2> QED BY <1>6, <2>1
<1>12. \A q \in 1 .. Len(w) : w4[q] = w[q]
  <2> TAKE q \in 1 .. Len(w)
  <2>1. q \in 1 .. Len(w1) /\ q \in 1 .. Len(w2) /\ q \in 1 .. Len(w3)
    BY <1>11, <1>6
  <2> QED BY <1>7, <1>8, <1>9, <1>10, <2>1
<1>13. w4[Len(w) + 1] = OpenTag
  <2>1. Len(w) + 1 \in 1 .. Len(w1) /\ Len(w) + 1 \in 1 .. Len(w2) /\ Len(w) + 1 \in 1 .. Len(w3)
    BY <1>11, <1>6
  <2> QED BY <1>7, <1>8, <1>9, <1>10, <2>1
<1>14. \A q \in 1 .. Len(a) : w4[Len(w) + 1 + q] = a[q]
  <2> TAKE q \in 1 .. Len(a)
  <2>1. Len(w) + 1 + q \in 1 .. Len(w2) /\ Len(w) + 1 + q \in 1 .. Len(w3)
    BY <1>11, <1>6
  <2>2. w2[Len(w) + 1 + q] = a[q]
    BY <1>8, <1>11
  <2> QED BY <1>9, <1>10, <2>1, <2>2
<1>15. w4[Len(w) + 1 + Len(a) + 1] = CloseTag
  <2>1. Len(w) + 1 + Len(a) + 1 = Len(w2) + 1 /\ Len(w2) + 1 \in 1 .. Len(w3)
    BY <1>11, <1>6
  <2> QED BY <1>9, <1>10, <2>1
<1>16. Len(w4) = Len(w) + 1 + Len(a) + 1 + Len(b)
  <2>1. Len(w4) = Len(w3) + Len(b)
    BY <1>10
  <2> QED BY <1>11, <2>1
<1>17. \A q \in 1 .. Len(b) : w4[Len(w) + 1 + Len(a) + 1 + q] = b[q]
  <2>1. \A q \in 1 .. Len(b) : w4[Len(w3) + q] = b[q]
    <3>1. w3 \in Seq(Token)
      BY <1>9
    <3> QED BY <3>1, Joined DEF w4
  <2> QED BY <1>11, <2>1
<1> QED BY <1>10, <1>12, <1>13, <1>14, <1>15, <1>5, <1>16, <1>17 DEF Lengthens

LEMMA BeginningsAre ==
  ASSUME addresses \in AddressLists
  PROVE  LET w == Beginnings(addresses, Between) IN
         /\ w \in [0 .. Len(addresses) -> Seq(Token)] /\ w[0] = Between
         /\ \A n \in 1 .. Len(addresses) : w[n] = Longer(w[n - 1], addresses[n], Between)
<1> DEFINE N == Len(addresses)
           S == Seq(Token)
           Is(g) == g = [n \in 0 .. N |-> IF n = 0 THEN Between
                                          ELSE Longer(g[n - 1], addresses[n], Between)]
           step == [n \in 1 .. N |-> [x \in S |-> Longer(x, addresses[n], Between)]]
<1>1. N \in Nat /\ Between \in S /\ \A n \in 1 .. N : addresses[n] \in S
  BY AddressIs
<1>2. \A n \in 1 .. N : \A x \in S : Longer(x, addresses[n], Between) \in S
  BY <1>1, LongerIs DEF Lengthens
<1> HIDE DEF S, N
<1>3. step \in [1 .. N -> [S -> S]]
  BY <1>2
<1>4. PICK f : Goes(f, N, S, Between, step)
  <2> HIDE DEF step
  <2> QED BY <1>1, <1>3, Recursion
<1>5. f \in [0 .. N -> S] /\ f[0] = Between /\ \A k \in 1 .. N : f[k] = step[k][f[k - 1]]
  BY <1>4 DEF Goes
<1>6. \A k \in 1 .. N : f[k - 1] \in S /\ k # 0
  BY <1>1, <1>5
<1>7. \A k \in 1 .. N : f[k] = Longer(f[k - 1], addresses[k], Between)
  BY <1>5, <1>6
<1>8. Is(f)
  <2>1. \A k \in 0 .. N : k = 0 \/ k \in 1 .. N
    BY <1>1
  <2>2. \A k \in 0 .. N : f[k] = IF k = 0 THEN Between ELSE Longer(f[k - 1], addresses[k], Between)
    BY <1>5, <1>7, <2>1
  <2> QED BY <1>5, <2>2
<1>9. Beginnings(addresses, Between) = CHOOSE g : Is(g)
  BY DEF Beginnings, Longer, N
<1> DEFINE w == Beginnings(addresses, Between)
<1>10. Is(w)
  <2> HIDE DEF Is
  <2> QED BY <1>8, <1>9
<1> HIDE DEF w
<1>11. w[0] = Between /\ \A k \in 1 .. N : w[k] = Longer(w[k - 1], addresses[k], Between)
  <2>1. 0 \in 0 .. N /\ \A k \in 1 .. N : k \in 0 .. N /\ k # 0
    BY <1>1
  <2> QED BY <1>10, <2>1
<1> DEFINE T == {n \in Nat : n <= N => w[n] \in S}
<1>12. \A n \in Nat : n \in T
  <2>1. 0 \in T
    BY <1>1, <1>11
  <2>2. ASSUME NEW n \in Nat, n \in T PROVE n + 1 \in T
    <3> SUFFICES ASSUME n + 1 <= N PROVE w[n + 1] \in S
      OBVIOUS
    <3>1. n + 1 \in 1 .. N /\ (n + 1) - 1 = n /\ n <= N
      BY <1>1
    <3> QED BY <1>2, <1>11, <2>2, <3>1
  <2> HIDE DEF T
  <2> QED BY <2>1, <2>2, Induction
<1>13. \A n \in 0 .. N : w[n] \in S
  BY <1>1, <1>12
<1>14. w \in [0 .. N -> S]
  BY <1>10, <1>13
<1> QED BY <1>11, <1>14 DEF w, N, S

\* Where the n-th entry of the file ends, and the file itself.
EndAt(n) == Len(Beginnings(addresses, Between)[n]) - Len(Between)
File == Written(addresses, Between)

LEMMA EndsAre ==
  ASSUME addresses \in AddressLists
  PROVE  /\ EndAt(0) = 0
         /\ \A n \in 0 .. Len(addresses) :
              /\ EndAt(n) \in Nat /\ EndAt(n) >= n
              /\ Len(Beginnings(addresses, Between)[n]) = EndAt(n) + Len(Between)
         /\ \A n \in 0 .. Len(addresses) - 1 :
              EndAt(n + 1) = EndAt(n) + Len(Between) + 1 + Len(addresses[n + 1]) + 1
<1> DEFINE w == Beginnings(addresses, Between)
           N == Len(addresses)
           B == Len(Between)
<1>1. /\ w \in [0 .. N -> Seq(Token)] /\ w[0] = Between
      /\ \A n \in 1 .. N : w[n] = Longer(w[n - 1], addresses[n], Between)
  BY BeginningsAre
<1>2. /\ N \in Nat /\ B \in Nat /\ Between \in Seq(Token)
      /\ \A n \in 1 .. N : addresses[n] \in Seq(Token) /\ Len(addresses[n]) \in Nat
  BY AddressIs
<1> HIDE DEF w, N
<1>3. \A n \in 0 .. N : Len(w[n]) \in Nat
  BY <1>1
<1>4. \A n \in 1 .. N : Len(w[n]) = Len(w[n - 1]) + 1 + Len(addresses[n]) + 1 + B
  <2> TAKE n \in 1 .. N
  <2>1. n - 1 \in 0 .. N
    BY <1>2
  <2>2. Lengthens(w[n], w[n - 1], addresses[n], Between)
    BY <1>1, <1>2, <2>1, LongerIs
  <2> QED BY <2>2 DEF Lengthens, B
<1> HIDE DEF B
<1> DEFINE e(n) == Len(w[n]) - B
<1>5. e(0) = 0
  BY <1>1, <1>2 DEF B
<1>6. ASSUME NEW n \in 0 .. N - 1 PROVE e(n + 1) = e(n) + B + 1 + Len(addresses[n + 1]) + 1
  <2>1. n + 1 \in 1 .. N /\ (n + 1) - 1 = n /\ n \in 0 .. N /\ n + 1 \in 0 .. N
    BY <1>2
  <2>2. Len(w[n]) \in Nat /\ Len(w[n + 1]) \in Nat /\ Len(addresses[n + 1]) \in Nat
    BY <1>2, <1>3, <2>1
  <2>3. Len(w[n + 1]) = Len(w[n]) + 1 + Len(addresses[n + 1]) + 1 + B
    BY <1>4, <2>1
  <2> QED BY <1>2, <2>2, <2>3
<1>7. \A n \in 0 .. N : e(n) \in Int /\ Len(w[n]) = e(n) + B
  BY <1>2, <1>3
<1> HIDE DEF e
<1> DEFINE T == {n \in Nat : n <= N => e(n) \in Nat /\ e(n) >= n}
<1>8. \A n \in Nat : n \in T
  <2>1. 0 \in T
    BY <1>5
  <2>2. ASSUME NEW n \in Nat, n \in T PROVE n + 1 \in T
    <3> SUFFICES ASSUME n + 1 <= N PROVE e(n + 1) \in Nat /\ e(n + 1) >= n + 1
      OBVIOUS
    <3>1. n \in 0 .. N - 1 /\ n + 1 \in 1 .. N /\ n <= N
      BY <1>2
    <3>2. e(n) \in Nat /\ e(n) >= n /\ Len(addresses[n + 1]) \in Nat
      BY <1>2, <2>2, <3>1
    <3> QED BY <1>2, <1>6, <3>1, <3>2
  <2> HIDE DEF T
  <2> QED BY <2>1, <2>2, Induction
<1>9. \A n \in 0 .. N : e(n) \in Nat /\ e(n) >= n
  BY <1>2, <1>8
<1>10. \A n : e(n) = EndAt(n)
  BY DEF e, EndAt, w, B
<1> HIDE DEF T
<1> QED BY <1>5, <1>6, <1>7, <1>9, <1>10 DEF w, N, B

\* A beginning of the file goes on as it began.
LEMMA BeginningKept ==
  ASSUME addresses \in AddressLists,
         NEW n \in 0 .. Len(addresses), NEW m \in 0 .. Len(addresses), n <= m
  PROVE  LET w == Beginnings(addresses, Between) IN
         Len(w[n]) <= Len(w[m]) /\ \A q \in 1 .. Len(w[n]) : w[m][q] = w[n][q]
<1> DEFINE w == Beginnings(addresses, Between)
           N == Len(addresses)
           Kept(j) == Len(w[n]) <= Len(w[j]) /\ \A q \in 1 .. Len(w[n]) : w[j][q] = w[n][q]
           T == {d \in Nat : n + d <= N => Kept(n + d)}
<1>1. /\ w \in [0 .. N -> Seq(Token)]
      /\ \A j \in 1 .. N : w[j] = Longer(w[j - 1], addresses[j], Between)
  BY BeginningsAre
<1>2. /\ N \in Nat /\ Between \in Seq(Token)
      /\ \A j \in 1 .. N : addresses[j] \in Seq(Token)
  BY AddressIs
<1>3. n \in 0 .. N /\ m \in 0 .. N /\ m - n \in Nat /\ n + (m - n) = m /\ m <= N
  OBVIOUS
<1> HIDE DEF w, N
<1>4. \A j \in 0 .. N : Len(w[j]) \in Nat
  BY <1>1
<1>5. 0 \in T
  <2>1. n + 0 = n /\ Len(w[n]) <= Len(w[n])
    BY <1>3, <1>4
  <2> QED BY <2>1
<1>6. ASSUME NEW d \in Nat, d \in T PROVE d + 1 \in T
  <2> SUFFICES ASSUME n + (d + 1) <= N PROVE Kept(n + (d + 1))
    OBVIOUS
  <2> DEFINE j == n + (d + 1)
  <2>1. j \in 1 .. N /\ j - 1 = n + d /\ n + d \in 0 .. N
    BY <1>2, <1>3
  <2>2. Kept(n + d)
    <3>1. n + d <= N
      BY <1>2, <2>1
    <3> HIDE DEF Kept, j
    <3> QED BY <1>6, <3>1
  <2> HIDE DEF j
  <2>3. /\ w[n + d] \in Seq(Token) /\ addresses[j] \in Seq(Token)
        /\ w[j] = Longer(w[n + d], addresses[j], Between)
    BY <1>1, <1>2, <2>1
  <2>8. Lengthens(w[j], w[n + d], addresses[j], Between)
    BY <1>2, <2>3, LongerIs
  <2>4. /\ Len(w[j]) = Len(w[n + d]) + 1 + Len(addresses[j]) + 1 + Len(Between)
        /\ \A q \in 1 .. Len(w[n + d]) : w[j][q] = w[n + d][q]
    BY <2>8 DEF Lengthens
  <2>5. Len(w[n]) \in Nat /\ Len(w[n + d]) \in Nat /\ Len(addresses[j]) \in Nat /\ Len(Between) \in Nat
    BY <1>2, <1>3, <1>4, <2>1, <2>3
  <2>6. Len(w[n]) <= Len(w[j])
    <3>1. Len(w[n]) <= Len(w[n + d])
      BY <2>2
    <3>2. \A x, y, u, v \in Nat : x <= y => x <= y + 1 + u + 1 + v
      OBVIOUS
    <3> QED BY <2>4, <2>5, <3>1, <3>2
  <2>7. ASSUME NEW q \in 1 .. Len(w[n]) PROVE w[j][q] = w[n][q]
    <3>1. q \in 1 .. Len(w[n + d])
      BY <2>2, <2>5
    <3> QED BY <2>2, <2>4, <3>1
  <2> QED BY <2>6, <2>7 DEF j
<1>7. m - n \in T
  <2> HIDE DEF T
  <2> QED BY <1>3, <1>5, <1>6, Induction
<1>8. Kept(m)
  BY <1>3, <1>7
<1> QED BY <1>8 DEF w

\* What is written between the end of an entry and the end of the next.
LEMMA EntryIs ==
  ASSUME addresses \in AddressLists, NEW n \in 0 .. Len(addresses) - 1
  PROVE  LET a == addresses[n + 1]
             from == EndAt(n) + Len(Between)
         IN /\ EndAt(n + 1) <= Len(File) /\ File[from + 1] = OpenTag
            /\ \A q \in 1 .. Len(a) : File[from + 1 + q] = a[q]
            /\ File[EndAt(n + 1)] = CloseTag
<1> DEFINE w == Beginnings(addresses, Between)
           N == Len(addresses)
           a == addresses[n + 1]
           from == EndAt(n) + Len(Between)
<1>1. /\ w \in [0 .. N -> Seq(Token)]
      /\ \A j \in 1 .. N : w[j] = Longer(w[j - 1], addresses[j], Between)
  BY BeginningsAre
<1>2. /\ N \in Nat /\ Between \in Seq(Token) /\ Len(Between) \in Nat
      /\ \A j \in 1 .. N : addresses[j] \in Seq(Token) /\ Len(addresses[j]) \in Nat
  BY AddressIs
<1>3. n + 1 \in 1 .. N /\ (n + 1) - 1 = n /\ n \in 0 .. N /\ n + 1 \in 0 .. N /\ N \in 0 .. N
  BY <1>2
<1>4. /\ EndAt(n) \in Nat /\ Len(w[n]) = from
      /\ Len(w[n + 1]) = EndAt(n + 1) + Len(Between)
      /\ EndAt(n + 1) = from + 1 + Len(a) + 1
  BY <1>3, EndsAre
<1>5. File = w[N]
  BY DEF File, Written
<1>6. Len(w[n + 1]) <= Len(w[N]) /\ \A q \in 1 .. Len(w[n + 1]) : w[N][q] = w[n + 1][q]
  BY <1>3, BeginningKept
<1> HIDE DEF w, N
<1>7. w[n] \in Seq(Token) /\ a \in Seq(Token) /\ Len(a) \in Nat
  BY <1>1, <1>2, <1>3
<1>8. w[n + 1] = Longer(w[n], a, Between)
  BY <1>1, <1>3
<1> HIDE DEF a
<1>9. /\ w[n + 1][Len(w[n]) + 1] = OpenTag
      /\ \A q \in 1 .. Len(a) : w[n + 1][Len(w[n]) + 1 + q] = a[q]
      /\ w[n + 1][Len(w[n]) + 1 + Len(a) + 1] = CloseTag
  <2>1. Lengthens(w[n + 1], w[n], a, Between)
    BY <1>2, <1>7, <1>8, LongerIs
  <2> QED BY <2>1 DEF Lengthens
<1>10. from \in Nat
  <2>1. EndAt(n) \in Nat
    BY <1>4
  <2> QED BY <1>2, <2>1
<1>11. Len(w[N]) \in Nat
  BY <1>1, <1>3
<1> HIDE DEF from
<1>12. EndAt(n + 1) <= Len(File)
  BY <1>2, <1>4, <1>5, <1>6, <1>7, <1>10, <1>11
<1>13. File[from + 1] = OpenTag
  <2>1. from + 1 \in 1 .. Len(w[n + 1])
    BY <1>2, <1>4, <1>7, <1>10
  <2> QED BY <1>4, <1>5, <1>6, <1>9, <2>1
<1>14. ASSUME NEW q \in 1 .. Len(a) PROVE File[from + 1 + q] = a[q]
  <2>1. from + 1 + q \in 1 .. Len(w[n + 1])
    BY <1>2, <1>4, <1>7, <1>10
  <2> QED BY <1>4, <1>5, <1>6, <1>9, <2>1
<1>15. File[EndAt(n + 1)] = CloseTag
  <2>1. EndAt(n + 1) \in 1 .. Len(w[n + 1])
    BY <1>2, <1>4, <1>7, <1>10
  <2> QED BY <1>4, <1>5, <1>6, <1>9, <2>1
<1> QED BY <1>12, <1>13, <1>14, <1>15 DEF from, a

LEMMA BetweenIs ==
  ASSUME addresses \in AddressLists, NEW n \in 0 .. Len(addresses)
  PROVE  /\ File \in Seq(Token) /\ Len(File) = EndAt(Len(addresses)) + Len(Between)
         /\ \A q \in 1 .. Len(Between) : File[EndAt(n) + q] = Between[q]
<1> DEFINE w == Beginnings(addresses, Between)
           N == Len(addresses)
<1>1. /\ w \in [0 .. N -> Seq(Token)] /\ w[0] = Between
      /\ \A j \in 1 .. N : w[j] = Longer(w[j - 1], addresses[j], Between)
  BY BeginningsAre
<1>2. /\ N \in Nat /\ Between \in Seq(Token) /\ Len(Between) \in Nat
      /\ \A j \in 1 .. N : addresses[j] \in Seq(Token) /\ Len(addresses[j]) \in Nat
  BY AddressIs
<1>3. n \in 0 .. N /\ N \in 0 .. N
  BY <1>2
<1>4. /\ EndAt(0) = 0
      /\ \A j \in 0 .. N : EndAt(j) \in Nat /\ Len(w[j]) = EndAt(j) + Len(Between)
  BY EndsAre
<1>5. File = w[N]
  BY DEF File, Written
<1>6. Len(w[n]) <= Len(w[N]) /\ \A q \in 1 .. Len(w[n]) : w[N][q] = w[n][q]
  <2>1. n \in 0 .. Len(addresses) /\ Len(addresses) \in 0 .. Len(addresses) /\ n <= Len(addresses)
    BY <1>2, <1>3
  <2> QED BY <2>1, BeginningKept
<1> HIDE DEF w, N
<1>7. \A q \in 1 .. Len(Between) : w[n][EndAt(n) + q] = Between[q]
  <2>1. CASE n = 0
    <3>1. \A q \in 1 .. Len(Between) : EndAt(n) + q = q
      BY <1>4, <2>1
    <3> QED BY <1>1, <2>1, <3>1
  <2>2. CASE n # 0
    <3>1. n \in 1 .. N /\ n - 1 \in 0 .. N
      BY <1>2, <1>3, <2>2
    <3>2. w[n - 1] \in Seq(Token) /\ w[n] = Longer(w[n - 1], addresses[n], Between)
      BY <1>1, <3>1
    <3> DEFINE at == Len(w[n - 1]) + 1 + Len(addresses[n]) + 1
    <3>3. addresses[n] \in Seq(Token)
      BY <1>2, <3>1
    <3>4. /\ Len(w[n]) = at + Len(Between)
          /\ \A q \in 1 .. Len(Between) : w[n][at + q] = Between[q]
      <4>1. Lengthens(w[n], w[n - 1], addresses[n], Between)
        BY <1>2, <3>2, <3>3, LongerIs
      <4> QED BY <4>1 DEF Lengthens
    <3>5. at \in Nat
      <4>1. Len(w[n - 1]) \in Nat /\ Len(addresses[n]) \in Nat
        <5>1. \A s \in Seq(Token) : Len(s) \in Nat
          OBVIOUS
        <5> QED BY <3>2, <3>3, <5>1
      <4>2. \A x, y \in Nat : x + 1 + y + 1 \in Nat
        OBVIOUS
      <4> QED BY <4>1, <4>2
    <3> HIDE DEF at
    <3>6. EndAt(n) \in Nat /\ Len(w[n]) = EndAt(n) + Len(Between)
      BY <1>3, <1>4
    <3>7. at = EndAt(n)
      BY <1>2, <3>4, <3>5, <3>6
    <3> QED BY <3>4, <3>7
  <2> QED BY <2>1, <2>2
<1>8. ASSUME NEW q \in 1 .. Len(Between) PROVE File[EndAt(n) + q] = Between[q]
  <2>1. EndAt(n) + q \in 1 .. Len(w[n])
    BY <1>2, <1>3, <1>4
  <2> QED BY <1>5, <1>6, <1>7, <2>1
<1>9. File \in Seq(Token) /\ Len(File) = EndAt(N) + Len(Between)
  BY <1>1, <1>3, <1>4, <1>5
<1> QED BY <1>8, <1>9 DEF N

\* Before an entry begins there is no tag; before it ends, and behind the last
\* one, no tag that ends one.
LEMMA TagsAre ==
  ASSUME addresses \in AddressLists, NEW n \in 0 .. Len(addresses)
  PROVE  /\ \A q \in EndAt(n) + 1 .. EndAt(n) + Len(Between) :
              File[q] # OpenTag /\ File[q] # CloseTag
         /\ n = Len(addresses) =>
              \A q \in EndAt(n) + 1 .. Len(File) : File[q] # CloseTag
         /\ n # Len(addresses) =>
              \A q \in EndAt(n) + 1 .. EndAt(n + 1) - 1 : File[q] # CloseTag
<1> DEFINE e == EndAt(n)
           B == Len(Between)
           N == Len(addresses)
<1>1. N \in Nat /\ B \in Nat /\ \A q \in 1 .. B : Between[q] # OpenTag /\ Between[q] # CloseTag
  BY AddressIs
<1>2. e \in Nat
  BY EndsAre
<1>3. Len(File) = EndAt(N) + B /\ \A q \in 1 .. B : File[e + q] = Between[q]
  BY BetweenIs
<1> HIDE DEF e, B, N
<1>4. ASSUME NEW q \in e + 1 .. e + B PROVE File[q] # OpenTag /\ File[q] # CloseTag
  <2>1. q - e \in 1 .. B /\ e + (q - e) = q
    BY <1>1, <1>2
  <2> QED BY <1>1, <1>3, <2>1
<1>5. ASSUME n = N, NEW q \in e + 1 .. Len(File) PROVE File[q] # CloseTag
  <2>1. q \in e + 1 .. e + B
    BY <1>3, <1>5 DEF e
  <2> QED BY <1>4, <2>1
<1>6. ASSUME n # N, NEW q \in e + 1 .. EndAt(n + 1) - 1 PROVE File[q] # CloseTag
  <2> DEFINE a == addresses[n + 1]
  <2>1. n \in 0 .. N - 1 /\ n + 1 \in 1 .. N
    BY <1>1, <1>6 DEF N
  <2>2. EndAt(n + 1) = e + B + 1 + Len(a) + 1
    BY <2>1, EndsAre DEF e, B, N
  <2>3. Len(a) \in Nat /\ \A x \in 1 .. Len(a) : a[x] # CloseTag
    BY <2>1, AddressIs DEF N
  <2>4. File[e + B + 1] = OpenTag /\ \A x \in 1 .. Len(a) : File[e + B + 1 + x] = a[x]
    BY <2>1, EntryIs DEF e, B, N
  <2> HIDE DEF a
  <2>5. CASE q <= e + B
    <3>1. q \in e + 1 .. e + B
      BY <2>5
    <3> QED BY <1>4, <3>1
  <2>6. CASE q = e + B + 1
    BY <2>4, <2>6 DEF OpenTag, CloseTag
  <2>7. CASE q > e + B + 1
    <3>1. q - (e + B + 1) \in 1 .. Len(a) /\ e + B + 1 + (q - (e + B + 1)) = q
      BY <1>1, <1>2, <2>2, <2>3, <2>7
    <3> QED BY <2>3, <2>4, <3>1
  <2> QED BY <1>1, <1>2, <2>5, <2>6, <2>7
<1> QED BY <1>4, <1>5, <1>6 DEF e, B, N

\* strstr finds the first tag from a place on, or none.
LEMMA FindAt ==
  ASSUME NEW tag, NEW text, Len(text) \in Nat, NEW p \in Nat, NEW i \in p .. Len(text),
         text[i] = tag, \A q \in p .. i - 1 : text[q] # tag
  PROVE  Find(tag, text, p) = i
<1> DEFINE S == {n \in p .. Len(text) : text[n] = tag} \cup {Len(text) + 1}
<1>1. S \subseteq Nat /\ i \in S
  OBVIOUS
<1>2. ASSUME NEW y \in S PROVE i <= y
  <2>1. CASE y = Len(text) + 1
    BY <2>1
  <2>2. CASE y \in p .. Len(text) /\ text[y] = tag
    <3>1. y \notin p .. i - 1
      BY <2>2
    <3>2. y \in Int /\ i \in Int /\ p <= y
      BY <2>2
    <3> QED BY <3>1, <3>2
  <2> QED BY <2>1, <2>2
<1> HIDE DEF S
<1>3. Min(S) = i
  BY <1>1, <1>2, LeastIs
<1> QED BY <1>3 DEF Find, S

LEMMA FindNone ==
  ASSUME NEW tag, NEW text, Len(text) \in Nat, NEW p \in Nat,
         \A q \in p .. Len(text) : text[q] # tag
  PROVE  Find(tag, text, p) = Len(text) + 1
<1> DEFINE S == {n \in p .. Len(text) : text[n] = tag} \cup {Len(text) + 1}
<1>1. S = {Len(text) + 1}
  OBVIOUS
<1>2. S \subseteq Nat /\ Len(text) + 1 \in S /\ \A y \in S : Len(text) + 1 <= y
  BY <1>1
<1> HIDE DEF S
<1>3. Min(S) = Len(text) + 1
  BY <1>2, LeastIs
<1> QED BY <1>3 DEF Find, S

LEMMA FindType ==
  ASSUME NEW tag, NEW text, Len(text) \in Nat, NEW p \in Nat
  PROVE  /\ Find(tag, text, p) \in Nat
         /\ Find(tag, text, p) \in p .. Len(text) \/ Find(tag, text, p) = Len(text) + 1
<1> DEFINE S == {n \in p .. Len(text) : text[n] = tag} \cup {Len(text) + 1}
<1>1. S \subseteq Nat /\ S # {} /\ \A y \in S : y \in p .. Len(text) \/ y = Len(text) + 1
  OBVIOUS
<1> HIDE DEF S
<1>2. Min(S) \in S
  BY <1>1, LeastOf
<1> QED BY <1>1, <1>2 DEF Find, S

-----------------------------------------------------------------------------
(* The loop over the entries.                                              *)

LoopState == [p : Nat \ {0}, nbytes : Int, hosts : Seq(Seq(Token))]

LEMMA EntryType ==
  ASSUME NEW text \in Seq(Token), NEW loop \in LoopState
  PROVE  Entry(text, loop) \in LoopState
<1> DEFINE p1 == Find(OpenTag, text, loop.p)
           p2 == Find(CloseTag, text, p1 + 1)
           address == SubSeq(text, p1 + 1, p2 - 1)
<1>1. Len(text) \in Nat
  OBVIOUS
<1>2. loop.p \in Nat \ {0} /\ loop.nbytes \in Int /\ loop.hosts \in Seq(Seq(Token))
  BY DEF LoopState
<1>3. p1 \in Nat
  BY <1>1, <1>2, FindType
<1> HIDE DEF p1
<1>4. p2 \in Nat /\ (p2 \in p1 + 1 .. Len(text) \/ p2 = Len(text) + 1)
  <2>1. p1 + 1 \in Nat
    BY <1>3
  <2> QED BY <1>1, <2>1, FindType
<1> HIDE DEF p2
<1>5. CASE p2 > Len(text) \/ loop.nbytes <= 13
  <2>1. Entry(text, loop) = loop
    BY <1>5 DEF Entry, p1, p2
  <2> QED BY <2>1
<1>6. CASE ~(p2 > Len(text) \/ loop.nbytes <= 13)
  <2>1. address \in Seq(Token)
    <3>1. p2 - 1 \in 0 .. Len(text) /\ p1 + 1 \in Nat \ {0}
      BY <1>1, <1>3, <1>4, <1>6
    <3> HIDE DEF address
    <3>2. \A m \in p1 + 1 .. p2 - 1 : m \in 1 .. Len(text)
      BY <1>1, <1>3, <3>1
    <3> QED BY <1>3, <1>4, <3>1, <3>2, SubSeqProperties DEF address
  <2> HIDE DEF address
  <2>2. EntryBytes(address) \in Nat
    BY <2>1, SizesType DEF EntryBytes
  <2>3. Append(loop.hosts, address) \in Seq(Seq(Token))
    BY <1>2, <2>1
  <2>4. Entry(text, loop) = [p |-> p2 + 1, nbytes |-> loop.nbytes - EntryBytes(address),
                             hosts |-> Append(loop.hosts, address)]
    BY <1>6 DEF Entry, p1, p2, address
  <2>5. p2 + 1 \in Nat \ {0} /\ loop.nbytes - EntryBytes(address) \in Int
    BY <1>2, <1>4, <2>2
  <2> QED BY <2>3, <2>4, <2>5 DEF LoopState
<1> QED BY <1>5, <1>6

LoopStart(text) == [p |-> 1, nbytes |-> Size(text), hosts |-> <<>>]

\* The loop goes from turn to turn.
LEMMA LoopIs ==
  ASSUME NEW text \in Seq(Token)
  PROVE  /\ Loop(text)[0] = LoopStart(text)
         /\ \A k \in 1 .. Len(text) : Loop(text)[k] = Entry(text, Loop(text)[k - 1])
<1> DEFINE N == Len(text)
           S == LoopState
           Is(g) == g = [k \in 0 .. N |-> IF k = 0 THEN LoopStart(text) ELSE Entry(text, g[k - 1])]
           step == [k \in 1 .. N |-> [x \in S |-> Entry(text, x)]]
<1>1. N \in Nat
  OBVIOUS
<1>2. LoopStart(text) \in S
  <2>1. Size(text) \in Int /\ 1 \in Nat \ {0} /\ <<>> \in Seq(Seq(Token))
    BY SizesType
  <2> QED BY <2>1 DEF LoopStart, LoopState
<1>3. \A x \in S : Entry(text, x) \in S
  BY EntryType
<1> HIDE DEF N, S
<1>4. step \in [1 .. N -> [S -> S]]
  BY <1>3
<1>5. PICK f : Goes(f, N, S, LoopStart(text), step)
  <2> HIDE DEF step
  <2> QED BY <1>1, <1>2, <1>4, Recursion
<1>6. f \in [0 .. N -> S] /\ f[0] = LoopStart(text) /\ \A k \in 1 .. N : f[k] = step[k][f[k - 1]]
  BY <1>5 DEF Goes
<1>7. \A k \in 1 .. N : f[k - 1] \in S /\ k # 0
  BY <1>1, <1>6
<1>8. \A k \in 1 .. N : f[k] = Entry(text, f[k - 1])
  BY <1>6, <1>7
<1>9. Is(f)
  <2>1. \A k \in 0 .. N : k = 0 \/ k \in 1 .. N
    BY <1>1
  <2>2. \A k \in 0 .. N : f[k] = IF k = 0 THEN LoopStart(text) ELSE Entry(text, f[k - 1])
    BY <1>6, <1>8, <2>1
  <2> QED BY <1>6, <2>2
<1>10. Loop(text) = CHOOSE g : Is(g)
  BY DEF Loop, LoopStart, N
<1> DEFINE w == Loop(text)
<1>11. Is(w)
  <2> HIDE DEF Is
  <2> QED BY <1>9, <1>10
<1> HIDE DEF w
<1>12. w[0] = LoopStart(text) /\ \A k \in 1 .. N : w[k] = Entry(text, w[k - 1])
  <2>1. 0 \in 0 .. N /\ \A k \in 1 .. N : k \in 0 .. N /\ k # 0
    BY <1>1
  <2> QED BY <1>11, <2>1
<1> QED BY <1>12 DEF w, N

\* A text is a beginning of the file.
Beginning(text) ==
  /\ text \in Seq(Token) /\ Len(text) <= Len(File)
  /\ \A q \in 1 .. Len(text) : text[q] = File[q]

\* A turn that stands behind an entry of which the next is in the text reads it.
LEMMA TurnReads ==
  ASSUME addresses \in AddressLists, NEW text, Beginning(text),
         NEW n \in 0 .. Len(addresses) - 1, EndAt(n + 1) <= Len(text),
         NEW loop, loop.p = EndAt(n) + 1, loop.nbytes \in Int, loop.nbytes > 13
  PROVE  Entry(text, loop) = [p |-> EndAt(n + 1) + 1,
                              nbytes |-> loop.nbytes - EntryBytes(addresses[n + 1]),
                              hosts |-> Append(loop.hosts, addresses[n + 1])]
<1> DEFINE e == EndAt(n)
           B == Len(Between)
           N == Len(addresses)
           K == Len(text)
           a == addresses[n + 1]
           end == EndAt(n + 1)
<1>1. N \in Nat /\ B \in Nat /\ K \in Nat /\ text \in Seq(Token)
  BY AddressIs DEF Beginning
<1>2. n + 1 \in 1 .. N /\ n \in 0 .. N /\ n # N
  BY <1>1
<1>3. a \in Seq(Token) /\ Len(a) \in Nat
  BY <1>2, AddressIs
<1>4. e \in Nat /\ end = e + B + 1 + Len(a) + 1 /\ end <= K
  BY <1>2, EndsAre
<1>5. \A q \in 1 .. K : text[q] = File[q]
  BY DEF Beginning
<1>6. /\ File[e + B + 1] = OpenTag
      /\ \A q \in 1 .. Len(a) : File[e + B + 1 + q] = a[q]
      /\ File[end] = CloseTag
  BY EntryIs
<1>7. /\ \A q \in e + 1 .. e + B : File[q] # OpenTag
      /\ \A q \in e + 1 .. end - 1 : File[q] # CloseTag
  BY <1>2, TagsAre
<1> HIDE DEF e, B, N, K, a, end
<1>8. Find(OpenTag, text, loop.p) = e + B + 1
  <2> DEFINE i == e + B + 1
  <2>1. loop.p = e + 1 /\ loop.p \in Nat /\ i \in loop.p .. K /\ i \in 1 .. K
    <3>1. loop.p = e + 1
      BY DEF e
    <3>2. e + 1 \in Nat /\ i \in e + 1 .. K /\ i \in 1 .. K
      BY <1>1, <1>3, <1>4
    <3> QED BY <3>1, <3>2
  <2>2. ASSUME NEW q \in loop.p .. i - 1 PROVE text[q] # OpenTag
    <3>1. q \in e + 1 .. e + B
      BY <1>1, <1>4, <2>1
    <3>2. q \in 1 .. K
      BY <1>1, <1>4, <2>1, <3>1
    <3> QED BY <1>5, <1>7, <3>1, <3>2
  <2>3. text[i] = OpenTag
    BY <1>5, <1>6, <2>1
  <2> HIDE DEF i
  <2>4. Find(OpenTag, text, loop.p) = i
    BY <1>1, <2>1, <2>2, <2>3, FindAt DEF K
  <2> QED BY <2>4 DEF i
<1>9. Find(CloseTag, text, e + B + 1 + 1) = end
  <2> DEFINE p == e + B + 1 + 1
  <2>1. p \in Nat /\ end \in p .. K /\ end \in 1 .. K
    BY <1>1, <1>3, <1>4
  <2>2. ASSUME NEW q \in p .. end - 1 PROVE text[q] # CloseTag
    <3>1. q \in e + 1 .. end - 1 /\ q \in 1 .. K
      BY <1>1, <1>3, <1>4
    <3> QED BY <1>5, <1>7, <3>1
  <2>3. text[end] = CloseTag
    BY <1>5, <1>6, <2>1
  <2> HIDE DEF p
  <2>4. Find(CloseTag, text, p) = end
    BY <1>1, <2>1, <2>2, <2>3, FindAt DEF K
  <2> QED BY <2>4 DEF p
<1>10. SubSeq(text, e + B + 1 + 1, end - 1) = a
  <2> DEFINE from == e + B + 1 + 1
             to == end - 1
             s == SubSeq(text, from, to)
  <2>1. from \in 1 .. K + 1 /\ to \in from - 1 .. K /\ to - from + 1 = Len(a)
    BY <1>1, <1>3, <1>4
  <2>2. from \in Nat \ {0} /\ to \in Nat /\ \A q \in from .. to : q \in 1 .. K
    <3> HIDE DEF from, to
    <3> QED BY <1>1, <2>1
  <2>3. /\ s \in Seq(Token) /\ Len(s) = Len(a)
        /\ \A q \in 1 .. Len(a) : s[q] = text[from + q - 1]
    <3> HIDE DEF from, to
    <3> QED BY <1>1, <1>3, <2>1, <2>2 DEF K
  <2>4. ASSUME NEW q \in 1 .. Len(a) PROVE s[q] = a[q]
    <3>1. from + q - 1 = e + B + 1 + q /\ e + B + 1 + q \in 1 .. K
      BY <1>1, <1>3, <1>4
    <3> HIDE DEF s, from
    <3> QED BY <1>5, <1>6, <2>3, <3>1
  <2> HIDE DEF s, from, to
  <2>5. s = a
    BY <1>3, <2>3, <2>4, SeqEqual
  <2> QED BY <2>5 DEF s, from, to
<1>11. ~(loop.nbytes <= 13 \/ end > Len(text))
  BY <1>1, <1>3, <1>4 DEF K
<1>12. Entry(text, loop) = [p |-> end + 1, nbytes |-> loop.nbytes - EntryBytes(a),
                            hosts |-> Append(loop.hosts, a)]
  BY <1>8, <1>9, <1>10, <1>11 DEF Entry
<1> QED BY <1>12 DEF end, a

\* A turn behind the last entry of the text changes nothing.
LEMMA TurnEnds ==
  ASSUME addresses \in AddressLists, NEW text, Beginning(text),
         NEW n \in 0 .. Len(addresses), n = Len(addresses) \/ EndAt(n + 1) > Len(text),
         NEW loop, loop.p = EndAt(n) + 1
  PROVE  Entry(text, loop) = loop
<1> DEFINE K == Len(text)
           p1 == Find(OpenTag, text, loop.p)
           p2 == Find(CloseTag, text, p1 + 1)
<1>1. K \in Nat /\ K <= Len(File) /\ Len(File) \in Nat
  BY BetweenIs DEF Beginning
<1>2. \A q \in 1 .. K : text[q] = File[q]
  BY DEF Beginning
<1>3. EndAt(n) \in Nat
  BY EndsAre
<1>4. ASSUME NEW q \in EndAt(n) + 1 .. K PROVE text[q] # CloseTag
  <2>1. q \in 1 .. K /\ q \in EndAt(n) + 1 .. Len(File)
    BY <1>1, <1>3
  <2>2. CASE n = Len(addresses)
    BY <1>2, <2>1, <2>2, TagsAre
  <2>3. CASE n # Len(addresses)
    <3>1. Len(addresses) \in Nat
      BY AddressIs
    <3>2. n + 1 \in 0 .. Len(addresses)
      BY <2>3, <3>1
    <3>3. EndAt(n + 1) \in Nat
      BY <3>2, EndsAre
    <3>4. q \in EndAt(n) + 1 .. EndAt(n + 1) - 1
      BY <1>1, <1>3, <2>3, <3>3
    <3> QED BY <1>2, <2>1, <2>3, <3>4, TagsAre
  <2> QED BY <2>2, <2>3
<1>5. loop.p \in Nat
  BY <1>3
<1>6. p1 \in Nat /\ (p1 \in loop.p .. K \/ p1 = K + 1)
  BY <1>1, <1>5, FindType
<1> HIDE DEF p1
<1>7. p1 + 1 \in Nat /\ \A q \in p1 + 1 .. K : q \in EndAt(n) + 1 .. K
  BY <1>1, <1>3, <1>6
<1>8. p2 = K + 1
  BY <1>1, <1>4, <1>7, FindNone
<1> HIDE DEF p2
<1>9. p2 > Len(text)
  BY <1>1, <1>8 DEF K
<1> QED BY <1>9 DEF Entry, p1, p2

\* The loop has read n entries, and enough bytes are left of the text for the rest.
ReadTo(text, n, loop) ==
  /\ loop.p = EndAt(n) + 1 /\ loop.hosts = SubSeq(addresses, 1, n)
  /\ loop.nbytes \in Int /\ loop.nbytes + Sizes(File)[EndAt(n)] >= Size(text)

\* No entry is left in the text.
Over(text, n) == n = Len(addresses) \/ EndAt(n + 1) > Len(text)

\* A text has the bytes of the beginning of the file that it is.
LEMMA TextSize ==
  ASSUME addresses \in AddressLists, NEW text, Beginning(text)
  PROVE  Size(text) = Sizes(File)[Len(text)] /\ Sizes(File)[0] = 0
<1>1. File \in Seq(Token) /\ Len(File) \in Nat
  <2>1. Len(addresses) \in 0 .. Len(addresses)
    BY AddressIs
  <2> QED BY <2>1, BetweenIs
<1>2. /\ text \in Seq(Token) /\ Len(text) \in Nat /\ Len(text) <= Len(File)
      /\ \A q \in 1 .. Len(text) : File[0 + q] = text[q]
  BY DEF Beginning
<1>3. \A n \in 0 .. Len(text) : Sizes(File)[0 + n] = Sizes(File)[0] + Sizes(text)[n]
  <2>1. 0 \in Nat /\ 0 + Len(text) <= Len(File)
    BY <1>2
  <2> QED BY <1>1, <1>2, <2>1, SizesShift
<1>4. Sizes(File)[0] = 0
  BY <1>1, SizesType
<1>5. Size(text) \in Nat /\ Size(text) = Sizes(text)[Len(text)]
  BY <1>2, SizesType DEF Size
<1>6. Len(text) \in 0 .. Len(text) /\ 0 + Len(text) = Len(text)
  BY <1>2
<1>7. Sizes(File)[Len(text)] = 0 + Sizes(text)[Len(text)]
  BY <1>3, <1>4, <1>6
<1> QED BY <1>4, <1>5, <1>7

\* An entry takes the bytes of its address, of its tags and of what precedes it.
LEMMA EntryTakes ==
  ASSUME addresses \in AddressLists, NEW n \in 0 .. Len(addresses) - 1
  PROVE  /\ Size(addresses[n + 1]) \in Nat \ {0}
         /\ Sizes(File)[EndAt(n)] \in Nat /\ Sizes(File)[EndAt(n + 1)] \in Nat
         /\ Sizes(File)[EndAt(n + 1)] >= Sizes(File)[EndAt(n)] + Size(addresses[n + 1]) + 13
<1> DEFINE e == EndAt(n)
           B == Len(Between)
           N == Len(addresses)
           a == addresses[n + 1]
           end == EndAt(n + 1)
           c == Sizes(File)
<1>1. N \in Nat /\ B \in Nat
  BY AddressIs
<1>2. n + 1 \in 1 .. N /\ n \in 0 .. N
  BY <1>1
<1>3. a \in Seq(Token) /\ Len(a) \in Nat \ {0}
  BY <1>2, AddressIs
<1>4. File \in Seq(Token) /\ Len(File) \in Nat
  BY <1>2, BetweenIs
<1>5. e \in Nat /\ end = e + B + 1 + Len(a) + 1
  BY <1>2, EndsAre
<1>6. /\ end <= Len(File) /\ File[e + B + 1] = OpenTag
      /\ \A q \in 1 .. Len(a) : File[e + B + 1 + q] = a[q]
      /\ File[end] = CloseTag
  BY EntryIs
<1> DEFINE p == e + B + 1
<1> HIDE DEF e, B, N, a, end
<1>7. /\ p \in Nat /\ p + Len(a) <= Len(File) /\ p \in 1 .. Len(File) /\ p - 1 = e + B
      /\ p - 1 \in 0 .. Len(File) /\ p \in 0 .. Len(File) /\ e \in 0 .. Len(File)
      /\ end \in 1 .. Len(File) /\ end - 1 = p + Len(a) /\ end \in 0 .. Len(File)
      /\ p + Len(a) \in 0 .. Len(File) /\ e <= p - 1
  BY <1>1, <1>3, <1>4, <1>5, <1>6
<1>8. File[p] = OpenTag /\ \A q \in 1 .. Len(a) : File[p + q] = a[q]
  BY <1>6
<1> HIDE DEF p
<1>9. Bytes(OpenTag) = 6 /\ Bytes(CloseTag) = 7
  BY DEF Bytes, OpenTag, CloseTag
<1>10. /\ c \in [0 .. Len(File) -> Nat]
       /\ \A i \in 1 .. Len(File) : c[i] = c[i - 1] + Bytes(File[i])
  BY <1>4, SizesType
<1>11. c[e] <= c[p - 1]
  BY <1>4, <1>7, SizesGrow
<1> HIDE DEF c
<1>12. c[p] = c[p - 1] + 6 /\ c[end] = c[p + Len(a)] + 7
  BY <1>6, <1>7, <1>8, <1>9, <1>10
<1>13. c[p + Len(a)] = c[p] + Size(a)
  <2>1. \A m \in 0 .. Len(a) : c[p + m] = c[p] + Sizes(a)[m]
    BY <1>3, <1>4, <1>7, <1>8, SizesShift DEF c
  <2>2. Len(a) \in 0 .. Len(a)
    BY <1>3
  <2> QED BY <2>1, <2>2 DEF Size
<1>14. Size(a) \in Nat \ {0}
  <2>1. Size(a) \in Nat /\ Sizes(a)[0] = 0
    BY <1>3, SizesType
  <2>2. 0 \in 0 .. Len(a) /\ Len(a) \in 0 .. Len(a) /\ 0 < Len(a)
    BY <1>3
  <2>3. Sizes(a)[0] < Sizes(a)[Len(a)]
    BY <1>3, <2>2, SizesGrow
  <2> QED BY <2>1, <2>3 DEF Size
<1>15. c[e] \in Nat /\ c[p - 1] \in Nat /\ c[p] \in Nat /\ c[p + Len(a)] \in Nat /\ c[end] \in Nat
  BY <1>7, <1>10
<1>16. c[end] >= c[e] + Size(a) + 13
  <2>1. \A v, w, x, y, z, size \in Nat :
          v <= w /\ x = w + 6 /\ y = x + size /\ z = y + 7 => z >= v + size + 13
    OBVIOUS
  <2> QED BY <1>11, <1>12, <1>13, <1>14, <1>15, <2>1
<1> QED BY <1>14, <1>15, <1>16 DEF c, e, a, end

\* A turn reads the next entry, or nothing if it is not all in the text.
LEMMA TurnKeeps ==
  ASSUME addresses \in AddressLists, NEW text, Beginning(text),
         NEW n \in 0 .. Len(addresses), NEW loop, ReadTo(text, n, loop)
  PROVE  IF Over(text, n) THEN Entry(text, loop) = loop
         ELSE n + 1 \in 0 .. Len(addresses) /\ ReadTo(text, n + 1, Entry(text, loop))
<1>1. CASE Over(text, n)
  <2>1. Entry(text, loop) = loop
    BY <1>1, TurnEnds DEF Over, ReadTo
  <2> QED BY <1>1, <2>1
<1>2. CASE ~Over(text, n)
  <2> DEFINE a == addresses[n + 1]
  <2>1. Len(addresses) \in Nat /\ Len(text) \in Nat /\ addresses \in Seq(Seq(Token))
    BY AddressesAre DEF Beginning
  <2>2. n \in 0 .. Len(addresses) - 1 /\ n + 1 \in 1 .. Len(addresses) /\ n + 1 \in 0 .. Len(addresses)
    BY <1>2, <2>1 DEF Over
  <2>3. EndAt(n) \in Nat /\ EndAt(n + 1) \in Nat
    BY <2>2, EndsAre
  <2>4. EndAt(n + 1) <= Len(text)
    BY <1>2, <2>1, <2>3 DEF Over
  <2>5. /\ Size(a) \in Nat \ {0}
        /\ Sizes(File)[EndAt(n)] \in Nat /\ Sizes(File)[EndAt(n + 1)] \in Nat
        /\ Sizes(File)[EndAt(n + 1)] >= Sizes(File)[EndAt(n)] + Size(a) + 13
    BY <2>2, EntryTakes
  <2>6. Sizes(File)[EndAt(n + 1)] <= Size(text) /\ Size(text) \in Nat
    <3>1. File \in Seq(Token) /\ Len(File) \in Nat /\ Len(text) <= Len(File)
      BY BetweenIs DEF Beginning
    <3>2. Len(text) \in 0 .. Len(File) /\ EndAt(n + 1) \in 0 .. Len(File)
      BY <2>1, <2>3, <2>4, <3>1
    <3>3. Sizes(File)[EndAt(n + 1)] <= Sizes(File)[Len(text)]
      BY <2>4, <3>1, <3>2, SizesGrow
    <3>4. Size(text) \in Nat
      BY SizesType DEF Beginning
    <3> QED BY <3>3, <3>4, TextSize
  <2>7. /\ loop.p = EndAt(n) + 1 /\ loop.hosts = SubSeq(addresses, 1, n)
        /\ loop.nbytes \in Int /\ loop.nbytes + Sizes(File)[EndAt(n)] >= Size(text)
    BY DEF ReadTo
  <2> HIDE DEF a
  <2>8. /\ loop.nbytes > 13 /\ loop.nbytes - EntryBytes(a) \in Int
        /\ loop.nbytes - EntryBytes(a) + Sizes(File)[EndAt(n + 1)] >= Size(text)
    <3> DEFINE size == Size(a)
               x == Sizes(File)[EndAt(n)]
               y == Sizes(File)[EndAt(n + 1)]
               z == Size(text)
               b == loop.nbytes
    <3>1. size \in Nat \ {0} /\ x \in Nat /\ y \in Nat /\ z \in Nat /\ b \in Int
      BY <2>5, <2>6, <2>7
    <3>2. y >= x + size + 13 /\ y <= z /\ b + x >= z
      BY <2>5, <2>6, <2>7
    <3> HIDE DEF size, x, y, z, b
    <3>3. b > 13 /\ b - (size + 13) \in Int /\ b - (size + 13) + y >= z
      BY <3>1, <3>2
    <3> QED BY <3>3 DEF EntryBytes, size, y, z, b
  <2>9. Entry(text, loop) = [p |-> EndAt(n + 1) + 1, nbytes |-> loop.nbytes - EntryBytes(a),
                             hosts |-> Append(loop.hosts, a)]
    BY <2>2, <2>4, <2>7, <2>8, TurnReads DEF a
  <2>10. Append(SubSeq(addresses, 1, n), a) = SubSeq(addresses, 1, n + 1)
    <3> DEFINE s == SubSeq(addresses, 1, n)
               t == SubSeq(addresses, 1, n + 1)
    <3>1. /\ s \in Seq(Seq(Token)) /\ Len(s) = n
          /\ \A i \in 1 .. n : s[i] = addresses[i]
      BY <2>1, <2>2
    <3>2. /\ t \in Seq(Seq(Token)) /\ Len(t) = n + 1
          /\ \A i \in 1 .. n + 1 : t[i] = addresses[i]
      BY <2>1, <2>2
    <3>3. a \in Seq(Token)
      BY <2>1, <2>2 DEF a
    <3> HIDE DEF s, t
    <3>4. /\ Append(s, a) \in Seq(Seq(Token)) /\ Len(Append(s, a)) = n + 1
          /\ \A i \in 1 .. n : Append(s, a)[i] = s[i]
          /\ Append(s, a)[n + 1] = a
      BY <3>1, <3>3
    <3>5. ASSUME NEW i \in 1 .. n + 1 PROVE Append(s, a)[i] = t[i]
      <4>1. CASE i \in 1 .. n
        BY <3>1, <3>2, <3>4, <4>1
      <4>2. CASE i = n + 1
        BY <3>2, <3>4, <4>2 DEF a
      <4>3. i \in 1 .. n \/ i = n + 1
        BY <2>1, <2>2
      <4> QED BY <4>1, <4>2, <4>3
    <3> DEFINE u == Append(s, a)
    <3>6. u \in Seq(Seq(Token)) /\ Len(u) = Len(t) /\ \A i \in 1 .. Len(u) : u[i] = t[i]
      BY <3>2, <3>4, <3>5
    <3> HIDE DEF u
    <3>7. u = t
      BY <3>2, <3>6, SeqEqual
    <3> QED BY <3>7 DEF u, s, t
  <2>11. ReadTo(text, n + 1, Entry(text, loop))
    BY <2>7, <2>8, <2>9, <2>10 DEF ReadTo
  <2> QED BY <1>2, <2>2, <2>11
<1> QED BY <1>1, <1>2

\* After k turns, k entries are read, or all that are in the text.
TurnsRead(text, k, n) ==
  n <= k /\ ReadTo(text, n, Loop(text)[k]) /\ (n = k \/ Over(text, n))

LEMMA LoopReads ==
  ASSUME addresses \in AddressLists, NEW text, Beginning(text)
  PROVE  \E n \in 0 .. Len(addresses) : TurnsRead(text, Len(text), n)
<1> DEFINE K == Len(text)
           N == Len(addresses)
           T == {k \in Nat : k <= K => \E n \in 0 .. N : TurnsRead(text, k, n)}
<1>1. K \in Nat /\ text \in Seq(Token) /\ N \in Nat
  BY AddressIs DEF Beginning
<1>2. Loop(text)[0] = LoopStart(text) /\ \A k \in 1 .. K : Loop(text)[k] = Entry(text, Loop(text)[k - 1])
  BY <1>1, LoopIs
<1>3. 0 \in T
  <2>1. EndAt(0) = 0 /\ Sizes(File)[0] = 0
    BY EndsAre, TextSize
  <2>2. Size(text) \in Nat
    BY <1>1, SizesType
  <2>3. SubSeq(addresses, 1, 0) = <<>>
    BY SubSeqEmpty
  <2>4. ReadTo(text, 0, LoopStart(text))
    BY <2>1, <2>2, <2>3 DEF ReadTo, LoopStart
  <2>5. TurnsRead(text, 0, 0) /\ 0 \in 0 .. N
    BY <1>1, <1>2, <2>4 DEF TurnsRead
  <2> QED BY <2>5
<1> HIDE DEF K, N
<1>4. ASSUME NEW k \in Nat, k \in T PROVE k + 1 \in T
  <2> SUFFICES ASSUME k + 1 <= K PROVE \E n \in 0 .. N : TurnsRead(text, k + 1, n)
    OBVIOUS
  <2>1. k <= K /\ k + 1 \in 1 .. K /\ (k + 1) - 1 = k
    BY <1>1
  <2>2. PICK n \in 0 .. N : TurnsRead(text, k, n)
    BY <1>4, <2>1
  <2>3. n \in Nat /\ n <= k /\ ReadTo(text, n, Loop(text)[k]) /\ (n = k \/ Over(text, n))
    BY <2>2 DEF TurnsRead
  <2>4. Loop(text)[k + 1] = Entry(text, Loop(text)[k])
    BY <1>2, <2>1
  <2>5. IF Over(text, n) THEN Entry(text, Loop(text)[k]) = Loop(text)[k]
        ELSE n + 1 \in 0 .. N /\ ReadTo(text, n + 1, Entry(text, Loop(text)[k]))
    BY <2>3, TurnKeeps DEF N
  <2>6. CASE Over(text, n)
    <3>1. TurnsRead(text, k + 1, n)
      BY <2>3, <2>4, <2>5, <2>6 DEF TurnsRead
    <3> QED BY <3>1
  <2>7. CASE ~Over(text, n)
    <3>1. n + 1 \in 0 .. N /\ TurnsRead(text, k + 1, n + 1)
      BY <2>3, <2>4, <2>5, <2>7 DEF TurnsRead
    <3> QED BY <3>1
  <2> QED BY <2>6, <2>7
<1>5. K \in T
  <2> HIDE DEF T
  <2> QED BY <1>1, <1>3, <1>4, Induction
<1> QED BY <1>1, <1>5 DEF K, N

\* What is read of the file are the addresses of the first machines: of all, or the
\* file is longer than the buffer.
LEMMA FileRead ==
  ASSUME addresses \in AddressLists, hosts = ReadHosts(Written(addresses, Between))
  PROVE  HostsRead
<1> DEFINE text == InBuffer(File)
           N == Len(addresses)
<1>1. N \in Nat /\ N \in 0 .. N
  BY AddressIs
<1>2. File \in Seq(Token) /\ Len(File) \in Nat /\ Len(File) = EndAt(N) + Len(Between)
  BY <1>1, BetweenIs
<1>3. PICK K \in 0 .. Len(File) : text = SubSeq(File, 1, K) /\ (K = Len(File) \/ Size(File) > FileBuffer)
  BY <1>2, BufferIs
<1> HIDE DEF text, N
<1>4. text \in Seq(Token) /\ Len(text) = K /\ \A q \in 1 .. K : text[q] = File[q]
  BY <1>2, <1>3
<1>5. Beginning(text)
  BY <1>2, <1>4 DEF Beginning
<1>6. PICK n \in 0 .. N : TurnsRead(text, K, n)
  <2>1. \E n \in 0 .. N : TurnsRead(text, Len(text), n)
    BY <1>5, LoopReads DEF N
  <2> QED BY <1>4, <2>1
<1>7. hosts = SubSeq(addresses, 1, n)
  <2>1. hosts = Loop(text)[K].hosts
    BY <1>4 DEF ReadHosts, text, File
  <2> QED BY <1>6, <2>1 DEF TurnsRead, ReadTo
<1>8. n = N \/ Size(File) > FileBuffer
  <2>1. SUFFICES ASSUME n # N, K = Len(File) PROVE FALSE
    BY <1>3
  <2>2. n \in 0 .. N - 1 /\ n + 1 \in 0 .. N
    BY <1>1, <2>1
  <2>3. EndAt(n + 1) <= Len(File) /\ EndAt(n + 1) \in Nat /\ EndAt(n + 1) >= n + 1
    BY <2>2, EntryIs, EndsAre DEF N
  <2>4. n = K
    BY <1>2, <1>4, <1>6, <2>1, <2>3 DEF TurnsRead, Over, N
  <2> QED BY <1>2, <2>1, <2>3, <2>4
<1> QED BY <1>7, <1>8 DEF HostsRead, N, File

-----------------------------------------------------------------------------
(* The host file, which is read once.                                      *)

FilesInv ==
  /\ addresses \in AddressLists
  /\ id = [n \in Nodes |-> LocalId(addresses[n], hosts)]
  /\ HostsRead

LEMMA FilesInit == Init => FilesInv
BY FileRead DEF Init, FilesInv

LEMMA FilesKept == [Next]_vars => UNCHANGED files
BY DEF Next, SendConnect, SendWrite, Relay, Recv, vars

LEMMA FilesHold == Spec => []FilesInv
<1>1. FilesInv /\ [Next]_vars => FilesInv'
  BY FilesKept DEF FilesInv, files, Nodes, HostsRead
<1> QED BY <1>1, FilesInit, PTL DEF Spec

\* However long the file is and whatever stands between its entries, the loop
\* over it reads the addresses of the first machines, in their order, and of all
\* of them unless the file is longer than the buffer.
THEOREM HostsCorrect == Spec => []HostsRead
<1>1. FilesInv => HostsRead
  BY DEF FilesInv
<1> QED BY <1>1, FilesHold, PTL

\* What is read of the file are the addresses of the first machines.
LEMMA HostsAre ==
  ASSUME FilesInv
  PROVE  /\ Nodes = 1 .. Len(addresses) /\ addresses \in Seq(Seq(Token))
         /\ DOMAIN hosts = 1 .. Len(hosts) /\ DOMAIN hosts \subseteq Nodes
         /\ \A n \in DOMAIN hosts : hosts[n] = addresses[n]
<1>1. addresses \in Seq(Seq(Token))
  BY AddressesAre DEF FilesInv
<1>2. PICK n \in 0 .. Len(addresses) : hosts = SubSeq(addresses, 1, n)
  BY DEF FilesInv, HostsRead
<1>3. Len(hosts) = n /\ DOMAIN hosts = 1 .. n /\ \A j \in 1 .. n : hosts[j] = addresses[j]
  BY <1>1, <1>2
<1> QED BY <1>1, <1>3 DEF Nodes

LEMMA Distinct ==
  ASSUME FilesInv, ~Ambiguous(addresses)
  PROVE  \A m, n \in Nodes : IsPrefix(addresses[m], addresses[n]) <=> m = n
<1>1. \A n \in Nodes : IsPrefix(addresses[n], addresses[n])
  <2> TAKE n \in Nodes
  <2>1. Len(addresses[n]) \in Nat
    BY HostsAre
  <2> QED BY <2>1 DEF IsPrefix
<1> QED BY <1>1 DEF Ambiguous, Nodes

\* The greater of a number and the -1 of a machine that is not found.
LEMMA MaxWithNone == \A n \in Nat : Max({n} \cup {-1}) = n
<1> TAKE n \in Nat
<1>1. \A x \in {n} \cup {-1} : (\A y \in {n} \cup {-1} : x >= y) <=> x = n
  OBVIOUS
<1> QED BY <1>1 DEF Max

\* A machine finds its number, and others find the machine by it.
LEMMA OwnId ==
  ASSUME FilesInv, ~Ambiguous(addresses), NEW n \in DOMAIN hosts
  PROVE  id[n] = n /\ MachineOf(n) = n
<1>1. n \in Nodes /\ n \in Nat
  BY HostsAre
<1>2. SameHost(addresses[n], hosts) = {n}
  <2>1. \A i \in DOMAIN hosts : i \in Nodes /\ hosts[i] = addresses[i]
    BY HostsAre
  <2>2. \A i \in DOMAIN hosts : IsPrefix(addresses[n], hosts[i]) <=> i = n
    BY <1>1, <2>1, Distinct
  <2> QED BY <2>2 DEF SameHost
<1>3. id[n] = n
  BY <1>1, <1>2, MaxWithNone DEF FilesInv, LocalId
<1>4. \A m \in Nodes : addresses[m] = HostIp(n, hosts) <=> m = n
  BY <1>1, HostsAre, Distinct DEF HostIp
<1>5. MachineOf(n) = n
  BY <1>1, <1>4 DEF MachineOf
<1> QED BY <1>3, <1>5

\* A machine that is in the list finds the number that the others use for it,
\* for every list of addresses of which none begins another.
THEOREM OwnIdCorrect == Spec => []OwnIdFound
<1>1. FilesInv => OwnIdFound
  <2> SUFFICES ASSUME FilesInv, ~Ambiguous(addresses),
                      NEW n \in Nodes, addresses[n] \in Range(hosts)
               PROVE  id[n] = n
    BY DEF OwnIdFound
  <2>1. PICK j \in DOMAIN hosts : hosts[j] = addresses[n]
    BY DEF Range
  <2>2. j = n
    BY <2>1, HostsAre, Distinct
  <2> QED BY <2>2, OwnId
<1> QED BY <1>1, FilesHold, PTL

-----------------------------------------------------------------------------
(* Types.                                                                  *)

Message == [src : {id[n] : n \in Nodes}, dist : DOMAIN hosts, len : Lengths]
Part == [msg : Nat, part : Nat]

\* The parts of a message.
Full(m) == messages[m].len + 1

\* What a loop has in its hand is of the message of its first connection.
HandInv(n) ==
  inHand[n] # 0 =>
    conns[n] # <<>> /\ Head(conns[n]) \in written /\ inHand[n] <= Full(Head(conns[n]))

TypeInv ==
  /\ ended \in [Nodes -> Causes]
  /\ messages \in Seq(Message) /\ Len(messages) <= MaxMessages
  /\ written \subseteq 1 .. Len(messages)
  /\ sending \in [Nodes -> 0 .. Len(messages)]
  /\ conns \in [Nodes -> Seq(Nat)] /\ relayed \in [Nodes -> Seq(Nat)]
  /\ pipe \in [Nodes -> Seq(Part)] /\ delivered \in [Nodes -> Seq(Seq(Part))]
  /\ cutAt \in [Nodes -> Nat]
  /\ served \in [Nodes -> Nat] /\ inHand \in [Nodes -> 0 .. BuffSize]
  /\ \A n \in Nodes : HandInv(n)

LEMMA PartsType ==
  ASSUME TypeInv, NEW m \in 1 .. Len(messages)
  PROVE  /\ Parts(m) \in Seq(Part) /\ Full(m) \in Nat \ {0} /\ Len(Parts(m)) = Full(m)
         /\ \A q \in 1 .. Full(m) : Parts(m)[q] = [msg |-> m, part |-> q - 1]
<1>1. messages[m].len \in Nat
  <2>1. messages[m] \in Message
    BY DEF TypeInv
  <2> QED BY <2>1, MessageAssumption DEF Message
<1>2. m \in Nat
  BY DEF TypeInv
<1>3. \A q \in 1 .. Full(m) : [msg |-> m, part |-> q - 1] \in Part
  BY <1>1, <1>2 DEF Part, Full
<1>4. Parts(m) = [q \in 1 .. Full(m) |-> [msg |-> m, part |-> q - 1]]
  BY DEF Parts, Full
<1>5. Full(m) \in Nat \ {0}
  BY <1>1 DEF Full
<1> HIDE DEF Part
<1> QED BY <1>3, <1>4, <1>5

\* The smaller of two numbers, as a read of the pipe takes it.
LEMMA MinOfTwo == \A a, b \in Int : Min({a, b}) = IF a <= b THEN a ELSE b
<1> TAKE a, b \in Int
<1> DEFINE c == IF a <= b THEN a ELSE b
<1>1. \A x \in {a, b} : (\A y \in {a, b} : x <= y) <=> x = c
  OBVIOUS
<1> QED BY <1>1 DEF Min

LEMMA TakenType ==
  ASSUME TypeInv, NEW n \in Nodes, pipe[n] # <<>>, NEW len \in Lengths
  PROVE  /\ Taken(n, len) \in 1 .. Len(pipe[n]) /\ len \in Nat
         /\ Taken(n, len) = IF Len(pipe[n]) <= len + 1 THEN Len(pipe[n]) ELSE len + 1
         /\ Head(pipe[n]) = pipe[n][1] /\ pipe[n][1] \in Part
<1>1. pipe[n] \in Seq(Part) /\ Len(pipe[n]) \in Nat \ {0} /\ len \in Nat
  BY MessageAssumption DEF TypeInv
<1>2. Taken(n, len) = IF Len(pipe[n]) <= len + 1 THEN Len(pipe[n]) ELSE len + 1
  BY <1>1, MinOfTwo DEF Taken
<1> QED BY <1>1, <1>2

\* The pipe after a read, and what was read.
LEMMA PipeAfterRead ==
  ASSUME TypeInv, NEW n \in Nodes, NEW t \in 1 .. Len(pipe[n])
  PROVE  /\ SubSeq(pipe[n], t + 1, Len(pipe[n])) \in Seq(Part)
         /\ Len(SubSeq(pipe[n], t + 1, Len(pipe[n]))) = Len(pipe[n]) - t
         /\ \A q \in 1 .. Len(pipe[n]) - t : SubSeq(pipe[n], t + 1, Len(pipe[n]))[q] = pipe[n][t + q]
         /\ SubSeq(pipe[n], 1, t) \in Seq(Part) /\ Len(SubSeq(pipe[n], 1, t)) = t
         /\ \A q \in 1 .. t : SubSeq(pipe[n], 1, t)[q] = pipe[n][q]
<1> DEFINE s == pipe[n]
           rest == SubSeq(s, t + 1, Len(s))
           taken == SubSeq(s, 1, t)
<1>1. s \in Seq(Part) /\ Len(s) \in Nat /\ t \in 1 .. Len(s)
  BY DEF TypeInv
<1> HIDE DEF s
<1>2. \A q \in 1 .. Len(s) : s[q] \in Part
  BY <1>1
<1>3. /\ rest \in Seq(Part) /\ Len(rest) = Len(s) - t
      /\ \A q \in 1 .. Len(s) - t : rest[q] = s[t + q]
  <2>1. t + 1 \in Int /\ \A q \in t + 1 .. Len(s) : q \in 1 .. Len(s)
    BY <1>1
  <2>2. \A q \in t + 1 .. Len(s) : s[q] \in Part
    BY <1>2, <2>1
  <2> DEFINE from == t + 1
  <2> HIDE DEF from
  <2>3. /\ SubSeq(s, from, Len(s)) \in Seq(Part)
        /\ Len(SubSeq(s, from, Len(s))) = IF from <= Len(s) THEN Len(s) - from + 1 ELSE 0
        /\ \A q \in 1 .. Len(s) - from + 1 : SubSeq(s, from, Len(s))[q] = s[from + q - 1]
    BY <1>1, <2>1, <2>2, SubSeqProperties DEF from
  <2>4. Len(s) - from + 1 = Len(s) - t /\ \A q \in Int : from + q - 1 = t + q
    BY <1>1 DEF from
  <2>5. Len(rest) = Len(s) - t
    <3>1. from <= Len(s) \/ Len(s) - t = 0
      BY <1>1 DEF from
    <3>2. Len(rest) = IF from <= Len(s) THEN Len(s) - from + 1 ELSE 0
      BY <2>3 DEF from
    <3> HIDE DEF rest
    <3> QED BY <2>4, <3>1, <3>2
  <2>6. ASSUME NEW q \in 1 .. Len(s) - t PROVE rest[q] = s[t + q]
    <3>1. q \in Int /\ q \in 1 .. Len(s) - from + 1
      BY <1>1, <2>4
    <3>2. SubSeq(s, from, Len(s))[q] = s[from + q - 1]
      BY <2>3, <3>1
    <3> QED BY <2>4, <3>1, <3>2 DEF from
  <2> QED BY <2>3, <2>5, <2>6 DEF from
<1>4. taken \in Seq(Part) /\ Len(taken) = t /\ \A q \in 1 .. t : taken[q] = s[q]
  BY <1>1, <1>2
<1> QED BY <1>3, <1>4 DEF s

\* The pipe after k parts of a message were written into it.
LEMMA PipeAfterWrite ==
  ASSUME TypeInv, NEW n \in Nodes, NEW m \in 1 .. Len(messages), NEW k \in 1 .. Full(m)
  PROVE  LET after == pipe[n] \o SubSeq(Parts(m), 1, k) IN
         /\ after \in Seq(Part) /\ Len(after) = Len(pipe[n]) + k
         /\ \A q \in 1 .. Len(pipe[n]) : after[q] = pipe[n][q]
         /\ \A q \in 1 .. k : after[Len(pipe[n]) + q] = [msg |-> m, part |-> q - 1]
<1>1. pipe[n] \in Seq(Part) /\ Len(pipe[n]) \in Nat
  BY DEF TypeInv
<1>2. /\ SubSeq(Parts(m), 1, k) \in Seq(Part) /\ Len(SubSeq(Parts(m), 1, k)) = k
      /\ \A q \in 1 .. k : SubSeq(Parts(m), 1, k)[q] = [msg |-> m, part |-> q - 1]
  <2>1. k \in Nat /\ k <= Len(Parts(m)) /\ Parts(m) \in Seq(Part)
    BY PartsType
  <2> QED BY <2>1, PartsType
<1> DEFINE part == SubSeq(Parts(m), 1, k)
<1> HIDE DEF part
<1>3. part \in Seq(Part) /\ Len(part) = k /\ \A q \in 1 .. k : part[q] = [msg |-> m, part |-> q - 1]
  BY <1>2 DEF part
<1>4. /\ pipe[n] \o part \in Seq(Part) /\ Len(pipe[n] \o part) = Len(pipe[n]) + k
      /\ \A q \in 1 .. Len(pipe[n]) : (pipe[n] \o part)[q] = pipe[n][q]
      /\ \A q \in 1 .. k : (pipe[n] \o part)[Len(pipe[n]) + q] = part[q]
  <2>1. /\ pipe[n] \o part \in Seq(Part) /\ Len(pipe[n] \o part) = Len(pipe[n]) + Len(part)
        /\ \A q \in 1 .. Len(pipe[n]) + Len(part) : (pipe[n] \o part)[q] =
             IF q <= Len(pipe[n]) THEN pipe[n][q] ELSE part[q - Len(pipe[n])]
    BY <1>1, <1>3, ConcatProperties
  <2>2. k \in Nat
    BY PartsType
  <2> QED BY <1>1, <1>3, <2>1, <2>2
<1> QED BY <1>3, <1>4 DEF part

\* Messages are only added.
Grows == /\ UNCHANGED files /\ Len(messages) <= Len(messages')
         /\ \A m \in 1 .. Len(messages) : messages'[m] = messages[m]

\* What is in hand stays there while more messages and connections come.
LEMMA HandKept ==
  ASSUME TypeInv, Grows, NEW n \in Nodes, inHand'[n] = inHand[n], written \subseteq written',
         conns'[n] = conns[n] \/ (\E c \in Nat : conns'[n] = Append(conns[n], c))
  PROVE  HandInv(n)'
<1> SUFFICES ASSUME inHand'[n] # 0
             PROVE  (conns[n] # <<>> /\ Head(conns[n]) \in written /\ inHand[n] <= Full(Head(conns[n])))'
  BY DEF HandInv, Full
<1>1. conns[n] # <<>> /\ Head(conns[n]) \in written /\ inHand[n] <= Full(Head(conns[n]))
  BY DEF TypeInv, HandInv
<1>2. conns'[n] # <<>> /\ Head(conns'[n]) = Head(conns[n])
  <2>1. conns[n] \in Seq(Nat)
    BY DEF TypeInv
  <2> QED BY <1>1, <2>1
<1>3. PICK m \in 1 .. Len(messages) : m = Head(conns[n])
  BY <1>1 DEF TypeInv
<1>4. messages'[m] = messages[m]
  BY DEF Grows
<1>5. Full(m)' = Full(m)
  BY <1>4 DEF Full
<1>6. Full(Head(conns[n]))' = Full(m)
  BY <1>2, <1>3, <1>4 DEF Full
<1> QED BY <1>1, <1>2, <1>3, <1>6

\* The three outcomes of a connect.
Connects(n, dist, len) ==
  Up(MachineOf(dist)) /\ Len(conns[MachineOf(dist)]) <= Backlog /\ Connected(n, dist, len)

Fails(n, dist, why) ==
  /\ NotConnected(n, why) /\ why \in {"timeout", "refused"}
  /\ why = "refused" => ~Up(MachineOf(dist))
  /\ why = "timeout" => Len(conns[MachineOf(dist)]) > Backlog

LEMMA ConnectCases ==
  ASSUME NEW n \in Nodes, SendConnect(n)
  PROVE  /\ UNCHANGED <<files, written, served, inHand, pipe, relayed, cutAt, delivered>>
         /\ Up(n) /\ Len(messages) < MaxMessages
         /\ \E dist \in DOMAIN hosts, len \in Lengths :
              Connects(n, dist, len) \/ (\E why \in {"timeout", "refused"} : Fails(n, dist, why))
<1>1. /\ UNCHANGED <<files, written, served, inHand, pipe, relayed, cutAt, delivered>>
      /\ Up(n) /\ Len(messages) < MaxMessages
  BY DEF SendConnect, loopVars, pipeVars
<1>2. PICK dist \in DOMAIN hosts, len \in Lengths :
        LET to == MachineOf(dist) IN
        \/ Up(to) /\ Len(conns[to]) <= Backlog /\ Connected(n, dist, len)
        \/ Up(to) /\ Len(conns[to]) > Backlog /\ NotConnected(n, "timeout")
        \/ ~Up(to) /\ NotConnected(n, "refused")
  BY DEF SendConnect
<1>3. Connects(n, dist, len) \/ Fails(n, dist, "timeout") \/ Fails(n, dist, "refused")
  BY <1>2 DEF Connects, Fails
<1> QED BY <1>1, <1>3

\* A connect ends no daemon but that of the sender.
LEMMA ConnectEnds ==
  ASSUME TypeInv, NEW n \in Nodes, SendConnect(n), NEW x \in Nodes
  PROVE  Up(x)' => Up(x)
<1>1. Up(n)
  BY ConnectCases
<1>2. PICK dist \in DOMAIN hosts, len \in Lengths :
        Connects(n, dist, len) \/ (\E why \in {"timeout", "refused"} : Fails(n, dist, why))
  BY ConnectCases
<1>3. CASE Connects(n, dist, len)
  BY <1>3 DEF Connects, Connected, Up
<1>4. ASSUME NEW why \in {"timeout", "refused"}, Fails(n, dist, why) PROVE Up(x)' => Up(x)
  <2>1. ended' = [ended EXCEPT ![n] = why]
    BY <1>4 DEF Fails, NotConnected
  <2>2. x # n => ended'[x] = ended[x]
    BY <2>1 DEF TypeInv
  <2> QED BY <1>1, <2>2 DEF Up
<1> QED BY <1>2, <1>3, <1>4

LEMMA TypeConnect ==
  ASSUME TypeInv, FilesInv, NEW n \in Nodes, SendConnect(n)
  PROVE  TypeInv' /\ Grows
<1>1. /\ UNCHANGED <<files, written, served, inHand, pipe, relayed, cutAt, delivered>>
      /\ Len(messages) < MaxMessages
  BY ConnectCases
<1>2. PICK dist \in DOMAIN hosts, len \in Lengths :
        Connects(n, dist, len) \/ (\E why \in {"timeout", "refused"} : Fails(n, dist, why))
  BY ConnectCases
<1>3. Message' = Message /\ Nodes' = Nodes
  BY <1>1 DEF Message, files, Nodes
<1>4. CASE Connects(n, dist, len)
  <2>0. /\ messages' = Append(messages, MessageTo(n, dist, len)) /\ UNCHANGED ended
        /\ conns' = [conns EXCEPT ![MachineOf(dist)] = Append(@, Len(messages'))]
        /\ sending' = [sending EXCEPT ![n] = Len(messages')]
    BY <1>4 DEF Connects, Connected
  <2>1. MessageTo(n, dist, len) \in Message
    BY DEF MessageTo, Message
  <2>2. messages \in Seq(Message) /\ Len(messages) \in Nat
    BY DEF TypeInv
  <2>3. /\ messages' \in Seq(Message) /\ Len(messages') = Len(messages) + 1
        /\ \A m \in 1 .. Len(messages) : messages'[m] = messages[m]
    BY <2>0, <2>1, <2>2, AppendProperties
  <2>4. /\ conns' \in [Nodes -> Seq(Nat)]
        /\ \A x \in Nodes : conns'[x] = conns[x] \/ \E c \in Nat : conns'[x] = Append(conns[x], c)
    <3> DEFINE to == MachineOf(dist)
    <3>1. Len(messages') \in Nat /\ \A s \in Seq(Nat) : Append(s, Len(messages')) \in Seq(Nat)
      BY <2>2, <2>3
    <3>2. conns \in [Nodes -> Seq(Nat)]
      BY DEF TypeInv
    <3>3. conns' = [conns EXCEPT ![to] = Append(conns[to], Len(messages'))]
      BY <2>0
    <3>4. \A x \in Nodes : conns'[x] \in Seq(Nat)
      BY <3>1, <3>2, <3>3
    <3>5. \A x \in Nodes : conns'[x] = conns[x] \/ conns'[x] = Append(conns[x], Len(messages'))
      BY <3>2, <3>3
    <3> QED BY <3>1, <3>2, <3>3, <3>4, <3>5
  <2>5. sending' \in [Nodes -> 0 .. Len(messages')]
    <3>1. sending \in [Nodes -> 0 .. Len(messages)]
      BY DEF TypeInv
    <3> QED BY <2>0, <2>2, <2>3, <3>1
  <2>6. written' \subseteq 1 .. Len(messages') /\ Len(messages') <= MaxMessages
    BY <1>1, <2>2, <2>3, MessageAssumption DEF TypeInv
  <2>8. Grows
    BY <1>1, <2>2, <2>3 DEF Grows
  <2>9. /\ ended' \in [Nodes' -> Causes] /\ relayed' \in [Nodes' -> Seq(Nat)]
        /\ pipe' \in [Nodes' -> Seq(Part)] /\ delivered' \in [Nodes' -> Seq(Seq(Part))]
        /\ cutAt' \in [Nodes' -> Nat]
        /\ served' \in [Nodes' -> Nat] /\ inHand' \in [Nodes' -> 0 .. BuffSize]
    BY <1>1, <1>3, <2>0 DEF TypeInv
  <2>10. /\ messages' \in Seq(Message') /\ conns' \in [Nodes' -> Seq(Nat)]
         /\ sending' \in [Nodes' -> 0 .. Len(messages')]
         /\ \A x \in Nodes' : HandInv(x)'
    BY <1>1, <1>3, <2>3, <2>4, <2>5, <2>8, HandKept
  <2>11. TypeInv'
    BY <2>6, <2>9, <2>10 DEF TypeInv, Part
  <2> QED BY <2>8, <2>11
<1>5. ASSUME NEW why \in {"timeout", "refused"}, Fails(n, dist, why) PROVE TypeInv' /\ Grows
  <2>1. ended' = [ended EXCEPT ![n] = why] /\ UNCHANGED <<messages, conns, sending>>
    BY <1>5 DEF Fails, NotConnected
  <2>2. ended' \in [Nodes -> Causes]
    BY <2>1 DEF TypeInv, Causes
  <2>3. Len(messages) \in Nat
    BY DEF TypeInv
  <2>4. Grows
    BY <1>1, <2>1, <2>3 DEF Grows
  <2>5. \A x \in Nodes' : HandInv(x)'
    BY <1>1, <1>3, <2>1, <2>4, HandKept
  <2> QED BY <1>1, <1>3, <2>1, <2>2, <2>3, <2>4, <2>5 DEF TypeInv, Part
<1> QED BY <1>2, <1>4, <1>5

LEMMA TypeWrite ==
  ASSUME TypeInv, FilesInv, NEW n \in Nodes, SendWrite(n)
  PROVE  TypeInv' /\ Grows
<1>1. /\ UNCHANGED <<files, messages, conns, served, inHand, pipe, relayed, cutAt, delivered>>
      /\ sending' = [sending EXCEPT ![n] = 0] /\ sending[n] # 0
      /\ written' = written \cup {sending[n]}
      /\ ended' = ended \/ ended' = [ended EXCEPT ![n] = "sigpipe"]
  BY DEF SendWrite, loopVars, pipeVars
<1>2. Message' = Message /\ Nodes' = Nodes /\ Len(messages) \in Nat
  BY <1>1 DEF Message, files, Nodes, TypeInv
<1>3. sending' \in [Nodes -> 0 .. Len(messages)] /\ written' \subseteq 1 .. Len(messages)
  <2>1. sending \in [Nodes -> 0 .. Len(messages)] /\ written \subseteq 1 .. Len(messages)
    BY DEF TypeInv
  <2>2. sending[n] \in 1 .. Len(messages) /\ 0 \in 0 .. Len(messages)
    BY <1>1, <1>2, <2>1
  <2> QED BY <1>1, <2>1, <2>2
<1>4. ended' \in [Nodes -> Causes]
  BY <1>1 DEF TypeInv, Causes
<1>5. Grows
  BY <1>1, <1>2 DEF Grows
<1>6. \A x \in Nodes' : HandInv(x)'
  BY <1>1, <1>2, <1>5, HandKept
<1> QED BY <1>1, <1>2, <1>3, <1>4, <1>5, <1>6 DEF TypeInv, Part

LEMMA FaultCauses ==
  ASSUME NEW n \in Nodes, NEW len \in Lengths
  PROVE  Fault(n, len) \in {"no", "type", "dist", "len"}
BY DEF Fault

LEMMA TypeRecv ==
  ASSUME TypeInv, FilesInv, NEW n \in Nodes, Recv(n)
  PROVE  TypeInv' /\ Grows
<1>1. /\ UNCHANGED <<files, messages, sending, conns, written, served, inHand, relayed, cutAt>>
      /\ pipe[n] # <<>>
  BY DEF Recv
<1>2. PICK len \in Lengths :
       /\ ended' = [ended EXCEPT ![n] = Fault(n, len)]
       /\ pipe' = [pipe EXCEPT ![n] = SubSeq(@, Taken(n, len) + 1, Len(@))]
       /\ delivered' = [delivered EXCEPT ![n] =
            IF Fault(n, len) = "no" THEN Append(@, SubSeq(pipe[n], 1, Taken(n, len))) ELSE @]
  BY DEF Recv
<1>3. Message' = Message /\ Nodes' = Nodes /\ Len(messages) \in Nat
  BY <1>1 DEF Message, files, Nodes, TypeInv
<1>4. ended' \in [Nodes -> Causes]
  BY <1>2, FaultCauses DEF TypeInv, Causes
<1>5. Taken(n, len) \in 1 .. Len(pipe[n])
  BY <1>1, TakenType
<1>6. pipe' \in [Nodes -> Seq(Part)]
  BY <1>2, <1>5, PipeAfterRead DEF TypeInv
<1>7. delivered' \in [Nodes -> Seq(Seq(Part))]
  <2>1. \A s \in Seq(Seq(Part)) : Append(s, SubSeq(pipe[n], 1, Taken(n, len))) \in Seq(Seq(Part))
    BY <1>5, PipeAfterRead
  <2> QED BY <1>2, <2>1 DEF TypeInv
<1>8. Part' = Part
  BY DEF Part
<1>9. Grows
  BY <1>1, <1>3 DEF Grows
<1>10. \A x \in Nodes' : HandInv(x)'
  BY <1>1, <1>3, <1>9, HandKept
<1> QED BY <1>1, <1>3, <1>4, <1>6, <1>7, <1>8, <1>9, <1>10 DEF TypeInv

\* What the message loop does with its first connection: it reads k parts of the
\* message, passes k parts on to the pipe, or finds the connection closed.
Reads(n, k) ==
  LET m == Head(conns[n]) IN
  /\ m \in written /\ k \in 1 .. Full(m) /\ k <= BuffSize /\ conns[n] # <<>>
  /\ inHand' = [inHand EXCEPT ![n] = k]
  /\ UNCHANGED <<ended, conns, served, pipe, relayed, cutAt>>

Advances(n) == conns[n] # <<>> /\ served[n] < Descriptors /\ NextConn(n) /\ UNCHANGED ended

Passes(n, k) ==
  LET m == Head(conns[n]) IN
  /\ m \in 1 .. Len(messages) /\ k \in 1 .. Full(m)
  /\ pipe' = [pipe EXCEPT ![n] = pipe[n] \o SubSeq(Parts(m), 1, k)]
  /\ cutAt' = [cutAt EXCEPT ![n] = IF cutAt[n] = 0 /\ k < Full(m) THEN Len(relayed[n]) + 1
                                                                  ELSE cutAt[n]]
  /\ relayed' = [relayed EXCEPT ![n] = Append(relayed[n], m)]
  /\ Len(pipe[n]) + k <= PipeSize
  /\ inHand' = [inHand EXCEPT ![n] = 0]
  /\ Advances(n)

Closes(n) ==
  inHand[n] = 0 /\ Advances(n) /\ UNCHANGED <<inHand, pipe, relayed, cutAt>>

LEMMA RelayCases ==
  ASSUME TypeInv, NEW n \in Nodes, Relay(n)
  PROVE  /\ UNCHANGED <<files, messages, sending, written, delivered>> /\ Up(n)
         /\ \/ AcceptFails(n)
            \/ \E k \in Nat : Reads(n, k)
            \/ \E k \in Nat : Passes(n, k)
            \/ Closes(n)
<1>1. UNCHANGED <<files, messages, sending, written, delivered>> /\ Up(n)
  BY DEF Relay
<1> DEFINE m == Head(conns[n])
<1> HIDE DEF m
<1>2. AcceptFails(n) \/ (served[n] < Descriptors /\ conns[n] # <<>>
                          /\ (RelayRead(n, m) \/ RelayWrite(n, m) \/ RelayEnd(n, m)))
  BY DEF Relay, m
<1>3. m \in written => Full(m) \in Nat \ {0} /\ Len(Parts(m)) = Full(m) /\ m \in 1 .. Len(messages)
  BY PartsType DEF TypeInv
<1>4. CASE conns[n] # <<>> /\ RelayRead(n, m)
  <2>1. PICK k \in 1 .. Len(Parts(m)) :
          k <= BuffSize /\ inHand' = [inHand EXCEPT ![n] = k]
    BY <1>4 DEF RelayRead
  <2>2. m \in written /\ UNCHANGED <<ended, conns, served, pipe, relayed, cutAt>>
    BY <1>4 DEF RelayRead, pipeVars
  <2>3. k \in Nat /\ k \in 1 .. Full(m)
    BY <1>3, <2>1, <2>2
  <2>4. Reads(n, k)
    BY <1>4, <2>1, <2>2, <2>3 DEF Reads, m
  <2> QED BY <1>1, <2>3, <2>4
<1>5. CASE served[n] < Descriptors /\ conns[n] # <<>> /\ RelayWrite(n, m)
  <2>1. PICK k : k = inHand[n]
    OBVIOUS
  <2>2. k # 0 /\ k \in 0 .. BuffSize
    BY <1>5, <2>1 DEF RelayWrite, TypeInv
  <2>3. k \in Nat \ {0}
    BY <2>2, MessageAssumption
  <2>4. m \in written /\ k <= Full(m)
    BY <2>1, <2>2 DEF TypeInv, HandInv, m
  <2>5. k \in 1 .. Full(m) /\ m \in 1 .. Len(messages) /\ Len(Parts(m)) = Full(m)
    BY <1>3, <2>3, <2>4
  <2>6. /\ pipe' = [pipe EXCEPT ![n] = pipe[n] \o SubSeq(Parts(m), 1, k)]
        /\ cutAt' = [cutAt EXCEPT ![n] = IF cutAt[n] = 0 /\ k < Full(m)
                                         THEN Len(relayed[n]) + 1 ELSE cutAt[n]]
        /\ relayed' = [relayed EXCEPT ![n] = Append(relayed[n], m)]
    BY <1>5, <2>1, <2>5 DEF RelayWrite
  <2>7. /\ Len(pipe[n]) + k <= PipeSize /\ inHand' = [inHand EXCEPT ![n] = 0]
        /\ Advances(n)
    BY <1>5, <2>1 DEF RelayWrite, Advances
  <2>8. Passes(n, k)
    BY <2>5, <2>6, <2>7 DEF Passes, m
  <2> QED BY <1>1, <2>3, <2>8
<1>6. CASE served[n] < Descriptors /\ conns[n] # <<>> /\ RelayEnd(n, m)
  BY <1>1, <1>6 DEF RelayEnd, pipeVars, Closes, Advances
<1> QED BY <1>1, <1>2, <1>4, <1>5, <1>6

\* What the step of a loop does to the other variables of the node, in short.
LEMMA RelayEffects ==
  ASSUME TypeInv, NEW n \in Nodes, Relay(n)
  PROVE  /\ UNCHANGED <<files, messages, sending, written, delivered>> /\ Up(n)
         /\ ended' = ended \/ AcceptFails(n)
         /\ \/ conns' = conns
            \/ conns[n] # <<>> /\ conns' = [conns EXCEPT ![n] = Tail(conns[n])]
         /\ UNCHANGED <<pipe, cutAt, relayed>> \/ \E k \in Nat : Passes(n, k)
<1>1. AcceptFails(n) => UNCHANGED <<conns, pipe, cutAt, relayed>>
  BY DEF AcceptFails, loopVars, pipeVars
<1>2. \A k \in Nat : Reads(n, k) => UNCHANGED <<ended, conns, pipe, cutAt, relayed>>
  BY DEF Reads
<1>3. Advances(n) => /\ ended' = ended /\ conns[n] # <<>>
                     /\ conns' = [conns EXCEPT ![n] = Tail(conns[n])]
  BY DEF Advances, NextConn
<1>4. \A k \in Nat : Passes(n, k) => Advances(n)
  BY DEF Passes
<1>5. Closes(n) => Advances(n) /\ UNCHANGED <<pipe, cutAt, relayed>>
  BY DEF Closes
<1> QED BY <1>1, <1>2, <1>3, <1>4, <1>5, RelayCases

LEMMA ConnsAfterRelay ==
  ASSUME TypeInv, NEW n \in Nodes, conns[n] # <<>>
  PROVE  /\ Tail(conns[n]) \in Seq(Nat) /\ Len(Tail(conns[n])) = Len(conns[n]) - 1
         /\ \A q \in 1 .. Len(conns[n]) - 1 : Tail(conns[n])[q] = conns[n][q + 1]
         /\ Head(conns[n]) = conns[n][1] /\ Len(conns[n]) \in Nat \ {0}
<1>1. conns[n] \in Seq(Nat)
  BY DEF TypeInv
<1> QED BY <1>1

LEMMA TypeRelay ==
  ASSUME TypeInv, FilesInv, NEW n \in Nodes, Relay(n)
  PROVE  TypeInv' /\ Grows
<1>1. UNCHANGED <<files, messages, sending, written, delivered>>
  BY RelayCases
<1>2. /\ Message' = Message /\ Nodes' = Nodes /\ Len(messages) \in Nat /\ Part' = Part
      /\ \A m : Full(m)' = Full(m)
  BY <1>1 DEF Message, files, Nodes, TypeInv, Part, Full
<1>3. conns' \in [Nodes -> Seq(Nat)]
  <2>1. CASE conns' = conns
    BY <2>1 DEF TypeInv
  <2>2. CASE conns[n] # <<>> /\ conns' = [conns EXCEPT ![n] = Tail(conns[n])]
    <3>1. Tail(conns[n]) \in Seq(Nat)
      BY <2>2, ConnsAfterRelay
    <3> QED BY <2>2, <3>1 DEF TypeInv
  <2> QED BY <2>1, <2>2, RelayEffects
<1>4. pipe' \in [Nodes -> Seq(Part)] /\ cutAt' \in [Nodes -> Nat] /\ relayed' \in [Nodes -> Seq(Nat)]
  <2>1. CASE UNCHANGED <<pipe, cutAt, relayed>>
    BY <2>1 DEF TypeInv
  <2>2. ASSUME NEW k \in Nat, Passes(n, k)
        PROVE  pipe' \in [Nodes -> Seq(Part)] /\ cutAt' \in [Nodes -> Nat] /\ relayed' \in [Nodes -> Seq(Nat)]
    <3> DEFINE m == Head(conns[n])
    <3>1. m \in 1 .. Len(messages) /\ k \in 1 .. Full(m)
      BY <2>2 DEF Passes
    <3> HIDE DEF m
    <3>2. pipe' \in [Nodes -> Seq(Part)]
      <4>1. pipe[n] \o SubSeq(Parts(m), 1, k) \in Seq(Part)
        BY <3>1, PipeAfterWrite
      <4>2. pipe' = [pipe EXCEPT ![n] = pipe[n] \o SubSeq(Parts(m), 1, k)]
        BY <2>2 DEF Passes, m
      <4> QED BY <4>1, <4>2 DEF TypeInv
    <3>3. cutAt' \in [Nodes -> Nat]
      <4>1. Len(relayed[n]) + 1 \in Nat
        BY DEF TypeInv
      <4> QED BY <2>2, <4>1 DEF Passes, TypeInv
    <3>4. relayed' \in [Nodes -> Seq(Nat)]
      <4>1. Append(relayed[n], m) \in Seq(Nat)
        BY <1>2, <3>1 DEF TypeInv
      <4> QED BY <2>2, <4>1 DEF Passes, TypeInv, m
    <3> QED BY <3>2, <3>3, <3>4
  <2> QED BY <2>1, <2>2, RelayEffects
<1>5. Grows
  BY <1>1, <1>2 DEF Grows
<1>6. /\ ended' \in [Nodes -> Causes] /\ served' \in [Nodes -> Nat]
      /\ inHand' \in [Nodes -> 0 .. BuffSize] /\ \A x \in Nodes : HandInv(x)'
  <2>1. CASE AcceptFails(n)
    <3>1. ended' = [ended EXCEPT ![n] = "accept"] /\ UNCHANGED <<conns, served, inHand>>
      BY <2>1 DEF AcceptFails, loopVars
    <3>2. \A x \in Nodes : HandInv(x)'
      BY <1>1, <1>5, <3>1, HandKept
    <3> QED BY <3>1, <3>2 DEF TypeInv, Causes
  <2>2. ASSUME NEW k \in Nat, Reads(n, k)
        PROVE  /\ ended' \in [Nodes -> Causes] /\ served' \in [Nodes -> Nat]
               /\ inHand' \in [Nodes -> 0 .. BuffSize] /\ \A x \in Nodes : HandInv(x)'
    <3>1. /\ UNCHANGED <<ended, conns, served>> /\ inHand' = [inHand EXCEPT ![n] = k]
          /\ k \in 0 .. BuffSize /\ k <= Full(Head(conns[n])) /\ Head(conns[n]) \in written
          /\ conns[n] # <<>>
      BY <2>2, MessageAssumption DEF Reads
    <3>2. inHand' \in [Nodes -> 0 .. BuffSize] /\ inHand'[n] = k
          /\ \A x \in Nodes \ {n} : inHand'[x] = inHand[x]
      BY <3>1 DEF TypeInv
    <3>3. \A x \in Nodes \ {n} : HandInv(x)'
      BY <1>1, <1>5, <3>1, <3>2, HandKept
    <3>4. HandInv(n)'
      BY <1>1, <1>2, <3>1, <3>2 DEF HandInv
    <3> QED BY <3>1, <3>2, <3>3, <3>4 DEF TypeInv
  <2>3. ASSUME Advances(n), inHand' = [inHand EXCEPT ![n] = 0]
        PROVE  /\ ended' \in [Nodes -> Causes] /\ served' \in [Nodes -> Nat]
               /\ inHand' \in [Nodes -> 0 .. BuffSize] /\ \A x \in Nodes : HandInv(x)'
    <3>1. /\ conns' = [conns EXCEPT ![n] = Tail(conns[n])] /\ UNCHANGED ended
          /\ served' = [served EXCEPT ![n] = served[n] + 1]
      BY <2>3 DEF Advances, NextConn
    <3>2. /\ inHand' \in [Nodes -> 0 .. BuffSize] /\ inHand'[n] = 0
          /\ served' \in [Nodes -> Nat]
          /\ \A x \in Nodes \ {n} : inHand'[x] = inHand[x] /\ conns'[x] = conns[x]
      BY <2>3, <3>1, MessageAssumption DEF TypeInv
    <3>3. \A x \in Nodes \ {n} : HandInv(x)'
      BY <1>1, <1>5, <3>2, HandKept
    <3>4. HandInv(n)'
      BY <3>2 DEF HandInv
    <3> QED BY <3>1, <3>2, <3>3, <3>4 DEF TypeInv
  <2>4. Closes(n) => Advances(n) /\ inHand' = [inHand EXCEPT ![n] = 0]
    <3> SUFFICES ASSUME Closes(n) PROVE Advances(n) /\ inHand' = [inHand EXCEPT ![n] = 0]
      OBVIOUS
    <3>1. Advances(n) /\ inHand' = inHand /\ inHand[n] = 0
      BY DEF Closes
    <3>2. inHand \in [Nodes -> 0 .. BuffSize]
      BY DEF TypeInv
    <3> QED BY <3>1, <3>2
  <2>5. \A k \in Nat : Passes(n, k) => Advances(n) /\ inHand' = [inHand EXCEPT ![n] = 0]
    BY DEF Passes
  <2> QED BY <2>1, <2>2, <2>3, <2>4, <2>5, RelayCases
<1> QED BY <1>1, <1>2, <1>3, <1>4, <1>5, <1>6 DEF TypeInv

LEMMA TypeStep ==
  TypeInv /\ FilesInv /\ [Next]_vars => TypeInv' /\ Grows
<1> SUFFICES ASSUME TypeInv, FilesInv, [Next]_vars PROVE TypeInv' /\ Grows
  OBVIOUS
<1>1. CASE UNCHANGED vars
  <2>1. UNCHANGED <<Message, Nodes, Part>> /\ Len(messages) \in Nat
    BY <1>1 DEF vars, files, Message, Nodes, TypeInv, Part
  <2>2. Grows
    BY <1>1, <2>1 DEF vars, Grows
  <2>3. \A x \in Nodes : HandInv(x)'
    BY <1>1, <2>2, HandKept DEF vars, loopVars
  <2> QED BY <1>1, <2>1, <2>2, <2>3 DEF vars, loopVars, pipeVars, TypeInv
<1> QED BY <1>1, TypeConnect, TypeWrite, TypeRelay, TypeRecv DEF Next

LEMMA TypeInit == Init => TypeInv
<1> SUFFICES ASSUME Init PROVE TypeInv
  OBVIOUS
<1>1. messages \in Seq(Message) /\ Len(messages) = 0 /\ 0 <= MaxMessages
  BY MessageAssumption DEF Init
<1>2. \A n \in Nodes : HandInv(n)
  BY DEF Init, HandInv
<1>3. 0 \in 0 .. BuffSize
  BY MessageAssumption
<1> QED BY <1>1, <1>2, <1>3 DEF Init, TypeInv, Causes

-----------------------------------------------------------------------------
(* Connections.                                                            *)

\* A message is for the machine that its connection was made to.
For(n, m) == m \in 1 .. Len(messages) /\ MachineOf(messages[m].dist) = n

\* A connection is made for a message of its own, and read once.
ConnInv(n) ==
  /\ \A q \in 1 .. Len(conns[n]) : For(n, conns[n][q])
  /\ \A q \in 1 .. Len(relayed[n]) : For(n, relayed[n][q])
  /\ \A p, q \in 1 .. Len(conns[n]) : conns[n][p] = conns[n][q] => p = q
  /\ \A p, q \in 1 .. Len(relayed[n]) : relayed[n][p] = relayed[n][q] => p = q
  /\ \A p \in 1 .. Len(conns[n]), q \in 1 .. Len(relayed[n]) : conns[n][p] # relayed[n][q]
  /\ cutAt[n] <= Len(relayed[n])

LEMMA ForKept ==
  ASSUME TypeInv, Grows, NEW n, NEW m, For(n, m)
  PROVE  For(n, m)'
<1>1. m \in 1 .. Len(messages') /\ messages'[m] = messages[m]
  BY DEF Grows, For, TypeInv
<1> QED BY <1>1 DEF For, Grows, files, MachineOf, Nodes, HostIp

LEMMA ConnSame ==
  ASSUME TypeInv, Grows, NEW n \in Nodes, ConnInv(n),
         conns'[n] = conns[n], relayed'[n] = relayed[n], cutAt'[n] = cutAt[n]
  PROVE  ConnInv(n)'
BY ForKept DEF ConnInv

LEMMA ConnConnect ==
  ASSUME TypeInv, TypeInv', Grows, \A x \in Nodes : ConnInv(x),
         NEW n \in Nodes, SendConnect(n), NEW x \in Nodes
  PROVE  ConnInv(x)'
<1>1. relayed' = relayed /\ cutAt' = cutAt
  BY ConnectCases
<1>2. CASE conns'[x] = conns[x]
  BY <1>1, <1>2, ConnSame
<1>3. CASE conns'[x] # conns[x]
  <2>1. PICK dist \in DOMAIN hosts, len \in Lengths :
          /\ messages' = Append(messages, MessageTo(n, dist, len))
          /\ conns' = [conns EXCEPT ![MachineOf(dist)] = Append(@, Len(messages'))]
    <3>1. PICK dist \in DOMAIN hosts, len \in Lengths :
            Connects(n, dist, len) \/ (\E why \in {"timeout", "refused"} : Fails(n, dist, why))
      BY ConnectCases
    <3>2. \A why : ~Fails(n, dist, why)
      BY <1>3 DEF Fails, NotConnected
    <3> QED BY <3>1, <3>2 DEF Connects, Connected
  <2>2. PICK c \in Nat : c = Len(messages')
    BY DEF TypeInv
  <2>3. MachineOf(dist) = x /\ conns'[x] = Append(conns[x], c)
    BY <1>3, <2>1, <2>2 DEF TypeInv
  <2>4. messages \in Seq(Message) /\ Len(messages) \in Nat /\ conns[x] \in Seq(Nat)
    BY DEF TypeInv
  <2>5. c = Len(messages) + 1 /\ messages'[c].dist = dist
    <3>1. MessageTo(n, dist, len) \in Message /\ MessageTo(n, dist, len).dist = dist
      BY DEF MessageTo, Message
    <3> QED BY <2>1, <2>2, <2>4, <3>1
  <2>6. For(x, c)'
    <3>1. c \in 1 .. Len(messages') /\ MachineOf(dist)' = x
      BY <2>2, <2>3, <2>4, <2>5 DEF MachineOf, Grows, files, Nodes, HostIp
    <3> QED BY <2>5, <3>1 DEF For
  <2>7. /\ Len(conns'[x]) = Len(conns[x]) + 1 /\ Len(conns[x]) \in Nat
        /\ conns'[x][Len(conns[x]) + 1] = c
        /\ \A q \in 1 .. Len(conns[x]) : conns'[x][q] = conns[x][q]
    BY <2>3, <2>4
  <2>8. /\ \A q \in 1 .. Len(conns[x]) : conns[x][q] # c
        /\ \A q \in 1 .. Len(relayed[x]) : relayed[x][q] # c
    BY <2>4, <2>5 DEF ConnInv, For
  <2>9. \A q \in 1 .. Len(conns'[x]) : q \in 1 .. Len(conns[x]) \/ q = Len(conns[x]) + 1
    BY <2>7
  <2>10. (\A q \in 1 .. Len(conns[x]) : For(x, conns[x][q]))'
    <3> SUFFICES ASSUME NEW q \in 1 .. Len(conns'[x]) PROVE For(x, conns[x][q])'
      OBVIOUS
    <3>1. PICK m : m = conns'[x][q]
      OBVIOUS
    <3>2. For(x, m)'
      BY <2>6, <2>7, <2>9, <3>1, ForKept DEF ConnInv
    <3> QED BY <3>1, <3>2
  <2>11. /\ \A p, q \in 1 .. Len(conns'[x]) : conns'[x][p] = conns'[x][q] => p = q
         /\ \A p \in 1 .. Len(conns'[x]), q \in 1 .. Len(relayed[x]) : conns'[x][p] # relayed[x][q]
    <3>1. /\ \A p, q \in 1 .. Len(conns[x]) : conns[x][p] = conns[x][q] => p = q
          /\ \A p \in 1 .. Len(conns[x]), q \in 1 .. Len(relayed[x]) : conns[x][p] # relayed[x][q]
      BY DEF ConnInv
    <3>2. ASSUME NEW p \in 1 .. Len(conns'[x]), NEW q \in 1 .. Len(conns'[x]),
                 conns'[x][p] = conns'[x][q]
          PROVE  p = q
      BY <2>7, <2>8, <2>9, <3>1, <3>2
    <3>3. ASSUME NEW p \in 1 .. Len(conns'[x]), NEW q \in 1 .. Len(relayed[x])
          PROVE  conns'[x][p] # relayed[x][q]
      BY <2>7, <2>8, <2>9, <3>1
    <3> QED BY <3>2, <3>3
  <2>12. (\A q \in 1 .. Len(relayed[x]) : For(x, relayed[x][q]))'
    BY <1>1, ForKept DEF ConnInv
  <2> QED BY <1>1, <2>10, <2>11, <2>12 DEF ConnInv
<1> QED BY <1>2, <1>3

LEMMA ConnRelay ==
  ASSUME TypeInv, TypeInv', Grows, \A x \in Nodes : ConnInv(x),
         NEW n \in Nodes, Relay(n), NEW x \in Nodes
  PROVE  ConnInv(x)'
<1>0. CASE UNCHANGED <<conns, pipe, cutAt, relayed>>
  BY <1>0, ConnSame
<1> SUFFICES ASSUME ~UNCHANGED <<conns, pipe, cutAt, relayed>> PROVE ConnInv(x)'
  BY <1>0
<1>1. conns[n] # <<>> /\ conns' = [conns EXCEPT ![n] = Tail(conns[n])]
  <2>1. ASSUME NEW k \in Nat, Passes(n, k)
        PROVE  conns[n] # <<>> /\ conns' = [conns EXCEPT ![n] = Tail(conns[n])]
    BY <2>1 DEF Passes, Advances, NextConn
  <2> QED BY <2>1, RelayEffects
<1>2. UNCHANGED <<pipe, cutAt, relayed>> \/ \E k \in Nat : Passes(n, k)
  BY RelayEffects
<1>3. CASE x # n
  <2>1. conns'[x] = conns[x] /\ relayed'[x] = relayed[x] /\ cutAt'[x] = cutAt[x]
    <3>1. conns'[x] = conns[x]
      BY <1>1, <1>3 DEF TypeInv
    <3>2. CASE UNCHANGED <<pipe, cutAt, relayed>>
      BY <3>1, <3>2
    <3>3. ASSUME NEW k \in Nat, Passes(n, k) PROVE relayed'[x] = relayed[x] /\ cutAt'[x] = cutAt[x]
      BY <1>3, <3>3 DEF Passes, TypeInv
    <3> QED BY <1>2, <3>1, <3>2, <3>3
  <2> QED BY <2>1, ConnSame
<1>4. CASE x = n
  <2> DEFINE m == Head(conns[n])
             L == Len(conns[n])
             R == Len(relayed[n])
  <2>1. /\ L \in Nat \ {0} /\ R \in Nat /\ m = conns[n][1]
        /\ conns'[n] = Tail(conns[n]) /\ Len(conns'[n]) = L - 1
        /\ \A q \in 1 .. L - 1 : conns'[n][q] = conns[n][q + 1]
    <3>1. conns'[n] = Tail(conns[n])
      BY <1>1 DEF TypeInv
    <3>2. relayed[n] \in Seq(Nat)
      BY DEF TypeInv
    <3>3. Len(relayed[n]) \in Nat
      BY <3>2
    <3> QED BY <1>1, <3>1, <3>3, ConnsAfterRelay
  <2>2. /\ \A q \in 1 .. L : For(n, conns[n][q])
        /\ \A q \in 1 .. R : For(n, relayed[n][q])
        /\ \A p, q \in 1 .. L : conns[n][p] = conns[n][q] => p = q
        /\ \A p, q \in 1 .. R : relayed[n][p] = relayed[n][q] => p = q
        /\ \A p \in 1 .. L, q \in 1 .. R : conns[n][p] # relayed[n][q]
        /\ cutAt[n] <= R
    BY DEF ConnInv
  <2>3. \A q \in 1 .. L - 1 : q + 1 \in 1 .. L /\ q + 1 # 1
    BY <2>1
  <2>4. (\A q \in 1 .. Len(conns[n]) : For(n, conns[n][q]))'
    <3> SUFFICES ASSUME NEW q \in 1 .. Len(conns'[n]) PROVE For(n, conns[n][q])'
      OBVIOUS
    <3>1. PICK c : c = conns'[n][q]
      OBVIOUS
    <3>2. For(n, c)'
      BY <2>1, <2>2, <2>3, <3>1, ForKept
    <3> QED BY <3>1, <3>2
  <2>5. \A p, q \in 1 .. Len(conns'[n]) : conns'[n][p] = conns'[n][q] => p = q
    BY <2>1, <2>2, <2>3
  <2>6. CASE UNCHANGED <<pipe, cutAt, relayed>>
    <3>1. \A p \in 1 .. Len(conns'[n]), q \in 1 .. R : conns'[n][p] # relayed[n][q]
      <4> TAKE p \in 1 .. Len(conns'[n]), q \in 1 .. R
      <4>1. p \in 1 .. L - 1 /\ p + 1 \in 1 .. L
        BY <2>1, <2>3
      <4>2. conns'[n][p] = conns[n][p + 1] /\ conns[n][p + 1] # relayed[n][q]
        BY <2>1, <2>2, <4>1
      <4> QED BY <4>2
    <3>2. (\A q \in 1 .. Len(relayed[n]) : For(n, relayed[n][q]))'
      BY <2>2, <2>6, ForKept
    <3> QED BY <1>4, <2>2, <2>4, <2>5, <2>6, <3>1, <3>2 DEF ConnInv
  <2>7. ASSUME NEW k \in Nat, Passes(n, k) PROVE ConnInv(n)'
    <3>1. relayed' = [relayed EXCEPT ![n] = Append(relayed[n], m)] /\ m \in Nat
      BY <2>7 DEF Passes, TypeInv
    <3> HIDE DEF m
    <3>2. /\ Len(relayed'[n]) = R + 1 /\ relayed'[n][R + 1] = m
          /\ \A q \in 1 .. R : relayed'[n][q] = relayed[n][q]
      BY <3>1 DEF TypeInv
    <3>3. \A q \in 1 .. R + 1 : q \in 1 .. R \/ q = R + 1
      BY <2>1
    <3>4. For(n, m) /\ \A q \in 1 .. R : relayed[n][q] # m
      BY <2>1, <2>2
    <3>5. (\A q \in 1 .. Len(relayed[n]) : For(n, relayed[n][q]))'
      <4> SUFFICES ASSUME NEW q \in 1 .. Len(relayed'[n]) PROVE For(n, relayed[n][q])'
        OBVIOUS
      <4>1. PICK c : c = relayed'[n][q]
        OBVIOUS
      <4>2. For(n, c)'
        BY <2>2, <3>2, <3>3, <3>4, <4>1, ForKept
      <4> QED BY <4>1, <4>2
    <3>6. \A p, q \in 1 .. Len(relayed'[n]) : relayed'[n][p] = relayed'[n][q] => p = q
      BY <2>2, <3>2, <3>3, <3>4
    <3>7. \A p \in 1 .. Len(conns'[n]), q \in 1 .. Len(relayed'[n]) : conns'[n][p] # relayed'[n][q]
      <4>1. \A p \in 1 .. L - 1 : conns[n][p + 1] # m
        BY <2>1, <2>2, <2>3
      <4> QED BY <2>1, <2>2, <2>3, <3>2, <3>3, <4>1
    <3>8. cutAt'[n] <= R + 1
      <4>1. cutAt'[n] = cutAt[n] \/ cutAt'[n] = R + 1
        BY <2>7 DEF Passes, TypeInv
      <4>2. cutAt[n] \in Nat
        BY DEF TypeInv
      <4> QED BY <2>1, <2>2, <4>1, <4>2
    <3> QED BY <2>4, <2>5, <3>2, <3>5, <3>6, <3>7, <3>8 DEF ConnInv
  <2> QED BY <1>2, <1>4, <2>6, <2>7
<1> QED BY <1>3, <1>4

LEMMA ConnStep ==
  ASSUME TypeInv, FilesInv, \A n \in Nodes : ConnInv(n), [Next]_vars
  PROVE  \A n \in Nodes : ConnInv(n)'
<1>0. TypeInv' /\ Grows
  BY TypeStep
<1>1. ASSUME NEW n \in Nodes, SendWrite(n) \/ Recv(n) PROVE UNCHANGED <<conns, relayed, cutAt>>
  BY <1>1 DEF SendWrite, Recv, loopVars, pipeVars
<1>2. CASE UNCHANGED vars
  BY <1>0, <1>2, ConnSame DEF vars, loopVars, pipeVars
<1> QED BY <1>0, <1>1, <1>2, ConnSame, ConnConnect, ConnRelay DEF Next

LEMMA ConnInit == Init => \A n \in Nodes : ConnInv(n)
BY DEF Init, ConnInv

-----------------------------------------------------------------------------
(* Limits.                                                                 *)

\* What a node has accepted and what waits was sent; queue, pipe and descriptors
\* hold no more than they can.
CountInv(n) ==
  /\ served[n] <= Descriptors /\ served[n] + Len(conns[n]) <= Len(messages)
  /\ Len(conns[n]) <= Backlog + 1 /\ Len(pipe[n]) <= PipeSize

LEMMA CountTypes ==
  ASSUME TypeInv, NEW n \in Nodes
  PROVE  /\ served[n] \in Nat /\ Len(conns[n]) \in Nat /\ Len(messages) \in Nat
         /\ Len(pipe[n]) \in Nat /\ Descriptors \in Nat /\ Backlog \in Nat /\ PipeSize \in Nat
<1>1. conns[n] \in Seq(Nat) /\ messages \in Seq(Message) /\ pipe[n] \in Seq(Part) /\ served[n] \in Nat
  BY DEF TypeInv
<1> QED BY <1>1, LimitAssumption

LEMMA CountSame ==
  ASSUME TypeInv, TypeInv', Grows, NEW n \in Nodes, CountInv(n),
         UNCHANGED <<served[n], conns[n], pipe[n]>>
  PROVE  CountInv(n)'
<1>1. Len(messages) \in Nat /\ Len(messages') \in Nat /\ Len(messages) <= Len(messages')
  BY CountTypes DEF Grows, TypeInv
<1> QED BY <1>1, CountTypes DEF CountInv

LEMMA CountAdvance ==
  ASSUME TypeInv, NEW n \in Nodes, CountInv(n), Advances(n), messages' = messages
  PROVE  /\ served'[n] <= Descriptors /\ served'[n] + Len(conns'[n]) <= Len(messages')
         /\ Len(conns'[n]) <= Backlog + 1
         /\ \A x \in Nodes \ {n} : served'[x] = served[x] /\ conns'[x] = conns[x]
<1>1. /\ conns[n] # <<>> /\ served[n] < Descriptors
      /\ conns' = [conns EXCEPT ![n] = Tail(conns[n])]
      /\ served' = [served EXCEPT ![n] = served[n] + 1]
  BY DEF Advances, NextConn
<1>2. served'[n] = served[n] + 1 /\ conns'[n] = Tail(conns[n])
      /\ \A x \in Nodes \ {n} : served'[x] = served[x] /\ conns'[x] = conns[x]
  BY <1>1 DEF TypeInv
<1>3. Len(conns'[n]) = Len(conns[n]) - 1
  BY <1>1, <1>2, ConnsAfterRelay
<1> QED BY <1>1, <1>2, <1>3, CountTypes DEF CountInv

LEMMA CountStep ==
  ASSUME TypeInv, FilesInv, \A n \in Nodes : CountInv(n), [Next]_vars
  PROVE  \A n \in Nodes : CountInv(n)'
<1> SUFFICES ASSUME NEW x \in Nodes PROVE CountInv(x)'
  OBVIOUS
<1>0. TypeInv' /\ Grows
  BY TypeStep
<1>1. CASE UNCHANGED vars
  BY <1>0, <1>1, CountSame DEF vars, loopVars, pipeVars
<1>2. ASSUME NEW n \in Nodes, SendConnect(n) PROVE CountInv(x)'
  <2>0. UNCHANGED <<served, pipe>>
    BY <1>2, ConnectCases
  <2>1. PICK dist \in DOMAIN hosts, len \in Lengths :
          Connects(n, dist, len) \/ (\E why \in {"timeout", "refused"} : Fails(n, dist, why))
    BY <1>2, ConnectCases
  <2>2. CASE \E why \in {"timeout", "refused"} : Fails(n, dist, why)
    BY <1>0, <2>0, <2>2, CountSame DEF Fails, NotConnected
  <2>3. CASE Connects(n, dist, len)
    <3>1. /\ messages' = Append(messages, MessageTo(n, dist, len))
          /\ conns' = [conns EXCEPT ![MachineOf(dist)] = Append(conns[MachineOf(dist)], Len(messages'))]
          /\ Len(conns[MachineOf(dist)]) <= Backlog
      BY <2>3 DEF Connects, Connected
    <3>2. CASE x # MachineOf(dist)
      <4>1. conns'[x] = conns[x]
        BY <3>1, <3>2 DEF TypeInv
      <4> QED BY <1>0, <2>0, <4>1, CountSame
    <3>3. CASE x = MachineOf(dist)
      <4>1. conns'[x] = Append(conns[x], Len(messages'))
        BY <3>1, <3>3 DEF TypeInv
      <4>2. conns[x] \in Seq(Nat) /\ messages \in Seq(Message)
        BY DEF TypeInv
      <4>3. Len(conns'[x]) = Len(conns[x]) + 1 /\ Len(messages') = Len(messages) + 1
        BY <3>1, <4>1, <4>2
      <4>4. Len(conns[x]) <= Backlog
        BY <3>1, <3>3
      <4> QED BY <2>0, <4>3, <4>4, CountTypes DEF CountInv
    <3> QED BY <3>2, <3>3
  <2> QED BY <2>1, <2>2, <2>3
<1>3. ASSUME NEW n \in Nodes, SendWrite(n) PROVE CountInv(x)'
  BY <1>0, <1>3, CountSame DEF SendWrite, loopVars, pipeVars
<1>4. ASSUME NEW n \in Nodes, Recv(n) PROVE CountInv(x)'
  <2>1. UNCHANGED <<served, conns>> /\ pipe[n] # <<>>
    BY <1>4 DEF Recv
  <2>2. PICK len \in Lengths : pipe' = [pipe EXCEPT ![n] = SubSeq(@, Taken(n, len) + 1, Len(@))]
    BY <1>4 DEF Recv
  <2>3. CASE x # n
    <3>1. pipe'[x] = pipe[x]
      BY <2>2, <2>3 DEF TypeInv
    <3> QED BY <1>0, <2>1, <3>1, CountSame
  <2>4. CASE x = n
    <3>1. PICK t \in 1 .. Len(pipe[n]) : t = Taken(n, len)
      BY <2>1, TakenType
    <3>2. pipe'[x] = SubSeq(pipe[n], t + 1, Len(pipe[n]))
      BY <2>2, <2>4, <3>1 DEF TypeInv
    <3>3. Len(pipe'[x]) = Len(pipe[x]) - t
      BY <2>4, <3>2, PipeAfterRead
    <3>4. messages' = messages
      BY <1>4 DEF Recv
    <3> QED BY <2>1, <2>4, <3>3, <3>4, CountTypes DEF CountInv
  <2> QED BY <2>3, <2>4
<1>5. ASSUME NEW n \in Nodes, Relay(n) PROVE CountInv(x)'
  <2>0. messages' = messages
    BY <1>5, RelayCases
  <2>1. CASE AcceptFails(n)
    BY <1>0, <2>1, CountSame DEF AcceptFails, loopVars, pipeVars
  <2>2. ASSUME NEW k \in Nat, Reads(n, k) PROVE CountInv(x)'
    BY <1>0, <2>2, CountSame DEF Reads
  <2>3. CASE Closes(n)
    <3>1. Advances(n) /\ pipe' = pipe
      BY <2>3 DEF Closes
    <3>2. CASE x # n
      BY <1>0, <2>0, <3>1, <3>2, CountAdvance, CountSame
    <3>3. CASE x = n
      BY <2>0, <3>1, <3>3, CountAdvance DEF CountInv
    <3> QED BY <3>2, <3>3
  <2>4. ASSUME NEW k \in Nat, Passes(n, k) PROVE CountInv(x)'
    <3> DEFINE m == Head(conns[n])
    <3>1. /\ Advances(n) /\ Len(pipe[n]) + k <= PipeSize
          /\ m \in 1 .. Len(messages) /\ k \in 1 .. Full(m)
          /\ pipe' = [pipe EXCEPT ![n] = pipe[n] \o SubSeq(Parts(m), 1, k)]
      BY <2>4 DEF Passes
    <3> HIDE DEF m
    <3>2. CASE x # n
      <4>1. pipe'[x] = pipe[x]
        BY <3>1, <3>2 DEF TypeInv
      <4> QED BY <1>0, <2>0, <3>1, <3>2, <4>1, CountAdvance, CountSame
    <3>3. CASE x = n
      <4>1. pipe'[n] = pipe[n] \o SubSeq(Parts(m), 1, k)
        BY <3>1 DEF TypeInv
      <4>2. Len(pipe'[n]) = Len(pipe[n]) + k
        BY <3>1, <4>1, PipeAfterWrite
      <4> QED BY <2>0, <3>1, <3>3, <4>2, CountAdvance DEF CountInv
    <3> QED BY <3>2, <3>3
  <2> QED BY <1>5, <2>1, <2>2, <2>3, <2>4, RelayCases
<1> QED BY <1>1, <1>2, <1>3, <1>4, <1>5 DEF Next

LEMMA CountInit == Init => \A n \in Nodes : CountInv(n)
<1> SUFFICES ASSUME Init, NEW n \in Nodes PROVE CountInv(n)
  OBVIOUS
<1>1. served[n] = 0 /\ conns[n] = <<>> /\ messages = <<>> /\ pipe[n] = <<>>
  BY DEF Init
<1> QED BY <1>1, LimitAssumption DEF CountInv

-----------------------------------------------------------------------------
(* Heads.  The pipe has no more than the order of its heads, which is that *)
(* of the messages, to tell them apart.                                    *)

\* The part at i of the pipe is the head of the j-th message read.
HeadAt(n, i, j) == /\ i \in 1 .. Len(pipe[n]) /\ j \in 1 .. Len(relayed[n])
                   /\ relayed[n][j] = pipe[n][i].msg /\ pipe[n][i].part = 0

HeadInv(n) ==
  /\ Len(delivered[n]) <= Len(relayed[n])
  /\ \A i \in 1 .. Len(pipe[n]) : \E j \in 1 .. Len(relayed[n]) : relayed[n][j] = pipe[n][i].msg
  /\ \A i \in 1 .. Len(pipe[n]), j \in 1 .. Len(relayed[n]) :
       HeadAt(n, i, j) => Len(delivered[n]) < j
  /\ \A i1, i2 \in 1 .. Len(pipe[n]) : \A j1, j2 \in 1 .. Len(relayed[n]) :
       i1 < i2 /\ HeadAt(n, i1, j1) /\ HeadAt(n, i2, j2) => j1 < j2

LEMMA HeadSame ==
  ASSUME NEW n, HeadInv(n), pipe'[n] = pipe[n], relayed'[n] = relayed[n], delivered'[n] = delivered[n]
  PROVE  HeadInv(n)'
BY DEF HeadInv, HeadAt

\* What a node has read, and its pipe, after k parts of one more message.
LEMMA AfterPass ==
  ASSUME TypeInv, NEW n \in Nodes, NEW k \in Nat, Passes(n, k)
  PROVE  LET m == Head(conns[n]) IN
         /\ m \in 1 .. Len(messages) /\ k \in 1 .. Full(m) /\ Full(m) \in Nat
         /\ Len(relayed[n]) \in Nat /\ Len(pipe[n]) \in Nat
         /\ Len(relayed'[n]) = Len(relayed[n]) + 1 /\ relayed'[n][Len(relayed[n]) + 1] = m
         /\ \A q \in 1 .. Len(relayed[n]) : relayed'[n][q] = relayed[n][q]
         /\ Len(pipe'[n]) = Len(pipe[n]) + k
         /\ \A q \in 1 .. Len(pipe[n]) : pipe'[n][q] = pipe[n][q]
         /\ \A q \in 1 .. k : pipe'[n][Len(pipe[n]) + q] = [msg |-> m, part |-> q - 1]
         /\ cutAt'[n] = IF cutAt[n] = 0 /\ k < Full(m) THEN Len(relayed[n]) + 1 ELSE cutAt[n]
         /\ \A x \in Nodes \ {n} : /\ pipe'[x] = pipe[x] /\ relayed'[x] = relayed[x]
                                   /\ cutAt'[x] = cutAt[x]
<1> DEFINE m == Head(conns[n])
<1>1. m \in 1 .. Len(messages) /\ k \in 1 .. Full(m)
  BY DEF Passes
<1>2. /\ pipe' = [pipe EXCEPT ![n] = pipe[n] \o SubSeq(Parts(m), 1, k)]
      /\ relayed' = [relayed EXCEPT ![n] = Append(relayed[n], m)]
      /\ cutAt' = [cutAt EXCEPT ![n] = IF cutAt[n] = 0 /\ k < Full(m)
                                       THEN Len(relayed[n]) + 1 ELSE cutAt[n]]
  BY DEF Passes
<1> HIDE DEF m
<1>3. Full(m) \in Nat /\ m \in Nat
  <2>1. Full(m) \in Nat
    BY <1>1, PartsType
  <2> QED BY <1>1, <2>1
<1>4. relayed[n] \in Seq(Nat) /\ pipe[n] \in Seq(Part)
  BY DEF TypeInv
<1>5. relayed'[n] = Append(relayed[n], m) /\ \A x \in Nodes \ {n} : relayed'[x] = relayed[x]
  BY <1>2 DEF TypeInv
<1>6. /\ Len(relayed'[n]) = Len(relayed[n]) + 1 /\ relayed'[n][Len(relayed[n]) + 1] = m
      /\ \A q \in 1 .. Len(relayed[n]) : relayed'[n][q] = relayed[n][q]
      /\ Len(relayed[n]) \in Nat /\ Len(pipe[n]) \in Nat
  BY <1>3, <1>4, <1>5
<1>7. /\ pipe'[n] = pipe[n] \o SubSeq(Parts(m), 1, k)
      /\ \A x \in Nodes \ {n} : pipe'[x] = pipe[x]
  BY <1>2 DEF TypeInv
<1>8. /\ Len(pipe'[n]) = Len(pipe[n]) + k
      /\ \A q \in 1 .. Len(pipe[n]) : pipe'[n][q] = pipe[n][q]
      /\ \A q \in 1 .. k : pipe'[n][Len(pipe[n]) + q] = [msg |-> m, part |-> q - 1]
  BY <1>1, <1>7, PipeAfterWrite
<1>9. /\ cutAt'[n] = IF cutAt[n] = 0 /\ k < Full(m) THEN Len(relayed[n]) + 1 ELSE cutAt[n]
      /\ \A x \in Nodes \ {n} : cutAt'[x] = cutAt[x]
  BY <1>2 DEF TypeInv
<1> QED BY <1>1, <1>3, <1>5, <1>6, <1>7, <1>8, <1>9 DEF m

LEMMA HeadPass ==
  ASSUME TypeInv, NEW n \in Nodes, HeadInv(n), ConnInv(n)', delivered' = delivered,
         NEW k \in Nat, Passes(n, k)
  PROVE  HeadInv(n)'
<1> DEFINE m == Head(conns[n])
           R == Len(relayed[n])
           P == Len(pipe[n])
           D == Len(delivered[n])
<1>1. /\ R \in Nat /\ P \in Nat /\ D \in Nat /\ k \in Nat \ {0}
      /\ Len(relayed'[n]) = R + 1 /\ relayed'[n][R + 1] = m
      /\ \A q \in 1 .. R : relayed'[n][q] = relayed[n][q]
      /\ Len(pipe'[n]) = P + k
      /\ \A q \in 1 .. P : pipe'[n][q] = pipe[n][q]
      /\ \A q \in 1 .. k : pipe'[n][P + q] = [msg |-> m, part |-> q - 1]
  <2>1. D \in Nat
    <3>1. delivered[n] \in Seq(Seq(Part))
      BY DEF TypeInv
    <3> QED BY <3>1
  <2> QED BY <2>1, AfterPass
<1>2. \A p, q \in 1 .. R + 1 : relayed'[n][p] = relayed'[n][q] => p = q
  BY <1>1 DEF ConnInv
<1> HIDE DEF m
<1>3. \A i \in 1 .. P + k : i \in 1 .. P \/ \E q \in 1 .. k : i = P + q
  <2> SUFFICES ASSUME NEW i \in 1 .. P + k, ~(i \in 1 .. P) PROVE i - P \in 1 .. k /\ i = P + (i - P)
    OBVIOUS
  <2> QED BY <1>1
\* An old part is of an old message, and a new head is that of the new message.
<1>4. ASSUME NEW i \in 1 .. P + k, NEW j \in 1 .. R + 1, HeadAt(n, i, j)'
      PROVE  HeadAt(n, i, j) \/ (i = P + 1 /\ j = R + 1)
  <2>1. relayed'[n][j] = pipe'[n][i].msg /\ pipe'[n][i].part = 0
    BY <1>4 DEF HeadAt
  <2>2. CASE i \in 1 .. P
    <3>1. PICK j0 \in 1 .. R : relayed[n][j0] = pipe[n][i].msg
      BY <2>2 DEF HeadInv
    <3>2. relayed'[n][j0] = relayed'[n][j] /\ j0 \in 1 .. R + 1
      <4>1. pipe'[n][i] = pipe[n][i]
        BY <1>1, <2>2
      <4>2. relayed'[n][j0] = relayed[n][j0]
        BY <1>1
      <4>3. j0 \in 1 .. R + 1
        BY <1>1
      <4> QED BY <2>1, <3>1, <4>1, <4>2, <4>3
    <3>3. j = j0
      BY <1>2, <3>2
    <3> QED BY <1>1, <2>1, <2>2, <3>1, <3>3 DEF HeadAt
  <2>3. ASSUME NEW q \in 1 .. k, i = P + q PROVE i = P + 1 /\ j = R + 1
    <3>1. pipe'[n][i] = [msg |-> m, part |-> q - 1]
      BY <1>1, <2>3
    <3>2. q = 1 /\ relayed'[n][j] = relayed'[n][R + 1]
      BY <1>1, <2>1, <3>1
    <3>3. R + 1 \in 1 .. R + 1
      BY <1>1
    <3> QED BY <1>2, <2>3, <3>2, <3>3
  <2> QED BY <1>3, <2>2, <2>3
<1>5. (Len(delivered[n]) <= Len(relayed[n]))'
  BY <1>1 DEF HeadInv
<1>6. ASSUME NEW i \in 1 .. P + k PROVE \E j \in 1 .. R + 1 : relayed'[n][j] = pipe'[n][i].msg
  <2>1. CASE i \in 1 .. P
    <3>1. PICK j \in 1 .. R : relayed[n][j] = pipe[n][i].msg
      BY <2>1 DEF HeadInv
    <3>2. pipe'[n][i] = pipe[n][i]
      BY <1>1, <2>1
    <3>3. relayed'[n][j] = relayed[n][j] /\ j \in 1 .. R + 1
      BY <1>1
    <3> QED BY <3>1, <3>2, <3>3
  <2>2. ASSUME NEW q \in 1 .. k, i = P + q PROVE relayed'[n][R + 1] = pipe'[n][i].msg
    <3>1. pipe'[n][i] = [msg |-> m, part |-> q - 1]
      BY <1>1, <2>2
    <3> QED BY <1>1, <3>1
  <2>3. R + 1 \in 1 .. R + 1
    BY <1>1
  <2> QED BY <1>3, <2>1, <2>2, <2>3
<1>7. ASSUME NEW i \in 1 .. P + k, NEW j \in 1 .. R + 1, HeadAt(n, i, j)' PROVE D < j
  <2>1. CASE HeadAt(n, i, j)
    BY <2>1 DEF HeadInv, HeadAt
  <2> QED BY <1>1, <1>4, <1>7, <2>1 DEF HeadInv
<1>8. ASSUME NEW i1 \in 1 .. P + k, NEW i2 \in 1 .. P + k, i1 < i2,
             NEW j1 \in 1 .. R + 1, NEW j2 \in 1 .. R + 1, HeadAt(n, i1, j1)', HeadAt(n, i2, j2)'
      PROVE  j1 < j2
  <2>1. /\ HeadAt(n, i1, j1) \/ (i1 = P + 1 /\ j1 = R + 1)
        /\ HeadAt(n, i2, j2) \/ (i2 = P + 1 /\ j2 = R + 1)
    BY <1>4, <1>8
  <2>2. CASE HeadAt(n, i1, j1) /\ HeadAt(n, i2, j2)
    BY <1>8, <2>2 DEF HeadInv, HeadAt
  <2>3. CASE HeadAt(n, i1, j1) /\ j2 = R + 1
    BY <1>1, <2>3 DEF HeadAt
  <2>4. CASE i1 = P + 1
    <3>1. ~HeadAt(n, i2, j2) /\ i2 # P + 1
      <4>1. i2 \in Int /\ ~(i2 <= P + 1)
        BY <1>1, <1>8, <2>4
      <4>2. CASE HeadAt(n, i2, j2)
        BY <1>1, <4>1, <4>2 DEF HeadAt
      <4> QED BY <1>1, <4>1, <4>2
    <3> QED BY <2>1, <3>1
  <2> QED BY <2>1, <2>2, <2>3, <2>4
<1> QED BY <1>1, <1>5, <1>6, <1>7, <1>8 DEF HeadInv

\* What msg_recv, asked for a message of length len, takes of the pipe (t parts)
\* and leaves.
Receives(n, len, t) ==
  /\ len \in Nat /\ Len(pipe[n]) \in Nat \ {0} /\ Len(delivered[n]) \in Nat
  /\ t = IF Len(pipe[n]) <= len + 1 THEN Len(pipe[n]) ELSE len + 1
  /\ ended'[n] = Fault(n, len) /\ Head(pipe[n]) = pipe[n][1] /\ pipe[n][1] \in Part
  /\ Len(pipe'[n]) = Len(pipe[n]) - t
  /\ \A q \in 1 .. Len(pipe[n]) - t : pipe'[n][q] = pipe[n][t + q]
  /\ Fault(n, len) # "no" => delivered'[n] = delivered[n]
  /\ Fault(n, len) = "no" =>
       /\ Len(delivered'[n]) = Len(delivered[n]) + 1
       /\ \A i \in 1 .. Len(delivered[n]) : delivered'[n][i] = delivered[n][i]
       /\ delivered'[n][Len(delivered[n]) + 1] = SubSeq(pipe[n], 1, t)
  /\ \A x \in Nodes \ {n} : pipe'[x] = pipe[x] /\ delivered'[x] = delivered[x] /\ ended'[x] = ended[x]

LEMMA AfterRecv ==
  ASSUME TypeInv, NEW n \in Nodes, Recv(n)
  PROVE  \E len \in Lengths, t \in 1 .. Len(pipe[n]) : Receives(n, len, t)
<1>1. pipe[n] # <<>>
  BY DEF Recv
<1>2. PICK len \in Lengths :
       /\ ended' = [ended EXCEPT ![n] = Fault(n, len)]
       /\ pipe' = [pipe EXCEPT ![n] = SubSeq(@, Taken(n, len) + 1, Len(@))]
       /\ delivered' = [delivered EXCEPT ![n] =
            IF Fault(n, len) = "no" THEN Append(@, SubSeq(pipe[n], 1, Taken(n, len))) ELSE @]
  BY DEF Recv
<1>3. PICK t : t = Taken(n, len)
  OBVIOUS
<1>4. /\ t \in 1 .. Len(pipe[n]) /\ len \in Nat
      /\ t = IF Len(pipe[n]) <= len + 1 THEN Len(pipe[n]) ELSE len + 1
      /\ Head(pipe[n]) = pipe[n][1] /\ pipe[n][1] \in Part
  BY <1>1, <1>3, TakenType
<1>5. Len(pipe[n]) \in Nat \ {0}
  <2>1. Len(pipe[n]) \in Nat
    BY DEF TypeInv
  <2> QED BY <1>4, <2>1
<1>6. ended'[n] = Fault(n, len) /\ \A x \in Nodes \ {n} : ended'[x] = ended[x]
  BY <1>2 DEF TypeInv
<1>7. /\ pipe'[n] = SubSeq(pipe[n], t + 1, Len(pipe[n]))
      /\ \A x \in Nodes \ {n} : pipe'[x] = pipe[x]
  BY <1>2, <1>3 DEF TypeInv
<1>8. /\ delivered'[n] = IF Fault(n, len) = "no" THEN Append(delivered[n], SubSeq(pipe[n], 1, t))
                                                 ELSE delivered[n]
      /\ \A x \in Nodes \ {n} : delivered'[x] = delivered[x]
  BY <1>2, <1>3 DEF TypeInv
<1>9. delivered[n] \in Seq(Seq(Part)) /\ SubSeq(pipe[n], 1, t) \in Seq(Part)
  BY <1>4, PipeAfterRead DEF TypeInv
<1>10. /\ Len(delivered[n]) \in Nat
       /\ Fault(n, len) = "no" =>
              /\ Len(delivered'[n]) = Len(delivered[n]) + 1
              /\ \A i \in 1 .. Len(delivered[n]) : delivered'[n][i] = delivered[n][i]
              /\ delivered'[n][Len(delivered[n]) + 1] = SubSeq(pipe[n], 1, t)
  BY <1>8, <1>9
<1>11. /\ Len(pipe'[n]) = Len(pipe[n]) - t
       /\ \A q \in 1 .. Len(pipe[n]) - t : pipe'[n][q] = pipe[n][t + q]
  <2>1. pipe'[n] = SubSeq(pipe[n], t + 1, Len(pipe[n]))
    BY <1>7
  <2>2. /\ Len(SubSeq(pipe[n], t + 1, Len(pipe[n]))) = Len(pipe[n]) - t
        /\ \A q \in 1 .. Len(pipe[n]) - t : SubSeq(pipe[n], t + 1, Len(pipe[n]))[q] = pipe[n][t + q]
    BY <1>4, PipeAfterRead
  <2> QED BY <2>1, <2>2, Zenon
<1> QED BY <1>4, <1>5, <1>6, <1>7, <1>8, <1>10, <1>11 DEF Receives

\* The other nodes are left alone.
LEMMA RecvAlone ==
  ASSUME TypeInv, NEW n \in Nodes, Recv(n), NEW x \in Nodes \ {n}
  PROVE  pipe'[x] = pipe[x] /\ delivered'[x] = delivered[x] /\ ended'[x] = ended[x]
<1>1. PICK len \in Lengths, t \in 1 .. Len(pipe[n]) : Receives(n, len, t)
  BY AfterRecv
<1> QED BY <1>1 DEF Receives

\* Only a message that begins the pipe is delivered.
LEMMA FaultNone ==
  ASSUME NEW n, NEW len, Fault(n, len) = "no"
  PROVE  LET first == Head(pipe[n]) IN
         /\ first.part = 0 /\ messages[first.msg].dist = id[n] /\ messages[first.msg].len = len
BY DEF Fault


LEMMA HeadRecv ==
  ASSUME TypeInv, NEW n \in Nodes, HeadInv(n), Recv(n)
  PROVE  HeadInv(n)'
<1> DEFINE R == Len(relayed[n])
           P == Len(pipe[n])
           D == Len(delivered[n])
<1>0. PICK len \in Lengths, t \in 1 .. P : Receives(n, len, t)
  BY AfterRecv
<1>1. /\ P \in Nat /\ D \in Nat /\ Head(pipe[n]) = pipe[n][1]
      /\ Len(pipe'[n]) = P - t
      /\ \A q \in 1 .. P - t : pipe'[n][q] = pipe[n][t + q]
      /\ Fault(n, len) # "no" => delivered'[n] = delivered[n]
      /\ Fault(n, len) = "no" => Len(delivered'[n]) = D + 1
  BY <1>0 DEF Receives
<1>2. relayed' = relayed /\ R \in Nat
  <2>1. relayed[n] \in Seq(Nat)
    BY DEF TypeInv
  <2> QED BY <2>1 DEF Recv
<1>3. \A i \in 1 .. P - t : t + i \in 1 .. P /\ 1 < t + i
  BY <1>1
<1>4. \A i \in 1 .. P - t, j \in 1 .. R : HeadAt(n, i, j)' => HeadAt(n, t + i, j)
  BY <1>1, <1>2, <1>3 DEF HeadAt
<1>5. \A i \in 1 .. P - t : \E j \in 1 .. R : relayed'[n][j] = pipe'[n][i].msg
  <2> TAKE i \in 1 .. P - t
  <2>1. PICK j \in 1 .. R : relayed[n][j] = pipe[n][t + i].msg
    BY <1>3 DEF HeadInv
  <2> QED BY <1>1, <1>2, <2>1
<1>6. ASSUME NEW i1 \in 1 .. P - t, NEW i2 \in 1 .. P - t, i1 < i2,
             NEW j1 \in 1 .. R, NEW j2 \in 1 .. R, HeadAt(n, i1, j1)', HeadAt(n, i2, j2)'
      PROVE  j1 < j2
  <2>1. HeadAt(n, t + i1, j1) /\ HeadAt(n, t + i2, j2)
    BY <1>4, <1>6
  <2>2. t + i1 \in 1 .. P /\ t + i2 \in 1 .. P /\ t + i1 < t + i2
    BY <1>3, <1>6
  <2> QED BY <2>1, <2>2 DEF HeadInv
<1>7. CASE Fault(n, len) # "no"
  <2>1. \A i \in 1 .. P - t, j \in 1 .. R : HeadAt(n, i, j)' => D < j
    BY <1>3, <1>4 DEF HeadInv
  <2>2. Len(delivered'[n]) = D /\ D <= R
    BY <1>1, <1>7 DEF HeadInv
  <2> QED BY <1>1, <1>2, <1>5, <1>6, <2>1, <2>2 DEF HeadInv
<1>8. CASE Fault(n, len) = "no"
  <2>1. PICK j0 \in 1 .. R : HeadAt(n, 1, j0) /\ D < j0
    <3>1. 1 \in 1 .. P /\ pipe[n][1].part = 0
      BY <1>1, <1>8, FaultNone
    <3>2. PICK j0 \in 1 .. R : relayed[n][j0] = pipe[n][1].msg
      BY <3>1 DEF HeadInv
    <3>3. HeadAt(n, 1, j0)
      BY <3>1, <3>2 DEF HeadAt
    <3> QED BY <3>1, <3>3 DEF HeadInv
  <2>2. \A i \in 1 .. P - t, j \in 1 .. R : HeadAt(n, i, j)' => D + 1 < j
    <3> SUFFICES ASSUME NEW i \in 1 .. P - t, NEW j \in 1 .. R, HeadAt(n, i, j)' PROVE D + 1 < j
      OBVIOUS
    <3>1. HeadAt(n, t + i, j) /\ t + i \in 1 .. P /\ 1 < t + i /\ 1 \in 1 .. P
      BY <1>1, <1>3, <1>4
    <3>2. j0 < j
      BY <2>1, <3>1 DEF HeadInv
    <3> QED BY <1>1, <1>2, <2>1, <3>2
  <2>3. Len(delivered'[n]) = D + 1 /\ D + 1 <= R
    BY <1>1, <1>2, <1>8, <2>1
  <2> QED BY <1>1, <1>2, <1>5, <1>6, <2>2, <2>3 DEF HeadInv
<1> QED BY <1>7, <1>8

LEMMA HeadStep ==
  ASSUME TypeInv, FilesInv, \A n \in Nodes : ConnInv(n) /\ HeadInv(n), [Next]_vars
  PROVE  \A n \in Nodes : HeadInv(n)'
<1> SUFFICES ASSUME NEW x \in Nodes PROVE HeadInv(x)'
  OBVIOUS
<1>1. ASSUME UNCHANGED <<pipe, relayed, delivered>> PROVE HeadInv(x)'
  BY <1>1, HeadSame
<1>2. ASSUME NEW n \in Nodes, Relay(n) PROVE HeadInv(x)'
  <2>1. delivered' = delivered /\ ConnInv(x)'
    BY <1>2, RelayCases, ConnStep
  <2>2. ASSUME NEW k \in Nat, Passes(n, k) PROVE HeadInv(x)'
    <3>1. CASE x = n
      BY <2>1, <2>2, <3>1, HeadPass
    <3>2. CASE x # n
      <4>1. pipe'[x] = pipe[x] /\ relayed'[x] = relayed[x]
        BY <2>2, <3>2, AfterPass
      <4> QED BY <2>1, <4>1, HeadSame
    <3> QED BY <3>1, <3>2
  <2> QED BY <1>1, <1>2, <2>1, <2>2, RelayEffects
<1>3. ASSUME NEW n \in Nodes, Recv(n) PROVE HeadInv(x)'
  <2>1. CASE x = n
    BY <1>3, <2>1, HeadRecv
  <2>2. CASE x # n
    <3>1. pipe'[x] = pipe[x] /\ delivered'[x] = delivered[x]
      BY <1>3, <2>2, RecvAlone
    <3>2. relayed' = relayed
      BY <1>3 DEF Recv
    <3> QED BY <3>1, <3>2, HeadSame
  <2> QED BY <2>1, <2>2
<1>4. ASSUME NEW n \in Nodes, SendConnect(n) \/ SendWrite(n) PROVE HeadInv(x)'
  BY <1>1, <1>4 DEF SendConnect, SendWrite, loopVars, pipeVars
<1>5. CASE UNCHANGED vars
  BY <1>1, <1>5 DEF vars, loopVars, pipeVars
<1> QED BY <1>2, <1>3, <1>4, <1>5 DEF Next

LEMMA HeadInit == Init => \A n \in Nodes : HeadInv(n)
BY DEF Init, HeadInv

-----------------------------------------------------------------------------
(* Order.  As long as no message was cut, the pipe of a node that is up is *)
(* the messages it has read and not delivered, one after the other.        *)

Whole(n, j) == cutAt[n] = 0 \/ j < cutAt[n]

\* The j-th message that was read begins after off[j] parts of the pipe.
Blocks(n, off) ==
  /\ off[Len(delivered[n]) + 1] = 0
  /\ cutAt[n] = 0 => off[Len(relayed[n]) + 1] = Len(pipe[n])
  /\ \A j \in Len(delivered[n]) + 1 .. Len(relayed[n]) : Whole(n, j) =>
       /\ \A i \in Len(delivered[n]) + 1 .. j : off[i] <= off[j]
       /\ off[j + 1] = off[j] + Full(relayed[n][j]) /\ off[j + 1] <= Len(pipe[n])
       /\ \A q \in 1 .. Full(relayed[n][j]) :
            pipe[n][off[j] + q] = [msg |-> relayed[n][j], part |-> q - 1]

BlockInv(n) == Up(n) => \E off \in [Nat -> Int] : Blocks(n, off)

OrderInv(n) ==
  \A i \in 1 .. Len(delivered[n]) : Whole(n, i) => delivered[n][i] = Parts(relayed[n][i])

\* The length and the parts of a message do not change.
LEMMA FullKept ==
  ASSUME TypeInv, Grows, NEW m \in 1 .. Len(messages)
  PROVE  messages'[m].len + 1 = Full(m) /\ Parts(m)' = Parts(m)
<1>1. messages'[m] = messages[m]
  BY DEF Grows
<1> QED BY <1>1 DEF Full, Parts

LEMMA OrderSame ==
  ASSUME TypeInv, Grows, NEW n \in Nodes, ConnInv(n), HeadInv(n), BlockInv(n), OrderInv(n),
         pipe'[n] = pipe[n], relayed'[n] = relayed[n], cutAt'[n] = cutAt[n],
         delivered'[n] = delivered[n], Up(n)' => Up(n)
  PROVE  BlockInv(n)' /\ OrderInv(n)'
<1> DEFINE R == Len(relayed[n])
           D == Len(delivered[n])
<1>1. /\ R \in Nat /\ D \in Nat /\ D <= R
      /\ \A j \in 1 .. R : relayed[n][j] \in 1 .. Len(messages)
  <2>1. relayed[n] \in Seq(Nat) /\ delivered[n] \in Seq(Seq(Part))
    BY DEF TypeInv
  <2> QED BY <2>1 DEF ConnInv, HeadInv, For
<1>2. \A j \in 1 .. R : messages'[relayed[n][j]].len + 1 = Full(relayed[n][j])
  BY <1>1, FullKept
<1>3. \A j \in D + 1 .. R : j \in 1 .. R
  BY <1>1
<1>4. BlockInv(n)'
  <2> SUFFICES ASSUME Up(n)' PROVE (\E off \in [Nat -> Int] : Blocks(n, off))'
    BY DEF BlockInv
  <2>1. PICK off \in [Nat -> Int] : Blocks(n, off)
    BY DEF BlockInv
  <2>2. \A j \in 1 .. R : Full(relayed[n][j])' = Full(relayed[n][j])
    BY <1>2 DEF Full
  <2>3. Blocks(n, off)'
    BY <1>3, <2>1, <2>2 DEF Blocks, Whole
  <2> QED BY <2>1, <2>3
<1>5. OrderInv(n)'
  <2> SUFFICES ASSUME NEW i \in 1 .. Len(delivered'[n]), Whole(n, i)'
               PROVE  (delivered[n][i] = Parts(relayed[n][i]))'
    BY DEF OrderInv
  <2>1. i \in 1 .. R /\ delivered[n][i] = Parts(relayed[n][i])
    BY <1>1 DEF OrderInv, Whole
  <2>2. PICK m \in 1 .. Len(messages) : m = relayed[n][i]
    BY <1>1, <2>1
  <2>3. Parts(m)' = Parts(m)
    BY <2>2, FullKept
  <2> QED BY <2>1, <2>2, <2>3 DEF Parts
<1> QED BY <1>4, <1>5

LEMMA OrderPass ==
  ASSUME TypeInv, Grows, NEW n \in Nodes, ConnInv(n), HeadInv(n), BlockInv(n), OrderInv(n),
         delivered' = delivered, messages' = messages, Up(n), NEW k \in Nat, Passes(n, k)
  PROVE  BlockInv(n)' /\ OrderInv(n)'
<1> DEFINE m == Head(conns[n])
           R == Len(relayed[n])
           P == Len(pipe[n])
           D == Len(delivered[n])
<1>1. /\ R \in Nat /\ P \in Nat /\ D \in Nat /\ D <= R /\ cutAt[n] \in Nat /\ cutAt[n] <= R
      /\ Full(m) \in Nat /\ k \in 1 .. Full(m)
      /\ Len(relayed'[n]) = R + 1 /\ relayed'[n][R + 1] = m
      /\ \A q \in 1 .. R : relayed'[n][q] = relayed[n][q]
      /\ Len(pipe'[n]) = P + k
      /\ \A q \in 1 .. P : pipe'[n][q] = pipe[n][q]
      /\ \A q \in 1 .. k : pipe'[n][P + q] = [msg |-> m, part |-> q - 1]
      /\ cutAt'[n] = IF cutAt[n] = 0 /\ k < Full(m) THEN R + 1 ELSE cutAt[n]
  <2>1. D \in Nat
    <3>1. delivered[n] \in Seq(Seq(Part))
      BY DEF TypeInv
    <3> QED BY <3>1
  <2>2. D <= R /\ cutAt[n] \in Nat /\ cutAt[n] <= R
    BY DEF HeadInv, ConnInv, TypeInv
  <2> QED BY <2>1, <2>2, AfterPass
<1> HIDE DEF m, R, P, D
<1>0. R \in Nat /\ P \in Nat /\ D \in Nat /\ D <= R /\ k \in Nat \ {0}
  BY <1>1
<1>20. /\ cutAt[n] \in Nat /\ cutAt[n] <= R /\ Full(m) \in Nat /\ k <= Full(m)
       /\ cutAt'[n] = IF cutAt[n] = 0 /\ k < Full(m) THEN R + 1 ELSE cutAt[n]
  BY <1>1
<1>2. \A j \in 1 .. R + 1 : Whole(n, j)' => Whole(n, j)
  BY <1>1 DEF Whole
<1>3. \A j \in D + 1 .. R : j \in 1 .. R /\ j \in 1 .. R + 1
  BY <1>0
<1>4. /\ \A j \in 1 .. R : relayed[n][j] \in 1 .. Len(messages)
      /\ \A j \in 1 .. R : Full(relayed[n][j]) \in Nat \ {0}
  BY PartsType DEF ConnInv, For, R
<1>5. OrderInv(n)'
  <2> SUFFICES ASSUME NEW i \in 1 .. Len(delivered'[n]), Whole(n, i)'
               PROVE  (delivered[n][i] = Parts(relayed[n][i]))'
    BY DEF OrderInv
  <2>1. i \in 1 .. D /\ i \in 1 .. R /\ i \in 1 .. R + 1
    BY <1>0 DEF D
  <2>2. Whole(n, i)
    BY <1>2, <2>1
  <2> QED BY <1>1, <2>1, <2>2 DEF OrderInv, Parts, D
<1>6. PICK off \in [Nat -> Int] : Blocks(n, off)
  BY DEF BlockInv
<1>7. off[D + 1] = 0 /\ (cutAt[n] = 0 => off[R + 1] = P)
  BY <1>6 DEF Blocks, R, P, D
\* The messages that were read before, in the longer pipe.
<1>8. ASSUME NEW j \in D + 1 .. R, Whole(n, j)
      PROVE  /\ \A i \in D + 1 .. j : off[i] <= off[j]
             /\ off[j] \in Int /\ 0 <= off[j]
             /\ off[j + 1] = off[j] + Full(relayed'[n][j]) /\ off[j + 1] <= P + k
             /\ \A q \in 1 .. Full(relayed'[n][j]) :
                  pipe'[n][off[j] + q] = [msg |-> relayed'[n][j], part |-> q - 1]
  <2>1. /\ \A i \in D + 1 .. j : off[i] <= off[j]
        /\ off[j + 1] = off[j] + Full(relayed[n][j]) /\ off[j + 1] <= P
        /\ \A q \in 1 .. Full(relayed[n][j]) :
             pipe[n][off[j] + q] = [msg |-> relayed[n][j], part |-> q - 1]
    BY <1>6, <1>8 DEF Blocks, R, P, D
  <2>2. relayed'[n][j] = relayed[n][j] /\ Full(relayed[n][j]) \in Nat
    BY <1>1, <1>3, <1>4
  <2>3. off[j] \in Int /\ D + 1 \in D + 1 .. j /\ 0 <= off[j]
    BY <1>0, <1>6, <1>7, <2>1
  <2>4. \A q \in 1 .. Full(relayed[n][j]) : off[j] + q \in 1 .. P
    BY <1>0, <2>1, <2>2, <2>3
  <2>5. off[j + 1] <= P + k
    BY <1>0, <2>1, <2>2, <2>3
  <2> QED BY <1>1, <2>1, <2>2, <2>3, <2>4, <2>5
<1>9. \A j \in 1 .. R + 1 : Full(relayed[n][j])' = Full(relayed'[n][j])
  BY DEF Full
<1>10. CASE cutAt'[n] # 0
  <2>1. \A j \in D + 1 .. R + 1 : Whole(n, j)' => j # R + 1
    BY <1>0, <1>10, <1>20 DEF Whole
  <2>2. \A j \in D + 1 .. R + 1 : Whole(n, j)' => j \in D + 1 .. R /\ Whole(n, j)
    <3>1. \A j \in D + 1 .. R + 1 : j \in 1 .. R + 1 /\ (j \in D + 1 .. R \/ j = R + 1)
      BY <1>0
    <3> TAKE j \in D + 1 .. R + 1
    <3>2. HAVE Whole(n, j)'
    <3>3. j # R + 1
      BY <2>1, <3>2
    <3> QED BY <1>2, <3>1, <3>2, <3>3
  <2>3. Len(delivered'[n]) = D /\ Len(relayed'[n]) = R + 1 /\ Len(pipe'[n]) = P + k
    BY <1>1 DEF D
  <2>4. \A j \in D + 1 .. R : Full(relayed[n][j])' = Full(relayed'[n][j])
    BY <1>3, <1>9
  <2>5. Blocks(n, off)'
    <3>1. off[D + 1] = 0
      BY <1>7
    <3>2. \A j \in D + 1 .. R + 1 : Whole(n, j)' =>
             /\ \A i \in D + 1 .. j : off[i] <= off[j]
             /\ off[j + 1] = off[j] + Full(relayed[n][j])' /\ off[j + 1] <= P + k
             /\ \A q \in 1 .. Full(relayed[n][j])' :
                  pipe'[n][off[j] + q] = [msg |-> relayed'[n][j], part |-> q - 1]
      BY <1>8, <2>2, <2>4
    <3> QED BY <1>10, <2>3, <3>1, <3>2 DEF Blocks
  <2> QED BY <1>5, <1>6, <2>5 DEF BlockInv
<1>11. CASE cutAt'[n] = 0
  <2>1. cutAt[n] = 0 /\ k = Full(m)
    BY <1>0, <1>11, <1>20
  <2> DEFINE new == [off EXCEPT ![R + 2] = P + k]
  <2>2. /\ new \in [Nat -> Int] /\ new[R + 2] = P + k
        /\ \A j \in D + 1 .. R + 1 : new[j] = off[j] /\ off[j] \in Int
    BY <1>0, <1>6
  <2> HIDE DEF new
  <2>3. off[R + 1] = P /\ \A j \in D + 1 .. R : Whole(n, j)
    BY <1>7, <2>1 DEF Whole
  <2>4. \A i \in D + 1 .. R + 1 : new[i] <= P
    <3> TAKE i \in D + 1 .. R + 1
    <3>1. CASE i = R + 1
      BY <1>0, <2>2, <2>3, <3>1
    <3>2. CASE i \in D + 1 .. R
      <4>1. off[i + 1] = off[i] + Full(relayed[n][i]) /\ off[i + 1] <= P
        BY <1>6, <2>3, <3>2 DEF Blocks, R, P, D
      <4>2. Full(relayed[n][i]) \in Nat /\ off[i] \in Int /\ new[i] = off[i]
        BY <1>3, <1>4, <2>2, <3>2
      <4> QED BY <1>0, <4>1, <4>2
    <3> QED BY <1>0, <3>1, <3>2
  <2>5. ASSUME NEW j \in D + 1 .. R + 1
        PROVE  /\ \A i \in D + 1 .. j : new[i] <= new[j]
               /\ new[j + 1] = new[j] + Full(relayed'[n][j]) /\ new[j + 1] <= P + k
               /\ \A q \in 1 .. Full(relayed'[n][j]) :
                    pipe'[n][new[j] + q] = [msg |-> relayed'[n][j], part |-> q - 1]
    <3>1. CASE j \in D + 1 .. R
      <4>1. j + 1 \in D + 1 .. R + 1 /\ \A i \in D + 1 .. j : i \in D + 1 .. R + 1
        BY <1>0, <3>1
      <4>2. new[j + 1] = off[j + 1] /\ new[j] = off[j] /\ \A i \in D + 1 .. j : new[i] = off[i]
        BY <2>2, <4>1
      <4>3. Whole(n, j)
        BY <2>3, <3>1
      <4> QED BY <1>8, <3>1, <4>2, <4>3
    <3>2. CASE j = R + 1
      <4>1. new[j] = P /\ new[j + 1] = P + k /\ relayed'[n][j] = m
        <5>1. R + 1 \in D + 1 .. R + 1 /\ (R + 1) + 1 = R + 2
          BY <1>0
        <5> QED BY <1>1, <2>2, <2>3, <3>2, <5>1
      <4>2. \A i \in D + 1 .. j : new[i] <= new[j]
        BY <2>4, <3>2, <4>1
      <4>3. \A q \in 1 .. Full(m) : pipe'[n][P + q] = [msg |-> m, part |-> q - 1]
        BY <1>1, <2>1
      <4> QED BY <1>0, <2>1, <4>1, <4>2, <4>3
    <3>3. j \in D + 1 .. R \/ j = R + 1
      BY <1>0
    <3> QED BY <3>1, <3>2, <3>3
  <2>6. new[D + 1] = 0 /\ new[(R + 1) + 1] = P + k
    <3>1. D + 1 \in D + 1 .. R + 1 /\ (R + 1) + 1 = R + 2
      BY <1>0
    <3> QED BY <1>7, <2>2, <3>1
  <2>7. \A j \in D + 1 .. R + 1 : Full(relayed[n][j])' = Full(relayed'[n][j])
    <3>1. \A j \in D + 1 .. R + 1 : j \in 1 .. R + 1
      BY <1>0
    <3> QED BY <1>9, <3>1
  <2>8. Len(delivered'[n]) = D /\ Len(relayed'[n]) = R + 1 /\ Len(pipe'[n]) = P + k
    BY <1>1 DEF D
  <2>9. PICK b \in [Nat -> Int] : b = new
    BY <2>2
  <2>10. Blocks(n, b)'
    <3>1. b[D + 1] = 0 /\ b[(R + 1) + 1] = P + k
      BY <2>6, <2>9
    <3>2. ASSUME NEW j \in D + 1 .. R + 1, Whole(n, j)'
          PROVE  /\ \A i \in D + 1 .. j : b[i] <= b[j]
                 /\ b[j + 1] = b[j] + Full(relayed[n][j])' /\ b[j + 1] <= P + k
                 /\ \A q \in 1 .. Full(relayed[n][j])' :
                      pipe'[n][b[j] + q] = [msg |-> relayed'[n][j], part |-> q - 1]
      BY <2>5, <2>7, <2>9, <3>2
    <3> QED BY <2>8, <3>1, <3>2 DEF Blocks
  <2> QED BY <1>5, <2>10 DEF BlockInv
<1> QED BY <1>10, <1>11

LEMMA OrderRecv ==
  ASSUME TypeInv, NEW n \in Nodes, ConnInv(n), HeadInv(n), BlockInv(n), OrderInv(n), Recv(n)
  PROVE  BlockInv(n)' /\ OrderInv(n)'
<1> DEFINE R == Len(relayed[n])
           P == Len(pipe[n])
           D == Len(delivered[n])
<1>0. PICK len \in Lengths, t \in 1 .. P : Receives(n, len, t)
  BY AfterRecv
<1>1. /\ len \in Nat /\ P \in Nat \ {0} /\ D \in Nat
      /\ t = IF P <= len + 1 THEN P ELSE len + 1
      /\ ended'[n] = Fault(n, len) /\ Head(pipe[n]) = pipe[n][1]
      /\ Len(pipe'[n]) = P - t
      /\ \A q \in 1 .. P - t : pipe'[n][q] = pipe[n][t + q]
      /\ Fault(n, len) # "no" => delivered'[n] = delivered[n]
      /\ Fault(n, len) = "no" =>
           /\ Len(delivered'[n]) = D + 1
           /\ \A i \in 1 .. D : delivered'[n][i] = delivered[n][i]
           /\ delivered'[n][D + 1] = SubSeq(pipe[n], 1, t)
  BY <1>0 DEF Receives
<1>2. UNCHANGED <<relayed, cutAt, messages>> /\ Up(n)
  BY DEF Recv
<1>3. CASE Fault(n, len) # "no"
  <2>1. BlockInv(n)'
    BY <1>1, <1>3 DEF BlockInv, Up
  <2>2. OrderInv(n)'
    BY <1>1, <1>2, <1>3 DEF OrderInv, Whole, Parts
  <2> QED BY <2>1, <2>2
<1>4. CASE Fault(n, len) = "no"
  <2>1. /\ pipe[n][1].part = 0 /\ messages[pipe[n][1].msg].len = len
        /\ Len(delivered'[n]) = D + 1
        /\ \A i \in 1 .. D : delivered'[n][i] = delivered[n][i]
        /\ delivered'[n][D + 1] = SubSeq(pipe[n], 1, t)
    BY <1>1, <1>4, FaultNone
  <2>2. D + 1 <= R /\ R \in Nat
    <3>1. R \in Nat
      <4>1. relayed[n] \in Seq(Nat)
        BY DEF TypeInv
      <4> QED BY <4>1
    <3>2. 1 \in 1 .. P
      BY <1>1
    <3>3. PICK j \in 1 .. R : relayed[n][j] = pipe[n][1].msg
      BY <3>2 DEF HeadInv
    <3>4. D < j
      BY <2>1, <3>2, <3>3 DEF HeadInv, HeadAt
    <3> QED BY <1>1, <3>1, <3>4
  <2>3. PICK off \in [Nat -> Int] : Blocks(n, off)
    BY <1>2 DEF BlockInv
  <2> HIDE DEF R, P, D
  <2>4. D \in Nat /\ P \in Nat \ {0} /\ t \in 1 .. P /\ len \in Nat
    BY <1>1
  <2>5. off[D + 1] = 0 /\ (cutAt[n] = 0 => off[R + 1] = P)
    BY <2>3 DEF Blocks, D, R, P
  <2>6. ASSUME NEW j \in D + 1 .. R, Whole(n, j)
        PROVE  /\ j \in 1 .. R /\ Full(relayed[n][j]) \in Nat \ {0}
               /\ off[j] \in Int /\ off[j + 1] \in Int
               /\ \A i \in D + 1 .. j : off[i] <= off[j]
               /\ off[j + 1] = off[j] + Full(relayed[n][j]) /\ off[j + 1] <= P
               /\ \A q \in 1 .. Full(relayed[n][j]) :
                    pipe[n][off[j] + q] = [msg |-> relayed[n][j], part |-> q - 1]
    <3>1. /\ \A i \in D + 1 .. j : off[i] <= off[j]
          /\ off[j + 1] = off[j] + Full(relayed[n][j]) /\ off[j + 1] <= P
          /\ \A q \in 1 .. Full(relayed[n][j]) :
               pipe[n][off[j] + q] = [msg |-> relayed[n][j], part |-> q - 1]
      BY <2>3, <2>6 DEF Blocks, D, R, P
    <3>2. j \in 1 .. R /\ j \in Nat /\ j + 1 \in Nat
      BY <2>2, <2>4
    <3>3. Full(relayed[n][j]) \in Nat \ {0}
      BY <3>2, PartsType DEF ConnInv, For, R
    <3> QED BY <2>3, <3>1, <3>2, <3>3
  <2>7. ASSUME Whole(n, D + 1)
        PROVE  t = Full(relayed[n][D + 1]) /\ off[(D + 1) + 1] = t /\ D + 1 \in 1 .. R
    <3>1. D + 1 \in D + 1 .. R /\ D + 1 \in 1 .. R
      BY <2>2, <2>4
    <3> DEFINE m == relayed[n][D + 1]
    <3>2. /\ Full(m) \in Nat \ {0} /\ off[(D + 1) + 1] = Full(m) /\ Full(m) <= P
          /\ \A q \in 1 .. Full(m) : pipe[n][0 + q] = [msg |-> m, part |-> q - 1]
      BY <2>5, <2>6, <2>7, <3>1
    <3> HIDE DEF m
    <3>3. pipe[n][1].msg = m
      <4>1. 1 \in 1 .. Full(m) /\ 0 + 1 = 1
        BY <3>2
      <4>2. pipe[n][1] = [msg |-> m, part |-> 1 - 1]
        BY <3>2, <4>1
      <4> QED BY <4>2
    <3>4. Full(m) = len + 1
      BY <2>1, <3>3 DEF Full
    <3>5. t = len + 1
      BY <1>1, <2>4, <3>2, <3>4
    <3> QED BY <3>1, <3>2, <3>4, <3>5 DEF m
  <2>8. ASSUME Whole(n, D + 1) PROVE SubSeq(pipe[n], 1, t) = Parts(relayed[n][D + 1])
    <3> DEFINE m == relayed[n][D + 1]
    <3>1. /\ t = Full(m) /\ D + 1 \in 1 .. R /\ D + 1 \in D + 1 .. R
          /\ m \in 1 .. Len(messages)
      <4>1. t = Full(m) /\ D + 1 \in 1 .. R
        BY <2>7, <2>8
      <4>2. D + 1 \in D + 1 .. R
        BY <2>2, <2>4
      <4>3. m \in 1 .. Len(messages)
        BY <4>1 DEF ConnInv, For, R
      <4> QED BY <4>1, <4>2, <4>3
    <3>2. \A q \in 1 .. Full(m) : pipe[n][0 + q] = [msg |-> m, part |-> q - 1]
      BY <2>5, <2>6, <2>8, <3>1
    <3> HIDE DEF m
    <3>3. /\ Parts(m) \in Seq(Part) /\ Len(Parts(m)) = t
          /\ \A q \in 1 .. t : Parts(m)[q] = [msg |-> m, part |-> q - 1]
      BY <3>1, PartsType
    <3>4. /\ SubSeq(pipe[n], 1, t) \in Seq(Part) /\ Len(SubSeq(pipe[n], 1, t)) = t
          /\ \A q \in 1 .. t : SubSeq(pipe[n], 1, t)[q] = pipe[n][q]
      BY <2>4, PipeAfterRead DEF P
    <3>5. \A q \in 1 .. t : SubSeq(pipe[n], 1, t)[q] = Parts(m)[q]
      <4> TAKE q \in 1 .. t
      <4>1. 0 + q = q
        BY <2>4
      <4> QED BY <3>1, <3>2, <3>3, <3>4, <4>1
    <3>6. SubSeq(pipe[n], 1, t) = Parts(m)
      BY <3>3, <3>4, <3>5, SeqEqual
    <3> QED BY <3>6 DEF m
  <2>9. OrderInv(n)'
    <3> SUFFICES ASSUME NEW i \in 1 .. Len(delivered'[n]), Whole(n, i)'
                 PROVE  delivered'[n][i] = Parts(relayed[n][i])'
      BY DEF OrderInv
    <3>1. i \in 1 .. D \/ i = D + 1
      <4>1. Len(delivered'[n]) = D + 1
        BY <2>1
      <4> QED BY <2>4, <4>1
    <3>2. CASE i \in 1 .. D
      BY <1>2, <2>1, <3>2 DEF OrderInv, Whole, Parts, D
    <3>3. CASE i = D + 1
      <4>1. Whole(n, D + 1)
        BY <1>2, <3>3 DEF Whole
      <4>2. delivered'[n][i] = Parts(relayed[n][i])
        BY <2>1, <2>8, <3>3, <4>1
      <4> QED BY <1>2, <4>2 DEF Parts
    <3> QED BY <3>1, <3>2, <3>3
  <2>10. \A j \in 1 .. R : Full(relayed[n][j])' = Full(relayed[n][j]) /\ (Whole(n, j)' <=> Whole(n, j))
    BY <1>2 DEF Full, Whole
  <2>11. Len(delivered'[n]) = D + 1 /\ Len(relayed'[n]) = R /\ Len(pipe'[n]) = P - t
    BY <1>1, <1>2, <2>1 DEF R
  <2>12. \A j \in (D + 1) + 1 .. R : j \in D + 1 .. R /\ j \in 1 .. R
    BY <2>2, <2>4
  <2>13. CASE Whole(n, D + 1)
    <3> DEFINE b == [j \in Nat |-> off[j] - t]
    <3>1. b \in [Nat -> Int] /\ \A j \in Nat : b[j] = off[j] - t
      BY <2>3, <2>4
    <3> HIDE DEF b
    <3>2. b[(D + 1) + 1] = 0
      BY <2>4, <2>7, <2>13, <3>1
    <3>3. (cutAt[n] = 0) => b[R + 1] = P - t
      BY <2>2, <2>5, <3>1
    <3>4. ASSUME NEW j \in (D + 1) + 1 .. R, Whole(n, j)
          PROVE  /\ \A i \in (D + 1) + 1 .. j : b[i] <= b[j]
                 /\ b[j + 1] = b[j] + Full(relayed[n][j]) /\ b[j + 1] <= P - t
                 /\ \A q \in 1 .. Full(relayed[n][j]) :
                      pipe'[n][b[j] + q] = [msg |-> relayed[n][j], part |-> q - 1]
      <4>1. /\ Full(relayed[n][j]) \in Nat \ {0} /\ off[j] \in Int /\ off[j + 1] \in Int
            /\ \A i \in D + 1 .. j : off[i] <= off[j]
            /\ off[j + 1] = off[j] + Full(relayed[n][j]) /\ off[j + 1] <= P
            /\ \A q \in 1 .. Full(relayed[n][j]) :
                 pipe[n][off[j] + q] = [msg |-> relayed[n][j], part |-> q - 1]
        BY <2>6, <2>12, <3>4
      <4>2. j \in Nat /\ b[j] = off[j] - t /\ b[j + 1] = off[j + 1] - t
        BY <2>4, <3>1
      <4>3. ASSUME NEW i \in (D + 1) + 1 .. j PROVE b[i] <= b[j] /\ off[(D + 1) + 1] <= off[j]
        <5>1. i \in D + 1 .. j /\ i \in Nat /\ (D + 1) + 1 \in D + 1 .. j
          BY <2>4
        <5>2. off[i] <= off[j] /\ off[i] \in Int /\ b[i] = off[i] - t
          BY <2>3, <3>1, <4>1, <5>1
        <5> QED BY <2>4, <4>1, <4>2, <5>1, <5>2
      <4>4. t <= off[j]
        <5>1. (D + 1) + 1 \in (D + 1) + 1 .. j
          BY <2>4
        <5> QED BY <2>7, <2>13, <4>3, <5>1
      <4>5. ASSUME NEW q \in 1 .. Full(relayed[n][j])
            PROVE  pipe'[n][b[j] + q] = [msg |-> relayed[n][j], part |-> q - 1]
        <5>1. b[j] + q \in 1 .. P - t /\ t + (b[j] + q) = off[j] + q
          BY <2>4, <4>1, <4>2, <4>4
        <5>2. pipe'[n][b[j] + q] = pipe[n][t + (b[j] + q)]
          BY <1>1, <5>1
        <5> QED BY <4>1, <5>1, <5>2
      <4> QED BY <2>4, <4>1, <4>2, <4>3, <4>5
    <3>5. PICK new \in [Nat -> Int] : new = b
      BY <3>1
    <3>6. Blocks(n, new)'
      <4>1. (cutAt'[n] = 0) => new[R + 1] = P - t
        BY <1>2, <3>3, <3>5
      <4>2. \A j \in (D + 1) + 1 .. R : Whole(n, j)' =>
              /\ \A i \in (D + 1) + 1 .. j : new[i] <= new[j]
              /\ new[j + 1] = new[j] + Full(relayed[n][j])' /\ new[j + 1] <= P - t
              /\ \A q \in 1 .. Full(relayed[n][j])' :
                   pipe'[n][new[j] + q] = [msg |-> relayed'[n][j], part |-> q - 1]
        BY <1>2, <2>10, <2>12, <3>4, <3>5
      <4> QED BY <2>11, <3>2, <3>5, <4>1, <4>2 DEF Blocks
    <3> QED BY <2>9, <3>6 DEF BlockInv
  <2>14. CASE ~Whole(n, D + 1)
    <3>1. cutAt'[n] # 0 /\ \A j \in (D + 1) + 1 .. R : ~Whole(n, j)'
      <4>1. cutAt[n] \in Nat /\ cutAt'[n] = cutAt[n] /\ cutAt[n] # 0 /\ ~(D + 1 < cutAt[n])
        BY <1>2, <2>14 DEF Whole, TypeInv
      <4> QED BY <2>4, <4>1 DEF Whole
    <3>2. PICK new \in [Nat -> Int] : \A j \in Nat : new[j] = 0
      <4>1. [j \in Nat |-> 0] \in [Nat -> Int]
        OBVIOUS
      <4> QED BY <4>1
    <3>3. new[(D + 1) + 1] = 0
      BY <2>4, <3>2
    <3>4. Blocks(n, new)'
      BY <2>11, <3>1, <3>3 DEF Blocks
    <3> QED BY <2>9, <3>4 DEF BlockInv
  <2> QED BY <2>13, <2>14
<1> QED BY <1>3, <1>4


LEMMA OrderStep ==
  ASSUME TypeInv, FilesInv, [Next]_vars,
         \A n \in Nodes : ConnInv(n) /\ HeadInv(n) /\ BlockInv(n) /\ OrderInv(n)
  PROVE  \A n \in Nodes : BlockInv(n)' /\ OrderInv(n)'
<1> SUFFICES ASSUME NEW x \in Nodes PROVE BlockInv(x)' /\ OrderInv(x)'
  OBVIOUS
<1>1. Grows
  BY TypeStep
<1>2. ASSUME UNCHANGED <<pipe, relayed, cutAt, delivered>>, Up(x)' => Up(x)
      PROVE  BlockInv(x)' /\ OrderInv(x)'
  BY <1>1, <1>2, OrderSame
<1>3. ASSUME NEW n \in Nodes, Relay(n) PROVE BlockInv(x)' /\ OrderInv(x)'
  <2>1. UNCHANGED <<delivered, messages>> /\ Up(n)
    BY <1>3, RelayCases
  <2>2. ASSUME NEW k \in Nat, Passes(n, k) PROVE BlockInv(x)' /\ OrderInv(x)'
    <3>0. ended' = ended
      BY <2>2 DEF Passes, Advances
    <3>1. CASE x = n
      BY <1>1, <2>1, <2>2, <3>0, <3>1, OrderPass
    <3>2. CASE x # n
      <4>1. pipe'[x] = pipe[x] /\ relayed'[x] = relayed[x] /\ cutAt'[x] = cutAt[x]
        BY <2>2, <3>2, AfterPass
      <4> QED BY <1>1, <2>1, <3>0, <4>1, OrderSame DEF Up
    <3> QED BY <3>1, <3>2
  <2>3. Up(x)' => Up(x)
    <3>1. ended' = ended \/ ended' = [ended EXCEPT ![n] = "accept"]
      BY <1>3, RelayEffects DEF AcceptFails
    <3> QED BY <2>1, <3>1 DEF Up, TypeInv
  <2> QED BY <1>2, <1>3, <2>1, <2>2, <2>3, RelayEffects
<1>4. ASSUME NEW n \in Nodes, Recv(n) PROVE BlockInv(x)' /\ OrderInv(x)'
  <2>1. CASE x = n
    BY <1>4, <2>1, OrderRecv
  <2>2. CASE x # n
    <3>1. pipe'[x] = pipe[x] /\ delivered'[x] = delivered[x] /\ ended'[x] = ended[x]
      BY <1>4, <2>2, RecvAlone
    <3>2. relayed' = relayed /\ cutAt' = cutAt
      BY <1>4 DEF Recv
    <3> QED BY <1>1, <3>1, <3>2, OrderSame DEF Up
  <2> QED BY <2>1, <2>2
<1>5. ASSUME NEW n \in Nodes, SendConnect(n) PROVE BlockInv(x)' /\ OrderInv(x)'
  <2>1. UNCHANGED <<pipe, relayed, cutAt, delivered>> /\ Up(n)
    BY <1>5, ConnectCases
  <2>2. Up(x)' => Up(x)
    BY <1>5, ConnectEnds
  <2> QED BY <1>2, <2>1, <2>2
<1>6. ASSUME NEW n \in Nodes, SendWrite(n) PROVE BlockInv(x)' /\ OrderInv(x)'
  <2>1. UNCHANGED <<pipe, relayed, cutAt, delivered>>
    BY <1>6 DEF SendWrite, loopVars, pipeVars
  <2>2. ended' = ended \/ ended' = [ended EXCEPT ![n] = "sigpipe"]
    BY <1>6 DEF SendWrite
  <2> QED BY <1>2, <2>1, <2>2 DEF Up, TypeInv
<1>7. CASE UNCHANGED vars
  BY <1>2, <1>7 DEF vars, loopVars, pipeVars, Up
<1> QED BY <1>3, <1>4, <1>5, <1>6, <1>7 DEF Next

LEMMA OrderInit == Init => \A n \in Nodes : BlockInv(n) /\ OrderInv(n)
<1> SUFFICES ASSUME Init, NEW n \in Nodes PROVE BlockInv(n) /\ OrderInv(n)
  OBVIOUS
<1>1. /\ delivered[n] = <<>> /\ relayed[n] = <<>> /\ pipe[n] = <<>> /\ cutAt[n] = 0
  BY DEF Init
<1>2. PICK off \in [Nat -> Int] : \A j \in Nat : off[j] = 0
  <2>1. [j \in Nat |-> 0] \in [Nat -> Int]
    OBVIOUS
  <2> QED BY <2>1
<1>3. Blocks(n, off)
  BY <1>1, <1>2 DEF Blocks
<1> QED BY <1>1, <1>3 DEF BlockInv, OrderInv

\* All that is known of a state.
Inv ==
  /\ FilesInv /\ TypeInv
  /\ \A n \in Nodes : ConnInv(n) /\ CountInv(n) /\ HeadInv(n) /\ BlockInv(n) /\ OrderInv(n)

LEMMA InvStep == Inv /\ [Next]_vars => Inv' /\ Grows
<1> SUFFICES ASSUME Inv, [Next]_vars PROVE Inv' /\ Grows
  OBVIOUS
<1>1. FilesInv' /\ Nodes' = Nodes
  BY FilesKept DEF Inv, FilesInv, files, Nodes, HostsRead
<1>2. TypeInv' /\ Grows /\ \A n \in Nodes : ConnInv(n)' /\ CountInv(n)' /\ HeadInv(n)'
  BY TypeStep, ConnStep, CountStep, HeadStep DEF Inv
<1>3. \A n \in Nodes : BlockInv(n)' /\ OrderInv(n)'
  BY OrderStep DEF Inv
<1> QED BY <1>1, <1>2, <1>3 DEF Inv

LEMMA InvHolds == Spec => []Inv
<1>1. Init => Inv
  BY FilesInit, TypeInit, ConnInit, CountInit, HeadInit, OrderInit DEF Inv
<1> QED BY <1>1, InvStep, PTL DEF Spec

-----------------------------------------------------------------------------
(* What ends a daemon.                                                     *)

CauseInv(n) ==
  /\ ended[n] = "type" => cutAt[n] # 0
  /\ ended[n] = "dist" => Ambiguous(addresses)
  /\ ended[n] \in {"refused", "sigpipe"} => \E other \in Nodes \ {n} : ~Up(other)
  /\ ended[n] = "timeout" => Len(messages) > Backlog
  /\ ended[n] = "accept" => Len(messages) >= Descriptors

\* A daemon that has ended stays so, and a cut is not forgotten.
LEMMA Stays ==
  ASSUME Inv, [Next]_vars, NEW x \in Nodes
  PROVE  (Up(x)' => Up(x)) /\ (cutAt[x] # 0 => cutAt'[x] # 0)
<1> USE DEF Inv
<1>1. CASE UNCHANGED vars
  BY <1>1 DEF vars, loopVars, pipeVars, Up
<1>2. ASSUME NEW n \in Nodes, SendConnect(n) PROVE (Up(x)' => Up(x)) /\ cutAt' = cutAt
  BY <1>2, ConnectEnds, ConnectCases
<1>3. ASSUME NEW n \in Nodes, SendWrite(n) PROVE (Up(x)' => Up(x)) /\ cutAt' = cutAt
  <2>1. ended' = ended \/ ended' = [ended EXCEPT ![n] = "sigpipe"]
    BY <1>3 DEF SendWrite
  <2> QED BY <1>3, <2>1 DEF SendWrite, loopVars, pipeVars, Up, TypeInv
<1>4. ASSUME NEW n \in Nodes, Relay(n)
      PROVE  (Up(x)' => Up(x)) /\ (cutAt[x] # 0 => cutAt'[x] # 0)
  <2>1. Up(x)' => Up(x)
    <3>1. Up(n) /\ (ended' = ended \/ ended' = [ended EXCEPT ![n] = "accept"])
      BY <1>4, RelayEffects DEF AcceptFails
    <3> QED BY <3>1 DEF Up, TypeInv
  <2>2. ASSUME NEW k \in Nat, Passes(n, k), cutAt[x] # 0 PROVE cutAt'[x] # 0
    <3>1. x # n => cutAt'[x] = cutAt[x]
      BY <2>2, AfterPass
    <3>2. cutAt'[n] = cutAt[n] \/ cutAt[n] = 0
      BY <2>2, AfterPass
    <3> QED BY <2>2, <3>1, <3>2
  <2> QED BY <1>4, <2>1, <2>2, RelayEffects
<1>5. ASSUME NEW n \in Nodes, Recv(n) PROVE (Up(x)' => Up(x)) /\ cutAt' = cutAt
  <2>1. Up(n) /\ cutAt' = cutAt
    BY <1>5 DEF Recv
  <2>2. x # n => ended'[x] = ended[x]
    BY <1>5, RecvAlone
  <2> QED BY <2>1, <2>2 DEF Up
<1> QED BY <1>1, <1>2, <1>3, <1>4, <1>5 DEF Next

\* A sender connects to a machine of the host file.
LEMMA MachineInNodes ==
  ASSUME FilesInv, NEW d \in DOMAIN hosts
  PROVE  MachineOf(d) \in Nodes
<1>1. d \in Nodes /\ addresses[d] = HostIp(d, hosts)
  BY HostsAre DEF HostIp
<1> QED BY <1>1 DEF MachineOf

\* If no message was cut, the pipe begins with a head.
LEMMA TypeCause ==
  ASSUME Inv, NEW n \in Nodes, Up(n), pipe[n] # <<>>, cutAt[n] = 0
  PROVE  pipe[n][1].part = 0
<1> DEFINE R == Len(relayed[n])
           P == Len(pipe[n])
           D == Len(delivered[n])
<1>1. R \in Nat /\ P \in Nat \ {0} /\ D \in Nat /\ D <= R
  <2>1. relayed[n] \in Seq(Nat) /\ pipe[n] \in Seq(Part) /\ delivered[n] \in Seq(Seq(Part))
    BY DEF Inv, TypeInv
  <2>2. R \in Nat /\ P \in Nat \ {0} /\ D \in Nat
    BY <2>1
  <2> QED BY <2>2 DEF Inv, HeadInv
<1>2. PICK off \in [Nat -> Int] : Blocks(n, off)
  BY DEF Inv, BlockInv
<1> HIDE DEF R, P, D
<1>3. off[D + 1] = 0 /\ off[R + 1] = P
  BY <1>2 DEF Blocks, R, P, D
<1>4. D + 1 \in D + 1 .. R /\ D + 1 \in 1 .. R
  BY <1>1, <1>3
<1>5. /\ Full(relayed[n][D + 1]) \in Nat \ {0}
      /\ \A q \in 1 .. Full(relayed[n][D + 1]) :
           pipe[n][0 + q] = [msg |-> relayed[n][D + 1], part |-> q - 1]
  <2>1. relayed[n][D + 1] \in 1 .. Len(messages)
    BY <1>4 DEF Inv, ConnInv, For, R
  <2>2. Full(relayed[n][D + 1]) \in Nat \ {0}
    BY <2>1, PartsType DEF Inv
  <2>3. Whole(n, D + 1)
    BY DEF Whole
  <2>4. \A q \in 1 .. Full(relayed[n][D + 1]) :
          pipe[n][off[D + 1] + q] = [msg |-> relayed[n][D + 1], part |-> q - 1]
    BY <1>2, <1>4, <2>3 DEF Blocks, R, D
  <2> QED BY <1>3, <2>2, <2>4
<1>6. 1 \in 1 .. Full(relayed[n][D + 1]) /\ 0 + 1 = 1 /\ 1 - 1 = 0
  BY <1>5
<1>7. pipe[n][1] = [msg |-> relayed[n][D + 1], part |-> 0]
  BY <1>5, <1>6
<1> QED BY <1>7

\* A message reaches the machine whose number it has, unless the addresses are
\* confused.
LEMMA DistCause ==
  ASSUME Inv, NEW n \in Nodes, pipe[n] # <<>>,
         messages[pipe[n][1].msg].dist # id[n]
  PROVE  Ambiguous(addresses)
<1> SUFFICES ASSUME ~Ambiguous(addresses) PROVE FALSE
  OBVIOUS
<1>1. 1 \in 1 .. Len(pipe[n])
  <2>1. pipe[n] \in Seq(Part)
    BY DEF Inv, TypeInv
  <2> QED BY <2>1
<1>2. PICK j \in 1 .. Len(relayed[n]) : relayed[n][j] = pipe[n][1].msg
  BY <1>1 DEF Inv, HeadInv
<1>3. PICK m \in 1 .. Len(messages) : m = pipe[n][1].msg /\ MachineOf(messages[m].dist) = n
  BY <1>2 DEF Inv, ConnInv, For
<1>4. messages[m].dist \in DOMAIN hosts
  <2>1. messages[m] \in Message
    BY DEF Inv, TypeInv
  <2> QED BY <2>1 DEF Message
<1>5. id[messages[m].dist] = messages[m].dist /\ MachineOf(messages[m].dist) = messages[m].dist
  BY <1>4, OwnId DEF Inv
<1> QED BY <1>3, <1>5

LEMMA CauseStep ==
  ASSUME Inv, [Next]_vars, \A n \in Nodes : CauseInv(n)
  PROVE  \A n \in Nodes : CauseInv(n)'
<1> SUFFICES ASSUME NEW x \in Nodes PROVE CauseInv(x)'
  OBVIOUS
<1>0. Grows /\ Len(messages) \in Nat /\ Len(messages') \in Nat
  BY InvStep DEF Inv, TypeInv
<1>1. UNCHANGED files /\ Nodes' = Nodes
  BY FilesKept DEF files, Nodes
<1>2. Ambiguous(addresses)' <=> Ambiguous(addresses)
  BY <1>1 DEF files, Ambiguous
<1>3. ASSUME ended'[x] = ended[x] PROVE CauseInv(x)'
  <2>1. \A other \in Nodes : ~Up(other) => ~Up(other)'
    BY Stays
  <2>2. cutAt[x] # 0 => cutAt'[x] # 0
    BY Stays
  <2>3. /\ Len(messages) > Backlog => Len(messages') > Backlog
        /\ Len(messages) >= Descriptors => Len(messages') >= Descriptors
    BY <1>0, LimitAssumption DEF Grows
  <2> QED BY <1>1, <1>2, <1>3, <2>1, <2>2, <2>3 DEF CauseInv
\* A sender ends because another daemon has.
<1>4. ASSUME NEW why \in {"refused", "sigpipe"}, ended' = [ended EXCEPT ![x] = why],
             Up(x), NEW d \in DOMAIN hosts, ~Up(MachineOf(d))
      PROVE  CauseInv(x)'
  <2>1. ended'[x] \in {"refused", "sigpipe"} /\ \A y \in Nodes \ {x} : ended'[y] = ended[y]
    BY <1>4 DEF Inv, TypeInv
  <2>2. \E other \in Nodes \ {x} : ~Up(other)'
    <3>1. PICK to \in Nodes : to = MachineOf(d)
      BY MachineInNodes, <1>4 DEF Inv
    <3>2. to # x /\ ~Up(to)
      BY <1>4, <3>1
    <3>3. ~Up(to)'
      BY <2>1, <3>2 DEF Up
    <3> QED BY <3>2, <3>3
  <2> QED BY <1>1, <2>1, <2>2 DEF CauseInv
<1>5. ASSUME NEW n \in Nodes, SendConnect(n) PROVE CauseInv(x)'
  <2>1. PICK d \in DOMAIN hosts, len \in Lengths :
          Connects(n, d, len) \/ (\E why \in {"timeout", "refused"} : Fails(n, d, why))
    BY <1>5, ConnectCases
  <2>2. Up(n)
    BY <1>5, ConnectCases
  <2>3. CASE ended'[x] = ended[x]
    BY <1>3, <2>3
  <2>4. CASE ended'[x] # ended[x]
    <3>1. PICK why \in {"timeout", "refused"} : Fails(n, d, why)
      BY <2>1, <2>4 DEF Connects, Connected
    <3>2. ended' = [ended EXCEPT ![n] = why] /\ UNCHANGED messages
      BY <3>1 DEF Fails, NotConnected
    <3>3. n = x /\ ended'[x] = why
      BY <2>4, <3>2 DEF Inv, TypeInv
    <3>4. CASE why = "refused"
      BY <1>4, <2>2, <3>1, <3>2, <3>3, <3>4 DEF Fails
    <3>5. CASE why = "timeout"
      <4>1. PICK to \in Nodes : to = MachineOf(d)
        BY MachineInNodes DEF Inv
      <4>2. Len(conns[to]) > Backlog /\ CountInv(to)
        BY <3>1, <3>5, <4>1 DEF Fails, Inv
      <4>3. Len(messages) > Backlog
        BY <4>2, CountTypes DEF CountInv, Inv
      <4> QED BY <3>2, <3>3, <3>5, <4>3 DEF CauseInv
    <3> QED BY <3>4, <3>5
  <2> QED BY <2>3, <2>4
<1>6. ASSUME NEW n \in Nodes, SendWrite(n) PROVE CauseInv(x)'
  <2>1. Up(n) /\ sending[n] \in 1 .. Len(messages)
    <3>1. sending[n] \in 0 .. Len(messages) /\ Len(messages) \in Nat
      BY DEF Inv, TypeInv
    <3>2. Up(n) /\ sending[n] # 0
      BY <1>6 DEF SendWrite
    <3> QED BY <3>1, <3>2
  <2>2. messages[sending[n]].dist \in DOMAIN hosts
    <3>1. messages[sending[n]] \in Message
      BY <2>1 DEF Inv, TypeInv
    <3> QED BY <3>1 DEF Message
  <2>3. \/ ended' = ended
        \/ ~Up(MachineOf(messages[sending[n]].dist)) /\ ended' = [ended EXCEPT ![n] = "sigpipe"]
    BY <1>6 DEF SendWrite
  <2>4. CASE ended'[x] # ended[x]
    <3>1. ~Up(MachineOf(messages[sending[n]].dist)) /\ n = x /\ ended' = [ended EXCEPT ![n] = "sigpipe"]
      BY <2>3, <2>4 DEF Inv, TypeInv
    <3> QED BY <1>4, <2>1, <2>2, <3>1
  <2> QED BY <1>3, <2>4
<1>7. ASSUME NEW n \in Nodes, Relay(n) PROVE CauseInv(x)'
  <2>1. CASE ended'[x] = ended[x]
    BY <1>3, <2>1
  <2>2. CASE ended'[x] # ended[x]
    <3>1. AcceptFails(n) /\ UNCHANGED messages
      BY <1>7, <2>2, RelayEffects DEF Inv
    <3>2. ended' = [ended EXCEPT ![n] = "accept"] /\ served[n] >= Descriptors
      BY <3>1 DEF AcceptFails
    <3>3. n = x /\ ended'[x] = "accept"
      BY <2>2, <3>2 DEF Inv, TypeInv
    <3>4. CountInv(x)
      BY DEF Inv
    <3>5. Len(messages) >= Descriptors
      BY <3>2, <3>3, <3>4, CountTypes DEF CountInv, Inv
    <3> QED BY <3>1, <3>3, <3>5 DEF CauseInv
  <2> QED BY <2>1, <2>2
<1>8. ASSUME NEW n \in Nodes, Recv(n) PROVE CauseInv(x)'
  <2>1. CASE x # n
    BY <1>3, <1>8, <2>1, RecvAlone DEF Inv
  <2>2. CASE x = n
    <3>1. PICK len \in Lengths : ended'[x] = Fault(x, len) /\ Head(pipe[x]) = pipe[x][1]
      BY <1>8, <2>2, AfterRecv DEF Inv, Receives
    <3>2. Up(x) /\ pipe[x] # <<>> /\ cutAt' = cutAt
      BY <1>8, <2>2 DEF Recv
    <3>3. Fault(x, len) \in {"no", "type", "dist", "len"}
      BY FaultCauses
    <3>4. CASE Fault(x, len) = "type"
      <4>1. pipe[x][1].part # 0
        BY <3>1, <3>4 DEF Fault
      <4>2. cutAt'[x] # 0
        BY <3>2, <4>1, TypeCause
      <4> QED BY <3>1, <3>4, <4>2 DEF CauseInv
    <3>5. CASE Fault(x, len) = "dist"
      <4>1. messages[pipe[x][1].msg].dist # id[x]
        BY <3>1, <3>5 DEF Fault
      <4>2. Ambiguous(addresses)
        BY <3>2, <4>1, DistCause
      <4> QED BY <1>1, <1>2, <3>1, <3>5, <4>2 DEF CauseInv
    <3>6. CASE Fault(x, len) \in {"no", "len"}
      BY <3>1, <3>6 DEF CauseInv
    <3> QED BY <3>3, <3>4, <3>5, <3>6
  <2> QED BY <2>1, <2>2
<1>9. CASE UNCHANGED vars
  BY <1>3, <1>9 DEF vars
<1> QED BY <1>5, <1>6, <1>7, <1>8, <1>9 DEF Next

LEMMA CauseInit == Init => \A n \in Nodes : CauseInv(n)
<1> SUFFICES ASSUME Init, NEW n \in Nodes PROVE CauseInv(n)
  OBVIOUS
<1>1. ended[n] \in {"no", "unlisted"}
  BY DEF Init
<1> QED BY <1>1 DEF CauseInv

-----------------------------------------------------------------------------
(* The properties.                                                         *)

\* Every state has the right types: a connection is read once, each message
\* that was delivered had been read, and no message is read that was not sent.
THEOREM TypeCorrect == Spec => []TypeOK
<1>1. Inv => TypeOK
  <2> SUFFICES ASSUME Inv PROVE TypeOK
    OBVIOUS
  <2> USE DEF Inv
  <2>1. messages \in Seq(Message) /\ DOMAIN messages = 1 .. Len(messages)
    BY DEF TypeInv
  <2>2. /\ addresses \in AddressLists /\ ended \in [Nodes -> Causes]
        /\ Len(messages) <= MaxMessages /\ written \subseteq DOMAIN messages
    BY <2>1 DEF TypeInv, FilesInv
  <2>3. sending \in [Nodes -> {0} \cup DOMAIN messages]
    BY <2>1 DEF TypeInv
  <2>4. ASSUME NEW n \in Nodes
        PROVE  /\ \A s \in {conns[n], relayed[n]} : IsInjective(s) /\ Range(s) \subseteq DOMAIN messages
               /\ served[n] \in 0 .. Descriptors /\ Len(conns[n]) <= Backlog + 1
               /\ inHand[n] \in 0 .. BuffSize /\ Len(pipe[n]) <= PipeSize
               /\ cutAt[n] \in 0 .. Len(relayed[n])
               /\ Len(delivered[n]) <= Len(relayed[n])
    <3>1. /\ conns[n] \in Seq(Nat) /\ DOMAIN conns[n] = 1 .. Len(conns[n])
          /\ relayed[n] \in Seq(Nat) /\ DOMAIN relayed[n] = 1 .. Len(relayed[n])
      BY DEF TypeInv
    <3>2. IsInjective(conns[n]) /\ IsInjective(relayed[n])
      BY <3>1 DEF ConnInv, IsInjective
    <3>3. Range(conns[n]) \subseteq DOMAIN messages /\ Range(relayed[n]) \subseteq DOMAIN messages
      <4>1. /\ \A q \in 1 .. Len(conns[n]) : conns[n][q] \in DOMAIN messages
            /\ \A q \in 1 .. Len(relayed[n]) : relayed[n][q] \in DOMAIN messages
        BY <2>1 DEF ConnInv, For
      <4>2. Range(conns[n]) \subseteq DOMAIN messages
        BY <3>1, <4>1 DEF Range
      <4>3. Range(relayed[n]) \subseteq DOMAIN messages
        BY <3>1, <4>1 DEF Range
      <4> QED BY <4>2, <4>3
    <3>4. cutAt[n] \in Nat /\ Len(relayed[n]) \in Nat /\ cutAt[n] <= Len(relayed[n])
      BY <3>1 DEF TypeInv, ConnInv
    <3>5. /\ served[n] \in 0 .. Descriptors /\ Len(conns[n]) <= Backlog + 1
          /\ Len(pipe[n]) <= PipeSize
      BY CountTypes DEF CountInv
    <3>6. inHand[n] \in 0 .. BuffSize
      BY DEF TypeInv
    <3> QED BY <3>2, <3>3, <3>4, <3>5, <3>6 DEF HeadInv
  <2> QED BY <2>2, <2>3, <2>4 DEF TypeOK
<1> QED BY <1>1, InvHolds, PTL

\* However the loop of a node reads, the messages that came whole before the
\* first cut one are delivered whole, in the order in which it has read them
\* and once, for every number of nodes and every length of message and buffer.
THEOREM OrderCorrect == Spec => []DeliveredInOrder
<1>1. Inv => DeliveredInOrder
  BY DEF Inv, OrderInv, Whole, DeliveredInOrder
<1> QED BY <1>1, InvHolds, PTL


\* A message ends the daemon it is sent to only if its caller asked for another
\* length, a message was cut before or addresses are confused, or when it has
\* accepted as many connections as it can; a sender ends only after another
\* daemon, or when more connections were made than wait for accept; for every
\* host file, number of nodes, length of message and buffer, and every limit.
THEOREM EndsCorrect == Spec => []EndsHaveCause
<1>1. Init => \A n \in Nodes : CauseInv(n)
  BY CauseInit
<1>2. Inv /\ (\A n \in Nodes : CauseInv(n)) /\ [Next]_vars => (\A n \in Nodes : CauseInv(n))'
  <2> SUFFICES ASSUME Inv, \A n \in Nodes : CauseInv(n), [Next]_vars
               PROVE  (\A n \in Nodes : CauseInv(n))'
    OBVIOUS
  <2>1. Nodes' = Nodes
    BY FilesKept DEF files, Nodes
  <2> QED BY <2>1, CauseStep
<1>3. (\A n \in Nodes : CauseInv(n)) => EndsHaveCause
  BY DEF CauseInv, EndsHaveCause
<1> QED BY <1>1, <1>2, <1>3, InvHolds, PTL DEF Spec

=============================================================================
