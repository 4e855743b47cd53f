-------------------------- MODULE LineClientProofs --------------------------
(***************************************************************************)
(* LineClient, for every set of lines and of stored values: the responses  *)
(* pair with the requests, client and server quit together, and every      *)
(* request that is understood can be written in its documented form.       *)
(*                                                                         *)
(* First parse_request: what its searches, trims and cuts leave of a text  *)
(* (Tight, IsKey), hence what a request that it understands is made of     *)
(* (ParsedShape), and how it reads the documented form of one (the         *)
(* ReadBack lemmas).  Then read_line: what it has kept of a text is the    *)
(* beginning of what it will have kept (KeptStarts).  Last the session: a  *)
(* response has one line feed, at its end (AnswersAreLines), so what was   *)
(* read, what is on its way and what was lost are consecutive pieces of    *)
(* one answer, the answer to the line typed last (SessionInv).             *)
(***************************************************************************)
EXTENDS LineClient, SequenceTheorems, WellFoundedInduction, TLAPS

\* The provers do not know that a literal is a string.
Words == {"GET", "DEL", "SET", "QUIT", "get", "del", "set", "quit",
          "OK", "NOT_FOUND", "VALUE", "ERROR", "BYE",
          "key_missing", "one_key_only", "value_missing", "empty_request", "unknown_command"}
Token == STRING \cup Words \cup {Space, LineFeed}
Text  == Seq(Token)

LEMMA TextLength ==
  ASSUME NEW t \in Text PROVE Len(t) \in Nat /\ (t = <<>> <=> Len(t) = 0) /\ DOMAIN t = 1 .. Len(t)
BY DEF Text

-----------------------------------------------------------------------------
(* Searching a text.                                                       *)

LEMMA LeastOf ==
  ASSUME NEW S \in SUBSET Nat, S # {}
  PROVE  Min(S) \in S /\ \A n \in S : Min(S) <= n
<1>1. PICK n \in S : \A m \in S : ~(<<m, n>> \in OpToRel(<, Nat))
  BY NatLessThanWellFounded, WFMin
<1>2. \A m \in S : ~(m < n)
  BY <1>1 DEF OpToRel
<1>3. \A m \in S : n <= m
  BY <1>2
<1> QED BY <1>3 DEF Min

LEMMA GreatestOf ==
  ASSUME NEW b \in Nat, NEW S \in SUBSET (0 .. b), S # {}
  PROVE  Max(S) \in S /\ \A n \in S : n <= Max(S)
<1> DEFINE T == {b - n : n \in S}
<1>0. PICK s \in S : TRUE
  OBVIOUS
<1>1. T \in SUBSET Nat /\ T # {}
  <2>1. \A n \in S : n \in Int /\ b - n \in Nat
    OBVIOUS
  <2>2. T \in SUBSET Nat
    BY <2>1
  <2>3. b - s \in T
    OBVIOUS
  <2> QED BY <2>2, <2>3
<1>2. Min(T) \in T /\ \A n \in T : Min(T) <= n
  BY <1>1, LeastOf
<1>3. PICK m \in S : Min(T) = b - m
  BY <1>2
<1>4. \A n \in S : b - m <= b - n
  BY <1>2, <1>3
<1>5. \A n \in S : n <= m
  BY <1>4
<1> QED BY <1>5 DEF Max

\* Where the first space is.
LEMMA FirstSpaceFinds ==
  ASSUME NEW t \in Text
  PROVE  /\ FirstSpace(t) \in 0 .. Len(t)
         /\ FirstSpace(t) = 0 => \A i \in 1 .. Len(t) : t[i] # Space
         /\ FirstSpace(t) # 0 =>
              t[FirstSpace(t)] = Space /\ \A i \in 1 .. FirstSpace(t) - 1 : t[i] # Space
<1> DEFINE S == {i \in 1 .. Len(t) : t[i] = Space}  f == FirstSpace(t)
<1>1. f = IF S # {} THEN Min(S) ELSE 0
  BY DEF FirstSpace, SelectInSeq
<1>2. Len(t) \in Nat
  BY TextLength
<1>3. S \in SUBSET Nat
  BY <1>2
<1>4. \A i : i \in S <=> i \in 1 .. Len(t) /\ t[i] = Space
  OBVIOUS
<1> HIDE DEF S, f
<1>5. CASE S = {}
  BY <1>1, <1>2, <1>4, <1>5 DEF f
<1>6. CASE S # {}
  <2>1. f \in S /\ \A n \in S : f <= n
    BY <1>1, <1>3, <1>6, LeastOf
  <2>2. f \in 1 .. Len(t) /\ t[f] = Space
    BY <1>4, <2>1
  <2>3. ASSUME NEW i \in 1 .. f - 1 PROVE t[i] # Space
    <3>1. i \in 1 .. Len(t) /\ ~(f <= i)
      BY <1>2, <2>2
    <3> QED BY <1>4, <2>1, <3>1
  <2>4. f \in 0 .. Len(t) /\ f # 0
    BY <1>2, <2>2
  <2> QED BY <2>2, <2>3, <2>4 DEF f
<1> QED BY <1>5, <1>6

LEMMA FirstSpaceIs ==
  ASSUME NEW t \in Text, NEW n \in 1 .. Len(t), t[n] = Space, \A i \in 1 .. n - 1 : t[i] # Space
  PROVE  FirstSpace(t) = n
<1> DEFINE f == FirstSpace(t)
<1>1. Len(t) \in Nat
  BY TextLength
<1>2. /\ f \in 0 .. Len(t)
      /\ f = 0 => \A i \in 1 .. Len(t) : t[i] # Space
      /\ f # 0 => t[f] = Space /\ \A i \in 1 .. f - 1 : t[i] # Space
  BY FirstSpaceFinds
<1> HIDE DEF f
<1>3. f # 0
  BY <1>2
<1>4. f \in Nat /\ n \in Nat /\ n # 0
  BY <1>1, <1>2
<1>5. n < f => n \in 1 .. f - 1
  BY <1>4
<1>6. f < n => f \in 1 .. n - 1
  BY <1>3, <1>4
<1>7. ~(n < f) /\ ~(f < n)
  BY <1>2, <1>3, <1>5, <1>6
<1>8. f = n
  BY <1>4, <1>7
<1> QED BY <1>8 DEF f

LEMMA NoSpaceIs ==
  ASSUME NEW t \in Text, \A i \in 1 .. Len(t) : t[i] # Space
  PROVE  FirstSpace(t) = 0
<1> DEFINE f == FirstSpace(t)
<1>1. /\ f \in 0 .. Len(t)
      /\ f # 0 => t[f] = Space
  BY FirstSpaceFinds
<1>2. Len(t) \in Nat
  BY TextLength
<1> HIDE DEF f
<1>3. f # 0 => f \in 1 .. Len(t)
  BY <1>1, <1>2
<1>4. f = 0
  BY <1>1, <1>3
<1> QED BY <1>4 DEF f

\* What is trimmed on the left, and on the right.
LEMMA TrimLeftCuts ==
  ASSUME NEW t \in Text
  PROVE  \E p \in 0 .. Len(t) :
           /\ TrimLeft(t) = SubSeq(t, p + 1, Len(t))
           /\ \A i \in 1 .. p : t[i] \in Blanks
           /\ p < Len(t) => NonBlank(t[p + 1])
<1> DEFINE S == {i \in 1 .. Len(t) : NonBlank(t[i])}
<1>1. Len(t) \in Nat /\ DOMAIN t = 1 .. Len(t)
  BY DEF Text
<1>2. CASE S = {}
  <2>1. TrimLeft(t) = <<>>
    BY <1>1, <1>2 DEF TrimLeft
  <2>2. SubSeq(t, Len(t) + 1, Len(t)) = <<>>
    BY <1>1 DEF Text
  <2>3. \A i \in 1 .. Len(t) : t[i] \in Blanks
    BY <1>2 DEF NonBlank
  <2> QED BY <1>1, <2>1, <2>2, <2>3
<1>3. CASE S # {}
  <2>1. TrimLeft(t) = SubSeq(t, Min(S), Len(t))
    BY <1>1, <1>3 DEF TrimLeft, SelectInSeq
  <2>2. S \in SUBSET Nat
    OBVIOUS
  <2>3. Min(S) \in S /\ \A n \in S : Min(S) <= n
    <3> HIDE DEF S
    <3> QED BY <1>3, <2>2, LeastOf
  <2> DEFINE m == Min(S)
  <2>4. m \in 1 .. Len(t) /\ NonBlank(t[m]) /\ \A n \in S : m <= n
    BY <2>3
  <2> HIDE DEF m
  <2>5. \A i \in 1 .. m - 1 : t[i] \in Blanks
    <3> SUFFICES ASSUME NEW i \in 1 .. m - 1, NonBlank(t[i]) PROVE FALSE
      BY DEF NonBlank
    <3>1. i \in S /\ i < m
      BY <1>1, <2>4
    <3> QED BY <1>1, <2>4, <3>1
  <2>6. m - 1 \in 0 .. Len(t) /\ (m - 1) + 1 = m
    BY <1>1, <2>4
  <2> QED BY <2>1, <2>4, <2>5, <2>6 DEF m
<1> QED BY <1>2, <1>3

LEMMA TrimRightCuts ==
  ASSUME NEW t \in Text
  PROVE  \E p \in 0 .. Len(t) :
           /\ TrimRight(t) = SubSeq(t, 1, p)
           /\ \A i \in p + 1 .. Len(t) : t[i] \in Blanks
           /\ p > 0 => NonBlank(t[p])
<1> DEFINE S == {i \in 1 .. Len(t) : NonBlank(t[i])}
<1>1. Len(t) \in Nat
  BY DEF Text
<1>2. TrimRight(t) = SubSeq(t, 1, IF S # {} THEN Max(S) ELSE 0)
  BY DEF TrimRight, SelectLastInSeq
<1>3. CASE S = {}
  <2>1. TrimRight(t) = SubSeq(t, 1, 0)
    BY <1>2, <1>3
  <2>2. \A i \in 0 + 1 .. Len(t) : t[i] \in Blanks
    BY <1>3 DEF NonBlank
  <2> QED BY <1>1, <2>1, <2>2
<1>4. CASE S # {}
  <2>1. S \in SUBSET (0 .. Len(t))
    BY <1>1
  <2>2. Max(S) \in S /\ \A n \in S : n <= Max(S)
    <3> HIDE DEF S
    <3> QED BY <1>1, <1>4, <2>1, GreatestOf
  <2> DEFINE m == Max(S)
  <2>3. m \in 1 .. Len(t) /\ NonBlank(t[m]) /\ \A n \in S : n <= m
    BY <2>2
  <2>4. TrimRight(t) = SubSeq(t, 1, m)
    BY <1>2, <1>4
  <2> HIDE DEF m
  <2>5. \A i \in m + 1 .. Len(t) : t[i] \in Blanks
    <3> SUFFICES ASSUME NEW i \in m + 1 .. Len(t), NonBlank(t[i]) PROVE FALSE
      BY DEF NonBlank
    <3>1. i \in S /\ m < i
      BY <1>1, <2>3
    <3> QED BY <1>1, <2>3, <3>1
  <2> QED BY <1>1, <2>3, <2>4, <2>5
<1> QED BY <1>3, <1>4

\* The parts of a text.
LEMMA Parts ==
  ASSUME NEW t \in Text, NEW a \in Int, NEW b \in Int, 1 <= a, b <= Len(t)
  PROVE  /\ SubSeq(t, a, b) \in Text
         /\ Len(SubSeq(t, a, b)) = IF a <= b THEN b - a + 1 ELSE 0
         /\ \A i \in 1 .. Len(SubSeq(t, a, b)) : SubSeq(t, a, b)[i] = t[a + i - 1]
         /\ a > b => SubSeq(t, a, b) = <<>>
BY DEF Text

LEMMA Prefix ==
  ASSUME NEW t \in Text, NEW p \in 0 .. Len(t)
  PROVE  /\ SubSeq(t, 1, p) \in Text /\ Len(SubSeq(t, 1, p)) = p
         /\ \A i \in 1 .. p : SubSeq(t, 1, p)[i] = t[i]
<1> DEFINE s == SubSeq(t, 1, p)
<1>1. Len(t) \in Nat
  BY TextLength
<1>2. /\ s \in Text /\ Len(s) = IF 1 <= p THEN p - 1 + 1 ELSE 0
      /\ \A i \in 1 .. Len(s) : s[i] = t[1 + i - 1]
  BY <1>1, Parts
<1> HIDE DEF s
<1>3. Len(s) = p
  BY <1>1, <1>2
<1>4. \A i \in 1 .. p : 1 + i - 1 = i
  BY <1>1
<1>5. \A i \in 1 .. p : s[i] = t[i]
  BY <1>2, <1>3, <1>4
<1> QED BY <1>2, <1>3, <1>5 DEF s

LEMMA RestOf ==
  ASSUME NEW n \in Nat, NEW p \in 0 .. n
  PROVE  /\ n - p \in Nat /\ p + (n - p) = n
         /\ p # n => p < n /\ n - p # 0 /\ 1 \in 1 .. n - p /\ n - p \in 1 .. n - p
         /\ n - p # 0 => p # n
OBVIOUS

LEMMA Middle ==
  ASSUME NEW t \in Text, NEW n \in 0 .. Len(t), NEW m \in n .. Len(t)
  PROVE  /\ SubSeq(t, n + 1, m) \in Text /\ Len(SubSeq(t, n + 1, m)) = m - n
         /\ \A i \in 1 .. m - n : SubSeq(t, n + 1, m)[i] = t[n + i]
<1> DEFINE s == SubSeq(t, n + 1, m)
<1>1. Len(t) \in Nat
  BY TextLength
<1>2. n + 1 \in Int /\ m \in Int /\ 1 <= n + 1 /\ m <= Len(t)
  BY <1>1
<1>3. /\ s \in Text /\ Len(s) = IF n + 1 <= m THEN m - (n + 1) + 1 ELSE 0
      /\ \A i \in 1 .. Len(s) : s[i] = t[(n + 1) + i - 1]
  BY <1>2, Parts
<1> HIDE DEF s
<1>4. Len(s) = m - n
  BY <1>1, <1>3
<1>5. \A i \in 1 .. m - n : (n + 1) + i - 1 = n + i
  BY <1>1
<1>6. \A i \in 1 .. m - n : s[i] = t[n + i]
  BY <1>3, <1>4, <1>5
<1> QED BY <1>3, <1>4, <1>6 DEF s

LEMMA Suffix ==
  ASSUME NEW t \in Text, NEW p \in 0 .. Len(t)
  PROVE  /\ SubSeq(t, p + 1, Len(t)) \in Text
         /\ Len(SubSeq(t, p + 1, Len(t))) = Len(t) - p
         /\ \A i \in 1 .. Len(t) - p : SubSeq(t, p + 1, Len(t))[i] = t[p + i]
<1>1. Len(t) \in Nat
  BY TextLength
<1>2. Len(t) \in p .. Len(t)
  BY <1>1
<1> QED BY <1>2, Middle

LEMMA WholePart == ASSUME NEW t \in Text PROVE SubSeq(t, 1, Len(t)) = t
BY DEF Text

\* Texts without whitespace at their ends.
Tight(t) == t # <<>> /\ NonBlank(t[1]) /\ NonBlank(t[Len(t)])

LEMMA TrimLeftKeeps ==
  ASSUME NEW t \in Text, t = <<>> \/ NonBlank(t[1]) PROVE TrimLeft(t) = t
<1>1. PICK p \in 0 .. Len(t) :
        /\ TrimLeft(t) = SubSeq(t, p + 1, Len(t))
        /\ \A i \in 1 .. p : t[i] \in Blanks
  BY TrimLeftCuts
<1>2. Len(t) \in Nat /\ (t = <<>> => Len(t) = 0)
  BY TextLength
<1>3. p = 0
  <2>1. CASE t = <<>>
    BY <1>2, <2>1
  <2>2. CASE NonBlank(t[1])
    BY <1>1, <1>2, <2>2 DEF NonBlank
  <2> QED BY <2>1, <2>2
<1> QED BY <1>1, <1>3, WholePart

LEMMA TrimRightKeeps ==
  ASSUME NEW t \in Text, t # <<>>, NonBlank(t[Len(t)]) PROVE TrimRight(t) = t
<1>1. PICK p \in 0 .. Len(t) :
        /\ TrimRight(t) = SubSeq(t, 1, p)
        /\ \A i \in p + 1 .. Len(t) : t[i] \in Blanks
  BY TrimRightCuts
<1>2. Len(t) \in Nat /\ Len(t) # 0
  BY TextLength
<1>3. p = Len(t)
  BY <1>1, <1>2 DEF NonBlank
<1> QED BY <1>1, <1>3, WholePart

\* The text left of a trim starts with what is not whitespace, and is its end.
LEMMA TrimLeftStarts ==
  ASSUME NEW t \in Text
  PROVE  /\ TrimLeft(t) \in Text
         /\ TrimLeft(t) # <<>> =>
              NonBlank(TrimLeft(t)[1]) /\ TrimLeft(t)[Len(TrimLeft(t))] = t[Len(t)]
         /\ (t # <<>> /\ NonBlank(t[Len(t)])) => TrimLeft(t) # <<>>
         /\ \A i \in DOMAIN TrimLeft(t) : \E j \in DOMAIN t : TrimLeft(t)[i] = t[j]
<1> DEFINE l == TrimLeft(t)
<1>1. PICK p \in 0 .. Len(t) :
        /\ l = SubSeq(t, p + 1, Len(t))
        /\ \A i \in 1 .. p : t[i] \in Blanks
        /\ p < Len(t) => NonBlank(t[p + 1])
  BY TrimLeftCuts
<1> HIDE DEF l
<1>2. Len(t) \in Nat /\ (t = <<>> <=> Len(t) = 0) /\ DOMAIN t = 1 .. Len(t)
  BY TextLength
<1>3. l \in Text /\ Len(l) = Len(t) - p /\ \A i \in 1 .. Len(t) - p : l[i] = t[p + i]
  BY <1>1, Suffix
<1>4. (l = <<>> <=> Len(l) = 0) /\ DOMAIN l = 1 .. Len(t) - p
  BY <1>3, TextLength
<1>5. ASSUME l # <<>> PROVE NonBlank(l[1]) /\ l[Len(l)] = t[Len(t)]
  <2>1. Len(t) - p # 0
    BY <1>3, <1>4, <1>5
  <2>2. p < Len(t) /\ 1 \in 1 .. Len(t) - p /\ Len(t) - p \in 1 .. Len(t) - p
    BY <1>2, <2>1, RestOf
  <2>3. l[1] = t[p + 1] /\ l[Len(l)] = t[p + (Len(t) - p)]
    BY <1>3, <2>2
  <2>4. p + (Len(t) - p) = Len(t)
    BY <1>2
  <2> QED BY <1>1, <2>2, <2>3, <2>4
<1>6. ASSUME t # <<>>, NonBlank(t[Len(t)]) PROVE l # <<>>
  <2>1. Len(t) \in 1 .. Len(t)
    BY <1>2, <1>6
  <2>2. p # Len(t)
    BY <1>1, <1>6, <2>1 DEF NonBlank
  <2>3. Len(t) - p # 0
    BY <1>2, <2>2, RestOf
  <2> QED BY <1>3, <1>4, <2>3
<1>7. ASSUME NEW i \in DOMAIN l PROVE \E j \in DOMAIN t : l[i] = t[j]
  <2>1. i \in 1 .. Len(t) - p /\ l[i] = t[p + i]
    BY <1>3, <1>4, <1>7
  <2>2. p + i \in DOMAIN t
    BY <1>2, <2>1
  <2> QED BY <2>1, <2>2
<1> QED BY <1>3, <1>5, <1>6, <1>7 DEF l

LEMMA TrimRightEnds ==
  ASSUME NEW t \in Text
  PROVE  /\ TrimRight(t) \in Text
         /\ TrimRight(t) # <<>> =>
              NonBlank(TrimRight(t)[Len(TrimRight(t))]) /\ TrimRight(t)[1] = t[1]
         /\ (t # <<>> /\ NonBlank(t[1])) => TrimRight(t) # <<>>
         /\ \A i \in DOMAIN TrimRight(t) : i \in DOMAIN t /\ TrimRight(t)[i] = t[i]
<1> DEFINE r == TrimRight(t)
<1>1. PICK p \in 0 .. Len(t) :
        /\ r = SubSeq(t, 1, p)
        /\ \A i \in p + 1 .. Len(t) : t[i] \in Blanks
        /\ p > 0 => NonBlank(t[p])
  BY TrimRightCuts
<1> HIDE DEF r
<1>2. Len(t) \in Nat /\ (t = <<>> <=> Len(t) = 0) /\ DOMAIN t = 1 .. Len(t)
  BY TextLength
<1>3. r \in Text /\ Len(r) = p /\ \A i \in 1 .. p : r[i] = t[i]
  BY <1>1, Prefix
<1>4. (r = <<>> <=> Len(r) = 0) /\ DOMAIN r = 1 .. p
  BY <1>1, <1>2, <1>3, TextLength
<1>5. \A i \in 1 .. p : r[i] = t[i]
  BY <1>3
<1>6. ASSUME t # <<>>, NonBlank(t[1]) PROVE r # <<>>
  <2>1. p # 0
    BY <1>1, <1>2, <1>6 DEF NonBlank
  <2> QED BY <1>4, <2>1
<1>7. ASSUME r # <<>> PROVE NonBlank(r[Len(r)]) /\ r[1] = t[1]
  BY <1>1, <1>2, <1>3, <1>4, <1>5, <1>7
<1>8. ASSUME NEW i \in DOMAIN r PROVE i \in DOMAIN t /\ r[i] = t[i]
  BY <1>1, <1>2, <1>4, <1>5
<1> QED BY <1>3, <1>6, <1>7, <1>8 DEF r

LEMMA TrimIsTight ==
  ASSUME NEW t \in Text
  PROVE  /\ Trim(t) \in Text /\ (Trim(t) = <<>> \/ Tight(Trim(t)))
         /\ \A i \in DOMAIN Trim(t) : \E j \in DOMAIN t : Trim(t)[i] = t[j]
<1> DEFINE l == TrimLeft(t)  r == TrimRight(l)
<1>1. /\ l \in Text
      /\ l # <<>> => NonBlank(l[1])
      /\ \A i \in DOMAIN l : \E j \in DOMAIN t : l[i] = t[j]
  BY TrimLeftStarts
<1> HIDE DEF l
<1>2. /\ r \in Text
      /\ r # <<>> => NonBlank(r[Len(r)]) /\ r[1] = l[1]
      /\ \A i \in DOMAIN r : i \in DOMAIN l /\ r[i] = l[i]
  BY <1>1, TrimRightEnds
<1> HIDE DEF r
<1>3. r = <<>> \/ Tight(r)
  <2>1. ASSUME r # <<>> PROVE l # <<>>
    <3>1. 1 \in DOMAIN r
      BY <1>2, <2>1, TextLength
    <3>2. 1 \in DOMAIN l
      BY <1>2, <3>1
    <3> QED BY <1>1, <3>2, TextLength
  <2> QED BY <1>1, <1>2, <2>1 DEF Tight
<1>4. \A i \in DOMAIN r : \E j \in DOMAIN t : r[i] = t[j]
  BY <1>1, <1>2
<1> QED BY <1>2, <1>3, <1>4 DEF Trim, l, r

\* Cutting a tight text at its first space.
LEMMA BeforeStarts ==
  ASSUME NEW t \in Text, t # <<>>, NonBlank(t[1])
  PROVE  /\ Before(t) \in Text /\ Before(t) # <<>> /\ NonBlank(Before(t)[1])
         /\ \A i \in DOMAIN Before(t) : Before(t)[i] # Space /\ i \in DOMAIN t /\ Before(t)[i] = t[i]
<1> DEFINE f == FirstSpace(t)  b == Before(t)
<1>1. Len(t) \in Nat /\ Len(t) # 0 /\ DOMAIN t = 1 .. Len(t)
  BY TextLength
<1>2. /\ f \in 0 .. Len(t)
      /\ f = 0 => \A i \in 1 .. Len(t) : t[i] # Space
      /\ f # 0 => t[f] = Space /\ \A i \in 1 .. f - 1 : t[i] # Space
  BY FirstSpaceFinds
<1>3. b = IF f = 0 THEN t ELSE SubSeq(t, 1, f - 1)
  BY DEF Before
<1> HIDE DEF f, b
<1>4. f # 1
  BY <1>2, ProtocolAssumption DEF NonBlank
<1>5. CASE f = 0
  <2>1. b = t /\ 1 \in DOMAIN t
    BY <1>1, <1>3, <1>5
  <2> QED BY <1>1, <1>2, <1>5, <2>1 DEF b
<1>6. CASE f # 0
  <2>1. f - 1 \in 1 .. Len(t)
    BY <1>1, <1>2, <1>4, <1>6
  <2>2. b \in Text /\ Len(b) = f - 1 /\ \A i \in 1 .. f - 1 : b[i] = t[i]
    BY <1>1, <1>3, <1>6, <2>1, Prefix
  <2>3. b # <<>> /\ DOMAIN b = 1 .. f - 1
    BY <2>1, <2>2, TextLength
  <2>4. 1 \in 1 .. f - 1 /\ \A i \in 1 .. f - 1 : i \in 1 .. Len(t)
    BY <1>1, <2>1
  <2>5. NonBlank(b[1])
    BY <2>2, <2>4
  <2> QED BY <1>1, <1>2, <1>6, <2>2, <2>3, <2>4, <2>5 DEF b
<1> QED BY <1>5, <1>6

LEMMA AfterEnds ==
  ASSUME NEW t \in Text
  PROVE  /\ After(t) \in Text
         /\ FirstSpace(t) = 0 => After(t) = <<>>
         /\ t # <<>> /\ NonBlank(t[Len(t)]) /\ FirstSpace(t) # 0 =>
              After(t) # <<>> /\ After(t)[Len(After(t))] = t[Len(t)]
<1> DEFINE f == FirstSpace(t)  a == After(t)
<1>1. Len(t) \in Nat /\ DOMAIN t = 1 .. Len(t) /\ <<>> \in Text
  BY TextLength DEF Text
<1>2. f \in 0 .. Len(t) /\ (f # 0 => t[f] = Space)
  BY FirstSpaceFinds
<1>3. a = IF f = 0 THEN <<>> ELSE SubSeq(t, f + 1, Len(t))
  BY DEF After
<1> HIDE DEF f, a
<1>4. CASE f = 0
  BY <1>1, <1>3, <1>4 DEF f, a
<1>5. CASE f # 0
  <2>1. a \in Text /\ Len(a) = Len(t) - f /\ \A i \in 1 .. Len(t) - f : a[i] = t[f + i]
    BY <1>2, <1>3, <1>5, Suffix
  <2>2. ASSUME NonBlank(t[Len(t)]) PROVE a # <<>> /\ a[Len(a)] = t[Len(t)]
    <3>1. f # Len(t)
      BY <1>2, <1>5, <2>2, ProtocolAssumption DEF NonBlank
    <3>2. Len(t) - f \in 1 .. Len(t) - f /\ f + (Len(t) - f) = Len(t)
      BY <1>1, <1>2, <3>1, RestOf
    <3>3. Len(a) # 0
      BY <2>1, <3>2
    <3> QED BY <2>1, <3>2, <3>3, TextLength
  <2> QED BY <1>5, <2>1, <2>2 DEF f, a
<1> QED BY <1>4, <1>5

LEMMA RemainderIsTight ==
  ASSUME NEW t \in Text, Tight(t)
  PROVE  /\ TrimLeft(After(t)) \in Text
         /\ FirstSpace(t) = 0 => TrimLeft(After(t)) = <<>>
         /\ FirstSpace(t) # 0 => Tight(TrimLeft(After(t)))
<1> DEFINE a == After(t)  l == TrimLeft(a)
<1>1. /\ a \in Text
      /\ FirstSpace(t) = 0 => a = <<>>
      /\ FirstSpace(t) # 0 => a # <<>> /\ a[Len(a)] = t[Len(t)]
  BY AfterEnds DEF Tight
<1>2. NonBlank(t[Len(t)])
  BY DEF Tight
<1> HIDE DEF a
<1>3. /\ l \in Text
      /\ l # <<>> => NonBlank(l[1]) /\ l[Len(l)] = a[Len(a)]
      /\ (a # <<>> /\ NonBlank(a[Len(a)])) => l # <<>>
  BY <1>1, TrimLeftStarts
<1>4. a = <<>> => l = <<>>
  BY <1>1, TrimLeftKeeps
<1> HIDE DEF l
<1>5. FirstSpace(t) # 0 => Tight(l)
  BY <1>1, <1>2, <1>3 DEF Tight
<1> QED BY <1>1, <1>3, <1>4, <1>5 DEF l, a

-----------------------------------------------------------------------------
(* Joining texts.                                                          *)

LEMMA SameText ==
  ASSUME NEW s \in Text, NEW t \in Text, Len(s) = Len(t), \A i \in 1 .. Len(s) : s[i] = t[i]
  PROVE  s = t
BY DEF Text

LEMMA Joined ==
  ASSUME NEW s \in Text, NEW t \in Text
  PROVE  /\ s \o t \in Text /\ Len(s \o t) = Len(s) + Len(t)
         /\ \A i \in 1 .. Len(s) : (s \o t)[i] = s[i]
         /\ \A i \in 1 .. Len(t) : (s \o t)[Len(s) + i] = t[i]
<1>1. s \in Seq(Token) /\ t \in Seq(Token)
  BY DEF Text
<1>2. Len(s) \in Nat /\ Len(t) \in Nat
  BY TextLength
<1>3. s \o t \in Seq(Token) /\ Len(s \o t) = Len(s) + Len(t)
  BY <1>1
<1>4. ASSUME NEW i \in 1 .. Len(s) PROVE (s \o t)[i] = s[i]
  BY <1>1, <1>2
<1>5. ASSUME NEW i \in 1 .. Len(t) PROVE (s \o t)[Len(s) + i] = t[i]
  BY <1>1, <1>2
<1> QED BY <1>3, <1>4, <1>5 DEF Text

LEMMA JoinedAgain ==
  ASSUME NEW s \in Text, NEW t \in Text, NEW u \in Text
  PROVE  (s \o t) \o u = s \o (t \o u)
BY ConcatAssociative DEF Text

\* Cutting a joined text where it was joined.
LEMMA Rejoined ==
  ASSUME NEW s \in Text, NEW t \in Text
  PROVE  /\ SubSeq(s \o t, 1, Len(s)) = s
         /\ SubSeq(s \o t, Len(s) + 1, Len(s \o t)) = t
<1> DEFINE w == s \o t  b == SubSeq(w, 1, Len(s))  a == SubSeq(w, Len(s) + 1, Len(w))
<1>1. /\ w \in Text /\ Len(w) = Len(s) + Len(t)
      /\ \A i \in 1 .. Len(s) : w[i] = s[i]
      /\ \A i \in 1 .. Len(t) : w[Len(s) + i] = t[i]
  BY Joined
<1>2. Len(s) \in Nat /\ Len(t) \in Nat
  BY TextLength
<1> HIDE DEF w
<1>3. Len(s) \in 0 .. Len(w) /\ Len(w) - Len(s) = Len(t)
  BY <1>1, <1>2
<1>4. b \in Text /\ Len(b) = Len(s) /\ \A i \in 1 .. Len(s) : b[i] = w[i]
  BY <1>1, <1>3, Prefix
<1>5. a \in Text /\ Len(a) = Len(t) /\ \A i \in 1 .. Len(t) : a[i] = w[Len(s) + i]
  BY <1>1, <1>3, Suffix
<1> HIDE DEF a, b
<1>6. b = s
  BY <1>1, <1>4, SameText
<1>7. a = t
  BY <1>1, <1>5, SameText
<1> QED BY <1>6, <1>7 DEF a, b, w

LEMMA OneToken ==
  ASSUME NEW a \in Token
  PROVE  <<a>> \in Text /\ Len(<<a>>) = 1 /\ <<a>>[1] = a /\ <<a>> # <<>>
BY DEF Text

LEMMA TwoTokens ==
  ASSUME NEW a \in Token, NEW b \in Token
  PROVE  <<a, b>> \in Text /\ Len(<<a, b>>) = 2 /\ <<a, b>>[1] = a /\ <<a, b>>[2] = b
BY DEF Text

\* Trimming a text that was joined to another one on its left.
LEMMA TrimRightIs ==
  ASSUME NEW t \in Text, NEW p \in 1 .. Len(t), NonBlank(t[p]),
         \A i \in p + 1 .. Len(t) : t[i] \in Blanks
  PROVE  TrimRight(t) = SubSeq(t, 1, p)
<1>1. PICK q \in 0 .. Len(t) :
        /\ TrimRight(t) = SubSeq(t, 1, q)
        /\ \A i \in q + 1 .. Len(t) : t[i] \in Blanks
        /\ q > 0 => NonBlank(t[q])
  BY TrimRightCuts
<1>2. Len(t) \in Nat
  BY TextLength
<1>3. q < p => p \in q + 1 .. Len(t)
  BY <1>2
<1>4. p < q => q \in p + 1 .. Len(t) /\ q > 0
  BY <1>2
<1>5. ~(q < p) /\ ~(p < q)
  BY <1>1, <1>3, <1>4 DEF NonBlank
<1>6. p = q
  BY <1>2, <1>5
<1> QED BY <1>1, <1>6

LEMMA TrimRightOfJoined ==
  ASSUME NEW s \in Text, NEW t \in Text, t # <<>>, NonBlank(t[1])
  PROVE  TrimRight(s \o t) = s \o TrimRight(t)
<1> DEFINE w == s \o t  r == TrimRight(t)
<1>1. PICK q \in 0 .. Len(t) :
        /\ r = SubSeq(t, 1, q)
        /\ \A i \in q + 1 .. Len(t) : t[i] \in Blanks
        /\ q > 0 => NonBlank(t[q])
  BY TrimRightCuts
<1> HIDE DEF r
<1>2. Len(s) \in Nat /\ Len(t) \in Nat /\ Len(t) # 0
  BY TextLength
<1>3. /\ w \in Text /\ Len(w) = Len(s) + Len(t)
      /\ \A i \in 1 .. Len(s) : w[i] = s[i]
      /\ \A i \in 1 .. Len(t) : w[Len(s) + i] = t[i]
  BY Joined
<1> HIDE DEF w
<1>4. q > 0
  <2>1. q = 0 => 1 \in q + 1 .. Len(t)
    BY <1>2
  <2>2. q # 0
    BY <1>1, <2>1 DEF NonBlank
  <2> QED BY <2>2
<1> DEFINE p == Len(s) + q
<1>5. p \in 1 .. Len(w) /\ q \in 1 .. Len(t)
  BY <1>2, <1>3, <1>4
<1>6. NonBlank(w[p])
  BY <1>1, <1>3, <1>4, <1>5
<1>7. ASSUME NEW i \in p + 1 .. Len(w) PROVE w[i] \in Blanks
  <2> DEFINE j == i - Len(s)
  <2>1. j \in 1 .. Len(t) /\ j \in q + 1 .. Len(t) /\ Len(s) + j = i
    BY <1>2, <1>3, <1>4
  <2> HIDE DEF j
  <2> QED BY <1>1, <1>3, <2>1
<1>8. TrimRight(w) = SubSeq(w, 1, p)
  <2> HIDE DEF p
  <2> QED BY <1>3, <1>5, <1>6, <1>7, TrimRightIs
<1> DEFINE b == SubSeq(w, 1, p)  c == s \o r
<1>9. r \in Text /\ Len(r) = q /\ \A i \in 1 .. q : r[i] = t[i]
  BY <1>1, Prefix
<1>10. b \in Text /\ Len(b) = p /\ \A i \in 1 .. p : b[i] = w[i]
  <2> HIDE DEF p
  <2>1. p \in 0 .. Len(w)
    BY <1>2, <1>3, <1>5
  <2> QED BY <1>3, <2>1, Prefix
<1>11. /\ c \in Text /\ Len(c) = Len(s) + Len(r)
       /\ \A i \in 1 .. Len(s) : c[i] = s[i]
       /\ \A i \in 1 .. Len(r) : c[Len(s) + i] = r[i]
  BY <1>9, Joined
<1> HIDE DEF b, c
<1>12. ASSUME NEW i \in 1 .. p PROVE b[i] = c[i]
  <2>1. CASE i <= Len(s)
    <3>1. i \in 1 .. Len(s)
      BY <1>2, <2>1
    <3> QED BY <1>3, <1>10, <1>11, <3>1
  <2>2. CASE ~(i <= Len(s))
    <3> DEFINE j == i - Len(s)
    <3>1. j \in 1 .. q /\ j \in 1 .. Len(t) /\ Len(s) + j = i
      BY <1>2, <2>2
    <3> HIDE DEF j
    <3>2. b[i] = t[j]
      BY <1>3, <1>10, <3>1
    <3>3. c[i] = t[j]
      BY <1>9, <1>11, <3>1
    <3> QED BY <3>2, <3>3
  <2> QED BY <2>1, <2>2
<1>13. Len(b) = Len(c) /\ Len(b) = p
  BY <1>9, <1>10, <1>11
<1>14. b = c
  <2> HIDE DEF p
  <2> QED BY <1>10, <1>11, <1>12, <1>13, SameText
<1> QED BY <1>8, <1>14 DEF b, c, w, r

-----------------------------------------------------------------------------
(* What is understood, and how it is written.                              *)

\* A key starts with what is not whitespace and has no space in it.
IsKey(key) == /\ key \in Text /\ key # <<>> /\ NonBlank(key[1])
              /\ \A i \in DOMAIN key : key[i] # Space

UnderstoodKey(q) ==
  \E type \in {"get", "del"} : \E key : IsKey(key) /\ Tight(key) /\ q = [type |-> type, key |-> key]

UnderstoodSet(q) ==
  \E key, value : /\ IsKey(key) /\ value \in Text /\ Tight(value)
                  /\ q = [type |-> "set", key |-> key, value |-> value]

LEMMA WithKeyShape ==
  ASSUME NEW type \in {"get", "del"}, NEW key \in Text, key = <<>> \/ Tight(key),
         ParsedWithKey(type, key).type # "invalid"
  PROVE  UnderstoodKey(ParsedWithKey(type, key))
<1>1. key # <<>> /\ FirstSpace(key) = 0
  BY DEF ParsedWithKey, Invalid
<1>2. ParsedWithKey(type, key) = [type |-> type, key |-> key]
  BY <1>1 DEF ParsedWithKey
<1>3. Tight(key) /\ NonBlank(key[1])
  BY <1>1 DEF Tight
<1>4. \A i \in DOMAIN key : key[i] # Space
  BY <1>1, FirstSpaceFinds, TextLength
<1>5. IsKey(key)
  BY <1>1, <1>3, <1>4 DEF IsKey
<1> QED BY <1>2, <1>3, <1>5 DEF UnderstoodKey

\* The arguments of SET: with a space in them, both are there; so parse_request never
\* complains of an empty key or value.
LEMMA SetParts ==
  ASSUME NEW arguments \in Text, arguments = <<>> \/ Tight(arguments)
  PROVE  IF FirstSpace(arguments) = 0 THEN ParsedSet(arguments) = Invalid(<<"value_missing">>)
                                      ELSE UnderstoodSet(ParsedSet(arguments))
<1> DEFINE key == Before(arguments)  value == TrimLeft(After(arguments))
<1>1. ASSUME FirstSpace(arguments) = 0 PROVE ParsedSet(arguments) = Invalid(<<"value_missing">>)
  BY <1>1 DEF ParsedSet
<1>2. ASSUME FirstSpace(arguments) # 0 PROVE UnderstoodSet(ParsedSet(arguments))
  <2>1. arguments # <<>>
    <3>1. ASSUME arguments = <<>> PROVE FirstSpace(arguments) = 0
      BY <3>1, NoSpaceIs, TextLength
    <3> QED BY <1>2, <3>1
  <2>2. Tight(arguments) /\ NonBlank(arguments[1])
    BY <2>1 DEF Tight
  <2>3. IsKey(key)
    BY <2>1, <2>2, BeforeStarts DEF IsKey
  <2>4. value \in Text /\ Tight(value)
    BY <1>2, <2>2, RemainderIsTight
  <2>5. key # <<>> /\ value # <<>>
    BY <2>3, <2>4 DEF IsKey, Tight
  <2>6. ParsedSet(arguments) = [type |-> "set", key |-> key, value |-> value]
    BY <1>2, <2>5 DEF ParsedSet
  <2> HIDE DEF key, value
  <2> QED BY <2>3, <2>4, <2>6 DEF UnderstoodSet
<1> QED BY <1>1, <1>2

\* What parse_request takes for the arguments.
LEMMA ArgumentsAreTight ==
  ASSUME NEW t \in Text
  PROVE  LET remainder == TrimLeft(After(Trim(t)))
         IN  remainder \in Text /\ (remainder = <<>> \/ Tight(remainder))
<1> DEFINE cleaned == Trim(t)
<1>1. cleaned \in Text /\ (cleaned = <<>> \/ Tight(cleaned))
  BY TrimIsTight
<1> HIDE DEF cleaned
<1>2. CASE Tight(cleaned)
  BY <1>1, <1>2, RemainderIsTight DEF cleaned
<1>3. CASE cleaned = <<>>
  <2>1. FirstSpace(cleaned) = 0
    BY <1>1, <1>3, NoSpaceIs, TextLength
  <2>2. After(cleaned) = <<>>
    BY <2>1 DEF After
  <2>3. <<>> \in Text
    BY <1>1, <1>3
  <2>4. TrimLeft(After(cleaned)) = <<>>
    BY <2>2, <2>3, TrimLeftKeeps
  <2> QED BY <2>3, <2>4 DEF cleaned
<1> QED BY <1>1, <1>2, <1>3

\* A line that is understood is QUIT, or names a key, without whitespace at its ends
\* unless it comes before a value.
LEMMA ParsedShape ==
  ASSUME NEW t \in Text, Parsed(t).type # "invalid"
  PROVE  Parsed(t) = Quit \/ UnderstoodKey(Parsed(t)) \/ UnderstoodSet(Parsed(t))
<1> DEFINE cleaned   == Trim(t)
           command   == LowerCopy(Before(cleaned))
           remainder == TrimLeft(After(cleaned))
<1>1. Parsed(t) =
        CASE cleaned = <<>>                         -> Invalid(<<"empty_request">>)
          [] command = <<"get">>                    -> ParsedWithKey("get", remainder)
          [] command \in {<<"del">>, <<"delete">>}  -> ParsedWithKey("del", remainder)
          [] command = <<"set">>                    -> ParsedSet(remainder)
          [] command \in {<<"quit">>, <<"exit">>}   -> Quit
          [] OTHER                                  -> Invalid(<<"unknown_command">> \o command)
  BY Zenon DEF Parsed
<1>2. cleaned \in Text /\ (cleaned = <<>> \/ Tight(cleaned))
  BY TrimIsTight
<1>3. remainder \in Text /\ (remainder = <<>> \/ Tight(remainder))
  BY ArgumentsAreTight
<1> HIDE DEF cleaned, command, remainder
<1>4. cleaned # <<>>
  <2>1. ASSUME cleaned = <<>> PROVE FALSE
    <3>1. Before(cleaned) = <<>>
      BY <1>2, <2>1, NoSpaceIs, TextLength DEF Before
    <3>2. command = <<>>
      BY <3>1 DEF LowerCopy, command
    <3>3. Parsed(t) = Invalid(<<"empty_request">>)
      BY <1>1, <2>1, <3>2
    <3> QED BY <3>3 DEF Invalid
  <2> QED BY <2>1
<1>5. \/ Parsed(t) = Quit \/ Parsed(t) = ParsedSet(remainder)
      \/ Parsed(t) = ParsedWithKey("get", remainder) \/ Parsed(t) = ParsedWithKey("del", remainder)
  BY <1>1, <1>4 DEF Invalid
<1>6. ParsedSet(remainder).type # "invalid" => UnderstoodSet(ParsedSet(remainder))
  BY <1>3, SetParts DEF Invalid
<1> QED BY <1>3, <1>5, <1>6, WithKeyShape

\* A command word, a space, and the rest: how parse_request takes them apart.
LEMMA CommandParts ==
  ASSUME NEW word \in Token, NonBlank(word), NEW rest \in Text, rest # <<>>, NonBlank(rest[1])
  PROVE  LET cleaned == Trim(<<word, Space>> \o rest)
         IN  /\ cleaned # <<>> /\ Before(cleaned) = <<word>>
             /\ TrimLeft(After(cleaned)) = TrimRight(rest)
<1> DEFINE both == <<word, Space>>  r == TrimRight(rest)  c == both \o r
<1>1. both \in Text /\ Len(both) = 2 /\ both[1] = word /\ both[2] = Space
  BY TwoTokens DEF Token, Words
<1> HIDE DEF both
<1>2. /\ both \o rest \in Text
      /\ \A i \in 1 .. Len(both) : (both \o rest)[i] = both[i]
  BY <1>1, Joined
<1>3. (both \o rest)[1] = word
  BY <1>1, <1>2
<1>4. TrimLeft(both \o rest) = both \o rest
  BY <1>2, <1>3, TrimLeftKeeps
<1>5. Trim(both \o rest) = c
  BY <1>1, <1>4, TrimRightOfJoined DEF Trim
<1>6. r \in Text /\ r # <<>> /\ r[1] = rest[1]
  BY TrimRightEnds
<1> HIDE DEF r
<1>7. /\ c \in Text /\ Len(c) = Len(both) + Len(r)
      /\ \A i \in 1 .. Len(both) : c[i] = both[i]
      /\ SubSeq(c, 1, Len(both)) = both /\ SubSeq(c, Len(both) + 1, Len(c)) = r
  BY <1>1, <1>6, Joined, Rejoined
<1> HIDE DEF c
<1>8. c[1] = word /\ c[2] = Space /\ Len(c) = 2 + Len(r) /\ SubSeq(c, 2 + 1, Len(c)) = r
  BY <1>1, <1>7
<1>9. Len(r) \in Nat /\ Len(r) # 0
  BY <1>6, TextLength
<1>10. word # Space
  BY ProtocolAssumption DEF NonBlank
<1>11. FirstSpace(c) = 2
  <2>1. 2 \in 1 .. Len(c)
    BY <1>8, <1>9
  <2>2. \A i \in 1 .. 2 - 1 : c[i] # Space
    BY <1>8, <1>10
  <2> QED BY <1>7, <1>8, <2>1, <2>2, FirstSpaceIs
<1>12. Before(c) = <<word>>
  <2>1. Before(c) = SubSeq(c, 1, 1)
    BY <1>11 DEF Before
  <2>2. SubSeq(c, 1, 1) \in Text /\ Len(SubSeq(c, 1, 1)) = 1 /\ SubSeq(c, 1, 1)[1] = c[1]
    <3>1. 1 \in 0 .. Len(c) /\ 1 \in 1 .. 1
      BY <1>8, <1>9
    <3> QED BY <1>7, <3>1, Prefix
  <2>3. <<word>> \in Text /\ Len(<<word>>) = 1 /\ <<word>>[1] = word
    BY OneToken
  <2>4. \A i \in 1 .. 1 : SubSeq(c, 1, 1)[i] = <<word>>[i]
    BY <1>8, <2>2, <2>3
  <2> QED BY <2>1, <2>2, <2>3, <2>4, SameText
<1>13. After(c) = r
  BY <1>8, <1>11 DEF After
<1>14. TrimLeft(r) = r
  BY <1>6, TrimLeftKeeps
<1>15. c # <<>>
  BY <1>7, <1>8, <1>9, TextLength
<1> QED BY <1>5, <1>12, <1>13, <1>14, <1>15 DEF both, r

LEMMA LowerOfOne ==
  ASSUME NEW word PROVE LowerCopy(<<word>>) = <<Lower(word)>>
BY DEF LowerCopy

\* The documented form of each request is understood as that request.
LEMMA KeyReadBack ==
  ASSUME NEW type \in {"get", "del"}, NEW key, IsKey(key)
  PROVE  Parsed(Written([type |-> type, key |-> key])) = [type |-> type, key |-> TrimRight(key)]
<1> DEFINE word    == IF type = "get" THEN "GET" ELSE "DEL"
           t       == <<word, Space>> \o key
           cleaned == Trim(t)
<1>1. key \in Text /\ key # <<>> /\ NonBlank(key[1]) /\ \A i \in DOMAIN key : key[i] # Space
  BY DEF IsKey
<1>2. word \in Token /\ NonBlank(word) /\ Lower(word) = type
  BY ProtocolAssumption DEF Token, Words, NonBlank
<1>3. Written([type |-> type, key |-> key]) = t
  BY DEF Written
<1>4. /\ cleaned # <<>> /\ Before(cleaned) = <<word>>
      /\ TrimLeft(After(cleaned)) = TrimRight(key)
  <2> HIDE DEF word
  <2> QED BY <1>1, <1>2, CommandParts
<1>5. LowerCopy(Before(cleaned)) = <<type>>
  BY <1>2, <1>4, LowerOfOne
<1>6. Parsed(t) = ParsedWithKey(type, TrimRight(key))
  <2> HIDE DEF t
  <2>1. CASE type = "get"
    BY <1>4, <1>5, <2>1 DEF Parsed
  <2>2. CASE type = "del"
    BY <1>4, <1>5, <2>2 DEF Parsed
  <2> QED BY <2>1, <2>2
<1> DEFINE r == TrimRight(key)
<1>7. r \in Text /\ r # <<>> /\ \A i \in DOMAIN r : i \in DOMAIN key /\ r[i] = key[i]
  BY <1>1, TrimRightEnds
<1> HIDE DEF r
<1>8. FirstSpace(r) = 0
  BY <1>1, <1>7, NoSpaceIs, TextLength
<1>9. ParsedWithKey(type, r) = [type |-> type, key |-> r]
  BY <1>7, <1>8 DEF ParsedWithKey
<1> QED BY <1>3, <1>6, <1>9 DEF r

LEMMA SetReadBack ==
  ASSUME NEW key, IsKey(key), NEW value \in Text, Tight(value)
  PROVE  LET q == [type |-> "set", key |-> key, value |-> value] IN Parsed(Written(q)) = q
<1> DEFINE q       == [type |-> "set", key |-> key, value |-> value]
           spaced  == <<Space>> \o value
           rest    == key \o spaced
           t       == <<"SET", Space>> \o rest
           cleaned == Trim(t)
<1>1. key \in Text /\ key # <<>> /\ NonBlank(key[1]) /\ \A i \in DOMAIN key : key[i] # Space
  BY DEF IsKey
<1>2. "SET" \in Token /\ Space \in Token /\ NonBlank("SET") /\ Lower("SET") = "set"
  BY ProtocolAssumption DEF Token, Words, NonBlank
<1>3. value # <<>> /\ NonBlank(value[1]) /\ NonBlank(value[Len(value)])
  BY DEF Tight
<1>4. <<Space>> \in Text /\ Len(<<Space>>) = 1 /\ <<Space>>[1] = Space
  BY <1>2, OneToken
<1>5. <<"SET", Space>> \in Text
  BY <1>2, TwoTokens
<1>6. /\ spaced \in Text /\ Len(spaced) = 1 + Len(value)
      /\ spaced[1] = Space
      /\ \A i \in 1 .. Len(value) : spaced[1 + i] = value[i]
      /\ SubSeq(spaced, 1 + 1, Len(spaced)) = value
  <2>1. /\ spaced \in Text /\ Len(spaced) = Len(<<Space>>) + Len(value)
        /\ \A i \in 1 .. Len(<<Space>>) : spaced[i] = <<Space>>[i]
        /\ \A i \in 1 .. Len(value) : spaced[Len(<<Space>>) + i] = value[i]
        /\ SubSeq(spaced, Len(<<Space>>) + 1, Len(spaced)) = value
    BY <1>4, Joined, Rejoined
  <2> HIDE DEF spaced
  <2> QED BY <1>4, <2>1
<1> HIDE DEF spaced
<1>7. Len(key) \in Nat /\ Len(key) # 0 /\ Len(value) \in Nat /\ Len(value) # 0
      /\ DOMAIN key = 1 .. Len(key)
  BY <1>1, <1>3, TextLength
<1>8. /\ rest \in Text /\ Len(rest) = Len(key) + Len(spaced)
      /\ \A i \in 1 .. Len(key) : rest[i] = key[i]
      /\ \A i \in 1 .. Len(spaced) : rest[Len(key) + i] = spaced[i]
      /\ SubSeq(rest, 1, Len(key)) = key
      /\ SubSeq(rest, Len(key) + 1, Len(rest)) = spaced
  BY <1>1, <1>6, Joined, Rejoined
<1>9. Written(q) = t
  <2>1. Written(q) = ((<<"SET", Space>> \o key) \o <<Space>>) \o value
    BY DEF Written
  <2>2. <<"SET", Space>> \o key \in Text
    BY <1>1, <1>5, Joined
  <2>3. ((<<"SET", Space>> \o key) \o <<Space>>) \o value = (<<"SET", Space>> \o key) \o spaced
    BY <1>4, <2>2, JoinedAgain DEF spaced
  <2>4. (<<"SET", Space>> \o key) \o spaced = <<"SET", Space>> \o rest
    BY <1>1, <1>5, <1>6, JoinedAgain
  <2> QED BY <2>1, <2>3, <2>4
<1> HIDE DEF rest
<1>10. /\ Len(rest) \in Nat /\ Len(rest) # 0 /\ Len(rest) = (Len(key) + 1) + Len(value)
       /\ Len(key) + 1 \in 1 .. Len(rest)
       /\ rest[1] = key[1] /\ rest[Len(key) + 1] = Space
       /\ rest[Len(rest)] = value[Len(value)]
  <2>1. Len(rest) = (Len(key) + 1) + Len(value)
    BY <1>6, <1>7, <1>8
  <2>2. Len(rest) \in Nat /\ Len(rest) # 0 /\ Len(key) + 1 \in 1 .. Len(rest)
    BY <1>7, <2>1
  <2>3. rest[1] = key[1]
    BY <1>7, <1>8
  <2>4. rest[Len(key) + 1] = Space
    BY <1>6, <1>7, <1>8
  <2>5. rest[Len(rest)] = value[Len(value)]
    <3>1. Len(spaced) \in 1 .. Len(spaced) /\ Len(key) + Len(spaced) = Len(rest)
      BY <1>6, <1>7, <1>8
    <3>2. Len(value) \in 1 .. Len(value) /\ 1 + Len(value) = Len(spaced)
      BY <1>6, <1>7
    <3> QED BY <1>6, <1>8, <3>1, <3>2
  <2> QED BY <2>1, <2>2, <2>3, <2>4, <2>5
<1>11. TrimRight(rest) = rest
  BY <1>3, <1>8, <1>10, TrimRightKeeps, TextLength
<1>12. /\ cleaned # <<>> /\ Before(cleaned) = <<"SET">>
       /\ TrimLeft(After(cleaned)) = rest
  BY <1>1, <1>2, <1>8, <1>10, <1>11, CommandParts, TextLength
<1>13. Parsed(t) = ParsedSet(rest)
  <2>1. LowerCopy(Before(cleaned)) = <<"set">>
    BY <1>2, <1>12, LowerOfOne
  <2> HIDE DEF t
  <2> QED BY <1>12, <2>1 DEF Parsed
<1>14. FirstSpace(rest) = Len(key) + 1
  <2> DEFINE n == Len(key) + 1
  <2>1. n - 1 = Len(key)
    BY <1>7
  <2>2. n \in 1 .. Len(rest) /\ rest[n] = Space /\ \A i \in 1 .. n - 1 : rest[i] # Space
    BY <1>1, <1>7, <1>8, <1>10, <2>1
  <2> HIDE DEF n
  <2>3. FirstSpace(rest) = n
    BY <1>8, <2>2, FirstSpaceIs
  <2> QED BY <2>3 DEF n
<1>15. Before(rest) = key
  <2>1. Len(key) + 1 # 0 /\ (Len(key) + 1) - 1 = Len(key)
    BY <1>7
  <2> QED BY <1>8, <1>14, <2>1 DEF Before
<1>16. After(rest) = value
  <2>1. Len(key) + 1 # 0
    BY <1>7
  <2>2. After(rest) = SubSeq(rest, (Len(key) + 1) + 1, Len(rest))
    BY <1>14, <2>1 DEF After
  <2> DEFINE front == key \o <<Space>>
  <2>3. front \in Text /\ Len(front) = Len(key) + 1
    BY <1>1, <1>4, Joined
  <2>4. front \o value = rest
    BY <1>1, <1>4, JoinedAgain DEF rest, spaced
  <2> HIDE DEF front
  <2>5. SubSeq(front \o value, Len(front) + 1, Len(front \o value)) = value
    BY <2>3, Rejoined
  <2> QED BY <2>2, <2>3, <2>4, <2>5
<1>17. TrimLeft(value) = value
  BY <1>3, TrimLeftKeeps
<1>18. FirstSpace(rest) # 0
  BY <1>7, <1>14
<1>19. ParsedSet(rest) = q
  BY <1>1, <1>3, <1>15, <1>16, <1>17, <1>18 DEF ParsedSet
<1> QED BY <1>9, <1>13, <1>19

LEMMA QuitReadBack == Parsed(Written(Quit)) = Quit
<1> DEFINE t == <<"QUIT">>
<1>1. Written(Quit) = t
  BY DEF Written, Quit
<1>2. NonBlank("QUIT") /\ Lower("QUIT") = "quit" /\ "QUIT" # Space
  BY ProtocolAssumption DEF NonBlank
<1>3. t \in Text /\ Len(t) = 1 /\ t[1] = "QUIT" /\ t # <<>>
  BY OneToken DEF Token, Words
<1>4. LowerCopy(t) = <<"quit">>
  BY <1>2, LowerOfOne
<1> HIDE DEF t
<1>5. Trim(t) = t
  BY <1>2, <1>3, TrimLeftKeeps, TrimRightKeeps DEF Trim
<1>6. FirstSpace(t) = 0
  BY <1>2, <1>3, NoSpaceIs
<1>7. Before(t) = t
  BY <1>6 DEF Before
<1> QED BY <1>1, <1>3, <1>4, <1>5, <1>7 DEF Parsed

-----------------------------------------------------------------------------
(* Reading a text without its carriage returns.                            *)

\* Induction up to a length: what holds of nothing unless of its predecessor.
LEMMA Climbs ==
  ASSUME NEW b \in Nat, NEW S \in SUBSET (0 .. b), 0 \notin S,
         \A n \in 1 .. b : n \in S => n - 1 \in S
  PROVE  S = {}
<1> SUFFICES ASSUME S # {} PROVE FALSE
  OBVIOUS
<1>1. S \in SUBSET Nat
  OBVIOUS
<1>2. Min(S) \in S /\ \A n \in S : Min(S) <= n
  BY <1>1, LeastOf
<1> DEFINE m == Min(S)
<1> HIDE DEF m
<1>3. m \in 1 .. b /\ m \in S /\ \A n \in S : m <= n
  <2>1. m \in S /\ \A n \in S : m <= n
    BY <1>2 DEF m
  <2>2. m \in 0 .. b /\ m # 0
    BY <2>1
  <2> QED BY <2>1, <2>2
<1>4. m - 1 \in S /\ m \in Nat
  BY <1>3
<1>5. m <= m - 1
  BY <1>3, <1>4
<1> QED BY <1>4, <1>5

IsKept(k, text, b) ==
  k = [n \in 0 .. b |->
         IF n = 0 THEN <<>>
         ELSE IF Skips(text[n]) THEN k[n - 1] ELSE Append(k[n - 1], text[n])]

LEMMA KeptExists ==
  ASSUME NEW text, NEW b \in Nat PROVE \E k : IsKept(k, text, b)
<1> DEFINE S == {n \in 0 .. b : ~\E k : IsKept(k, text, n)}
<1>1. 0 \notin S
  <2>1. IsKept([n \in 0 .. 0 |-> <<>>], text, 0)
    BY DEF IsKept
  <2> QED BY <2>1
<1>2. ASSUME NEW n \in 1 .. b, n \in S PROVE n - 1 \in S
  <2>1. n - 1 \in 0 .. b /\ n \in Nat /\ n # 0
    OBVIOUS
  <2> SUFFICES ASSUME NEW k, IsKept(k, text, n - 1) PROVE \E x : IsKept(x, text, n)
    BY <1>2, <2>1
  <2> DEFINE x == [m \in 0 .. n |-> IF m = n
                     THEN IF Skips(text[n]) THEN k[n - 1] ELSE Append(k[n - 1], text[n])
                     ELSE k[m]]
             y == [m \in 0 .. n |->
                     IF m = 0 THEN <<>>
                     ELSE IF Skips(text[m]) THEN x[m - 1] ELSE Append(x[m - 1], text[m])]
  <2>2. ASSUME NEW m \in 0 .. n PROVE x[m] = y[m]
    <3>1. CASE m = 0
      <4>1. x[m] = k[m] /\ m \in 0 .. n - 1
        BY <2>1, <3>1
      <4>2. k[m] = <<>>
        BY <3>1, <4>1 DEF IsKept
      <4> QED BY <3>1, <4>1, <4>2
    <3>2. CASE m # 0 /\ m # n
      <4>1. x[m] = k[m] /\ m \in 0 .. n - 1 /\ m - 1 \in 0 .. n /\ m - 1 # n
        BY <2>1, <3>2
      <4>2. x[m - 1] = k[m - 1]
        BY <4>1
      <4>3. k[m] = IF Skips(text[m]) THEN k[m - 1] ELSE Append(k[m - 1], text[m])
        BY <3>2, <4>1 DEF IsKept
      <4> HIDE DEF x
      <4> QED BY <3>2, <4>1, <4>2, <4>3
    <3>3. CASE m = n
      <4>1. n - 1 \in 0 .. n /\ n - 1 # n
        BY <2>1
      <4>2. x[n - 1] = k[n - 1]
        BY <4>1
      <4>3. x[n] = IF Skips(text[n]) THEN k[n - 1] ELSE Append(k[n - 1], text[n])
        BY <2>1, <3>3
      <4> HIDE DEF x
      <4> QED BY <2>1, <3>3, <4>2, <4>3
    <3> QED BY <3>1, <3>2, <3>3
  <2>3. x = y
    <3>1. x = [m \in 0 .. n |-> x[m]] /\ y = [m \in 0 .. n |-> y[m]]
      OBVIOUS
    <3> HIDE DEF x, y
    <3>2. [m \in 0 .. n |-> x[m]] = [m \in 0 .. n |-> y[m]]
      BY <2>2
    <3> QED BY <3>1, <3>2
  <2>4. IsKept(x, text, n)
    <3> HIDE DEF x
    <3> QED BY <2>3 DEF IsKept
  <2> QED BY <2>4
<1>3. S \in SUBSET (0 .. b)
  OBVIOUS
<1> HIDE DEF S
<1>4. S = {}
  BY <1>1, <1>2, <1>3, Climbs
<1>5. b \in 0 .. b
  OBVIOUS
<1> QED BY <1>4, <1>5 DEF S

LEMMA KeptIs == ASSUME NEW t \in Text PROVE IsKept(KeptUpTo(t), t, Len(t))
<1> DEFINE k == CHOOSE x : IsKept(x, t, Len(t))
<1>1. IsKept(k, t, Len(t))
  BY KeptExists, TextLength
<1>2. KeptUpTo(t) = k
  BY DEF KeptUpTo, IsKept
<1> QED BY <1>1, <1>2

LEMMA KeptSteps ==
  ASSUME NEW t \in Text
  PROVE  /\ KeptUpTo(t)[0] = <<>>
         /\ \A n \in 1 .. Len(t) :
              KeptUpTo(t)[n] = IF Skips(t[n]) THEN KeptUpTo(t)[n - 1]
                                              ELSE Append(KeptUpTo(t)[n - 1], t[n])
<1> DEFINE k == KeptUpTo(t)
<1>1. IsKept(k, t, Len(t)) /\ Len(t) \in Nat
  BY KeptIs, TextLength
<1> HIDE DEF k
<1>2. k[0] = <<>>
  BY <1>1 DEF IsKept
<1>3. ASSUME NEW n \in 1 .. Len(t)
      PROVE  k[n] = IF Skips(t[n]) THEN k[n - 1] ELSE Append(k[n - 1], t[n])
  <2>1. n \in 0 .. Len(t) /\ n # 0
    BY <1>1
  <2> QED BY <1>1, <2>1 DEF IsKept
<1> QED BY <1>2, <1>3 DEF k

LEMMA KeptIsText ==
  ASSUME NEW t \in Text, NEW n \in 0 .. Len(t) PROVE KeptUpTo(t)[n] \in Text
<1> DEFINE k == KeptUpTo(t)  S == {m \in 0 .. Len(t) : k[m] \notin Text}
<1>1. Len(t) \in Nat /\ DOMAIN t = 1 .. Len(t) /\ <<>> \in Text
  BY TextLength DEF Text
<1>2. /\ k[0] = <<>>
      /\ \A m \in 1 .. Len(t) :
           k[m] = IF Skips(t[m]) THEN k[m - 1] ELSE Append(k[m - 1], t[m])
  BY KeptSteps
<1> HIDE DEF k
<1>3. 0 \notin S
  BY <1>1, <1>2
<1>4. ASSUME NEW m \in 1 .. Len(t), m \in S PROVE m - 1 \in S
  <2>1. m - 1 \in 0 .. Len(t) /\ t[m] \in Token
    BY <1>1 DEF Text
  <2>2. ASSUME k[m - 1] \in Text PROVE k[m] \in Text
    <3>1. Append(k[m - 1], t[m]) \in Text
      BY <2>1, <2>2 DEF Text
    <3> QED BY <1>2, <2>2, <3>1
  <2> QED BY <1>4, <2>1, <2>2
<1>5. S \in SUBSET (0 .. Len(t))
  OBVIOUS
<1>6. S = {}
  <2> HIDE DEF S
  <2> QED BY <1>1, <1>3, <1>4, <1>5, Climbs
<1> QED BY <1>6 DEF k

\* One text is the beginning of another.
Starts(s, t) == Len(s) <= Len(t) /\ \A i \in 1 .. Len(s) : s[i] = t[i]

LEMMA StartsWithin ==
  ASSUME NEW s \in Text, NEW t \in Text, NEW u \in Text, Starts(s, t), Starts(t, u)
  PROVE  Starts(s, u)
<1>1. Len(s) \in Nat /\ Len(t) \in Nat /\ Len(u) \in Nat
  BY TextLength
<1>2. Len(s) <= Len(u)
  BY <1>1 DEF Starts
<1>3. ASSUME NEW i \in 1 .. Len(s) PROVE s[i] = u[i]
  <2>1. i \in 1 .. Len(t)
    BY <1>1 DEF Starts
  <2> QED BY <2>1 DEF Starts
<1> QED BY <1>2, <1>3 DEF Starts

LEMMA StartsAppended ==
  ASSUME NEW s \in Text, NEW c \in Token PROVE Starts(s, Append(s, c)) /\ Starts(s, s)
BY TextLength DEF Starts, Text

LEMMA StartsIsPart ==
  ASSUME NEW s \in Text, NEW t \in Text, Starts(s, t) PROVE s = SubSeq(t, 1, Len(s))
<1>1. Len(s) \in Nat /\ Len(t) \in Nat
  BY TextLength
<1>2. Len(s) \in 0 .. Len(t)
  BY <1>1 DEF Starts
<1> DEFINE u == SubSeq(t, 1, Len(s))
<1>3. u \in Text /\ Len(u) = Len(s) /\ \A i \in 1 .. Len(s) : u[i] = t[i]
  BY <1>2, Prefix
<1> HIDE DEF u
<1>4. \A i \in 1 .. Len(s) : s[i] = u[i]
  BY <1>3 DEF Starts
<1>5. s = u
  BY <1>3, <1>4, SameText
<1> QED BY <1>5 DEF u

\* What was read of a text is the beginning of what is read of it in the end.
LEMMA KeptStarts ==
  ASSUME NEW t \in Text, NEW n \in 0 .. Len(t)
  PROVE  /\ KeptUpTo(t)[n] \in Text
         /\ KeptUpTo(t)[n] = SubSeq(Kept(t), 1, Len(KeptUpTo(t)[n]))
<1> DEFINE k == KeptUpTo(t)  b == Len(t)
           S == {m \in 0 .. b : ~Starts(k[b - m], k[b])}
<1>1. b \in Nat /\ DOMAIN t = 1 .. b
  BY TextLength
<1>2. \A m \in 1 .. b : k[m] = IF Skips(t[m]) THEN k[m - 1] ELSE Append(k[m - 1], t[m])
  BY KeptSteps
<1>3. \A m \in 0 .. b : k[m] \in Text
  BY KeptIsText
<1> HIDE DEF k
<1>4. 0 \notin S
  <2>1. b - 0 = b /\ b \in 0 .. b
    BY <1>1
  <2>2. \A i \in 1 .. Len(k[b]) : k[b][i] = k[b][i]
    OBVIOUS
  <2>3. Starts(k[b], k[b])
    BY <1>3, <2>1, TextLength DEF Starts
  <2> HIDE DEF b
  <2> QED BY <2>1, <2>3
<1>5. ASSUME NEW m \in 1 .. b, m \in S PROVE m - 1 \in S
  <2> DEFINE e == b - m
  <2>1. /\ e \in 0 .. b /\ e + 1 \in 1 .. b /\ e + 1 \in 0 .. b /\ (e + 1) - 1 = e
        /\ b - (m - 1) = e + 1 /\ m - 1 \in 0 .. b
    BY <1>1
  <2>2. t[e + 1] \in Token
    BY <1>1, <2>1 DEF Text
  <2> HIDE DEF e
  <2>3. k[e] \in Text /\ k[e + 1] \in Text /\ k[b] \in Text
    BY <1>1, <1>3, <2>1
  <2>4. k[e + 1] = k[e] \/ k[e + 1] = Append(k[e], t[e + 1])
    BY <1>2, <2>1
  <2>5. Starts(k[e], k[e + 1])
    BY <2>2, <2>3, <2>4, StartsAppended
  <2>6. Starts(k[e + 1], k[b]) => Starts(k[e], k[b])
    BY <2>3, <2>5, StartsWithin
  <2>7. ~Starts(k[e], k[b])
    BY <1>5 DEF e
  <2> HIDE DEF b
  <2> QED BY <2>1, <2>6, <2>7
<1>6. S \in SUBSET (0 .. b)
  OBVIOUS
<1>7. S = {}
  <2> HIDE DEF S, b
  <2> QED BY <1>1, <1>4, <1>5, <1>6, Climbs
<1>8. b - n \in 0 .. b /\ b - (b - n) = n /\ b \in 0 .. b
  BY <1>1
<1>9. Starts(k[n], k[b])
  BY <1>7, <1>8
<1> QED BY <1>3, <1>8, <1>9, StartsIsPart DEF Kept, k

\* The rest of a text, taken one token at a time.
LEMMA RestSteps ==
  ASSUME NEW t \in Text, NEW n \in 0 .. Len(t), NEW m \in n .. Len(t)
  PROVE  LET rest == SubSeq(t, n + 1, m)
         IN  /\ rest = <<>> <=> n = m
             /\ n < m => Head(rest) = t[n + 1] /\ Tail(rest) = SubSeq(t, (n + 1) + 1, m)
             /\ \A k \in 0 .. Len(rest) :
                  n + k \in n .. m /\ SubSeq(rest, 1, k) = SubSeq(t, n + 1, n + k)
<1> DEFINE rest == SubSeq(t, n + 1, m)
<1>1. Len(t) \in Nat
  BY TextLength
<1>2. rest \in Text /\ Len(rest) = m - n /\ \A i \in 1 .. m - n : rest[i] = t[n + i]
  BY Middle
<1>3. m - n \in Nat /\ (m - n = 0 <=> n = m) /\ (n < m => m - n # 0 /\ 1 \in 1 .. m - n)
  BY <1>1
<1> HIDE DEF rest
<1>4. rest = <<>> <=> n = m
  BY <1>2, <1>3, TextLength
<1>5. ASSUME n < m PROVE Head(rest) = t[n + 1] /\ Tail(rest) = SubSeq(t, (n + 1) + 1, m)
  <2>1. rest # <<>> /\ n + 1 \in 0 .. Len(t) /\ m \in n + 1 .. Len(t)
    BY <1>1, <1>2, <1>3, <1>5, TextLength
  <2>2. Head(rest) = rest[1]
    BY <1>2, <2>1 DEF Text
  <2>3. Tail(rest) \in Text /\ Len(Tail(rest)) = Len(rest) - 1
        /\ \A i \in 1 .. Len(rest) - 1 : Tail(rest)[i] = rest[i + 1]
    BY <1>2, <2>1 DEF Text
  <2> DEFINE u == SubSeq(t, (n + 1) + 1, m)  l == Tail(rest)
  <2>4. /\ u \in Text /\ Len(u) = m - (n + 1)
        /\ \A i \in 1 .. m - (n + 1) : u[i] = t[(n + 1) + i]
    BY <2>1, Middle
  <2>5. l \in Text /\ Len(l) = (m - n) - 1 /\ \A i \in 1 .. (m - n) - 1 : l[i] = rest[i + 1]
    BY <1>2, <2>3
  <2> HIDE DEF u, l
  <2>6. (m - n) - 1 = m - (n + 1)
    BY <1>1
  <2>7. ASSUME NEW i \in 1 .. m - (n + 1) PROVE l[i] = u[i]
    <3>1. i + 1 \in 1 .. m - n /\ n + (i + 1) = (n + 1) + i
      BY <1>1
    <3> QED BY <1>2, <2>4, <2>5, <2>6, <3>1
  <2>8. l = u
    BY <2>4, <2>5, <2>6, <2>7, SameText
  <2>9. Head(rest) = t[n + 1]
    BY <1>2, <1>3, <1>5, <2>2
  <2> QED BY <2>8, <2>9 DEF u, l
<1>6. ASSUME NEW k \in 0 .. Len(rest)
      PROVE  n + k \in n .. m /\ SubSeq(rest, 1, k) = SubSeq(t, n + 1, n + k)
  <2>1. k \in 0 .. m - n /\ n + k \in n .. m /\ n + k \in n .. Len(t) /\ (n + k) - n = k
    BY <1>1, <1>2
  <2> DEFINE l == SubSeq(rest, 1, k)  u == SubSeq(t, n + 1, n + k)
  <2>2. l \in Text /\ Len(l) = k /\ \A i \in 1 .. k : l[i] = rest[i]
    BY <1>2, Prefix
  <2>3. u \in Text /\ Len(u) = k /\ \A i \in 1 .. k : u[i] = t[n + i]
    BY <2>1, Middle
  <2> HIDE DEF l, u
  <2>4. ASSUME NEW i \in 1 .. k PROVE l[i] = u[i]
    <3>1. i \in 1 .. m - n
      BY <1>1, <2>1
    <3> QED BY <1>2, <2>2, <2>3, <3>1
  <2>5. l = u
    BY <2>2, <2>3, <2>4, SameText
  <2> QED BY <2>1, <2>5 DEF l, u
<1> QED BY <1>4, <1>5, <1>6 DEF rest

-----------------------------------------------------------------------------
(* The lines of the answers.                                               *)

\* A text that is cut nowhere.
Plain(t) == t \in Text /\ \A i \in DOMAIN t : t[i] # LineFeed

LEMMA LinesAreTexts ==
  ASSUME NEW t \in Lines \cup Values PROVE Plain(t)
<1>1. t \in Seq(STRING) /\ \A i \in DOMAIN t : t[i] # LineFeed
  BY LinesAssumption
<1>2. Len(t) \in Nat /\ t \in [1 .. Len(t) -> STRING]
  BY <1>1
<1>3. t \in [1 .. Len(t) -> Token]
  <2>1. \A i \in 1 .. Len(t) : t[i] \in Token
    BY <1>2 DEF Token
  <2> QED BY <1>2, <2>1
<1>4. t \in Seq(Token)
  BY <1>2, <1>3
<1> QED BY <1>1, <1>4 DEF Plain, Text

LEMMA WordsArePlain ==
  ASSUME NEW word \in Words PROVE word \in Token /\ word # LineFeed /\ Plain(<<word>>)
<1>1. word \in Token
  BY DEF Token
<1>2. word # LineFeed
  BY Zenon DEF Words, LineFeed
<1>3. <<word>> \in Text /\ DOMAIN <<word>> = 1 .. 1 /\ <<word>>[1] = word
  BY <1>1, OneToken, TextLength
<1> QED BY <1>1, <1>2, <1>3 DEF Plain

LEMMA PlainJoined ==
  ASSUME NEW s, NEW t, Plain(s), Plain(t) PROVE Plain(s \o t)
<1>1. s \in Text /\ t \in Text
  BY DEF Plain
<1>2. /\ Len(s) \in Nat /\ Len(t) \in Nat
      /\ \A i \in 1 .. Len(s) : s[i] # LineFeed
      /\ \A i \in 1 .. Len(t) : t[i] # LineFeed
  BY <1>1, TextLength DEF Plain
<1> DEFINE u == s \o t
<1>3. /\ u \in Text /\ Len(u) = Len(s) + Len(t)
      /\ \A i \in 1 .. Len(s) : u[i] = s[i]
      /\ \A i \in 1 .. Len(t) : u[Len(s) + i] = t[i]
  BY <1>1, Joined
<1>4. DOMAIN u = 1 .. Len(s) + Len(t)
  BY <1>3, TextLength
<1> HIDE DEF u
<1>5. ASSUME NEW i \in 1 .. Len(s) + Len(t) PROVE u[i] # LineFeed
  <2>1. CASE i \in 1 .. Len(s)
    BY <1>2, <1>3, <2>1
  <2>2. CASE i \notin 1 .. Len(s)
    <3> DEFINE j == i - Len(s)
    <3>1. j \in 1 .. Len(t) /\ Len(s) + j = i
      BY <1>2, <2>2
    <3> HIDE DEF j
    <3> QED BY <1>2, <1>3, <3>1
  <2> QED BY <2>1, <2>2
<1>6. Plain(u)
  BY <1>3, <1>4, <1>5 DEF Plain
<1> QED BY <1>6 DEF u

Complaints == {<<"key_missing">>, <<"one_key_only">>, <<"value_missing">>, <<"empty_request">>}

LEMMA ComplaintsArePlain == ASSUME NEW e \in Complaints PROVE Plain(e)
BY WordsArePlain DEF Complaints, Words

LEMMA WithKeyComplains ==
  ASSUME NEW type \in {"get", "del"}, NEW key, ParsedWithKey(type, key).type = "invalid"
  PROVE  ParsedWithKey(type, key).error \in Complaints
<1>1. \/ ParsedWithKey(type, key) = Invalid(<<"key_missing">>)
      \/ ParsedWithKey(type, key) = Invalid(<<"one_key_only">>)
      \/ ParsedWithKey(type, key) = [type |-> type, key |-> key]
  BY DEF ParsedWithKey
<1> QED BY <1>1 DEF Invalid, Complaints

LEMMA SetComplains ==
  ASSUME NEW arguments \in Text, arguments = <<>> \/ Tight(arguments),
         ParsedSet(arguments).type = "invalid"
  PROVE  ParsedSet(arguments).error \in Complaints
<1>1. UnderstoodSet(ParsedSet(arguments)) => ParsedSet(arguments).type = "set"
  BY DEF UnderstoodSet
<1>2. ParsedSet(arguments) = Invalid(<<"value_missing">>)
  BY <1>1, SetParts
<1> QED BY <1>2 DEF Invalid, Complaints

\* The error that is sent back quotes the command, a piece of the line.
LEMMA ErrorsArePlain ==
  ASSUME NEW l \in Lines, Parsed(l).type = "invalid" PROVE Plain(Parsed(l).error)
<1> DEFINE cleaned   == Trim(l)
           command   == LowerCopy(Before(cleaned))
           remainder == TrimLeft(After(cleaned))
<1>1. l \in Text
  BY LinesAreTexts DEF Plain
<1>2. cleaned \in Text /\ (cleaned = <<>> \/ Tight(cleaned))
      /\ \A i \in DOMAIN cleaned : \E j \in DOMAIN l : cleaned[i] = l[j]
  BY <1>1, TrimIsTight
<1>3. Plain(command)
  <2> DEFINE before == Before(cleaned)
  <2>1. before \in Text /\ \A i \in DOMAIN before : i \in DOMAIN cleaned /\ before[i] = cleaned[i]
    <3>1. CASE cleaned = <<>>
      BY <1>2, <3>1, NoSpaceIs, TextLength DEF Before
    <3>2. CASE cleaned # <<>>
      <4> HIDE DEF cleaned
      <4>1. NonBlank(cleaned[1])
        BY <1>2, <3>2 DEF Tight
      <4> QED BY <1>2, <3>2, <4>1, BeforeStarts
    <3> QED BY <3>1, <3>2
  <2>2. ASSUME NEW i \in DOMAIN before PROVE Lower(before[i]) \in STRING \ {LineFeed}
    <3>1. PICK j \in DOMAIN l : before[i] = l[j]
      BY <1>2, <2>1
    <3> QED BY <3>1, LinesAssumption
  <2> HIDE DEF before
  <2>3. command = [i \in 1 .. Len(before) |-> Lower(before[i])]
    BY <2>1, TextLength DEF LowerCopy, before
  <2>4. Len(before) \in Nat /\ DOMAIN before = 1 .. Len(before)
    BY <2>1, TextLength
  <2>5. \A i \in 1 .. Len(before) : Lower(before[i]) \in Token /\ Lower(before[i]) # LineFeed
    BY <2>2, <2>4 DEF Token
  <2> HIDE DEF command
  <2>6. command \in [1 .. Len(before) -> Token]
    BY <2>3, <2>5
  <2>7. command \in Text
    BY <2>4, <2>6 DEF Text
  <2> QED BY <2>3, <2>5, <2>7 DEF Plain
<1>4. \/ Parsed(l) = Invalid(<<"empty_request">>) \/ Parsed(l) = Quit
      \/ Parsed(l) = ParsedWithKey("get", remainder) \/ Parsed(l) = ParsedWithKey("del", remainder)
      \/ Parsed(l) = ParsedSet(remainder)
      \/ Parsed(l) = Invalid(<<"unknown_command">> \o command)
  <2>1. Parsed(l) =
          CASE cleaned = <<>>                         -> Invalid(<<"empty_request">>)
            [] command = <<"get">>                    -> ParsedWithKey("get", remainder)
            [] command \in {<<"del">>, <<"delete">>}  -> ParsedWithKey("del", remainder)
            [] command = <<"set">>                    -> ParsedSet(remainder)
            [] command \in {<<"quit">>, <<"exit">>}   -> Quit
            [] OTHER                                  -> Invalid(<<"unknown_command">> \o command)
    BY Zenon DEF Parsed
  <2> HIDE DEF cleaned, command, remainder
  <2> QED BY <2>1
<1>5. remainder \in Text /\ (remainder = <<>> \/ Tight(remainder))
  BY <1>1, ArgumentsAreTight
<1> DEFINE unknown == <<"unknown_command">> \o command
<1>6. Plain(unknown)
  BY <1>3, WordsArePlain, PlainJoined DEF Words
<1> HIDE DEF unknown, remainder, cleaned, command
<1>7. CASE Parsed(l) = Invalid(<<"empty_request">>)
  BY <1>7, ComplaintsArePlain DEF Invalid, Complaints
<1>8. CASE Parsed(l) = Quit
  BY <1>8 DEF Quit
<1>9. CASE Parsed(l) = ParsedWithKey("get", remainder) \/ Parsed(l) = ParsedWithKey("del", remainder)
  BY <1>9, WithKeyComplains, ComplaintsArePlain
<1>10. CASE Parsed(l) = ParsedSet(remainder)
  BY <1>5, <1>10, SetComplains, ComplaintsArePlain
<1>11. CASE Parsed(l) = Invalid(unknown)
  BY <1>6, <1>11 DEF Invalid
<1> QED BY <1>4, <1>7, <1>8, <1>9, <1>10, <1>11 DEF unknown

\* Each answer is one line.
OneLine(w) == /\ w \in Text /\ Len(w) \in Nat \ {0} /\ w[Len(w)] = LineFeed
              /\ \A i \in 1 .. Len(w) - 1 : w[i] # LineFeed

LEMMA PlainEnds == ASSUME NEW body, Plain(body) PROVE OneLine(body \o <<LineFeed>>)
<1> DEFINE w == body \o <<LineFeed>>
<1>1. /\ body \in Text /\ Len(body) \in Nat
      /\ \A i \in 1 .. Len(body) : body[i] # LineFeed
  BY TextLength DEF Plain
<1>2. <<LineFeed>> \in Text /\ Len(<<LineFeed>>) = 1 /\ <<LineFeed>>[1] = LineFeed
  BY OneToken DEF Token
<1>3. /\ w \in Text /\ Len(w) = Len(body) + Len(<<LineFeed>>)
      /\ \A i \in 1 .. Len(body) : w[i] = body[i]
      /\ \A i \in 1 .. Len(<<LineFeed>>) : w[Len(body) + i] = <<LineFeed>>[i]
  BY <1>1, <1>2, Joined
<1> HIDE DEF w
<1>4. Len(w) = Len(body) + 1 /\ w[Len(body) + 1] = LineFeed /\ Len(w) - 1 = Len(body)
  BY <1>1, <1>2, <1>3
<1>5. Len(w) \in Nat \ {0}
  BY <1>1, <1>4
<1>6. OneLine(w)
  BY <1>1, <1>3, <1>4, <1>5 DEF OneLine
<1> QED BY <1>6 DEF w

LEMMA AnswersAreLines ==
  ASSUME NEW l \in Lines, NEW a \in Answers(Parsed(l)) PROVE OneLine(Serialized(a))
<1> DEFINE q == Parsed(l)
<1>1. l \in Text
  BY LinesAreTexts DEF Plain
<1>2. q.type \in {"get", "set", "del", "quit", "invalid"}
  BY <1>1, ParsedShape DEF UnderstoodKey, UnderstoodSet, Quit
<1>3. q.type = "invalid" => Plain(q.error)
  BY ErrorsArePlain
<1> HIDE DEF q
<1>4. \/ \E word \in {"OK", "NOT_FOUND", "BYE"} : a = <<word, <<>>>>
      \/ \E word \in {"VALUE", "ERROR"} : \E text : a = <<word, text>> /\ Plain(text)
  <2>1. a \in Answers(q)
    BY DEF q
  <2>2. CASE q.type = "get"
    <3>1. Answers(q) = {<<"VALUE", v>> : v \in Values} \cup {<<"NOT_FOUND", <<>>>>}
      BY <2>2 DEF Answers
    <3>2. \A v \in Values : Plain(v)
      BY LinesAreTexts
    <3> QED BY <2>1, <3>1, <3>2
  <2>3. CASE q.type = "set"
    BY <2>1, <2>3 DEF Answers
  <2>4. CASE q.type = "del"
    BY <2>1, <2>4 DEF Answers
  <2>5. CASE q.type = "quit"
    BY <2>1, <2>5 DEF Answers
  <2>6. CASE q.type = "invalid"
    BY <1>3, <2>1, <2>6 DEF Answers
  <2> QED BY <1>2, <2>2, <2>3, <2>4, <2>5, <2>6
<1>5. ASSUME NEW word \in {"OK", "NOT_FOUND", "BYE"}, a = <<word, <<>>>> PROVE OneLine(Serialized(a))
  <2>1. Serialized(a) = <<word>> \o <<LineFeed>>
    BY <1>5 DEF Serialized
  <2>2. Plain(<<word>>)
    BY WordsArePlain DEF Words
  <2> QED BY <2>1, <2>2, PlainEnds
<1>6. ASSUME NEW word \in {"VALUE", "ERROR"}, NEW text, a = <<word, text>>, Plain(text)
      PROVE  OneLine(Serialized(a))
  <2>1. Serialized(a) = (<<word, Space>> \o text) \o <<LineFeed>>
    BY <1>6 DEF Serialized
  <2>2. word \in Token /\ word # LineFeed
    BY WordsArePlain DEF Words
  <2>3. Space \in Token /\ Space # LineFeed
    <3>1. Space # LineFeed
      BY Zenon DEF Space, LineFeed
    <3> QED BY <3>1 DEF Token
  <2>4. Plain(<<word, Space>>)
    <3>1. <<word, Space>> \in Text /\ DOMAIN <<word, Space>> = 1 .. 2
      BY <2>2, <2>3, TwoTokens, TextLength
    <3> QED BY <2>2, <2>3, <3>1, TwoTokens DEF Plain
  <2> QED BY <1>6, <2>1, <2>4, PlainJoined, PlainEnds
<1> QED BY <1>4, <1>5, <1>6

-----------------------------------------------------------------------------
(* The session.                                                            *)

\* The line that was typed, or none, and what it means.
LineTyped == \/ line = NoLine /\ meant = NoMeaning
             \/ line \in Lines \ {<<>>} /\ meant = Parsed(line)

\* Nothing is under way.
Idle == /\ line = NoLine /\ request = NoLine /\ response = <<>> /\ read = <<>>
        /\ answer = NoAnswer /\ session # "ended"

\* The line is on its way to the server, or was lost with it.
Waiting == /\ answer = NoAnswer /\ response = <<>> /\ read = <<>>
           /\ \/ session = "open" /\ request = line
              \/ session \in {"closed", "reset"} /\ request = NoLine

\* The server has answered the line, and has ended its side if that was QUIT.
HasAnswered == /\ request = NoLine /\ answer \in Answers(meant)
               /\ meant = Quit <=> session = "ended"

\* Of its answer, a part that does not end the line was read, the part behind it is on
\* its way, and what is behind that was lost when the server died.
Arriving ==
  /\ HasAnswered
  /\ \E n \in 0 .. Len(Serialized(answer)) - 1 : \E m \in n .. Len(Serialized(answer)) :
       /\ read = KeptUpTo(Serialized(answer))[n]
       /\ response = SubSeq(Serialized(answer), n + 1, m)
       /\ session \in {"open", "ended"} => m = Len(Serialized(answer))

\* It was read, whole or up to where the server died.
Shown ==
  /\ HasAnswered /\ response = <<>>
  /\ \E n \in 0 .. Len(Serialized(answer)) :
       /\ read = KeptUpTo(Serialized(answer))[n]
       /\ n = Len(Serialized(answer)) \/ session = "closed"

SessionInv ==
  /\ session \in {"open", "ended", "closed", "reset"}
  /\ LineTyped
  /\ client = "prompt"  => Idle
  /\ client = "reading" => line # NoLine /\ (Waiting \/ Arriving)
  /\ client = "shown"   => line # NoLine /\ Shown
  /\ client = "quit"    => session = "ended"

LEMMA InitSession == Init => SessionInv
BY DEF Init, SessionInv, LineTyped, Idle

LEMMA AnswerIsLine ==
  ASSUME LineTyped, line # NoLine, answer \in Answers(meant)
  PROVE  OneLine(Serialized(answer)) /\ Serialized(answer) \in Text
BY AnswersAreLines DEF LineTyped, OneLine

LEMMA StutterSession == SessionInv /\ UNCHANGED vars => SessionInv'
BY DEF vars, SessionInv, LineTyped, Idle, Waiting, HasAnswered, Arriving, Shown

LEMMA TypesSession == SessionInv /\ Types => SessionInv'
<1> SUFFICES ASSUME SessionInv, Types PROVE SessionInv'
  OBVIOUS
<1>1. Idle /\ session \in {"open", "ended", "closed", "reset"}
  BY DEF SessionInv, Types
<1>2. PICK typed \in Lines \ {<<>>} :
        /\ line' = typed /\ meant' = Parsed(typed)
        /\ request' = IF session = "open" THEN typed ELSE NoLine
  BY DEF Types
<1>3. client' = "reading" /\ UNCHANGED <<response, read, session, answer>>
  BY DEF Types
<1>4. LineTyped' /\ line' # NoLine
  BY <1>2, LinesAssumption DEF LineTyped
<1>5. Waiting'
  BY <1>1, <1>2, <1>3 DEF Idle, Waiting
<1> QED BY <1>1, <1>3, <1>4, <1>5 DEF SessionInv

LEMMA LeavesSession == SessionInv /\ Leaves => SessionInv'
BY DEF SessionInv, Leaves, LineTyped

LEMMA ReadsOneSession == SessionInv /\ ReadsOne => SessionInv'
<1> SUFFICES ASSUME SessionInv, ReadsOne PROVE SessionInv'
  OBVIOUS
<1> DEFINE w == Serialized(answer)  k == KeptUpTo(w)
<1>1. /\ client = "reading" /\ response # <<>> /\ Head(response) # LineFeed
      /\ response' = Tail(response)
      /\ read' = IF Head(response) = CarriageReturn THEN read ELSE Append(read, Head(response))
      /\ UNCHANGED <<client, line, meant, request, session, answer>>
  BY DEF ReadsOne
<1>2. LineTyped /\ line # NoLine /\ Arriving
  BY <1>1 DEF SessionInv, Waiting
<1>3. PICK n \in 0 .. Len(w) - 1 : \E m \in n .. Len(w) :
        /\ read = k[n] /\ response = SubSeq(w, n + 1, m)
        /\ session \in {"open", "ended"} => m = Len(w)
  BY <1>2 DEF Arriving
<1>4. PICK m \in n .. Len(w) :
        /\ read = k[n] /\ response = SubSeq(w, n + 1, m)
        /\ session \in {"open", "ended"} => m = Len(w)
  BY <1>3
<1>5. OneLine(w) /\ w \in Text
  BY <1>2, AnswerIsLine DEF Arriving, HasAnswered
<1>6. k[n + 1] = IF Skips(w[n + 1]) THEN k[n] ELSE Append(k[n], w[n + 1])
  <2> HIDE DEF w
  <2>1. n + 1 \in 1 .. Len(w) /\ (n + 1) - 1 = n
    BY <1>5 DEF OneLine
  <2> QED BY <1>5, <2>1, KeptSteps
<1> HIDE DEF k, w
<1>7. Len(w) \in Nat /\ w[Len(w)] = LineFeed
  BY <1>5 DEF OneLine
<1>8. n \in 0 .. Len(w) /\ (n # m => n < m)
  BY <1>7
<1>9. n < m /\ Head(response) = w[n + 1] /\ Tail(response) = SubSeq(w, (n + 1) + 1, m)
  BY <1>1, <1>4, <1>5, <1>8, RestSteps
<1>10. n + 1 # Len(w)
  BY <1>1, <1>7, <1>9
<1>11. n + 1 \in 0 .. Len(w) - 1 /\ m \in n + 1 .. Len(w)
  BY <1>7, <1>9, <1>10
<1>12. read' = k[n + 1]
  BY <1>1, <1>4, <1>6, <1>9 DEF Skips
<1>13. Arriving'
  <2>1. w' = w /\ k' = k
    BY <1>1 DEF w, k
  <2>2. HasAnswered'
    BY <1>1, <1>2 DEF Arriving, HasAnswered
  <2>3. read' = k[n + 1] /\ response' = SubSeq(w, (n + 1) + 1, m)
        /\ (session' \in {"open", "ended"} => m = Len(w))
    BY <1>1, <1>4, <1>9, <1>12
  <2>4. \E x \in 0 .. Len(w) - 1 : \E y \in x .. Len(w) :
          /\ read' = k[x] /\ response' = SubSeq(w, x + 1, y)
          /\ session' \in {"open", "ended"} => y = Len(w)
    BY <1>11, <2>3
  <2> QED BY <1>1, <2>2, <2>4 DEF Arriving, w, k
<1> QED BY <1>1, <1>2, <1>13 DEF SessionInv, LineTyped

LEMMA ReadsLineSession == SessionInv /\ ReadsLine => SessionInv'
<1> SUFFICES ASSUME SessionInv, ReadsLine PROVE SessionInv'
  OBVIOUS
<1> DEFINE w == Serialized(answer)  k == KeptUpTo(w)
<1>1. /\ client = "reading" /\ response # <<>> /\ Head(response) = LineFeed
      /\ response' = Tail(response) /\ client' = "shown"
      /\ UNCHANGED <<line, meant, request, read, session, answer>>
  BY DEF ReadsLine
<1>2. LineTyped /\ line # NoLine /\ Arriving
  BY <1>1 DEF SessionInv, Waiting
<1>3. PICK n \in 0 .. Len(w) - 1 : \E m \in n .. Len(w) :
        read = k[n] /\ response = SubSeq(w, n + 1, m)
  BY <1>2 DEF Arriving
<1>4. PICK m \in n .. Len(w) : read = k[n] /\ response = SubSeq(w, n + 1, m)
  BY <1>3
<1>5. OneLine(w) /\ w \in Text
  BY <1>2, AnswerIsLine DEF Arriving, HasAnswered
<1>6. k[n + 1] = IF Skips(w[n + 1]) THEN k[n] ELSE Append(k[n], w[n + 1])
  <2> HIDE DEF w
  <2>1. n + 1 \in 1 .. Len(w) /\ (n + 1) - 1 = n
    BY <1>5 DEF OneLine
  <2> QED BY <1>5, <2>1, KeptSteps
<1> HIDE DEF k, w
<1>7. Len(w) \in Nat /\ \A i \in 1 .. Len(w) - 1 : w[i] # LineFeed
  BY <1>5 DEF OneLine
<1>8. n \in 0 .. Len(w) /\ (n # m => n < m)
  BY <1>7
<1>9. n < m /\ Head(response) = w[n + 1] /\ Tail(response) = SubSeq(w, (n + 1) + 1, m)
  BY <1>1, <1>4, <1>5, <1>8, RestSteps
<1>10. n + 1 = Len(w) /\ m = n + 1
  <2>1. n + 1 \notin 1 .. Len(w) - 1
    BY <1>1, <1>7, <1>9
  <2> QED BY <1>7, <1>9, <2>1
<1>11. read = k[Len(w)]
  BY <1>1, <1>4, <1>6, <1>9, <1>10 DEF Skips
<1>12. response' = <<>>
  <2>1. n + 1 \in 0 .. Len(w) /\ m \in n + 1 .. Len(w)
    BY <1>7, <1>10
  <2>2. SubSeq(w, (n + 1) + 1, m) = <<>>
    BY <1>5, <1>10, <2>1, RestSteps
  <2> QED BY <1>1, <1>9, <2>2
<1>13. Shown'
  <2>1. HasAnswered'
    BY <1>1, <1>2 DEF Arriving, HasAnswered
  <2>2. Len(w) \in 0 .. Len(w)
    BY <1>7
  <2>3. \E x \in 0 .. Len(w) : read' = k[x] /\ (x = Len(w) \/ session' = "closed")
    BY <1>1, <1>11, <2>2
  <2> QED BY <1>1, <1>12, <2>1, <2>3 DEF Shown, w, k
<1> QED BY <1>1, <1>2, <1>13 DEF SessionInv, LineTyped

LEMMA ReadsEndSession == SessionInv /\ ReadsEnd => SessionInv'
<1> SUFFICES ASSUME SessionInv, ReadsEnd PROVE SessionInv'
  OBVIOUS
<1> DEFINE w == Serialized(answer)  k == KeptUpTo(w)
<1>1. /\ client = "reading" /\ response = <<>> /\ session \in {"ended", "closed"}
      /\ client' = IF read # <<>> THEN "shown" ELSE "failed"
      /\ UNCHANGED <<line, meant, request, response, read, session, answer>>
  BY DEF ReadsEnd
<1>2. LineTyped' /\ line' # NoLine
  BY <1>1 DEF SessionInv, LineTyped
<1>3. ASSUME read # <<>> PROVE Shown'
  <2>1. LineTyped /\ line # NoLine /\ Arriving
    BY <1>1, <1>3 DEF SessionInv, Waiting
  <2>2. PICK n \in 0 .. Len(w) - 1 : \E m \in n .. Len(w) :
          /\ read = k[n] /\ response = SubSeq(w, n + 1, m)
          /\ session \in {"open", "ended"} => m = Len(w)
    BY <2>1 DEF Arriving
  <2>3. PICK m \in n .. Len(w) :
          /\ read = k[n] /\ response = SubSeq(w, n + 1, m)
          /\ session \in {"open", "ended"} => m = Len(w)
    BY <2>2
  <2>4. OneLine(w) /\ w \in Text
    BY <2>1, AnswerIsLine DEF Arriving, HasAnswered
  <2> HIDE DEF k, w
  <2>5. Len(w) \in Nat
    BY <2>4 DEF OneLine
  <2>6. n \in 0 .. Len(w) /\ n # Len(w)
    BY <2>5
  <2>7. n = m
    <3>1. SubSeq(w, n + 1, m) = <<>> <=> n = m
      BY <2>4, <2>6, RestSteps
    <3> QED BY <1>1, <2>3, <3>1
  <2>8. session = "closed"
    BY <1>1, <2>3, <2>6, <2>7
  <2>9. HasAnswered'
    BY <1>1, <2>1 DEF Arriving, HasAnswered
  <2>10. \E x \in 0 .. Len(w) : read' = k[x] /\ (x = Len(w) \/ session' = "closed")
    BY <1>1, <2>3, <2>6, <2>8
  <2> QED BY <1>1, <2>9, <2>10 DEF Shown, w, k
<1> QED BY <1>1, <1>2, <1>3 DEF SessionInv

LEMMA ReadFailsSession == SessionInv /\ ReadFails => SessionInv'
BY DEF SessionInv, ReadFails, LineTyped

LEMMA GoesOnSession == SessionInv /\ GoesOn => SessionInv'
<1> SUFFICES ASSUME SessionInv, GoesOn PROVE SessionInv'
  OBVIOUS
<1>1. Shown /\ HasAnswered /\ session' = session /\ session \in {"open", "ended", "closed", "reset"}
  BY DEF SessionInv, GoesOn, Shown
<1>2. CASE Stops
  BY <1>1, <1>2 DEF GoesOn, Stops, HasAnswered, SessionInv, LineTyped
<1>3. CASE ~Stops
  <2>1. client' = "prompt" /\ LineTyped'
    BY <1>3 DEF GoesOn, LineTyped
  <2>2. Idle'
    BY <1>1, <1>3 DEF GoesOn, Stops, HasAnswered, Shown, Idle
  <2> QED BY <1>1, <2>1, <2>2 DEF SessionInv
<1> QED BY <1>2, <1>3

LEMMA ServesSession == SessionInv /\ Serves => SessionInv'
<1> SUFFICES ASSUME SessionInv, Serves PROVE SessionInv'
  OBVIOUS
<1> DEFINE w == Serialized(answer')  k == KeptUpTo(w)
<1>1. /\ session = "open" /\ request # NoLine
      /\ answer' \in Answers(meant) /\ response' = response \o w
      /\ request' = NoLine /\ session' = IF meant = Quit THEN "ended" ELSE "open"
      /\ UNCHANGED <<client, line, meant, read>>
  BY DEF Serves
<1>2. client \notin {"prompt", "shown", "quit"}
  BY <1>1 DEF SessionInv, Idle, Shown, HasAnswered
<1>3. LineTyped' /\ session' \in {"open", "ended"}
  BY <1>1 DEF SessionInv, LineTyped
<1>4. ASSUME client = "reading" PROVE line' # NoLine /\ Arriving'
  <2>1. Waiting /\ line # NoLine
    BY <1>1, <1>4 DEF SessionInv, Arriving, HasAnswered
  <2>2. line \in Lines /\ meant = Parsed(line)
    BY <2>1 DEF SessionInv, LineTyped
  <2>3. OneLine(w) /\ w \in Text
    BY <1>1, <2>2, AnswersAreLines DEF OneLine
  <2>4. k[0] = <<>>
    <3> HIDE DEF w
    <3> QED BY <2>3, KeptSteps
  <2> HIDE DEF k, w
  <2>5. response' = SubSeq(w, 0 + 1, Len(w))
    <3>1. response' = w
      BY <1>1, <2>1, <2>3 DEF Waiting, Text
    <3>2. SubSeq(w, 1, Len(w)) = w
      BY <2>3, WholePart
    <3> QED BY <3>1, <3>2
  <2>6. 0 \in 0 .. Len(w) - 1 /\ Len(w) \in 0 .. Len(w)
    BY <2>3 DEF OneLine
  <2>7. read' = k[0]
    BY <1>1, <2>1, <2>4 DEF Waiting
  <2>8. HasAnswered'
    BY <1>1 DEF HasAnswered
  <2>9. \E x \in 0 .. Len(w) - 1 : \E y \in x .. Len(w) :
          /\ read' = k[x] /\ response' = SubSeq(w, x + 1, y)
          /\ session' \in {"open", "ended"} => y = Len(w)
    BY <2>5, <2>6, <2>7
  <2> QED BY <1>1, <2>1, <2>8, <2>9 DEF Arriving, w, k
<1> QED BY <1>1, <1>2, <1>3, <1>4 DEF SessionInv

LEMMA DiesSession == SessionInv /\ Dies => SessionInv'
<1> SUFFICES ASSUME SessionInv, Dies PROVE SessionInv'
  OBVIOUS
<1>1. /\ session = "open" /\ session' \in {"closed", "reset"} /\ request' = NoLine
      /\ UNCHANGED <<client, line, meant, read, answer>>
  BY DEF Dies
<1>2. PICK n \in 0 .. Len(response) : response' = SubSeq(response, 1, n)
  BY DEF Dies
<1>3. response = <<>> => response' = <<>>
  BY <1>2
<1>4. LineTyped' /\ session' # "ended"
  BY <1>1 DEF SessionInv, LineTyped
<1>5. client # "quit"
  BY <1>1 DEF SessionInv
<1>6. ASSUME client = "prompt" PROVE Idle'
  BY <1>1, <1>3, <1>6 DEF SessionInv, Idle
<1>7. HasAnswered => HasAnswered'
  BY <1>1 DEF HasAnswered
<1>8. Shown => Shown'
  BY <1>1, <1>3, <1>7 DEF Shown
<1>9. Waiting => Waiting'
  BY <1>1, <1>3 DEF Waiting
<1>10. ASSUME LineTyped, line # NoLine, Arriving PROVE Arriving'
  <2> DEFINE w == Serialized(answer)  k == KeptUpTo(w)
  <2>1. PICK i \in 0 .. Len(w) - 1 : \E m \in i .. Len(w) :
          read = k[i] /\ response = SubSeq(w, i + 1, m)
    BY <1>10 DEF Arriving
  <2>2. PICK m \in i .. Len(w) : read = k[i] /\ response = SubSeq(w, i + 1, m)
    BY <2>1
  <2>3. OneLine(w) /\ w \in Text
    BY <1>10, AnswerIsLine DEF Arriving, HasAnswered
  <2> HIDE DEF k, w
  <2>4. i \in 0 .. Len(w) /\ Len(w) \in Nat
    BY <2>3 DEF OneLine
  <2>5. i + n \in i .. m /\ response' = SubSeq(w, i + 1, i + n)
    BY <1>2, <2>2, <2>3, <2>4, RestSteps
  <2>6. i + n \in i .. Len(w)
    BY <2>4, <2>5
  <2>7. \E x \in 0 .. Len(w) - 1 : \E y \in x .. Len(w) :
          /\ read' = k[x] /\ response' = SubSeq(w, x + 1, y)
          /\ session' \in {"open", "ended"} => y = Len(w)
    BY <1>1, <2>2, <2>5, <2>6
  <2> QED BY <1>1, <1>7, <1>10, <2>7 DEF Arriving, w, k
<1> QED BY <1>1, <1>4, <1>5, <1>6, <1>8, <1>9, <1>10 DEF SessionInv

-----------------------------------------------------------------------------
(* The theorems.                                                           *)

\* The session is always in one of the phases above.
THEOREM SessionHolds == Spec => []SessionInv
<1>1. ASSUME SessionInv, [Next]_vars PROVE SessionInv'
  BY <1>1, StutterSession, TypesSession, LeavesSession, ReadsOneSession, ReadsLineSession,
     ReadsEndSession, ReadFailsSession, GoesOnSession, ServesSession, DiesSession
     DEF Next, Client
<1> QED BY <1>1, InitSession, PTL DEF Spec

\* What read_line returns is the server's answer to the line that was just sent, whole,
\* or its beginning when the connection was closed; and nothing is left over.
THEOREM ResponsesArePaired == Spec => []ResponsesPaired
<1>1. ASSUME SessionInv PROVE ResponsesPaired
  <2>1. client \in {"shown", "prompt"} => request = NoLine /\ response = <<>>
    BY <1>1 DEF SessionInv, Idle, Shown, HasAnswered
  <2>2. ASSUME client = "shown"
        PROVE  /\ answer \in Answers(meant)
               /\ read = SubSeq(Answered, 1, Len(read))
               /\ read = Answered \/ session = "closed"
    <3> DEFINE w == Serialized(answer)
    <3>1. LineTyped /\ line # NoLine /\ Shown /\ answer \in Answers(meant)
      BY <1>1, <2>2 DEF SessionInv, Shown, HasAnswered
    <3>2. PICK n \in 0 .. Len(w) : read = KeptUpTo(w)[n] /\ (n = Len(w) \/ session = "closed")
      BY <3>1 DEF Shown
    <3>3. w \in Text
      BY <3>1, AnswerIsLine
    <3>4. Answered = Kept(w)
      BY DEF Answered
    <3> HIDE DEF w
    <3>5. read = SubSeq(Kept(w), 1, Len(read))
      BY <3>2, <3>3, KeptStarts
    <3>6. n = Len(w) => read = Kept(w)
      BY <3>2 DEF Kept
    <3> QED BY <3>1, <3>2, <3>4, <3>5, <3>6
  <2> QED BY <2>1, <2>2 DEF ResponsesPaired
<1> QED BY <1>1, SessionHolds, PTL

\* The client quits only when the server has ended the session, and never asks for
\* another line when it has.
THEOREM TheyQuitTogether == Spec => []QuitTogether
<1>1. SessionInv => QuitTogether
  BY DEF SessionInv, Idle, QuitTogether
<1> QED BY <1>1, SessionHolds, PTL

\* parse_request reads the documented form of whatever it has read in any form, for
\* every line; and GET and DEL name by it the key, but for the whitespace at its end.
THEOREM KeysAreNamed == Spec => []KeysCanBeNamed
<1>1. ASSUME SessionInv PROVE KeysCanBeNamed
  <2> SUFFICES ASSUME line # NoLine, meant.type # "invalid"
               PROVE  /\ Parsed(Written(meant)) = meant
                      /\ meant # Quit => \A type \in {"get", "del"} :
                           Parsed(Written([type |-> type, key |-> meant.key]))
                             = [type |-> type, key |-> TrimRight(meant.key)]
    BY DEF KeysCanBeNamed
  <2>1. line \in Lines /\ meant = Parsed(line)
    BY <1>1 DEF SessionInv, LineTyped
  <2>2. line \in Text
    BY <2>1, LinesAreTexts DEF Plain
  <2>3. meant = Quit \/ UnderstoodKey(meant) \/ UnderstoodSet(meant)
    BY <2>1, <2>2, ParsedShape
  <2>4. CASE meant = Quit
    BY <2>4, QuitReadBack
  <2>5. CASE UnderstoodKey(meant)
    <3>1. PICK type \in {"get", "del"} : \E key : /\ IsKey(key) /\ Tight(key)
                                                   /\ meant = [type |-> type, key |-> key]
      BY <2>5 DEF UnderstoodKey
    <3>2. PICK key : IsKey(key) /\ Tight(key) /\ meant = [type |-> type, key |-> key]
      BY <3>1
    <3>3. TrimRight(key) = key
      BY <3>2, TrimRightKeeps DEF IsKey, Tight
    <3> QED BY <3>2, <3>3, KeyReadBack
  <2>6. CASE UnderstoodSet(meant)
    <3>1. PICK key, value : /\ IsKey(key) /\ value \in Text /\ Tight(value)
                            /\ meant = [type |-> "set", key |-> key, value |-> value]
      BY <2>6 DEF UnderstoodSet
    <3>2. Parsed(Written(meant)) = meant
      BY <3>1, SetReadBack
    <3>3. meant.key = key
      BY <3>1
    <3> QED BY <3>1, <3>2, <3>3, KeyReadBack
  <2> QED BY <2>3, <2>4, <2>5, <2>6
<1> QED BY <1>1, SessionHolds, PTL
=============================================================================
